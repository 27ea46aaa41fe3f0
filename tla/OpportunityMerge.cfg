\* Violated: a merge moves an opportunity signed while it waited.
SPECIFICATION OpportunitySpec
CONSTANTS
    k1 = k1
    acme = acme
    zeta = zeta
    Contracts = {k1}
    NoRef = NoRef
    Customers = {acme, zeta}
    Survivor = zeta
    BelongsTo <- MCBelongsTo
    Amounts = {1, 2}
    Targets <- MCTargets
    Sources = {"q", "b"}
    Reports <- MCReports
    NoLink = NoLink
    MaxVersion = 4
    MaxTime = 2
    MaxSync = 1
    MaxCalls = 2
PROPERTIES
    ContractsAreNotMerged
\* The bounds end every behaviour.
CHECK_DEADLOCK FALSE
