\* The team lead selects the executors.  A second round finds the lead and
\* the rows of the first; a lead who is invalid does not hold up the request.
SPECIFICATION FairExecutionSpec
CONSTANTS
    ann = ann
    bob = bob
    NoPerson = NoPerson
    Persons <- MCPersons
    Leavers <- MCLeavers
    Snapshots <- MCSnapshots
    Nodes <- MCNodes
    TwoLevels <- BothLevels
    MaxVersion = 6
    MaxRound = 2
    MaxCalls = 2
    MaxRows = 1
INVARIANTS
    ExecutionTypeOK
    LeadProjection
    StatusFitsAssignments
    EvidenceMatchesRows
    StatusLogComplete
PROPERTIES
    ClosedIsLeftAlone
    InactiveLeadReleased
\* The bounds end every behaviour.
CHECK_DEADLOCK FALSE
