\* Transfers between the commands of a two-level rule.
SPECIFICATION HandoverSpec
CONSTANTS
    ann = ann
    bob = bob
    NoPerson = NoPerson
    Persons <- MCPersons
    Leavers <- MCPersons
    Snapshots <- MCSnapshots
    Nodes <- MCNodes
    TwoLevels <- LeadFirst
    MaxVersion = 5
    MaxRound = 1
    MaxCalls = 1
    MaxRows = 2
    Keys = {k1, k2}
SYMMETRY MCSymmetry
INVARIANTS
    HandoverTypeOK
    PrecheckStillHolds
PROPERTIES
    FrozenGetsNothing
    ReceiptStands
\* The bounds end every behaviour.
CHECK_DEADLOCK FALSE
