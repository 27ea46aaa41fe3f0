\* Violated: a rejected transfer has ended two rows.
SPECIFICATION HandoverSpec
CONSTANTS
    ann = ann
    bob = bob
    NoPerson = NoPerson
    Persons <- MCPersons
    Leavers <- MCPersons
    Snapshots <- MCSnapshots
    Nodes <- MCNodes
    TwoLevels <- OneLevel
    MaxVersion = 5
    MaxRound = 1
    MaxCalls = 0
    MaxRows = 2
    Keys = {k1, k2}
PROPERTIES
    RejectedChangesNothing
\* The bounds end every behaviour.
CHECK_DEADLOCK FALSE
