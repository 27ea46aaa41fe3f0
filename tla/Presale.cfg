\* Both halves together: the composition implements each half.
SPECIFICATION Spec
CONSTANTS
    director = director
    boss = boss
    ann = ann
    NoPerson = NoPerson
    Users <- MCUsers
    Persons <- MCPersons
    Leavers <- MCPersons
    Snapshots <- MCSnapshots
    Nodes <- MCNodes
    TwoLevels <- OneLevel
    Applicant = boss
    Admins <- MCAdmins
    Cancellers <- MCAdmins
    CanDecide <- MCCanDecide
    EngineModes <- MCNoEngine
    MaxVersion = 9
    MaxRound = 2
    MaxTask = 0
    MaxTries = 1
    MaxCalls = 1
    MaxRows = 1
INVARIANTS
    ExecutedAsApproved
PROPERTIES
    ActsOnWhatWasSeen
    ApprovalSpec
    ExecutionSpec
\* The bounds end every behaviour.
CHECK_DEADLOCK FALSE
