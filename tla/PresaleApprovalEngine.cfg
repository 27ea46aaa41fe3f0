\* Decisions applied by the callback of the approval engine.
SPECIFICATION FairApprovalSpec
CONSTANTS
    sales = sales
    director = director
    boss = boss
    NoPerson = NoPerson
    Users <- MCUsers
    Persons = {}
    Nodes <- MCNodes
    TwoLevels <- LeadFirst
    Applicant = sales
    Admins <- MCAdmins
    Cancellers <- MCAdmins
    CanDecide <- MCCanDecide
    EngineModes <- MCBothModes
    MaxVersion = 5
    MaxRound = 2
    MaxTask = 2
    MaxTries = 2
INVARIANTS
    ApprovalTypeOK
    RoundFullyApproved
    OneDecisionPerNode
    DecidedAsRequested
PROPERTIES
    DecisionResolves
\* The bounds end every behaviour.
CHECK_DEADLOCK FALSE
