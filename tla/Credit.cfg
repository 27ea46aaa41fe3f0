\* Payments, reversals and applications, with and without a settings row.
SPECIFICATION CreditSpec
CONSTANTS
    p1 = p1
    p2 = p2
    p3 = p3
    acme = acme
    Customers = {acme}
    Payments <- MCPayments
    NoPayment = NoPayment
    MaxDay = 2
    MaxDelay = 1
    DefaultRules <- MCDefaultRules
    RuleChoices <- MCRuleChoices
    NoSettings = NoSettings
    Keys = {k1, k2}
    Workers = {w1, w2}
    Idle = Idle
    MaxRows = 3
SYMMETRY MCSymmetry
INVARIANTS
    CreditTypeOK
    OncePerPayment
    LevelFollowsLog
    ApplicationsAgree
PROPERTIES
    DatesKept
