\* Two workers, two events, one retry.
SPECIFICATION FairTransferSpec
CONSTANTS
    Events = {1, 2}
    Workers = {w1, w2}
    w1 = w1
    w2 = w2
    Tokens <- MCTokens
    NoToken = NoToken
    NoEvent = NoEvent
    Nobody = Nobody
    MaxRetries = 1
    MaxFaults = 1
INVARIANTS
    TransferTypeOK
    OutcomeRecorded
PROPERTIES
    DeliveryKept
    EventsSettle
CHECK_DEADLOCK FALSE
