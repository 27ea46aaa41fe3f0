\* One worker, one event that is put back by hand.
SPECIFICATION FairTransferSpec
CONSTANTS
    Events = {1}
    Workers = {w1}
    w1 = w1
    w2 = w2
    Tokens <- MCTokens
    NoToken = NoToken
    NoEvent = NoEvent
    Nobody = Nobody
    MaxRetries = 1
    MaxFaults = 0
PROPERTIES
    RetriedSettles
CHECK_DEADLOCK FALSE
