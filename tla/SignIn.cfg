\* Two addresses and two links, two concurrent requests.
CONSTANTS
    w1 = w1
    w2 = w2
    Workers = {w1, w2}
    Emails = {"e1", "e2"}
    None = None
    MaxSends = 2
    MaxTokens = 2
    MaxCodes = 1
    MaxRequests = 5
SPECIFICATION AllSpec
INVARIANTS
    LimitsHold
    FactorHolds
    MailHolds
    
PROPERTIES
    LinksAreOneTime
SYMMETRY Symmetry
CHECK_DEADLOCK FALSE
