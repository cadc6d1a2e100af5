CONSTANTS
    Markets = {m1, m2}
    Accounts = {a1, a2}
    None = None
    MaxDrops = 2
    MaxSwitches = 3
    MaxMessages = 1
SPECIFICATION Spec
INVARIANTS
    SubscribedToCurrent
PROPERTIES
    FeedRecovers
CHECK_DEADLOCK FALSE
