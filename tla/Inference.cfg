SPECIFICATION Spec
CONSTANTS
    loc = loc
    r1 = r1
    r2 = r2
    cld = cld
    None = None
    Providers = {loc, cld}
    Local = {loc}
    MaxAttempts <- TwoThenOne
    Repairs = {loc}
    StreamLimit = 1
    Requests = {r1, r2}
    Jobs <- Pair
INVARIANTS
    TypeOK
    
    DeliveredCountsEachAttempt
    HeartbeatCoversLedgerWork
    LocalLeaseCoversUse
    SendsStayWithinPolicy
    AttemptsBounded
    BlameFollowsUpstream
    
CHECK_DEADLOCK FALSE
