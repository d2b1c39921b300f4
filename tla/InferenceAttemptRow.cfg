SPECIFICATION Spec
CONSTANTS
    loc = loc
    r1 = r1
    r2 = r2
    cld = cld
    None = None
    Providers = {loc, cld}
    Local = {loc}
    MaxAttempts <- TwoThenOne
    Repairs = {loc}
    StreamLimit = 1
    Requests = {r1}
    Jobs <- OneStream
INVARIANT AttemptRowIsItsOwn
CHECK_DEADLOCK FALSE
