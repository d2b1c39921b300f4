\* A key of a team is rotated and deleted, its replacement leaves the team, the
\* team is deleted, the instance restarts.
SPECIFICATION Spec
CONSTANTS
    u1 = u1
    t1 = t1
    Instances = {i1}
    Users = {u1}
    Teams = {t1}
    MaxKeys = 2
    MaxRev = 7
    MaxTime = 0
    MaxActive = 2
    Creates <- NoCreates
    Changes <- LeaveTeam
    Stored <- TeamStored
    None = None
    Keep = Keep
INVARIANT TeamReferencesHold
CHECK_DEADLOCK FALSE
