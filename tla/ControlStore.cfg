\* One instance beside the backup and restore commands, one owner, one team,
\* three key ids, an older and a current document to start from.
SPECIFICATION Spec
CONSTANTS
    u1 = u1
    t1 = t1
    Instances = {i1}
    Users = {u1}
    Teams = {t1}
    MaxKeys = 3
    MaxRev = 4
    MaxTime = 1
    MaxActive = 2
    Creates <- MCCreates
    Changes <- MCChanges
    Stored <- MCStored
    None = None
    Keep = Keep
INVARIANTS
    TypeOK
    RevisionIdentifiesState
    OneLiveKeyPerLineage
    QuotaFollowsRotation
    PendingIsUnique
PROPERTIES
    HandoverKeepsPolicy
    AdminLimitTakesEffect
CHECK_DEADLOCK FALSE
