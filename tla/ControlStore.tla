---------------------------- MODULE ControlStore ----------------------------
(***************************************************************************)
(* The control document: API keys, their rotation lineage, teams, and the  *)
(* optimistic persistence every control mutation goes through.             *)
(*                                                                         *)
(* Every gateway instance keeps the whole document in memory under one     *)
(* lock and writes it back to one PostgreSQL row guarded by a revision     *)
(* (control.rs, storage.rs).  A mutation builds the new document, rebuilds *)
(* the hash index and compares-and-swaps; any error restores the previous  *)
(* document.  The error may hide a write that did commit.  A second        *)
(* instance, a restart with its load-time repair, and the restore command  *)
(* of the CLI write the same row.                                          *)
(*                                                                         *)
(* Key ids are minted in increasing order, which is also the order of      *)
(* created_at_ms.  A pseudonymous quota subject is identified with the key *)
(* id or the user it is derived from.  The five spend limits are treated   *)
(* alike by the code and stand as one, 0 meaning unlimited; the team       *)
(* stands for the policy fields a key carries.                             *)
(***************************************************************************)
EXTENDS Integers, FiniteSets, TLC
LOCAL INSTANCE FiniteSetsExt
LOCAL INSTANCE Functions

CONSTANTS
    Instances,   \* gateway processes sharing the database
    Users,       \* key owners
    Teams,
    MaxKeys,     \* bound: key ids minted
    MaxRev,      \* bound: revisions of the document
    MaxTime,     \* bound: the clock
    MaxActive,   \* MAX_SELF_SERVICE_ACTIVE_KEYS
    Creates,     \* the create_api_key bodies considered: kind, team, expires
    Changes,     \* the update_api_key bodies considered
    Stored,      \* documents written by earlier releases
    None,
    Keep         \* an update_api_key field left out of the body

VARIABLES
    doc,      \* the modelport_state row: its revision and its document
    mem,      \* per instance: the ControlStore
    minted,   \* key ids handed out so far
    now,      \* the clock
    backup,   \* the document in the backup file, or None
    restore   \* the revision a running restore command has read, or None

vars == <<doc, mem, minted, now, backup, restore>>

KeyIds == 1..MaxKeys
Never == MaxTime + 1
Outcomes == {"ok", "failed", "lost"}

ApiKeyRecord ==
    [owner : Users, kind : {"user", "service_account"}, team : Teams \cup {None},
     expires : 1..Never, limit : 0..2,
     status : {"active", "revoked", "pending_rotation", "deleted"}, hash : BOOLEAN,
     from : KeyIds \cup {None}, by : KeyIds \cup {None},
     subject : KeyIds \cup Users \cup {None}, aliases : SUBSET (KeyIds \cup Users)]

TeamStates == [Teams -> {"absent", "active", "disabled"}]

IsControlFile(s) ==
    /\ DOMAIN s.keys \subseteq KeyIds
    /\ \A k \in DOMAIN s.keys : s.keys[k] \in ApiKeyRecord
    /\ s.teams \in TeamStates

EmptyFile == [keys |-> <<>>, teams |-> [t \in Teams |-> "absent"]]

Down == [phase |-> "down", rev |-> 0, state |-> EmptyFile, index |-> {}, degraded |-> FALSE]

-----------------------------------------------------------------------------
(* Helpers on the key map. *)

rebuild_api_key_hash_index(s) == {k \in DOMAIN s.keys : s.keys[k].hash}

PendingOf(keys, p) ==
    {k \in DOMAIN keys : keys[k].status = "pending_rotation" /\ keys[k].from = p}

WithoutPending(keys, p) == Restrict(keys, DOMAIN keys \ PendingOf(keys, p))

TeamUsable(s, t) == t \in Teams => s.teams[t] = "active"

api_key_is_usable_for_catalog(s, k) ==
    /\ s.keys[k].status = "active"
    /\ s.keys[k].expires > now
    /\ TeamUsable(s, s.keys[k].team)

stricter_positive_limit(limits) ==
    LET positive == limits \ {0} IN IF positive = {} THEN 0 ELSE Min(positive)

SameSubject(keys, k) == {c \in DOMAIN keys : keys[c].subject = keys[k].subject}

api_key_policy_with_subject(keys, k) ==
    stricter_positive_limit({keys[c].limit : c \in SameSubject(keys, k)})

(* The ids met walking rotation_from_key_id upwards from k. *)
Chain(keys, k) ==
    LET up[n \in 0..Cardinality(DOMAIN keys)] ==
            IF n = 0 THEN {k}
            ELSE up[n - 1] \cup {keys[x].from : x \in up[n - 1] \cap DOMAIN keys}
    IN  up[Cardinality(DOMAIN keys)] \ {None}

LineageRoot(keys, k) ==
    CHOOSE r \in Chain(keys, k) \cap DOMAIN keys : keys[r].from \notin DOMAIN keys

-----------------------------------------------------------------------------
(* Persistence. *)

(* The row after an attempt to replace the document read at revision rev.    *)
(* "failed" is an error before the statement took effect, "lost" an error    *)
(* after it did; a stale revision is refused whatever the connection does.   *)
compare_and_swap(rev, s, o) ==
    IF doc.rev = rev /\ o # "failed" THEN [rev |-> doc.rev + 1, state |-> s] ELSE doc

Swapped(rev, o) == doc.rev = rev /\ o = "ok"

(* Mutant: a failed write leaves the new document in memory. *)
save_without_restore(i, s, o) ==
    /\ doc.rev < MaxRev
    /\ doc' = compare_and_swap(mem[i].rev, s, o)
    /\ mem' = [mem EXCEPT ![i] =
           [@ EXCEPT !.rev = IF Swapped(@, o) THEN doc.rev + 1 ELSE @, !.state = s,
                     !.index = rebuild_api_key_hash_index(s),
                     !.degraded = ~Swapped(mem[i].rev, o)]]

(* Mutant: the hash index is not rebuilt before the write. *)
save_without_index(i, s, o) ==
    /\ doc.rev < MaxRev
    /\ doc' = compare_and_swap(mem[i].rev, s, o)
    /\ mem' = [mem EXCEPT ![i] =
           IF Swapped(mem[i].rev, o)
             THEN [@ EXCEPT !.rev = doc.rev + 1, !.state = s, !.degraded = FALSE]
             ELSE [@ EXCEPT !.degraded = TRUE]]

(* Rebuild the index, write, and on any error put the previous document back. *)
save_or_restore_locked(i, s, o) ==
    /\ doc.rev < MaxRev
    /\ doc' = compare_and_swap(mem[i].rev, s, o)
    /\ mem' = [mem EXCEPT ![i] =
           IF Swapped(mem[i].rev, o)
             THEN [@ EXCEPT !.rev = doc.rev + 1, !.state = s,
                            !.index = rebuild_api_key_hash_index(s), !.degraded = FALSE]
             ELSE [@ EXCEPT !.degraded = TRUE]]

Up(i) == mem[i].phase = "up"
Keys(i) == mem[i].state.keys

(* A mutation of the key map by instance i. *)
SaveKeys(i, keys, o) ==
    /\ save_or_restore_locked(i, [mem[i].state EXCEPT !.keys = keys], o)
    /\ UNCHANGED <<now, backup, restore>>

(* A mutation that also mints the next key id. *)
Mint(i, keys, o) == SaveKeys(i, keys, o) /\ minted' = minted + 1

NextKey == minted + 1

-----------------------------------------------------------------------------
(* API keys. *)

NewKey(k, u, kind, t, x) ==
    [owner |-> u, kind |-> kind, team |-> t, expires |-> x, limit |-> 0,
     status |-> "active", hash |-> TRUE, from |-> None, by |-> None,
     subject |-> k, aliases |-> {k}]

(* An administrator's create. *)
create_api_key(i, u, kind, t, x, o) ==
    /\ Up(i) /\ minted < MaxKeys
    /\ x > now
    /\ kind = "service_account" => x # Never
    /\ t \in Teams => mem[i].state.teams[t] # "absent"
    /\ Mint(i, (NextKey :> NewKey(NextKey, u, kind, t, x)) @@ Keys(i), o)

(* A user's own create: bounded, and it moves every user key of the owner onto *)
(* one quota subject, the oldest one there is.                                 *)
create_api_key_with_active_limit(i, u, x, o) ==
    LET keys == Keys(i)
        peers == {k \in DOMAIN keys : keys[k].owner = u /\ keys[k].kind = "user"}
        subject == IF peers = {} THEN u ELSE keys[Min(peers)].subject
        aliases == {NextKey, subject} \cup peers \cup UNION {keys[p].aliases : p \in peers}
        limit == stricter_positive_limit({keys[p].limit : p \in peers})
        Shared(r) == [r EXCEPT !.subject = subject, !.aliases = aliases, !.limit = limit]
    IN  /\ Up(i) /\ minted < MaxKeys
        /\ now < x /\ x # Never
        /\ Cardinality({k \in DOMAIN keys : /\ keys[k].owner = u
                                            /\ api_key_is_usable_for_catalog(mem[i].state, k)})
             < MaxActive
        /\ Mint(i, [k \in DOMAIN keys \cup {NextKey} |->
                      IF k = NextKey THEN Shared(NewKey(k, u, "user", None, x))
                      ELSE IF k \in peers THEN Shared(keys[k]) ELSE keys[k]], o)

(* Mutant: a repeated prepare leaves the earlier pending record in place. *)
rotate_keeping_pending(i, p, o) ==
    LET keys == Keys(i)
    IN  /\ Up(i) /\ minted < MaxKeys
        /\ p \in DOMAIN keys
        /\ keys[p].status = "active" /\ keys[p].expires > now
        /\ Mint(i, (NextKey :> [keys[p] EXCEPT !.status = "pending_rotation", !.from = p,
                                               !.by = None, !.aliases = @ \cup {NextKey}])
                     @@ keys, o)

(* Prepare a replacement; it replaces an earlier unpublished one. *)
rotate_api_key(i, p, o) ==
    LET keys == Keys(i)
    IN  /\ Up(i) /\ minted < MaxKeys
        /\ p \in DOMAIN keys
        /\ keys[p].status = "active" /\ keys[p].expires > now
        /\ Mint(i, (NextKey :> [keys[p] EXCEPT !.status = "pending_rotation", !.from = p,
                                               !.by = None, !.aliases = @ \cup {NextKey}])
                     @@ WithoutPending(keys, p), o)

(* Mutant: the source is marked superseded but not revoked. *)
SupersededOnly(r, c) == [r EXCEPT !.by = c]

Superseded(r, c) == [r EXCEPT !.status = "revoked", !.by = c, !.hash = FALSE]

(* Mutant: the handover keeps the policy the prepared record was made with. *)
HandedOverAsPrepared(keys, p, c) ==
    [keys[c] EXCEPT !.status = "active", !.aliases = keys[p].aliases \cup {c}]

(* The replacement takes every field but its secret from the source. *)
HandedOver(keys, p, c) ==
    [keys[p] EXCEPT !.hash = keys[c].hash, !.status = "active", !.from = p, !.by = None,
                    !.aliases = keys[p].aliases \cup {c}]

(* The handover. *)
confirm_api_key_rotation(i, p, c, o) ==
    LET keys == Keys(i)
    IN  /\ Up(i)
        /\ p \in DOMAIN keys /\ c \in DOMAIN keys
        /\ keys[p].status = "active" /\ keys[p].expires > now
        /\ keys[c].status = "pending_rotation" /\ keys[c].from = p
        /\ SaveKeys(i, [keys EXCEPT ![p] = Superseded(@, c), ![c] = HandedOver(keys, p, c)], o)
        /\ UNCHANGED minted

(* A repeated confirm of a handover that is already in the document. *)
confirm_again(i, p, c, o) ==
    LET keys == Keys(i)
    IN  /\ Up(i)
        /\ p \in DOMAIN keys /\ c \in DOMAIN keys
        /\ keys[c].status = "active" /\ keys[c].from = p
        /\ SaveKeys(i, [keys EXCEPT ![p] = Superseded(@, c),
                                    ![c].subject = keys[p].subject,
                                    ![c].aliases = keys[p].aliases \cup {c}], o)
        /\ UNCHANGED minted

cancel_api_key_rotation(i, p, c, o) ==
    /\ Up(i)
    /\ c \in PendingOf(Keys(i), p)
    /\ SaveKeys(i, Restrict(Keys(i), DOMAIN Keys(i) \ {c}), o)
    /\ UNCHANGED minted

(* The record an update_api_key body makes of r. *)
Updated(r, c) ==
    [r EXCEPT !.team = IF c.team = Keep THEN @ ELSE c.team,
              !.expires = IF c.expires = Keep THEN @ ELSE c.expires,
              !.status = IF c.status = Keep THEN @ ELSE c.status,
              !.limit = IF c.limit = Keep THEN @ ELSE c.limit]

(* Mutant: a spend limit is written to the named key only. *)
WithLimitOfOne(keys, k, c) == keys

(* An explicit spend limit is written to every key of the quota subject. *)
WithSubjectLimit(keys, k, c) ==
    IF c.limit = Keep THEN keys
    ELSE [x \in DOMAIN keys |->
            IF x \in SameSubject(keys, k) THEN [keys[x] EXCEPT !.limit = c.limit] ELSE keys[x]]

Mutable(keys, k) ==
    /\ k \in DOMAIN keys
    /\ keys[k].status \notin {"pending_rotation", "deleted"}
    /\ keys[k].by = None

update_api_key(i, k, c, o) ==
    LET keys == Keys(i)
        updated == Updated(keys[k], c)
        written == WithSubjectLimit([keys EXCEPT ![k] = updated], k, c)
    IN  /\ Up(i)
        /\ Mutable(keys, k)
        /\ c.team \in Teams => mem[i].state.teams[c.team] # "absent"
        /\ ~(updated.status = "active" /\ updated.expires <= now)
        /\ SaveKeys(i, IF updated.status = "revoked" THEN WithoutPending(written, k) ELSE written, o)
        /\ UNCHANGED minted

revoke_api_key(i, k, o) ==
    LET keys == Keys(i)
    IN  /\ Up(i)
        /\ k \in DOMAIN keys /\ keys[k].status \notin {"pending_rotation", "deleted"}
        /\ SaveKeys(i, WithoutPending([keys EXCEPT ![k].status = "revoked"], k), o)
        /\ UNCHANGED minted

delete_api_key(i, k, o) ==
    LET keys == Keys(i)
    IN  /\ Up(i)
        /\ k \in DOMAIN keys /\ keys[k].status \notin {"pending_rotation", "deleted"}
        /\ SaveKeys(i, WithoutPending([keys EXCEPT ![k].status = "deleted", ![k].hash = FALSE], k), o)
        /\ UNCHANGED minted

(* The control half of disabling or deleting a user. *)
delete_user_resources(i, u, o) ==
    LET keys == Keys(i)
        kept == {k \in DOMAIN keys : ~(keys[k].owner = u /\ keys[k].status = "pending_rotation")}
    IN  /\ Up(i)
        /\ SaveKeys(i, [k \in kept |-> IF keys[k].owner = u /\ keys[k].status # "deleted"
                                         THEN [keys[k] EXCEPT !.status = "revoked"] ELSE keys[k]], o)
        /\ UNCHANGED minted

(* Authentication with an active key past its expiry revokes it.  Any other  *)
(* authentication changes nothing but last_used_at_ms.                       *)
authenticate_headers(i, k, o) ==
    LET keys == Keys(i)
    IN  /\ Up(i)
        /\ k \in mem[i].index
        /\ keys[k].status = "active" /\ keys[k].expires <= now
        /\ SaveKeys(i, [keys EXCEPT ![k].status = "revoked"], o)
        /\ UNCHANGED minted

(* Whether a request that presents the secret of key k is let in. *)
Authenticates(i, k) ==
    /\ k \in mem[i].index
    /\ api_key_is_usable_for_catalog(mem[i].state, k)

-----------------------------------------------------------------------------
(* Teams. *)

upsert_team(i, t, status, o) ==
    /\ Up(i)
    /\ save_or_restore_locked(i, [mem[i].state EXCEPT !.teams[t] = status], o)
    /\ UNCHANGED <<minted, now, backup, restore>>

delete_team(i, t, o) ==
    /\ Up(i)
    /\ mem[i].state.teams[t] # "absent"
    /\ \A k \in DOMAIN Keys(i) : Keys(i)[k].team = t => Keys(i)[k].status = "deleted"
    /\ save_or_restore_locked(i, [mem[i].state EXCEPT !.teams[t] = "absent"], o)
    /\ UNCHANGED <<minted, now, backup, restore>>

-----------------------------------------------------------------------------
(* Load, readiness, crash, restore. *)

(* Mutant: lineage is not rebuilt for records without a quota subject. *)
WithOwnSubject(keys, k) ==
    IF keys[k].subject = None
      THEN [keys[k] EXCEPT !.subject = k, !.aliases = @ \cup {k}]
      ELSE [keys[k] EXCEPT !.aliases = @ \cup {k, keys[k].subject}]

(* The first loop of the repair: a quota subject for records without one. *)
WithLineage(keys, k) ==
    IF keys[k].subject = None
      THEN [keys[k] EXCEPT !.subject = LineageRoot(keys, k), !.aliases = @ \cup Chain(keys, k)]
      ELSE [keys[k] EXCEPT !.aliases = @ \cup {k, keys[k].subject}]

ConfirmedChildren(keys, p) ==
    {c \in DOMAIN keys : keys[c].status # "pending_rotation" /\ keys[c].from = p}

(* The confirmed replacement that wins over k: its own, or a later sibling. *)
Winner(keys, k) ==
    LET own == ConfirmedChildren(keys, k)
        siblings == IF keys[k].from = None THEN {} ELSE ConfirmedChildren(keys, keys[k].from)
    IN  IF own # {} THEN Max(own)
        ELSE IF siblings # {} /\ Max(siblings) # k THEN Max(siblings)
        ELSE None

(* The trailing removal of pending siblings finds none: they have a winner   *)
(* and the loop before it has already marked them revoked.                   *)
repair_api_key_rotation_invariants(keys) ==
    LET lined == [k \in DOMAIN keys |-> WithLineage(keys, k)]
        marked == [k \in DOMAIN keys |->
                     IF Winner(keys, k) = None THEN lined[k]
                     ELSE Superseded(lined[k], Winner(keys, k))]
        ghosts == {k \in DOMAIN keys : /\ marked[k].status = "pending_rotation"
                                       /\ marked[k].from # None
                                       /\ ConfirmedChildren(keys, marked[k].from) # {}}
    IN  Restrict(marked, DOMAIN keys \ ghosts)

(* ControlStore::load reads the row ... *)
LoadRead(i) ==
    /\ mem[i].phase = "down"
    /\ mem' = [mem EXCEPT ![i] = [phase |-> "loading", rev |-> doc.rev, state |-> doc.state,
                                  index |-> {}, degraded |-> FALSE]]
    /\ UNCHANGED <<doc, minted, now, backup, restore>>

Repaired(i) ==
    [mem[i].state EXCEPT !.keys = repair_api_key_rotation_invariants(@)]

Loaded(i, s, rev) ==
    [phase |-> "up", rev |-> rev, state |-> s, index |-> rebuild_api_key_hash_index(s),
     degraded |-> FALSE]

(* ... and is up with it when there is nothing to repair, ... *)
LoadClean(i) ==
    /\ mem[i].phase = "loading"
    /\ mem[i].rev # 0 /\ Repaired(i) = mem[i].state
    /\ mem' = [mem EXCEPT ![i] = Loaded(i, @.state, @.rev)]
    /\ UNCHANGED <<doc, minted, now, backup, restore>>

(* ... or writes the repaired document first; an error ends the process. *)
LoadRepair(i, o) ==
    /\ mem[i].phase = "loading" /\ doc.rev < MaxRev
    /\ ~(mem[i].rev # 0 /\ Repaired(i) = mem[i].state)
    /\ doc' = compare_and_swap(mem[i].rev, Repaired(i), o)
    /\ mem' = [mem EXCEPT ![i] = IF Swapped(mem[i].rev, o)
                                   THEN Loaded(i, Repaired(i), doc.rev + 1) ELSE Down]
    /\ UNCHANGED <<minted, now, backup, restore>>

Crash(i) ==
    /\ mem[i].phase # "down"
    /\ mem' = [mem EXCEPT ![i] = Down]
    /\ UNCHANGED <<doc, minted, now, backup, restore>>

(* A readiness probe that finds a newer row marks the instance degraded. *)
health_check(i) ==
    /\ Up(i) /\ ~mem[i].degraded
    /\ doc.rev # mem[i].rev
    /\ mem' = [mem EXCEPT ![i].degraded = TRUE]
    /\ UNCHANGED <<doc, minted, now, backup, restore>>

(* The backup command exports the row; the file is kept for one restore. *)
export_backup ==
    /\ backup = None /\ doc.rev # 0
    /\ backup' = doc.state
    /\ UNCHANGED <<doc, mem, minted, now, restore>>

(* The restore command reads the revision, then swaps the backup in. *)
RestoreRead ==
    /\ backup # None /\ restore = None
    /\ restore' = doc.rev
    /\ UNCHANGED <<doc, mem, minted, now, backup>>

RestoreWrite(o) ==
    /\ restore # None /\ doc.rev < MaxRev
    /\ doc' = compare_and_swap(restore, backup, o)
    /\ restore' = None
    /\ UNCHANGED <<mem, minted, now, backup>>

Tick ==
    /\ now < MaxTime
    /\ now' = now + 1
    /\ UNCHANGED <<doc, mem, minted, backup, restore>>

-----------------------------------------------------------------------------
Init ==
    /\ \/ doc = [rev |-> 0, state |-> EmptyFile] /\ minted = 0
       \/ \E s \in Stored : doc = [rev |-> 1, state |-> s] /\ minted = Max(DOMAIN s.keys)
    /\ mem = [i \in Instances |-> Down]
    /\ now = 0
    /\ backup = None
    /\ restore = None

KeyNext(i, o) ==
    \/ \E u \in Users, c \in Creates : create_api_key(i, u, c.kind, c.team, c.expires, o)
    \/ \E u \in Users, x \in 1..MaxTime : create_api_key_with_active_limit(i, u, x, o)
    \/ \E p \in DOMAIN Keys(i) : rotate_api_key(i, p, o)
    \/ \E p, c \in DOMAIN Keys(i) : \/ confirm_api_key_rotation(i, p, c, o)
                                    \/ confirm_again(i, p, c, o)
                                    \/ cancel_api_key_rotation(i, p, c, o)
    \/ \E k \in DOMAIN Keys(i) : \/ \E c \in Changes : update_api_key(i, k, c, o)
                                 \/ revoke_api_key(i, k, o)
                                 \/ delete_api_key(i, k, o)
                                 \/ authenticate_headers(i, k, o)
    \/ \E u \in Users : delete_user_resources(i, u, o)

TeamNext(i, o) ==
    \E t \in Teams : \/ \E status \in {"active", "disabled"} : upsert_team(i, t, status, o)
                     \/ delete_team(i, t, o)

Next ==
    \/ \E i \in Instances, o \in Outcomes : KeyNext(i, o) \/ TeamNext(i, o) \/ LoadRepair(i, o)
    \/ \E i \in Instances : LoadRead(i) \/ LoadClean(i) \/ Crash(i) \/ health_check(i)
    \/ export_backup \/ RestoreRead
    \/ \E o \in Outcomes : RestoreWrite(o)
    \/ Tick

Spec == Init /\ [][Next]_vars

-----------------------------------------------------------------------------
(* Types of the row, of every instance's copy and of the counters. *)
TypeOK ==
    /\ doc.rev \in 0..MaxRev /\ IsControlFile(doc.state)
    /\ \A i \in Instances :
         /\ mem[i].phase \in {"down", "loading", "up"} /\ mem[i].degraded \in BOOLEAN
         /\ mem[i].rev \in 0..MaxRev /\ IsControlFile(mem[i].state)
         /\ mem[i].index \subseteq DOMAIN mem[i].state.keys
    /\ minted \in 0..MaxKeys
    /\ now \in 0..MaxTime
    /\ backup # None => IsControlFile(backup)
    /\ restore \in {None} \cup 0..MaxRev

(* A revision names one document: an instance whose revision is the row's    *)
(* holds exactly the row's document, whatever writes failed, were lost after *)
(* the commit, raced another instance or a restore.  This is what makes the  *)
(* compare-and-swap of save_or_restore_locked and the revision test of       *)
(* health_check meaningful.                                                  *)
RevisionIdentifiesState ==
    \A i \in Instances : mem[i].phase # "down" =>
        /\ mem[i].rev <= doc.rev
        /\ mem[i].rev = doc.rev => mem[i].state = doc.state

(* Of the keys of one rotation lineage an instance lets at most one in:      *)
(* prepare, handover, repeated confirm, restore by an administrator, expiry  *)
(* and the repair at load never leave two working secrets.                   *)
OneLiveKeyPerLineage ==
    \A i \in Instances : Up(i) =>
        \A a, b \in DOMAIN Keys(i) :
            /\ a # b
            /\ LineageRoot(Keys(i), a) = LineageRoot(Keys(i), b)
            => ~(Authenticates(i, a) /\ Authenticates(i, b))

(* A replacement is charged to the quota subject of the key it replaces and  *)
(* carries every ancestor as an alias, so no rotation, self-service create,  *)
(* repeated confirm or repair starts a fresh allowance.                      *)
QuotaFollowsRotation ==
    \A i \in Instances : Up(i) =>
        \A k \in DOMAIN Keys(i) :
            /\ Keys(i)[k].subject = Keys(i)[LineageRoot(Keys(i), k)].subject
            /\ Chain(Keys(i), k) \subseteq Keys(i)[k].aliases

(* A source key has at most one unpublished replacement, and none once it is *)
(* deleted or superseded: a repeated prepare, a revocation, a deletion and   *)
(* the handover leave no second pending record behind.                       *)
PendingIsUnique ==
    \A i \in Instances : Up(i) =>
        \A p \in DOMAIN Keys(i) :
            /\ Cardinality(PendingOf(Keys(i), p)) <= 1
            /\ (Keys(i)[p].by # None \/ Keys(i)[p].status = "deleted")
                 => PendingOf(Keys(i), p) = {}

(* The handover carries the source's current policy: what an administrator   *)
(* tightened between prepare and confirm is not rolled back.                 *)
HandoverKeepsPolicy ==
    [][\A i \in Instances : Up(i) /\ Up(i)' =>
         \A c \in DOMAIN Keys(i) \cap DOMAIN Keys(i)' :
            Keys(i)[c].status = "pending_rotation" /\ Keys(i)'[c].status = "active" =>
              LET p == Keys(i)[Keys(i)[c].from]
              IN  /\ Keys(i)'[c].team = p.team
                  /\ Keys(i)'[c].expires = p.expires
                  /\ Keys(i)'[c].limit = p.limit]_vars

(* A spend limit an administrator sets is the one enforced: no stricter      *)
(* value left on another key of the same quota subject overrides it.         *)
AdminLimitTakesEffect ==
    [][\A i \in Instances, c \in Changes : c.limit # Keep =>
         \A k \in DOMAIN Keys(i) :
            update_api_key(i, k, c, "ok") /\ mem'[i].rev # mem[i].rev
              => api_key_policy_with_subject(Keys(i)', k) = c.limit]_vars

(* docs/ARCHITECTURE.md: "A team cannot be deleted while any API key         *)
(* references it."  Active or revoked, a key's team exists.                  *)
TeamReferencesHold ==
    \A i \in Instances : Up(i) =>
        \A k \in DOMAIN Keys(i) :
            Keys(i)[k].status # "deleted" /\ Keys(i)[k].team # None
              => mem[i].state.teams[Keys(i)[k].team] # "absent"
=============================================================================
