--------------------------- MODULE MCControlStore ---------------------------
(***************************************************************************)
(* Instances of ControlStore for TLC.  One stored document is what an      *)
(* older release left: no quota subjects, no tombstones, two hops of       *)
(* rotation.  The other is a current one with a key in an active team.     *)
(***************************************************************************)
EXTENDS ControlStore

CONSTANTS u1, t1

Unchanged == [team |-> Keep, expires |-> Keep, status |-> Keep, limit |-> Keep]

(* A key of a person in the team, and a machine key that expires. *)
MCCreates ==
    {[kind |-> "user", team |-> t1, expires |-> Never],
     [kind |-> "service_account", team |-> None, expires |-> 1]}

(* An administrator takes a key out of its team, restores it for good, or    *)
(* sets its limit.                                                           *)
MCChanges ==
    {[Unchanged EXCEPT !.team = None],
     [Unchanged EXCEPT !.status = "active", !.expires = Never],
     [Unchanged EXCEPT !.limit = 2]}

Legacy(from, status, limit) ==
    [owner |-> u1, kind |-> "user", team |-> None, expires |-> Never, limit |-> limit,
     status |-> status, hash |-> TRUE, from |-> from, by |-> None,
     subject |-> None, aliases |-> {}]

Older ==
    [keys |-> <<Legacy(None, "revoked", 0), Legacy(1, "active", 1),
                Legacy(2, "pending_rotation", 0)>>,
     teams |-> [t \in Teams |-> "absent"]]

Current ==
    [keys |-> <<NewKey(1, u1, "user", t1, Never)>>,
     teams |-> [t \in Teams |-> "active"]]

MCStored == {Older, Current}

(* For the team reference: one key of a team is rotated, deleted, restarted. *)
TeamStored == {Current}
NoCreates == {}
LeaveTeam == {[Unchanged EXCEPT !.team = None]}
=============================================================================
