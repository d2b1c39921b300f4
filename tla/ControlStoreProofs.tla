------------------------- MODULE ControlStoreProofs -------------------------
(***************************************************************************)
(* A revision of the control document names one document, for any number   *)
(* of instances, keys, users, teams and revisions.  The documents written  *)
(* play no part in the argument: what matters is that every write of the   *)
(* row raises its revision and that an instance takes a new revision only  *)
(* together with the document it wrote or read.                            *)
(***************************************************************************)
EXTENDS ControlStore, TLAPS

(* The row and every instance's copy are records of the expected fields. *)
Shaped ==
    /\ doc = [rev |-> doc.rev, state |-> doc.state]
    /\ doc.rev \in Nat
    /\ mem = [i \in Instances |-> mem[i]]
    /\ \A i \in Instances :
         /\ mem[i] = [phase |-> mem[i].phase, rev |-> mem[i].rev, state |-> mem[i].state,
                      index |-> mem[i].index, degraded |-> mem[i].degraded]
         /\ mem[i].rev \in Nat

(* The inductive invariant. *)
RevInv == Shaped /\ RevisionIdentifiesState

(* Every mutation of the document by an instance is one guarded write.       *)
LEMMA KeyStepSaves ==
    ASSUME NEW i \in Instances, NEW o \in Outcomes, KeyNext(i, o)
    PROVE  \E s : save_or_restore_locked(i, s, o)
<1> DEFINE Saves == \E s : save_or_restore_locked(i, s, o)
<1>1. ASSUME NEW keys, SaveKeys(i, keys, o) PROVE Saves
  BY <1>1 DEF SaveKeys
<1>2. ASSUME NEW keys, Mint(i, keys, o) PROVE Saves
  BY <1>1, <1>2 DEF Mint
<1> HIDE DEF Saves
<1>3. ASSUME NEW u, NEW kind, NEW t, NEW x, create_api_key(i, u, kind, t, x, o) PROVE Saves
  BY <1>2, <1>3 DEF create_api_key
<1>4. ASSUME NEW u, NEW x, create_api_key_with_active_limit(i, u, x, o) PROVE Saves
  BY <1>2, <1>4 DEF create_api_key_with_active_limit
<1>5. ASSUME NEW p, rotate_api_key(i, p, o) PROVE Saves
  BY <1>2, <1>5 DEF rotate_api_key
<1>6. ASSUME NEW p, NEW c, confirm_api_key_rotation(i, p, c, o) PROVE Saves
  BY <1>1, <1>6 DEF confirm_api_key_rotation
<1>7. ASSUME NEW p, NEW c, confirm_again(i, p, c, o) PROVE Saves
  BY <1>1, <1>7 DEF confirm_again
<1>8. ASSUME NEW p, NEW c, cancel_api_key_rotation(i, p, c, o) PROVE Saves
  BY <1>1, <1>8 DEF cancel_api_key_rotation
<1>9. ASSUME NEW k, NEW c, update_api_key(i, k, c, o) PROVE Saves
  BY <1>1, <1>9 DEF update_api_key
<1>10. ASSUME NEW k, revoke_api_key(i, k, o) PROVE Saves
  BY <1>1, <1>10 DEF revoke_api_key
<1>11. ASSUME NEW k, delete_api_key(i, k, o) PROVE Saves
  BY <1>1, <1>11 DEF delete_api_key
<1>12. ASSUME NEW k, authenticate_headers(i, k, o) PROVE Saves
  BY <1>1, <1>12 DEF authenticate_headers
<1>13. ASSUME NEW u, delete_user_resources(i, u, o) PROVE Saves
  BY <1>1, <1>13 DEF delete_user_resources
<1> QED
  BY <1>3, <1>4, <1>5, <1>6, <1>7, <1>8, <1>9, <1>10, <1>11, <1>12, <1>13 DEF KeyNext, Saves

LEMMA TeamStepSaves ==
    ASSUME NEW i \in Instances, NEW o \in Outcomes, TeamNext(i, o)
    PROVE  \E s : save_or_restore_locked(i, s, o)
BY DEF TeamNext, upsert_team, delete_team

(* What the two updates of an instance's copy make of it. *)
LEMMA CopyWritten ==
    ASSUME NEW m, m = [phase |-> m.phase, rev |-> m.rev, state |-> m.state,
                       index |-> m.index, degraded |-> m.degraded],
           NEW r, NEW s, NEW x, NEW d
    PROVE  [m EXCEPT !.rev = r, !.state = s, !.index = x, !.degraded = d]
             = [phase |-> m.phase, rev |-> r, state |-> s, index |-> x, degraded |-> d]
<1> DEFINE m1 == [phase |-> m.phase, rev |-> r, state |-> m.state, index |-> m.index,
                  degraded |-> m.degraded]
           m2 == [phase |-> m.phase, rev |-> r, state |-> s, index |-> m.index,
                  degraded |-> m.degraded]
           m3 == [phase |-> m.phase, rev |-> r, state |-> s, index |-> x,
                  degraded |-> m.degraded]
<1>1. [m EXCEPT !.rev = r] = m1
  OBVIOUS
<1>2. [m1 EXCEPT !.state = s] = m2
  OBVIOUS
<1>3. [m2 EXCEPT !.index = x] = m3
  OBVIOUS
<1>4. [m3 EXCEPT !.degraded = d]
        = [phase |-> m.phase, rev |-> r, state |-> s, index |-> x, degraded |-> d]
  OBVIOUS
<1>5. [m EXCEPT !.rev = r, !.state = s, !.index = x, !.degraded = d]
        = [[[[m EXCEPT !.rev = r] EXCEPT !.state = s] EXCEPT !.index = x] EXCEPT !.degraded = d]
  OBVIOUS
<1> QED BY <1>1, <1>2, <1>3, <1>4, <1>5

LEMMA CopyDegraded ==
    ASSUME NEW m, m = [phase |-> m.phase, rev |-> m.rev, state |-> m.state,
                       index |-> m.index, degraded |-> m.degraded],
           NEW d
    PROVE  [m EXCEPT !.degraded = d]
             = [phase |-> m.phase, rev |-> m.rev, state |-> m.state, index |-> m.index,
                degraded |-> d]
OBVIOUS

(* A guarded write keeps the invariant, whatever the database answers.       *)
LEMMA SavePreserves ==
    ASSUME RevInv, NEW i \in Instances, NEW s, NEW o, save_or_restore_locked(i, s, o)
    PROVE  RevInv'
<1> DEFINE current == doc.rev = mem[i].rev
<1>1. /\ doc' = IF current /\ o # "failed" THEN [rev |-> doc.rev + 1, state |-> s] ELSE doc
      /\ mem' = [mem EXCEPT ![i] =
             IF current /\ o = "ok"
               THEN [@ EXCEPT !.rev = doc.rev + 1, !.state = s,
                              !.index = rebuild_api_key_hash_index(s), !.degraded = FALSE]
               ELSE [@ EXCEPT !.degraded = TRUE]]
  BY DEF save_or_restore_locked, compare_and_swap, Swapped
<1>2. Shaped /\ RevisionIdentifiesState
  BY DEF RevInv
<1>3. \A j \in Instances : j # i => mem'[j] = mem[j]
  BY <1>1, <1>2 DEF Shaped
<1>4. mem'[i] = IF current /\ o = "ok"
                  THEN [phase |-> mem[i].phase, rev |-> doc.rev + 1, state |-> s,
                        index |-> rebuild_api_key_hash_index(s), degraded |-> FALSE]
                  ELSE [phase |-> mem[i].phase, rev |-> mem[i].rev, state |-> mem[i].state,
                        index |-> mem[i].index, degraded |-> TRUE]
  <2>1. mem'[i] = IF current /\ o = "ok"
                    THEN [mem[i] EXCEPT !.rev = doc.rev + 1, !.state = s,
                                        !.index = rebuild_api_key_hash_index(s),
                                        !.degraded = FALSE]
                    ELSE [mem[i] EXCEPT !.degraded = TRUE]
    BY <1>1, <1>2 DEF Shaped
  <2>2. mem[i] = [phase |-> mem[i].phase, rev |-> mem[i].rev, state |-> mem[i].state,
                  index |-> mem[i].index, degraded |-> mem[i].degraded]
    BY <1>2 DEF Shaped
  <2>3. CASE current /\ o = "ok"
    BY <2>1, <2>2, <2>3, CopyWritten
  <2>4. CASE ~(current /\ o = "ok")
    BY <2>1, <2>2, <2>4, CopyDegraded
  <2> QED BY <2>3, <2>4
<1>5. Shaped'
  <2>1. doc' = [rev |-> doc'.rev, state |-> doc'.state] /\ doc'.rev \in Nat
    BY <1>1, <1>2 DEF Shaped
  <2>2. mem' = [j \in Instances |-> mem'[j]]
    BY <1>1, <1>2 DEF Shaped
  <2>3. ASSUME NEW j \in Instances
        PROVE  /\ mem'[j] = [phase |-> mem'[j].phase, rev |-> mem'[j].rev,
                             state |-> mem'[j].state, index |-> mem'[j].index,
                             degraded |-> mem'[j].degraded]
               /\ mem'[j].rev \in Nat
    BY <1>2, <1>3, <1>4 DEF Shaped
  <2> QED BY <2>1, <2>2, <2>3 DEF Shaped
<1>6. RevisionIdentifiesState'
  <2> SUFFICES ASSUME NEW j \in Instances, mem'[j].phase # "down"
               PROVE  /\ mem'[j].rev <= doc'.rev
                      /\ mem'[j].rev = doc'.rev => mem'[j].state = doc'.state
    BY DEF RevisionIdentifiesState
  <2>1. CASE j = i
    BY <1>1, <1>2, <1>4, <2>1 DEF Shaped, RevisionIdentifiesState
  <2>2. CASE j # i
    BY <1>1, <1>2, <1>3, <2>2 DEF Shaped, RevisionIdentifiesState
  <2> QED BY <2>1, <2>2
<1> QED BY <1>5, <1>6 DEF RevInv

(* A step that gives one instance a fresh copy, and possibly raises the row. *)
LEMMA ReplacePreserves ==
    ASSUME RevInv, NEW i \in Instances, NEW m,
           m = [phase |-> m.phase, rev |-> m.rev, state |-> m.state, index |-> m.index,
                degraded |-> m.degraded],
           m.rev \in Nat,
           mem' = [mem EXCEPT ![i] = m],
           doc' = [rev |-> doc'.rev, state |-> doc'.state], doc'.rev \in Nat,
           doc' = doc \/ doc'.rev > doc.rev,
           m.phase # "down" => m.rev <= doc'.rev /\ (m.rev = doc'.rev => m.state = doc'.state)
    PROVE  RevInv'
<1>1. Shaped /\ RevisionIdentifiesState
  BY DEF RevInv
<1>2. \A j \in Instances : j # i => mem'[j] = mem[j]
  BY <1>1 DEF Shaped
<1>3. mem'[i] = m
  BY <1>1 DEF Shaped
<1>4. mem' = [j \in Instances |-> mem'[j]]
  BY <1>1 DEF Shaped
<1>5. Shaped'
  BY <1>1, <1>2, <1>3, <1>4 DEF Shaped
<1>6. RevisionIdentifiesState'
  <2> SUFFICES ASSUME NEW j \in Instances, mem'[j].phase # "down"
               PROVE  /\ mem'[j].rev <= doc'.rev
                      /\ mem'[j].rev = doc'.rev => mem'[j].state = doc'.state
    BY DEF RevisionIdentifiesState
  <2>1. CASE j = i
    BY <1>3, <2>1
  <2>2. CASE j # i
    BY <1>1, <1>2, <2>2 DEF Shaped, RevisionIdentifiesState
  <2> QED BY <2>1, <2>2
<1> QED BY <1>5, <1>6 DEF RevInv

LEMMA RevInit ==
    Init => RevInv
<1> SUFFICES ASSUME Init PROVE RevInv
  OBVIOUS
<1>1. doc = [rev |-> doc.rev, state |-> doc.state] /\ doc.rev \in Nat
  BY DEF Init
<1>2. \A i \in Instances : mem[i] = Down
  BY DEF Init
<1>3. mem = [i \in Instances |-> mem[i]]
  BY DEF Init
<1>4. Shaped
  BY <1>1, <1>2, <1>3 DEF Shaped, Down
<1>5. RevisionIdentifiesState
  BY <1>2 DEF RevisionIdentifiesState, Down
<1> QED BY <1>4, <1>5 DEF RevInv

LEMMA RevStep ==
    RevInv /\ [Next]_vars => RevInv'
<1> SUFFICES ASSUME RevInv, [Next]_vars PROVE RevInv'
  OBVIOUS
<1>1. Shaped /\ RevisionIdentifiesState
  BY DEF RevInv
<1>2. CASE UNCHANGED <<doc, mem>>
  BY <1>2 DEF RevInv, Shaped, RevisionIdentifiesState
<1>3. ASSUME NEW i \in Instances, NEW o \in Outcomes, KeyNext(i, o) PROVE RevInv'
  BY <1>3, KeyStepSaves, SavePreserves
<1>4. ASSUME NEW i \in Instances, NEW o \in Outcomes, TeamNext(i, o) PROVE RevInv'
  BY <1>4, TeamStepSaves, SavePreserves
<1> DEFINE Record(m) == m = [phase |-> m.phase, rev |-> m.rev, state |-> m.state,
                             index |-> m.index, degraded |-> m.degraded]
<1>D. Record(Down) /\ Down.rev \in Nat /\ Down.phase = "down"
  BY DEF Down
<1>L. ASSUME NEW i, NEW s, NEW r
      PROVE  /\ Record(Loaded(i, s, r))
             /\ Loaded(i, s, r).rev = r /\ Loaded(i, s, r).state = s
  BY DEF Loaded
<1>5. ASSUME NEW i \in Instances, NEW o \in Outcomes, LoadRepair(i, o) PROVE RevInv'
  <2> DEFINE s == Repaired(i)
             m == IF doc.rev = mem[i].rev /\ o = "ok" THEN Loaded(i, s, doc.rev + 1) ELSE Down
  <2>1. /\ doc' = IF doc.rev = mem[i].rev /\ o # "failed"
                    THEN [rev |-> doc.rev + 1, state |-> s] ELSE doc
        /\ mem' = [mem EXCEPT ![i] = m]
    BY <1>5 DEF LoadRepair, compare_and_swap, Swapped
  <2> HIDE DEF s
  <2>2. /\ doc' = [rev |-> doc'.rev, state |-> doc'.state]
        /\ doc'.rev \in Nat
        /\ doc' = doc \/ doc'.rev > doc.rev
    BY <1>1, <2>1 DEF Shaped
  <2>3. Record(m) /\ m.rev \in Nat
    BY <1>1, <1>D, <1>L DEF Shaped
  <2>4. m.phase # "down" => m.rev <= doc'.rev /\ (m.rev = doc'.rev => m.state = doc'.state)
    BY <1>1, <1>D, <1>L, <2>1 DEF Shaped
  <2> HIDE DEF m
  <2> QED BY <2>1, <2>2, <2>3, <2>4, ReplacePreserves
<1>6. ASSUME NEW i \in Instances, LoadRead(i) PROVE RevInv'
  <2> DEFINE m == [phase |-> "loading", rev |-> doc.rev, state |-> doc.state, index |-> {},
                   degraded |-> FALSE]
  <2>1. doc' = doc /\ mem' = [mem EXCEPT ![i] = m]
    BY <1>6 DEF LoadRead
  <2>2. Record(m) /\ m.rev = doc.rev /\ m.state = doc.state
    OBVIOUS
  <2> HIDE DEF m
  <2>3. /\ doc' = [rev |-> doc'.rev, state |-> doc'.state] /\ doc'.rev \in Nat
        /\ m.rev \in Nat /\ m.rev <= doc'.rev /\ m.state = doc'.state
    BY <1>1, <2>1, <2>2 DEF Shaped
  <2> QED BY <2>1, <2>2, <2>3, ReplacePreserves
<1>7. ASSUME NEW i \in Instances, LoadClean(i) PROVE RevInv'
  <2> DEFINE m == Loaded(i, mem[i].state, mem[i].rev)
  <2>1. doc' = doc /\ mem[i].phase = "loading" /\ mem' = [mem EXCEPT ![i] = m]
    BY <1>1, <1>7 DEF LoadClean, Shaped
  <2>2. Record(m) /\ m.rev = mem[i].rev /\ m.state = mem[i].state
    BY <1>L
  <2> HIDE DEF m
  <2>3. /\ doc' = [rev |-> doc'.rev, state |-> doc'.state] /\ doc'.rev \in Nat
        /\ m.rev \in Nat
        /\ m.rev <= doc'.rev /\ (m.rev = doc'.rev => m.state = doc'.state)
    BY <1>1, <2>1, <2>2 DEF Shaped, RevisionIdentifiesState
  <2> QED BY <2>1, <2>2, <2>3, ReplacePreserves
<1>8. ASSUME NEW i \in Instances, Crash(i) PROVE RevInv'
  <2>1. doc' = doc /\ mem' = [mem EXCEPT ![i] = Down]
    BY <1>8 DEF Crash
  <2>2. doc' = [rev |-> doc'.rev, state |-> doc'.state] /\ doc'.rev \in Nat
    BY <1>1, <2>1 DEF Shaped
  <2> QED BY <1>D, <2>1, <2>2, ReplacePreserves
<1>9. ASSUME NEW i \in Instances, health_check(i) PROVE RevInv'
  <2> DEFINE m == [phase |-> mem[i].phase, rev |-> mem[i].rev, state |-> mem[i].state,
                   index |-> mem[i].index, degraded |-> TRUE]
  <2>1. doc' = doc /\ mem' = [mem EXCEPT ![i] = [mem[i] EXCEPT !.degraded = TRUE]]
    BY <1>1, <1>9 DEF health_check, Shaped
  <2>2. [mem[i] EXCEPT !.degraded = TRUE] = m
    BY <1>1, CopyDegraded DEF Shaped
  <2>3. mem' = [mem EXCEPT ![i] = m]
    BY <2>1, <2>2
  <2>4. Record(m) /\ m.phase = mem[i].phase /\ m.rev = mem[i].rev /\ m.state = mem[i].state
    OBVIOUS
  <2> HIDE DEF m
  <2>5. /\ doc' = [rev |-> doc'.rev, state |-> doc'.state] /\ doc'.rev \in Nat
        /\ m.rev \in Nat
        /\ m.phase # "down" => m.rev <= doc'.rev /\ (m.rev = doc'.rev => m.state = doc'.state)
    BY <1>1, <2>1, <2>4 DEF Shaped, RevisionIdentifiesState
  <2> QED BY <2>1, <2>3, <2>4, <2>5, ReplacePreserves
<1>10. ASSUME NEW o \in Outcomes, RestoreWrite(o) PROVE RevInv'
  <2>1. mem' = mem /\ (doc' = doc \/ doc' = [rev |-> doc.rev + 1, state |-> backup])
    BY <1>10 DEF RestoreWrite, compare_and_swap
  <2>2. doc' = [rev |-> doc'.rev, state |-> doc'.state] /\ doc'.rev \in Nat
    BY <1>1, <2>1 DEF Shaped
  <2>3. doc' = doc \/ doc'.rev > doc.rev
    BY <1>1, <2>1 DEF Shaped
  <2>4. Shaped'
    BY <1>1, <2>1, <2>2 DEF Shaped
  <2>5. RevisionIdentifiesState'
    BY <1>1, <2>1, <2>3 DEF Shaped, RevisionIdentifiesState
  <2> QED BY <2>4, <2>5 DEF RevInv
<1>11. CASE export_backup \/ RestoreRead \/ Tick
  BY <1>2, <1>11 DEF export_backup, RestoreRead, Tick
<1> QED
  BY <1>2, <1>3, <1>4, <1>5, <1>6, <1>7, <1>8, <1>9, <1>10, <1>11 DEF Next, vars

(* A revision names one document: an instance that holds the row's revision  *)
(* holds the row's document, whatever writes of save_or_restore_locked, of   *)
(* load and of the restore command failed, were lost or raced.               *)
THEOREM RevisionNamesDocument == Spec => []RevisionIdentifiesState
<1>1. RevInv => RevisionIdentifiesState
  BY DEF RevInv
<1> QED BY RevInit, RevStep, <1>1, PTL DEF Spec
=============================================================================
