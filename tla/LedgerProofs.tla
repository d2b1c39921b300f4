---------------------------- MODULE LedgerProofs ----------------------------
(***************************************************************************)
(* Budget conservation of Ledger, proved for every set of tenants, users,  *)
(* requests and attempts and every amount.                                 *)
(***************************************************************************)
EXTENDS Ledger, SumTheorems, TLAPS

\* What the handler of a request relies on while it runs: its request row was
\* written, and the attempt it is working on is its own.
RunOK ==
    \A r \in Requests :
        /\ run[r].phase \in Live => /\ req[r].state # "absent"
                                    /\ req[r].tenant \in Tenants
                                    /\ req[r].user \in Users
        /\ run[r].phase \in InTransaction => /\ run[r].cur \in Attempts
                                             /\ att[run[r].cur].state = "pending"
                                             /\ att[run[r].cur].req = r
        /\ run[r].phase = "locked" => run[r].est \in Costs
        /\ run[r].phase = "inflight" => /\ run[r].cur \in Attempts
                                        /\ att[run[r].cur].state \notin {"absent", "pending"}
                                        /\ att[run[r].cur].req = r

\* A reservation row names its tenant, and carries a payment only once settled.
HoldShape ==
    \A a \in Attempts :
        /\ hold[a].state # "none" => hold[a].tenant \in Tenants
        /\ hold[a].state \in {"none", "reserved"} => hold[a].paid = 0

\* The inductive invariant.  The two conservation laws need to know which hold
\* a step closes, hence that a handler's current attempt is its own, and that
\* a hold is open exactly while its attempt is.
IndInv ==
    /\ TypeOK
    /\ RunOK
    /\ HoldShape
    /\ HoldFollowsAttempt
    /\ ReservedIsOpenHolds
    /\ SettledIsPaidHolds

\* The families that the conservation laws add up.
LEMMA FamiliesType ==
  ASSUME TypeOK, NEW t
  PROVE  /\ \A S : HoldsOf(S, t) \in [Attempts -> Nat]
         /\ PaidBy(t) \in [Attempts -> Nat]
BY DEF TypeOK, HoldRow, HoldsOf, PaidBy

\* A step that touches neither reservations nor accounts conserves both sums.
LEMMA SumsUnchanged ==
  ASSUME ReservedIsOpenHolds, SettledIsPaidHolds, UNCHANGED <<hold, acct>>
  PROVE  ReservedIsOpenHolds' /\ SettledIsPaidHolds'
<1>1. \A t \in Tenants : HoldsOf(Attempts, t)' = HoldsOf(Attempts, t) /\ PaidBy(t)' = PaidBy(t)
  BY DEF HoldsOf, PaidBy
<1> QED  BY <1>1 DEF ReservedIsOpenHolds, SettledIsPaidHolds

\* Nothing is held or spent in the empty ledger.
LEMMA InitInv == Init => IndInv
<1> SUFFICES ASSUME Init PROVE IndInv
  OBVIOUS
<1> USE LedgerConstants
<1>1. TypeOK
  BY DEF Init, TypeOK, NoRequest, NoUsage, NoAttempt, NoHold, Idle, Live,
         RequestRow, UsageRow, AttemptRow, HoldRow, AccountRow, HandlerRow
<1>2. RunOK /\ HoldShape /\ HoldFollowsAttempt
  BY DEF Init, RunOK, HoldShape, HoldFollowsAttempt, NoAttempt, NoHold, Idle, Live, InTransaction
<1>3. \A t \in Tenants : Total(HoldsOf(Attempts, t)) = 0 /\ Total(PaidBy(t)) = 0
  <2> SUFFICES ASSUME NEW t \in Tenants
               PROVE  Total(HoldsOf(Attempts, t)) = 0 /\ Total(PaidBy(t)) = 0
    OBVIOUS
  <2>1. \A a \in Attempts : HoldsOf(Attempts, t)[a] = 0 /\ PaidBy(t)[a] = 0
    BY DEF Init, HoldsOf, PaidBy, NoHold
  <2> QED  BY <1>1, <2>1, FamiliesType, TotalZero
<1> QED  BY <1>1, <1>2, <1>3 DEF IndInv, ReservedIsOpenHolds, SettledIsPaidHolds, Init

\* BeginRequest inserts a request row and starts its handler.
LEMMA BeginRequestInv ==
  ASSUME IndInv, NEW r \in Requests, NEW t \in Tenants, NEW u \in Users,
         NEW k \in Keys \cup {None}, BeginRequest(r, t, u, k)
  PROVE  IndInv'
<1> USE LedgerConstants DEF IndInv, TypeOK, BeginRequest
<1>1. req' \in [Requests -> RequestRow]
  BY DEF RequestRow
<1>2. run' \in [Requests -> HandlerRow]
  BY DEF HandlerRow, Idle, Live
<1>3. RunOK'
  BY DEF RunOK, Idle, Live, InTransaction
<1>4. HoldShape' /\ HoldFollowsAttempt'
  BY DEF HoldShape, HoldFollowsAttempt
<1> QED  BY <1>1, <1>2, <1>3, <1>4, SumsUnchanged

\* ClaimAttempt writes an attempt row that no reservation belongs to yet.
LEMMA ClaimAttemptInv ==
  ASSUME IndInv, NEW r \in Requests, NEW a \in Attempts, ClaimAttempt(r, a)
  PROVE  IndInv'
<1> USE LedgerConstants DEF IndInv, TypeOK, ClaimAttempt
<1>1. att' \in [Attempts -> AttemptRow]
  BY DEF AttemptRow
<1>2. [run[r] EXCEPT !.phase = "claimed", !.cur = a] \in HandlerRow
  BY ZenonT(60) DEF HandlerRow, Live
<1>3. run' \in [Requests -> HandlerRow]
  BY <1>2
<1>4. RunOK'
  BY SMTT(60) DEF RunOK, Live, InTransaction, AttemptRow, HandlerRow
<1>5. HoldShape' /\ HoldFollowsAttempt'
  BY DEF HoldShape, HoldFollowsAttempt, AttemptRow
<1> QED  BY <1>1, <1>3, <1>4, <1>5, SumsUnchanged

\* A step that only changes the handler of r, to a row that leaves begin_attempt
\* or keeps the attempt it works on.
LEMMA HandlerStepInv ==
  ASSUME IndInv, NEW r \in Requests, NEW row \in HandlerRow,
         run[r].phase \in Live,
         run' = [run EXCEPT ![r] = row], UNCHANGED <<req, usage, att, hold, acct>>,
         \/ row.phase \in {"ready", "closing", "done"}
         \/ /\ run[r].phase = "claimed" /\ row.phase = "locked"
            /\ row.cur = run[r].cur /\ row.est \in Costs
  PROVE  IndInv'
<1> USE LedgerConstants DEF IndInv, TypeOK
<1>1. run' \in [Requests -> HandlerRow]
  OBVIOUS
<1>2. RunOK'
  BY DEF RunOK, Live, InTransaction
<1>3. HoldShape' /\ HoldFollowsAttempt'
  BY DEF HoldShape, HoldFollowsAttempt
<1> QED  BY <1>1, <1>2, <1>3, SumsUnchanged

\* The handler's row after an attempt is a row.
LEMMA DoneRow ==
  ASSUME run \in [Requests -> HandlerRow], NEW r \in Requests,
         NEW b \in Costs \cup {None}, AttemptDone(r, b)
  PROVE  \E row \in HandlerRow : /\ row.phase \in {"ready", "closing"}
                                 /\ run' = [run EXCEPT ![r] = row]
<1> DEFINE n == run[r].bill + Amount(b)
           next == [run[r] EXCEPT !.phase = "ready", !.cur = None, !.bill = n]
           last == [run[r] EXCEPT !.phase = "closing", !.cur = None]
<1>1. n \in Nat
  BY LedgerConstants DEF Amount, HandlerRow
<1>2. run' = [run EXCEPT ![r] = next] \/ run' = [run EXCEPT ![r] = last]
  BY DEF AttemptDone
<1> HIDE DEF n
<1>3. /\ next \in HandlerRow /\ next.phase = "ready"
      /\ last \in HandlerRow /\ last.phase = "closing"
  BY <1>1 DEF HandlerRow, Live
<1> QED  BY <1>2, <1>3

\* ClaimRefused, AdmitUsage, FinalizeAttemptLost and FinalizeRequestLost write
\* nothing to the ledger.
LEMMA HandlerOnlyInv ==
  ASSUME IndInv, NEW r \in Requests,
         \/ ClaimRefused(r)
         \/ \E e \in Costs : AdmitUsage(r, e)
         \/ \E b \in Costs \cup {None} : FinalizeAttemptLost(r, b)
         \/ FinalizeRequestLost(r)
  PROVE  IndInv'
<1> USE LedgerConstants
<1>0. run[r] \in HandlerRow /\ run \in [Requests -> HandlerRow]
  BY DEF IndInv, TypeOK
<1>1. CASE ClaimRefused(r)
  <2> DEFINE row == [run[r] EXCEPT !.phase = "closing"]
  <2>1. row \in HandlerRow /\ row.phase = "closing"
    BY <1>0 DEF HandlerRow, Live
  <2>2. run' = [run EXCEPT ![r] = row]
    BY <1>0, <1>1 DEF ClaimRefused
  <2> HIDE DEF row
  <2> QED  BY <1>1, <2>1, <2>2, HandlerStepInv DEF ClaimRefused, Live
<1>2. ASSUME NEW e \in Costs, AdmitUsage(r, e)
      PROVE  IndInv'
  <2> DEFINE row == [run[r] EXCEPT !.phase = "locked", !.est = e]
  <2>1. /\ row \in HandlerRow /\ row.phase = "locked"
        /\ row.cur = run[r].cur /\ row.est \in Costs
    BY <1>0 DEF HandlerRow, Live
  <2>2. run' = [run EXCEPT ![r] = row]
    BY <1>0, <1>2 DEF AdmitUsage
  <2> HIDE DEF row
  <2> QED  BY <1>2, <2>1, <2>2, HandlerStepInv DEF AdmitUsage, Live
<1>3. ASSUME NEW b \in Costs \cup {None}, FinalizeAttemptLost(r, b)
      PROVE  IndInv'
  <2>1. PICK row \in HandlerRow : /\ row.phase \in {"ready", "closing"}
                                  /\ run' = [run EXCEPT ![r] = row]
    BY <1>0, <1>3, DoneRow DEF FinalizeAttemptLost
  <2> QED  BY <1>3, <2>1, HandlerStepInv DEF FinalizeAttemptLost, Live
<1>4. CASE FinalizeRequestLost(r)
  <2> DEFINE row == [Idle EXCEPT !.phase = "done"]
  <2>1. row \in HandlerRow /\ row.phase = "done"
    BY DEF HandlerRow, Live, Idle
  <2>2. run' = [run EXCEPT ![r] = row]
    BY <1>4 DEF FinalizeRequestLost
  <2> HIDE DEF row
  <2> QED  BY <1>4, <2>1, <2>2, HandlerStepInv DEF FinalizeRequestLost, Live
<1> QED  BY <1>1, <1>2, <1>3, <1>4

\* The families after a step have the same type.
LEMMA FamiliesTypeNext ==
  ASSUME hold' \in [Attempts -> HoldRow], NEW t
  PROVE  HoldsOf(Attempts, t)' \in [Attempts -> Nat] /\ PaidBy(t)' \in [Attempts -> Nat]
BY DEF HoldRow, HoldsOf, PaidBy

\* CommitAttempt opens one hold and raises one counter by its cost.
LEMMA CommitAttemptInv ==
  ASSUME IndInv, NEW r \in Requests, CommitAttempt(r)
  PROVE  IndInv'
<1> USE LedgerConstants
<1> DEFINE a == run[r].cur
           t == req[r].tenant
           e == run[r].est
           row == [state |-> "reserved", tenant |-> t, cost |-> e, paid |-> 0]
<1>1. /\ run[r] \in HandlerRow /\ run \in [Requests -> HandlerRow]
      /\ a \in Attempts /\ t \in Tenants /\ e \in Nat
      /\ att[a].state = "pending" /\ att[a].req = r
      /\ hold[a].state = "none" /\ hold[a].paid = 0
  BY SMTT(60) DEF IndInv, TypeOK, RunOK, HoldShape, HoldFollowsAttempt, CommitAttempt, Live,
         InTransaction, HandlerRow
<1>2. /\ att' = [att EXCEPT ![a].state = "started"]
      /\ hold' = [hold EXCEPT ![a] = row]
      /\ acct' = [acct EXCEPT ![t].reserved = @ + e]
      /\ UNCHANGED req
  BY DEF CommitAttempt
<1> HIDE DEF a, t, e
<1>3. hold' \in [Attempts -> HoldRow]
  BY <1>1, <1>2 DEF IndInv, TypeOK, HoldRow
<1>4. att' \in [Attempts -> AttemptRow]
  BY <1>1, <1>2 DEF IndInv, TypeOK, AttemptRow
<1>5. acct' \in [Tenants -> AccountRow]
  BY <1>1, <1>2 DEF IndInv, TypeOK, AccountRow
<1>6. usage' \in [Requests -> UsageRow]
  <2>1. usage[r].cost + e \in Nat
    BY <1>1 DEF IndInv, TypeOK, UsageRow
  <2>2. [state |-> "reserved", cost |-> usage[r].cost + e] \in UsageRow
    BY <2>1 DEF UsageRow
  <2> QED  BY <2>2 DEF IndInv, TypeOK, CommitAttempt, e
<1>7. PICK new \in HandlerRow : run' = [run EXCEPT ![r] = new]
                              /\ \/ new.phase = "inflight" /\ new.cur = a
                                 \/ new.phase = "closing"
  <2> DEFINE sent == [run[r] EXCEPT !.phase = "inflight", !.sent = TRUE, !.est = 0]
             lost == [run[r] EXCEPT !.phase = "closing", !.cur = None, !.est = 0]
  <2>1. sent \in HandlerRow /\ sent.phase = "inflight" /\ sent.cur = a
    BY <1>1 DEF HandlerRow, Live, a
  <2>2. lost \in HandlerRow /\ lost.phase = "closing"
    BY <1>1 DEF HandlerRow, Live
  <2>3. run' = [run EXCEPT ![r] = sent] \/ run' = [run EXCEPT ![r] = lost]
    BY <1>1 DEF CommitAttempt
  <2> HIDE DEF sent, lost
  <2> QED  BY <2>1, <2>2, <2>3
<1>8. run' \in [Requests -> HandlerRow]
  BY <1>1, <1>7
<1>9. RunOK'
  <2>1. run'[r] = new /\ \A q \in Requests \ {r} : run'[q] = run[q]
    BY <1>1, <1>7
  <2>2. /\ att'[a].state = "started" /\ att'[a].req = r
        /\ \A y \in Attempts \ {a} : att'[y] = att[y]
    BY <1>1, <1>2 DEF IndInv, TypeOK, AttemptRow
  <2> USE <1>1, <1>2, <1>7, <2>1, <2>2 DEF IndInv, RunOK, Live, InTransaction
  <2> SUFFICES ASSUME NEW q \in Requests
               PROVE  /\ run'[q].phase \in Live => /\ req'[q].state # "absent"
                                                   /\ req'[q].tenant \in Tenants
                                                   /\ req'[q].user \in Users
                      /\ run'[q].phase \in InTransaction => /\ run'[q].cur \in Attempts
                                                            /\ att'[run'[q].cur].state = "pending"
                                                            /\ att'[run'[q].cur].req = q
                      /\ run'[q].phase = "locked" => run'[q].est \in Costs
                      /\ run'[q].phase = "inflight" =>
                             /\ run'[q].cur \in Attempts
                             /\ att'[run'[q].cur].state \notin {"absent", "pending"}
                             /\ att'[run'[q].cur].req = q
    OBVIOUS
  <2>3. CASE q = r
    BY <2>3, ZenonT(60) DEF CommitAttempt
  <2>4. CASE q # r
    BY <2>4, SMTT(60)
  <2> QED  BY <2>3, <2>4
<1>10. HoldShape' /\ HoldFollowsAttempt'
  BY <1>1, <1>2 DEF IndInv, TypeOK, HoldShape, HoldFollowsAttempt, AttemptRow
<1>11. ReservedIsOpenHolds' /\ SettledIsPaidHolds'
  <2> SUFFICES ASSUME NEW s \in Tenants
               PROVE  /\ acct'[s].reserved = Total(HoldsOf(Attempts, s)')
                      /\ acct'[s].settled = Total(PaidBy(s)') + acct'[s].adjusted
    BY DEF ReservedIsOpenHolds, SettledIsPaidHolds
  <2> DEFINE d == IF s = t THEN e ELSE 0
  <2>1. d \in Nat
    BY <1>1
  <2>2. /\ HoldsOf(Attempts, s)'[a] = HoldsOf(Attempts, s)[a] + d
        /\ \A x \in Attempts \ {a} : HoldsOf(Attempts, s)'[x] = HoldsOf(Attempts, s)[x]
    BY <1>1, <1>2 DEF IndInv, TypeOK, HoldsOf
  <2>3. \A x \in Attempts : PaidBy(s)'[x] = PaidBy(s)[x]
    BY <1>1, <1>2 DEF IndInv, TypeOK, PaidBy
  <2>4. /\ acct'[s].reserved = acct[s].reserved + d
        /\ acct'[s].settled = acct[s].settled /\ acct'[s].adjusted = acct[s].adjusted
    BY <1>1, <1>2 DEF IndInv, TypeOK, AccountRow
  <2> HIDE DEF d
  <2>5. /\ HoldsOf(Attempts, s) \in [Attempts -> Nat] /\ HoldsOf(Attempts, s)' \in [Attempts -> Nat]
        /\ PaidBy(s) \in [Attempts -> Nat] /\ PaidBy(s)' \in [Attempts -> Nat]
    BY <1>3, FamiliesType, FamiliesTypeNext DEF IndInv
  <2>6. Total(HoldsOf(Attempts, s)') = Total(HoldsOf(Attempts, s)) + d
    BY <1>1, <2>1, <2>2, <2>5, TotalRaise
  <2>7. PaidBy(s)' = PaidBy(s)
    BY <2>3, <2>5
  <2> QED  BY <2>4, <2>6, <2>7 DEF IndInv, ReservedIsOpenHolds, SettledIsPaidHolds
<1> QED  BY <1>2, <1>3, <1>4, <1>5, <1>6, <1>8, <1>9, <1>10, <1>11 DEF IndInv, TypeOK

\* AttemptFails takes back the handler's own uncommitted attempt.
LEMMA AttemptFailsInv ==
  ASSUME IndInv, NEW r \in Requests, AttemptFails(r)
  PROVE  IndInv'
<1> USE LedgerConstants DEF IndInv, TypeOK
<1> DEFINE a == run[r].cur
           row == [run[r] EXCEPT !.phase = "closing", !.cur = None, !.est = 0]
<1>1. /\ run[r] \in HandlerRow /\ a \in Attempts
      /\ att[a].state = "pending" /\ att[a].req = r
  BY DEF RunOK, AttemptFails
<1>2. /\ att' = [att EXCEPT ![a] = NoAttempt] /\ run' = [run EXCEPT ![r] = row]
      /\ UNCHANGED <<req, usage, hold, acct>>
  BY <1>1 DEF AttemptFails
<1>3. row \in HandlerRow /\ row.phase = "closing"
  BY <1>1 DEF HandlerRow, Live
<1>4. run[r].phase \in Live
  BY DEF AttemptFails, InTransaction, Live
<1> HIDE DEF a, row
<1>5. run' \in [Requests -> HandlerRow]
  BY <1>2, <1>3
<1>6. att' \in [Attempts -> AttemptRow]
  BY <1>1, <1>2 DEF AttemptRow, NoAttempt
<1>7. RunOK'
  BY <1>1, <1>2, <1>3, <1>4, SMTT(60) DEF RunOK, Live, InTransaction, NoAttempt
<1>8. HoldShape' /\ HoldFollowsAttempt'
  BY <1>1, <1>2 DEF HoldShape, HoldFollowsAttempt, NoAttempt
<1> QED  BY <1>2, <1>5, <1>6, <1>7, <1>8, SumsUnchanged

\* FinalizeAttempt closes the handler's own hold: one counter falls by its cost,
\* the other rises by what was paid.
LEMMA FinalizeAttemptInv ==
  ASSUME IndInv, NEW r \in Requests, NEW b \in Costs \cup {None}, FinalizeAttempt(r, b)
  PROVE  IndInv'
<1> USE LedgerConstants
<1> DEFINE a == run[r].cur
           t == hold[a].tenant
           c == hold[a].cost
           p == Amount(b)
           closed == IF b = None THEN "released" ELSE "settled"
<1>1. /\ run[r] \in HandlerRow /\ run \in [Requests -> HandlerRow]
      /\ a \in Attempts /\ att[a].state = "started" /\ att[a].req = r
      /\ hold[a].state = "reserved" /\ hold[a].paid = 0
      /\ t \in Tenants /\ c \in Nat
  BY DEF IndInv, TypeOK, RunOK, HoldShape, HoldFollowsAttempt, FinalizeAttempt, HoldRow
<1>2. p \in Nat /\ closed \in {"released", "settled"}
  BY DEF Amount
<1>3. /\ att' = [att EXCEPT ![a].state = "final", ![a].lease = 0]
      /\ acct[t].reserved >= c
      /\ hold' = [hold EXCEPT ![a].state = closed, ![a].paid = p]
      /\ acct' = [acct EXCEPT ![t].reserved = @ - c, ![t].settled = @ + p]
      /\ UNCHANGED <<req, usage>>
  BY <1>1 DEF FinalizeAttempt, CloseHold
<1>4. PICK row \in HandlerRow : /\ row.phase \in {"ready", "closing"}
                                /\ run' = [run EXCEPT ![r] = row]
  BY <1>1, DoneRow DEF FinalizeAttempt
<1>5. run[r].phase \in Live
  BY DEF FinalizeAttempt, Live
<1> HIDE DEF a, t, c, p, closed
<1>6. run' \in [Requests -> HandlerRow]
  BY <1>1, <1>3, <1>4
<1>7. att' \in [Attempts -> AttemptRow]
  <2>1. [att[a] EXCEPT !.state = "final", !.lease = 0] \in AttemptRow
    BY <1>1, ZenonT(60) DEF IndInv, TypeOK, AttemptRow
  <2> QED  BY <1>3, <2>1 DEF IndInv, TypeOK
<1>8. /\ hold' \in [Attempts -> HoldRow]
      /\ hold'[a].state = closed /\ hold'[a].paid = p
      /\ hold'[a].tenant = hold[a].tenant /\ hold'[a].cost = hold[a].cost
      /\ \A x \in Attempts \ {a} : hold'[x] = hold[x]
  <2>0. hold[a] \in HoldRow
    BY <1>1 DEF IndInv, TypeOK
  <2>1. LET h == [hold[a] EXCEPT !.state = closed, !.paid = p]
        IN  h \in HoldRow /\ h.state = closed /\ h.paid = p
            /\ h.tenant = hold[a].tenant /\ h.cost = hold[a].cost
    BY <1>2, <2>0 DEF HoldRow
  <2> QED  BY <1>1, <1>3, <2>1 DEF IndInv, TypeOK
<1>9. /\ acct' \in [Tenants -> AccountRow]
      /\ acct'[t].reserved = acct[t].reserved - c /\ acct'[t].settled = acct[t].settled + p
      /\ acct'[t].adjusted = acct[t].adjusted
      /\ \A s \in Tenants \ {t} : acct'[s] = acct[s]
  <2>0. acct[t] \in AccountRow /\ acct \in [Tenants -> AccountRow]
    BY <1>1 DEF IndInv, TypeOK
  <2>1. acct[t].reserved - c \in Nat /\ acct[t].settled + p \in Nat
    BY <1>1, <1>2, <1>3, <2>0 DEF AccountRow
  <2> DEFINE m == acct[t].reserved - c
             n == acct[t].settled + p
             new == [acct[t] EXCEPT !.reserved = m, !.settled = n]
  <2>2. acct' = [acct EXCEPT ![t] = new]
    BY <1>1, <1>3, <2>0
  <2> HIDE DEF m, n
  <2>3. new \in AccountRow /\ new.reserved = m /\ new.settled = n
        /\ new.adjusted = acct[t].adjusted
    BY <2>0, <2>1 DEF AccountRow, m, n
  <2> HIDE DEF new
  <2> QED  BY <1>1, <2>0, <2>2, <2>3 DEF m, n
<1>10. RunOK'
  <2>1. run'[r] = row /\ \A q \in Requests \ {r} : run'[q] = run[q]
    BY <1>1, <1>4
  <2>2. /\ att'[a].state = "final" /\ att'[a].req = r
        /\ \A y \in Attempts \ {a} : att'[y] = att[y]
    BY <1>1, <1>3 DEF IndInv, TypeOK, AttemptRow
  <2>3. req' = req /\ RunOK
    BY <1>3 DEF IndInv
  <2>4. \A q \in Requests \ {r} : run[q].phase \in InTransaction => run[q].cur # a
    BY <1>1, <2>3 DEF RunOK
  <2>5. \A q \in Requests \ {r} : run[q].phase = "inflight" => run[q].cur # a
    BY <1>1, <2>3 DEF RunOK
  <2> SUFFICES ASSUME NEW q \in Requests
               PROVE  /\ run'[q].phase \in Live => /\ req'[q].state # "absent"
                                                   /\ req'[q].tenant \in Tenants
                                                   /\ req'[q].user \in Users
                      /\ run'[q].phase \in InTransaction => /\ run'[q].cur \in Attempts
                                                            /\ att'[run'[q].cur].state = "pending"
                                                            /\ att'[run'[q].cur].req = q
                      /\ run'[q].phase = "locked" => run'[q].est \in Costs
                      /\ run'[q].phase = "inflight" =>
                             /\ run'[q].cur \in Attempts
                             /\ att'[run'[q].cur].state \notin {"absent", "pending"}
                             /\ att'[run'[q].cur].req = q
    BY DEF RunOK
  <2>6. CASE q = r
    BY <1>4, <1>5, <2>1, <2>2, <2>3, <2>6 DEF RunOK, Live, InTransaction
  <2>7. CASE q # r
    <3>1. run'[q] = run[q] /\ req'[q] = req[q]
      BY <2>1, <2>3, <2>7
    <3>2. run[q].cur \in Attempts /\ run[q].cur # a => att'[run[q].cur] = att[run[q].cur]
      BY <2>2
    <3> QED  BY <2>3, <2>4, <2>5, <2>7, <3>1, <3>2 DEF RunOK, Live, InTransaction
  <2> QED  BY <2>6, <2>7
<1>11. HoldShape' /\ HoldFollowsAttempt'
  <2>1. /\ att'[a].state = "final"
        /\ \A y \in Attempts \ {a} : att'[y] = att[y]
    BY <1>1, <1>3 DEF IndInv, TypeOK, AttemptRow
  <2> QED  BY <1>1, <1>2, <1>8, <2>1 DEF IndInv, HoldShape, HoldFollowsAttempt, t
<1>12. ReservedIsOpenHolds' /\ SettledIsPaidHolds'
  <2> SUFFICES ASSUME NEW s \in Tenants
               PROVE  /\ acct'[s].reserved = Total(HoldsOf(Attempts, s)')
                      /\ acct'[s].settled = Total(PaidBy(s)') + acct'[s].adjusted
    BY DEF ReservedIsOpenHolds, SettledIsPaidHolds
  <2> DEFINE d == IF s = t THEN c ELSE 0
             q == IF s = t THEN p ELSE 0
  <2>1. d \in Nat /\ q \in Nat
    BY <1>1, <1>2
  <2>2. /\ HoldsOf(Attempts, s)[a] = HoldsOf(Attempts, s)'[a] + d
        /\ \A x \in Attempts \ {a} : HoldsOf(Attempts, s)[x] = HoldsOf(Attempts, s)'[x]
    BY <1>1, <1>2, <1>8 DEF HoldsOf, t, c
  <2>3. /\ PaidBy(s)'[a] = PaidBy(s)[a] + q
        /\ \A x \in Attempts \ {a} : PaidBy(s)'[x] = PaidBy(s)[x]
    BY <1>1, <1>2, <1>8 DEF PaidBy, t
  <2>4. /\ acct'[s].reserved = acct[s].reserved - d
        /\ acct'[s].settled = acct[s].settled + q /\ acct'[s].adjusted = acct[s].adjusted
    BY <1>1, <1>2, <1>9 DEF IndInv, TypeOK, AccountRow
  <2> HIDE DEF d, q
  <2>5. /\ HoldsOf(Attempts, s) \in [Attempts -> Nat] /\ HoldsOf(Attempts, s)' \in [Attempts -> Nat]
        /\ PaidBy(s) \in [Attempts -> Nat] /\ PaidBy(s)' \in [Attempts -> Nat]
    BY <1>8, FamiliesType, FamiliesTypeNext DEF IndInv
  <2>6. Total(HoldsOf(Attempts, s)) = Total(HoldsOf(Attempts, s)') + d
    BY <1>1, <2>1, <2>2, <2>5, TotalRaise
  <2>7. Total(PaidBy(s)') = Total(PaidBy(s)) + q
    BY <1>1, <2>1, <2>3, <2>5, TotalRaise
  <2>8. /\ Total(HoldsOf(Attempts, s)') \in Nat
        /\ Total(PaidBy(s)) \in Nat /\ acct[s].adjusted \in Int
    BY <2>5, TotalNat DEF IndInv, TypeOK, AccountRow
  <2> QED  BY <2>1, <2>4, <2>6, <2>7, <2>8 DEF IndInv, ReservedIsOpenHolds, SettledIsPaidHolds
<1> QED  BY <1>3, <1>6, <1>7, <1>8, <1>9, <1>10, <1>11, <1>12 DEF IndInv, TypeOK

\* FinalizeRequest closes the request row and its usage reservation; holds are
\* closed by the attempts.
LEMMA FinalizeRequestInv ==
  ASSUME IndInv, NEW r \in Requests, FinalizeRequest(r)
  PROVE  IndInv'
<1> USE LedgerConstants DEF IndInv, TypeOK
<1> DEFINE row == [Idle EXCEPT !.phase = "done"]
           done == [req[r] EXCEPT !.state = "final", !.lease = 0,
                                  !.charged = run[r].sent, !.bill = run[r].bill]
<1>1. /\ req' = [req EXCEPT ![r] = done] /\ run' = [run EXCEPT ![r] = row]
      /\ UNCHANGED <<att, hold, acct>>
  BY DEF FinalizeRequest
<1>2. row \in HandlerRow /\ row.phase = "done"
  BY DEF HandlerRow, Live, Idle
<1>3. /\ done \in RequestRow /\ done.state = "final"
      /\ done.tenant = req[r].tenant /\ done.user = req[r].user
  <2>1. run[r].sent \in BOOLEAN /\ run[r].bill \in Nat /\ req[r] \in RequestRow
    BY DEF HandlerRow
  <2> QED  BY <2>1 DEF RequestRow
<1> HIDE DEF row, done
<1>4. req' \in [Requests -> RequestRow] /\ run' \in [Requests -> HandlerRow]
  BY <1>1, <1>2, <1>3
<1>5. usage' \in [Requests -> UsageRow]
  BY DEF FinalizeRequest, SettleUsage, UsageRow
<1>6. RunOK'
  BY <1>1, <1>2, <1>3, SMTT(60) DEF RunOK, Live, InTransaction
<1>7. HoldShape' /\ HoldFollowsAttempt'
  BY <1>1 DEF HoldShape, HoldFollowsAttempt
<1> QED  BY <1>1, <1>4, <1>5, <1>6, <1>7, SumsUnchanged

\* A row with another lease is a row, and is otherwise the same.
LEMMA LeaseRows ==
  ASSUME NEW n \in Nat
  PROVE  /\ \A x \in RequestRow : LET y == [x EXCEPT !.lease = n] IN
                /\ y \in RequestRow /\ y.state = x.state
                /\ y.tenant = x.tenant /\ y.user = x.user
         /\ \A x \in AttemptRow : LET y == [x EXCEPT !.lease = n] IN
                y \in AttemptRow /\ y.state = x.state /\ y.req = x.req
BY DEF RequestRow, AttemptRow

\* So is a row one tick older.
LEMMA ElapsedRows ==
  /\ \A x \in RequestRow : LET y == Elapse(x) IN
         y \in RequestRow /\ y.state = x.state /\ y.tenant = x.tenant /\ y.user = x.user
  /\ \A x \in AttemptRow : LET y == Elapse(x) IN
         y \in AttemptRow /\ y.state = x.state /\ y.req = x.req
<1>1. ASSUME NEW x \in RequestRow
      PROVE  LET y == Elapse(x) IN
             y \in RequestRow /\ y.state = x.state /\ y.tenant = x.tenant /\ y.user = x.user
  <2> DEFINE n == IF x.lease = 0 THEN 0 ELSE x.lease - 1
  <2>1. n \in Nat
    BY DEF RequestRow
  <2>2. Elapse(x) = [x EXCEPT !.lease = n]
    BY DEF Elapse
  <2> HIDE DEF n
  <2> QED  BY <2>1, <2>2, LeaseRows
<1>2. ASSUME NEW x \in AttemptRow
      PROVE  LET y == Elapse(x) IN
             y \in AttemptRow /\ y.state = x.state /\ y.req = x.req
  <2> DEFINE n == IF x.lease = 0 THEN 0 ELSE x.lease - 1
  <2>1. n \in Nat
    BY DEF AttemptRow
  <2>2. Elapse(x) = [x EXCEPT !.lease = n]
    BY DEF Elapse
  <2> HIDE DEF n
  <2> QED  BY <2>1, <2>2, LeaseRows
<1> QED  BY <1>1, <1>2

\* Heartbeats, the clock and retention change no state, owner or amount.
LEMMA LeaseInv ==
  ASSUME IndInv, (\E r \in Requests : RenewLease(r) \/ RetainRequest(r)) \/ Tick
  PROVE  IndInv'
<1> DEFINE ReqKept == /\ req' \in [Requests -> RequestRow]
                      /\ \A q \in Requests : /\ req'[q].state = req[q].state
                                             /\ req'[q].tenant = req[q].tenant
                                             /\ req'[q].user = req[q].user
           AttKept == /\ att' \in [Attempts -> AttemptRow]
                      /\ \A x \in Attempts : /\ att'[x].state = att[x].state
                                             /\ att'[x].req = att[x].req
<1> USE LedgerConstants DEF IndInv, TypeOK
<1>1. UNCHANGED <<usage, hold, acct, run>>
  BY DEF RenewLease, RetainRequest, Tick
<1>2. ReqKept /\ AttKept
  <2>1. CASE Tick
    BY <2>1, ElapsedRows DEF Tick
  <2>2. ASSUME NEW r \in Requests, RenewLease(r)
        PROVE  ReqKept /\ AttKept
    <3>1. req' = [req EXCEPT ![r] = [req[r] EXCEPT !.lease = LeaseTtl]]
      BY <2>2 DEF RenewLease
    <3>2. ReqKept
      BY <3>1, LeaseRows
    <3>3. AttKept
      BY <2>2, LeaseRows DEF RenewLease
    <3> QED  BY <3>2, <3>3
  <2>3. ASSUME NEW r \in Requests, RetainRequest(r)
        PROVE  ReqKept /\ AttKept
    BY <2>3 DEF RetainRequest, RequestRow
  <2> QED  BY <2>1, <2>2, <2>3
<1>3. RunOK'
  BY <1>1, <1>2, SMTT(60) DEF RunOK
<1>4. HoldShape' /\ HoldFollowsAttempt'
  BY <1>1, <1>2 DEF HoldShape, HoldFollowsAttempt
<1> QED  BY <1>1, <1>2, <1>3, <1>4, SumsUnchanged

\* A dropped or crashed handler takes back its uncommitted attempt and no other.
LEMMA StopInv ==
  ASSUME IndInv, NEW S \in SUBSET Requests, Stop(S)
  PROVE  IndInv'
<1> USE LedgerConstants DEF IndInv, TypeOK
<1> DEFINE row == [Idle EXCEPT !.phase = "gone"]
<1>1. /\ run' = [r \in Requests |-> IF r \in S THEN row ELSE run[r]]
      /\ UNCHANGED <<req, usage, hold, acct>>
  BY DEF Stop
<1>2. row \in HandlerRow /\ row.phase = "gone"
  BY DEF HandlerRow, Idle
<1> HIDE DEF row
<1>3. run' \in [Requests -> HandlerRow]
  BY <1>1, <1>2
<1>4. /\ att' \in [Attempts -> AttemptRow]
      /\ \A x \in Attempts :
             \/ att'[x] = att[x]
             \/ att[x].state = "pending" /\ att[x].req \in S /\ att'[x] = NoAttempt
  <2>1. NoAttempt \in AttemptRow
    BY DEF AttemptRow, NoAttempt
  <2>2. att' = [x \in Attempts |-> IF att[x].state = "pending" /\ att[x].req \in S
                                 THEN NoAttempt ELSE att[x]]
    BY DEF Stop
  <2>3. att \in [Attempts -> AttemptRow]
    OBVIOUS
  <2>4. \A x \in Attempts : att'[x] = IF att[x].state = "pending" /\ att[x].req \in S
                                    THEN NoAttempt ELSE att[x]
    BY <2>2, Zenon
  <2>5. \A x \in Attempts : att'[x] \in AttemptRow
    BY <2>1, <2>3, <2>4
  <2>6. att' \in [Attempts -> AttemptRow]
    BY <2>2, <2>5
  <2> QED  BY <2>4, <2>6
<1>5. RunOK'
  BY <1>1, <1>2, <1>4, SMTT(60) DEF RunOK, Live, InTransaction
<1>6. HoldShape' /\ HoldFollowsAttempt'
  BY <1>1, <1>4 DEF HoldShape, HoldFollowsAttempt, NoAttempt
<1> QED  BY <1>1, <1>3, <1>4, <1>5, <1>6, SumsUnchanged

\* The administrator changes limits, or settled spend with its adjustment.
LEMMA AdminInv ==
  ASSUME IndInv, NEW t \in Tenants,
         (\E l \in Limits \cup {None} : UpdateBudget(t, l)) \/ (\E d \in Deltas : AdjustBudget(t, d))
  PROVE  IndInv'
<1> USE LedgerConstants DEF IndInv, TypeOK
<1>1. UNCHANGED <<req, usage, att, hold, run>>
  BY DEF UpdateBudget, AdjustBudget
<1>2. /\ acct' \in [Tenants -> AccountRow]
      /\ \A s \in Tenants : /\ acct'[s].reserved = acct[s].reserved
                            /\ acct'[s].settled - acct'[s].adjusted
                                 = acct[s].settled - acct[s].adjusted
  <2>1. CASE \E l \in Limits \cup {None} : UpdateBudget(t, l)
    BY <2>1 DEF UpdateBudget, AccountRow
  <2>2. CASE \E d \in Deltas : AdjustBudget(t, d)
    <3>1. PICK d \in Deltas : AdjustBudget(t, d)
      BY <2>2
    <3> DEFINE m == acct[t].settled + d
               n == acct[t].adjusted + d
    <3>2. m \in Nat /\ n \in Int /\ m - n = acct[t].settled - acct[t].adjusted
      <4>1. d \in Int /\ acct[t].settled \in Nat /\ acct[t].adjusted \in Int
        BY DEF AccountRow
      <4>2. acct[t].settled + d \in 0 .. MaxSettled
        BY <3>1 DEF AdjustBudget
      <4> QED  BY <4>1, <4>2
    <3>3. acct' = [acct EXCEPT ![t].settled = m, ![t].adjusted = n]
      BY <3>1 DEF AdjustBudget
    <3> HIDE DEF m, n
    <3>4. [acct[t] EXCEPT !.settled = m, !.adjusted = n] \in AccountRow
      BY <3>2 DEF AccountRow
    <3> QED  BY <3>2, <3>3, <3>4 DEF AccountRow
  <2> QED  BY <2>1, <2>2
<1>3. RunOK' /\ HoldShape' /\ HoldFollowsAttempt'
  BY <1>1 DEF RunOK, HoldShape, HoldFollowsAttempt
<1>4. \A s \in Tenants : HoldsOf(Attempts, s)' = HoldsOf(Attempts, s) /\ PaidBy(s)' = PaidBy(s)
  BY <1>1 DEF HoldsOf, PaidBy
<1>5. ReservedIsOpenHolds'
  BY <1>2, <1>4 DEF ReservedIsOpenHolds
<1>6. SettledIsPaidHolds'
  <2> SUFFICES ASSUME NEW s \in Tenants
               PROVE  acct'[s].settled = Total(PaidBy(s)') + acct'[s].adjusted
    BY DEF SettledIsPaidHolds
  <2>1. Total(PaidBy(s)) \in Nat
    BY FamiliesType, TotalNat
  <2>2. /\ acct'[s].settled \in Nat /\ acct'[s].adjusted \in Int
        /\ acct[s].settled \in Nat /\ acct[s].adjusted \in Int
    BY <1>2 DEF AccountRow
  <2>3. acct[s].settled = Total(PaidBy(s)) + acct[s].adjusted
    BY DEF SettledIsPaidHolds
  <2>4. Total(PaidBy(s)') = Total(PaidBy(s))
    BY <1>4
  <2> QED  BY <1>2, <2>1, <2>2, <2>3, <2>4
<1> QED  BY <1>1, <1>2, <1>3, <1>5, <1>6

\* ReconcileExpired releases every expired hold at once: the rows of each tenant
\* split into those and the ones that stay.
LEMMA ReconcileInv ==
  ASSUME IndInv, ReconcileExpired
  PROVE  IndInv'
<1> USE LedgerConstants
<1> DEFINE E == ExpiredAttempts
<1>0. TypeOK /\ RunOK /\ HoldShape /\ HoldFollowsAttempt
  BY DEF IndInv
<1>1. \A x \in E : att[x].state = "started" /\ hold[x].state = "reserved"
  BY <1>0 DEF ExpiredAttempts, HoldFollowsAttempt
<1>2. /\ att' \in [Attempts -> AttemptRow]
      /\ \A x \in E : att'[x].state = "unreconciled" /\ att'[x].req = att[x].req
      /\ \A x \in Attempts \ E : att'[x] = att[x]
  <2>1. \A x \in AttemptRow : LET y == [x EXCEPT !.state = "unreconciled"] IN
            y \in AttemptRow /\ y.state = "unreconciled" /\ y.req = x.req
    BY DEF AttemptRow
  <2>2. att' = [a \in Attempts |-> IF a \in E THEN [att[a] EXCEPT !.state = "unreconciled"]
                                              ELSE att[a]]
    BY DEF ReconcileExpired
  <2>3. att \in [Attempts -> AttemptRow] /\ E \subseteq Attempts
    BY <1>0 DEF TypeOK, ExpiredAttempts
  <2> HIDE DEF E
  <2> QED  BY <2>1, <2>2, <2>3
<1>3. /\ hold' \in [Attempts -> HoldRow]
      /\ \A x \in E : /\ hold'[x].state = "released" /\ hold'[x].tenant = hold[x].tenant
                      /\ hold'[x].paid = hold[x].paid
      /\ \A x \in Attempts \ E : hold'[x] = hold[x]
  <2>1. \A x \in HoldRow : LET y == [x EXCEPT !.state = "released"] IN
            /\ y \in HoldRow /\ y.state = "released"
            /\ y.tenant = x.tenant /\ y.paid = x.paid
    BY DEF HoldRow
  <2>2. hold' = [a \in Attempts |-> IF a \in E THEN [hold[a] EXCEPT !.state = "released"]
                                               ELSE hold[a]]
    BY <1>1 DEF ReconcileExpired
  <2>3. hold \in [Attempts -> HoldRow] /\ E \subseteq Attempts
    BY <1>0 DEF TypeOK, ExpiredAttempts
  <2> HIDE DEF E
  <2> QED  BY <2>1, <2>2, <2>3
<1>4. /\ req' \in [Requests -> RequestRow]
      /\ \A q \in Requests : /\ req[q].state # "absent" => req'[q].state # "absent"
                             /\ req'[q].tenant = req[q].tenant /\ req'[q].user = req[q].user
  <2>1. \A x \in RequestRow : LET y == [x EXCEPT !.state = "unreconciled"] IN
            /\ y \in RequestRow /\ y.state = "unreconciled"
            /\ y.tenant = x.tenant /\ y.user = x.user
    BY DEF RequestRow
  <2> QED  BY <1>0, <2>1 DEF ReconcileExpired, TypeOK
<1>5. usage' \in [Requests -> UsageRow]
  <2>1. \A x \in UsageRow : [x EXCEPT !.state = "released"] \in UsageRow
    BY DEF UsageRow
  <2> QED  BY <1>0, <2>1 DEF ReconcileExpired, TypeOK
<1>6. RunOK'
  <2>1. \A x \in Attempts : /\ att'[x].req = att[x].req
                            /\ att[x].state = "pending" => att'[x].state = "pending"
                            /\ att[x].state \notin {"absent", "pending"}
                                  => att'[x].state \notin {"absent", "pending"}
    BY <1>1, <1>2
  <2>2. run' = run
    BY DEF ReconcileExpired
  <2> QED  BY <1>0, <1>4, <2>1, <2>2, ZenonT(60) DEF RunOK
<1>7. HoldShape' /\ HoldFollowsAttempt'
  BY <1>0, <1>1, <1>2, <1>3 DEF HoldShape, HoldFollowsAttempt
<1>8. ASSUME NEW s \in Tenants
      PROVE  /\ Total(HoldsOf(E, s)) \in Nat /\ Total(HoldsOf(Attempts, s)') \in Nat
             /\ Total(HoldsOf(Attempts, s)) = Total(HoldsOf(E, s)) + Total(HoldsOf(Attempts, s)')
             /\ PaidBy(s)' = PaidBy(s)
  <2> HIDE DEF E
  <2>1. /\ HoldsOf(Attempts, s) \in [Attempts -> Nat] /\ HoldsOf(E, s) \in [Attempts -> Nat]
        /\ HoldsOf(Attempts, s)' \in [Attempts -> Nat]
    BY <1>0, <1>3, FamiliesType, FamiliesTypeNext
  <2>2. \A x \in Attempts :
            \/ HoldsOf(E, s)[x] = 0 /\ HoldsOf(Attempts, s)[x] = HoldsOf(Attempts, s)'[x]
            \/ HoldsOf(Attempts, s)'[x] = 0 /\ HoldsOf(Attempts, s)[x] = HoldsOf(E, s)[x]
    BY <1>1, <1>3 DEF HoldsOf
  <2>3. PaidBy(s)' = PaidBy(s)
    BY <1>3 DEF PaidBy
  <2> QED  BY <2>1, <2>2, <2>3, TotalSplit, TotalNat
<1>9. ASSUME NEW s \in Tenants
      PROVE  /\ acct'[s] \in AccountRow
             /\ acct'[s].reserved = acct[s].reserved - Total(HoldsOf(E, s))
             /\ acct'[s].settled = acct[s].settled /\ acct'[s].adjusted = acct[s].adjusted
  <2> DEFINE m == acct[s].reserved - Total(HoldsOf(E, s))
  <2>1. acct'[s] = [acct[s] EXCEPT !.reserved = m]
    BY DEF ReconcileExpired
  <2>2. acct[s].reserved = Total(HoldsOf(Attempts, s))
    BY DEF IndInv, ReservedIsOpenHolds
  <2>3. m \in Nat
    <3> HIDE DEF E
    <3> QED  BY <1>8, <2>2
  <2> HIDE DEF m
  <2>4. acct[s] \in AccountRow
    BY <1>0 DEF TypeOK
  <2>5. LET y == [acct[s] EXCEPT !.reserved = m] IN
        /\ y \in AccountRow /\ y.reserved = m
        /\ y.settled = acct[s].settled /\ y.adjusted = acct[s].adjusted
    BY <2>3, <2>4 DEF AccountRow
  <2> QED  BY <2>1, <2>5 DEF m
<1>10. acct' \in [Tenants -> AccountRow]
  <2>1. acct' = [s \in Tenants |-> acct'[s]]
    BY DEF ReconcileExpired
  <2> HIDE DEF E
  <2> QED  BY <1>9, <2>1
<1>11. ReservedIsOpenHolds' /\ SettledIsPaidHolds'
  <2> HIDE DEF E
  <2> SUFFICES ASSUME NEW s \in Tenants
               PROVE  /\ acct'[s].reserved = Total(HoldsOf(Attempts, s)')
                      /\ acct'[s].settled = Total(PaidBy(s)') + acct'[s].adjusted
    BY DEF ReservedIsOpenHolds, SettledIsPaidHolds
  <2>1. /\ acct[s].reserved = Total(HoldsOf(Attempts, s))
        /\ acct[s].settled = Total(PaidBy(s)) + acct[s].adjusted
    BY DEF IndInv, ReservedIsOpenHolds, SettledIsPaidHolds
  <2> QED  BY <1>8, <1>9, <2>1
<1>12. run' \in [Requests -> HandlerRow]
  BY <1>0 DEF TypeOK, ReconcileExpired
<1> QED  BY <1>2, <1>3, <1>4, <1>5, <1>6, <1>7, <1>10, <1>11, <1>12 DEF IndInv, TypeOK

\* Every step keeps the inductive invariant.
LEMMA NextInv == IndInv /\ [Next]_vars => IndInv'
<1> SUFFICES ASSUME IndInv, [Next]_vars
             PROVE  IndInv'
  OBVIOUS
<1>1. ASSUME NEW r \in Requests, Handler(r)
      PROVE  IndInv'
  <2> QED  BY <1>1, ClaimAttemptInv, HandlerOnlyInv, CommitAttemptInv, AttemptFailsInv,
              FinalizeAttemptInv, FinalizeRequestInv DEF Handler
<1>2. ASSUME NEW r \in Requests, RenewLease(r) \/ Abandon(r) \/ RetainRequest(r)
      PROVE  IndInv'
  BY <1>2, LeaseInv, StopInv DEF Abandon
<1>3. CASE Crash
  BY <1>3, StopInv DEF Crash
<1>4. CASE UNCHANGED vars
  <2>1. ReservedIsOpenHolds' /\ SettledIsPaidHolds'
    BY <1>4, SumsUnchanged DEF vars, IndInv
  <2> QED  BY <1>4, <2>1 DEF vars, IndInv, TypeOK, RunOK, HoldShape, HoldFollowsAttempt
<1> QED  BY <1>1, <1>2, <1>3, <1>4, BeginRequestInv, LeaseInv, ReconcileInv, AdminInv DEF Next

\* Money is conserved in every behaviour of the ledger, for any tenants, users,
\* requests, attempts and amounts: the reserved counter is the sum of the open
\* reservations, settled spend is the sum of what was paid plus corrections, and
\* a reservation is open exactly while its attempt is.
THEOREM BudgetConservation ==
  Spec => [](TypeOK /\ ReservedIsOpenHolds /\ SettledIsPaidHolds /\ HoldFollowsAttempt)
<1>1. IndInv => TypeOK /\ ReservedIsOpenHolds /\ SettledIsPaidHolds /\ HoldFollowsAttempt
  BY DEF IndInv
<1> QED  BY InitInv, NextInv, <1>1, PTL DEF Spec
=============================================================================
