-------------------------- MODULE LedgerRefinement --------------------------
(***************************************************************************)
(* Ledger implements Budget: every step of the ledger is a step of the     *)
(* abstract budget, or leaves it alone.                                    *)
(***************************************************************************)
EXTENDS LedgerProofs

\* What the abstract budget holds for a tenant is what the tables reserve.
LEMMA HeldIsReserved ==
  ASSUME IndInv, NEW t \in Tenants
  PROVE  B!Held(t) = acct[t].reserved
<1> DEFINE held == [a \in Attempts |->
               IF BudgetHolds[a].state = "open" /\ BudgetHolds[a].tenant = t
               THEN BudgetHolds[a].cost ELSE 0]
<1>1. held = HoldsOf(Attempts, t)
  BY DEF IndInv, TypeOK, HoldRow, BudgetHolds, HoldStage, HoldsOf
<1>2. B!Held(t) = Total(held)
  <2>1. ASSUME NEW f
        PROVE  B!Total(f) = Total(f)
    BY Zenon DEF B!Total, B!Units, B!Cardinality, Total, Units, Cardinality
  <2>2. B!Held(t) = B!Total(held)
    BY DEF B!Held
  <2> QED  BY <2>1, <2>2
<1> HIDE DEF held
<1> QED  BY <1>1, <1>2 DEF IndInv, ReservedIsOpenHolds

\* Steps that touch neither reservations nor accounts are stuttering steps.
LEMMA Stutter ==
  ASSUME UNCHANGED <<hold, acct>>
  PROVE  UNCHANGED B!vars
BY DEF B!vars, BudgetLimit, BudgetSpent, BudgetHolds

\* A committed attempt places a hold that fits the limit.
LEMMA CommitPlaces ==
  ASSUME IndInv, NEW r \in Requests, CommitAttempt(r)
  PROVE  B!Next
<1> DEFINE a == run[r].cur
           t == req[r].tenant
           e == run[r].est
<1>1. /\ a \in Attempts /\ t \in Tenants /\ e \in Costs /\ hold[a].state = "none"
      /\ WithinLimit(t, e)
      /\ hold' = [hold EXCEPT ![a] = [state |-> "reserved", tenant |-> t, cost |-> e, paid |-> 0]]
      /\ acct' = [acct EXCEPT ![t].reserved = @ + e]
  BY DEF IndInv, RunOK, HoldFollowsAttempt, CommitAttempt, Live, InTransaction
<1> HIDE DEF a, t, e
<1>2. UNCHANGED <<BudgetLimit, BudgetSpent>>
  <2>1. \A s \in Tenants : acct'[s].limit = acct[s].limit /\ acct'[s].settled = acct[s].settled
    BY <1>1 DEF IndInv, TypeOK, AccountRow
  <2> QED  BY <2>1 DEF BudgetLimit, BudgetSpent
<1>3. BudgetHolds[a].state = "none"
  BY <1>1 DEF BudgetHolds, HoldStage
<1>4. BudgetHolds' = [BudgetHolds EXCEPT ![a] = [state |-> "open", tenant |-> t, cost |-> e]]
  BY <1>1 DEF IndInv, TypeOK, BudgetHolds, HoldStage
<1>5. BudgetLimit[t] # None => BudgetSpent[t] + B!Held(t) + e <= BudgetLimit[t]
  <2>1. B!Held(t) = acct[t].reserved
    BY <1>1, HeldIsReserved
  <2> QED  BY <1>1, <2>1 DEF WithinLimit, BudgetLimit, BudgetSpent
<1>6. B!Place(a, t, e)
  BY <1>2, <1>3, <1>4, <1>5 DEF B!Place
<1> QED  BY <1>1, <1>6 DEF B!Next

\* A finalised attempt settles its hold, or releases it when nothing is billable.
LEMMA FinalizeCloses ==
  ASSUME IndInv, NEW r \in Requests, NEW b \in Costs \cup {None}, FinalizeAttempt(r, b)
  PROVE  B!Next
<1> USE LedgerConstants
<1> DEFINE a == run[r].cur
           t == hold[a].tenant
           c == hold[a].cost
           closed == IF b = None THEN "released" ELSE "settled"
<1>1. /\ a \in Attempts /\ t \in Tenants /\ hold[a].state = "reserved" /\ hold[a] \in HoldRow
      /\ hold' = [hold EXCEPT ![a].state = closed, ![a].paid = Amount(b)]
      /\ acct' = [acct EXCEPT ![t].reserved = @ - c, ![t].settled = @ + Amount(b)]
  BY DEF IndInv, TypeOK, RunOK, HoldShape, HoldFollowsAttempt, FinalizeAttempt, CloseHold
<1>2. HoldStage(closed) = "closed"
  BY DEF HoldStage
<1>3. /\ hold'[a].state = closed /\ hold'[a].tenant = t /\ hold'[a].cost = c
      /\ \A x \in Attempts \ {a} : hold'[x] = hold[x]
  BY <1>1, ZenonT(60) DEF IndInv, TypeOK, HoldRow
<1> HIDE DEF a, t, c, closed
<1>4. BudgetHolds[a].state = "open" /\ BudgetHolds[a].tenant = t
  BY <1>1 DEF BudgetHolds, HoldStage, t
<1>5. /\ BudgetHolds' = [BudgetHolds EXCEPT ![a] = [BudgetHolds[a] EXCEPT !.state = "closed"]]
      /\ BudgetHolds' = [x \in Attempts |-> IF x \in {a}
                            THEN [BudgetHolds[x] EXCEPT !.state = "closed"] ELSE BudgetHolds[x]]
  <2>1. /\ BudgetHolds[a] = [state |-> "open", tenant |-> t, cost |-> c]
        /\ BudgetHolds'[a] = [state |-> "closed", tenant |-> t, cost |-> c]
        /\ \A x \in Attempts \ {a} : BudgetHolds'[x] = BudgetHolds[x]
    BY <1>1, <1>2, <1>3 DEF BudgetHolds, HoldStage, t, c
  <2>2. BudgetHolds'[a] = [BudgetHolds[a] EXCEPT !.state = "closed"]
    BY <2>1
  <2>3. /\ BudgetHolds = [x \in Attempts |-> BudgetHolds[x]]
        /\ BudgetHolds' = [x \in Attempts |-> BudgetHolds'[x]]
    BY DEF BudgetHolds
  <2> QED  BY <1>1, <2>1, <2>2, <2>3
<1>6. \A s \in Tenants : /\ acct'[s].limit = acct[s].limit
                         /\ acct'[s].settled = IF s = t THEN acct[s].settled + Amount(b)
                                                        ELSE acct[s].settled
  BY <1>1 DEF IndInv, TypeOK, AccountRow
<1>7. UNCHANGED BudgetLimit
  BY <1>6 DEF BudgetLimit
<1>8. CASE b = None
  <2>1. Amount(b) = 0 /\ \A s \in Tenants : acct[s].settled \in Nat
    BY <1>8 DEF Amount, IndInv, TypeOK, AccountRow
  <2>2. UNCHANGED BudgetSpent
    BY <1>6, <2>1 DEF BudgetSpent
  <2>3. B!Release({a})
    BY <1>4, <1>5, <1>7, <2>2 DEF B!Release, B!Closed
  <2> QED  BY <1>1, <2>3 DEF B!Next
<1>9. CASE b # None
  <2>1. Amount(b) = b /\ b \in Costs
    BY <1>9 DEF Amount
  <2>2. BudgetSpent' = [BudgetSpent EXCEPT ![t] = @ + b]
    BY <1>1, <1>6, <2>1 DEF BudgetSpent
  <2>3. B!Settle(a, b)
    BY <1>4, <1>5, <1>7, <2>2 DEF B!Settle, B!Closed
  <2> QED  BY <1>1, <2>1, <2>3 DEF B!Next
<1> QED  BY <1>8, <1>9

\* Reconciliation releases the holds of the expired attempts.
LEMMA ReconcileReleases ==
  ASSUME IndInv, ReconcileExpired
  PROVE  B!Next
<1> DEFINE E == ExpiredAttempts
<1>1. E \subseteq Attempts /\ \A x \in E : hold[x].state = "reserved"
  BY DEF IndInv, HoldFollowsAttempt, ExpiredAttempts
<1>2. hold' = [x \in Attempts |-> IF x \in E THEN [hold[x] EXCEPT !.state = "released"]
                                             ELSE hold[x]]
  BY <1>1 DEF ReconcileExpired
<1>3. \A x \in Attempts : LET h == [hold[x] EXCEPT !.state = "released"] IN
          h.state = "released" /\ h.tenant = hold[x].tenant /\ h.cost = hold[x].cost
  BY DEF IndInv, TypeOK, HoldRow
<1>4. \A s \in Tenants : acct'[s].limit = acct[s].limit /\ acct'[s].settled = acct[s].settled
  BY DEF ReconcileExpired, IndInv, TypeOK, AccountRow
<1> HIDE DEF E
<1>5. \A x \in E : BudgetHolds[x].state = "open"
  BY <1>1 DEF BudgetHolds, HoldStage
<1>6. BudgetHolds' = [x \in Attempts |-> IF x \in E
                          THEN [BudgetHolds[x] EXCEPT !.state = "closed"] ELSE BudgetHolds[x]]
  BY <1>2, <1>3 DEF BudgetHolds, HoldStage
<1>7. UNCHANGED <<BudgetLimit, BudgetSpent>>
  BY <1>4 DEF BudgetLimit, BudgetSpent
<1>8. B!Release(E)
  BY <1>5, <1>6, <1>7 DEF B!Release, B!Closed
<1> QED  BY <1>1, <1>8 DEF B!Next

\* Administration sets a limit or corrects settled spend.
LEMMA AdminSteps ==
  ASSUME IndInv, NEW t \in Tenants,
         (\E l \in Limits \cup {None} : UpdateBudget(t, l)) \/ (\E d \in Deltas : AdjustBudget(t, d))
  PROVE  B!Next
<1> USE LedgerConstants
<1>1. ASSUME NEW l \in Limits \cup {None}, UpdateBudget(t, l)
      PROVE  B!Next
  <2>1. UNCHANGED BudgetSpent /\ BudgetLimit' = [BudgetLimit EXCEPT ![t] = l]
    BY <1>1 DEF UpdateBudget, BudgetSpent, BudgetLimit, IndInv, TypeOK, AccountRow
  <2>2. UNCHANGED BudgetHolds
    BY <1>1 DEF UpdateBudget, BudgetHolds
  <2>3. B!SetLimit(t, l)
    BY <2>1, <2>2 DEF B!SetLimit
  <2> QED  BY <2>3 DEF B!Next
<1>2. ASSUME NEW d \in Deltas, AdjustBudget(t, d)
      PROVE  B!Next
  <2>0. \A s \in Tenants : /\ acct'[s].limit = acct[s].limit
                           /\ acct'[s].settled = IF s = t THEN acct[s].settled + d
                                                          ELSE acct[s].settled
    <3>1. acct[t] \in AccountRow /\ d \in Int
      BY DEF IndInv, TypeOK
    <3>2. LET row == [acct[t] EXCEPT !.settled = @ + d, !.adjusted = @ + d]
          IN  row.limit = acct[t].limit /\ row.settled = acct[t].settled + d
      BY <3>1 DEF AccountRow
    <3>3. acct' = [acct EXCEPT ![t] = [acct[t] EXCEPT !.settled = @ + d, !.adjusted = @ + d]]
      BY <1>2 DEF AdjustBudget, IndInv, TypeOK
    <3> QED  BY <3>2, <3>3 DEF IndInv, TypeOK
  <2>1. UNCHANGED BudgetLimit /\ BudgetSpent' = [BudgetSpent EXCEPT ![t] = @ + d]
    BY <2>0 DEF BudgetSpent, BudgetLimit
  <2>2. UNCHANGED BudgetHolds
    BY <1>2 DEF AdjustBudget, BudgetHolds
  <2>3. BudgetSpent[t] + d >= 0
    <3>1. acct[t].settled + d \in 0 .. MaxSettled
      BY <1>2 DEF AdjustBudget
    <3> QED  BY <3>1 DEF BudgetSpent
  <2>4. B!Correct(t, d)
    BY <2>1, <2>2, <2>3 DEF B!Correct
  <2> QED  BY <2>4 DEF B!Next
<1> QED  BY <1>1, <1>2

\* The ledger implements the abstract budget for any tenants, users, requests,
\* attempts and amounts: a hold is placed only if everything truly spent and held
\* fits the limit at that moment, and is closed exactly once.
THEOREM LedgerImplementsBudget == Spec => ImplementsBudget
<1>1. Init => B!Init
  BY DEF Init, B!Init, BudgetLimit, BudgetSpent, BudgetHolds, NoHold, HoldStage
<1>2. IndInv /\ [Next]_vars => [B!Next]_(B!vars)
  <2> SUFFICES ASSUME IndInv, [Next]_vars
               PROVE  B!Next \/ UNCHANGED B!vars
    BY DEF B!vars
  <2>1. ASSUME NEW r \in Requests, Handler(r)
        PROVE  B!Next \/ UNCHANGED B!vars
    <3>1. \/ UNCHANGED <<hold, acct>>
          \/ CommitAttempt(r)
          \/ \E b \in Costs \cup {None} : FinalizeAttempt(r, b)
      BY <2>1 DEF Handler, ClaimAttempt, ClaimRefused, AdmitUsage, AttemptFails,
                  FinalizeAttemptLost, FinalizeRequest, FinalizeRequestLost
    <3> QED  BY <3>1, Stutter, CommitPlaces, FinalizeCloses
  <2>2. CASE UNCHANGED <<hold, acct>>
    BY <2>2, Stutter
  <2>3. \/ UNCHANGED <<hold, acct>>
        \/ \E r \in Requests : Handler(r)
        \/ ReconcileExpired
        \/ \E t \in Tenants : \/ \E l \in Limits \cup {None} : UpdateBudget(t, l)
                              \/ \E d \in Deltas : AdjustBudget(t, d)
    BY DEF Next, vars, BeginRequest, RenewLease, Abandon, RetainRequest, Tick, Crash, Stop
  <2> QED  BY <2>1, <2>2, <2>3, ReconcileReleases, AdminSteps
<1> QED  BY InitInv, NextInv, <1>1, <1>2, PTL DEF Spec, ImplementsBudget, B!Spec
=============================================================================
