------------------------------- MODULE Ledger -------------------------------
(***************************************************************************)
(* The enterprise ledger of the gateway: src/enterprise_ledger.rs over the *)
(* tables of migrations 0001, 0002, 0003 and 0010.                         *)
(*                                                                         *)
(* One row of each table is a record:                                      *)
(*   req    modelport_gateway_requests        (one per logical request)    *)
(*   usage  modelport_usage_reservations      (at most one per request)    *)
(*   att    modelport_provider_attempts       (one per upstream attempt)   *)
(*   hold   modelport_budget_reservations     (one per attempt)            *)
(*   acct   modelport_budget_accounts         (one per tenant)             *)
(* and run is what the gateway process holds for a request: how far its    *)
(* handler is, and the totals it will report.                              *)
(*                                                                         *)
(* Every transaction but one is a single step: its statements are guarded  *)
(* by row locks it takes first.  begin_attempt is three steps (claim,      *)
(* admit, commit), because the row it reads first is not locked and other  *)
(* transactions can commit between its statements.                         *)
(*                                                                         *)
(* Time: a lease is the number of ticks until lease_expires_at, and is     *)
(* expired at 0.  Rows of terminal requests and attempts keep no lease.    *)
(***************************************************************************)
EXTENDS Integers, FiniteSets, Sums

CONSTANTS
    Tenants,      \* organization / project / environment triples
    Users,        \* quota subjects: the principal a request is made for
    Requests,     \* identities of logical requests
    Attempts,     \* identities of provider attempts
    Keys,         \* idempotency keys
    None,         \* SQL NULL
    Costs,        \* amounts an estimate or a provider charge can take
    Limits,       \* amounts a budget limit can take
    Deltas,       \* manual adjustments of settled spend
    Quota,        \* Quota[u]: hard limit of user u, or None
    LeaseTtl,     \* ticks a lease lasts
    MaxSettled,   \* bound on settled spend reached through adjustments
    Overrun       \* may a provider charge exceed the reserved estimate?

ASSUME LedgerConstants ==
    /\ IsFiniteSet(Requests) /\ IsFiniteSet(Attempts)
    /\ Costs \subseteq Nat
    /\ Limits \subseteq Nat
    /\ Deltas \subseteq Int
    /\ None \notin Nat \cup Requests \cup Attempts \cup Keys \cup Tenants \cup Users
    /\ Quota \in [Users -> Nat \cup {None}]
    /\ LeaseTtl \in Nat \ {0}
    /\ MaxSettled \in Nat
    /\ Overrun \in BOOLEAN

VARIABLES req, usage, att, hold, acct, run

vars == <<req, usage, att, hold, acct, run>>

-----------------------------------------------------------------------------
(* Rows before they exist, and what a handler holds before it runs.        *)

NoRequest == [state |-> "absent", tenant |-> None, user |-> None, key |-> None,
              lease |-> 0, charged |-> FALSE, bill |-> 0]
NoUsage   == [state |-> "none", cost |-> 0]
NoAttempt == [state |-> "absent", req |-> None, lease |-> 0]
NoHold    == [state |-> "none", tenant |-> None, cost |-> 0, paid |-> 0]
Idle      == [phase |-> "none", cur |-> None, est |-> 0, sent |-> FALSE, bill |-> 0]

\* The phases in which a handler (and its lease heartbeat) is alive.
Live == {"ready", "claimed", "locked", "inflight", "closing"}

\* Phases inside begin_attempt's transaction, before its commit.
InTransaction == {"claimed", "locked"}

Init ==
    /\ req   = [r \in Requests |-> NoRequest]
    /\ usage = [r \in Requests |-> NoUsage]
    /\ att   = [a \in Attempts |-> NoAttempt]
    /\ hold  = [a \in Attempts |-> NoHold]
    /\ acct  = [t \in Tenants |-> [limit |-> None, reserved |-> 0,
                                   settled |-> 0, adjusted |-> 0]]
    /\ run   = [r \in Requests |-> Idle]

-----------------------------------------------------------------------------
(* begin_request: the insert is refused by the partial unique index on     *)
(* (tenant, idempotency key); the caller then gets IdempotencyConflict and *)
(* nothing changes.                                                        *)

\* Mutant: the index covers open requests only.
KeyFreeAmongOpen(t, k) ==
    k # None => \A q \in Requests :
                    ~(req[q].tenant = t /\ req[q].key = k /\ req[q].state = "started")

KeyFree(t, k) ==
    k # None => \A q \in Requests : ~(req[q].tenant = t /\ req[q].key = k)

BeginRequest(r, t, u, k) ==
    /\ req[r].state = "absent"
    /\ KeyFree(t, k)
    /\ req' = [req EXCEPT ![r] = [state |-> "started", tenant |-> t, user |-> u,
                                  key |-> k, lease |-> LeaseTtl,
                                  charged |-> FALSE, bill |-> 0]]
    /\ run' = [run EXCEPT ![r] = [Idle EXCEPT !.phase = "ready"]]
    /\ UNCHANGED <<usage, att, hold, acct>>

-----------------------------------------------------------------------------
(* begin_attempt, in one transaction of three steps.                       *)

\* INSERT ... SELECT from the request row, which must still be 'started'.
\* The row is only read: later statements do not hold it.
ClaimAttempt(r, a) ==
    /\ run[r].phase = "ready"
    /\ att[a].state = "absent"
    /\ req[r].state = "started"
    /\ att' = [att EXCEPT ![a] = [state |-> "pending", req |-> r, lease |-> LeaseTtl]]
    /\ run' = [run EXCEPT ![r].phase = "claimed", ![r].cur = a]
    /\ UNCHANGED <<req, usage, hold, acct>>

\* No row selected: the handler leaves its attempt loop.
ClaimRefused(r) ==
    /\ run[r].phase = "ready"
    /\ req[r].state \notin {"absent", "started"}
    /\ run' = [run EXCEPT ![r].phase = "closing"]
    /\ UNCHANGED <<req, usage, att, hold, acct>>

\* Usage counted against a user: billable cost of chargeable terminal requests,
\* and the estimates of open reservations.
ChargedTo(u) == [r \in Requests |->
    IF req[r].user = u /\ req[r].state # "started" /\ req[r].charged THEN req[r].bill ELSE 0]
OpenUsage(u) == [r \in Requests |->
    IF req[r].user = u /\ usage[r].state = "reserved" THEN usage[r].cost ELSE 0]
UsedBy(u) == Total(ChargedTo(u)) + Total(OpenUsage(u))

Limited(r) == Quota[req[r].user] # None

\* Mutant: no advisory lock.
ScopeUnlocked(r) == TRUE

\* The advisory lock on the user's scope is held until the transaction ends.
ScopeFree(r) ==
    Limited(r) => \A q \in Requests \ {r} :
                      ~(run[q].phase = "locked" /\ req[q].user = req[r].user)

UsageAdmits(r, e) ==
    Limited(r) => /\ usage[r].state \in {"none", "reserved"}
                  /\ e > 0 => UsedBy(req[r].user) + e <= Quota[req[r].user]

\* reserve_usage_capacity_pg and the pricing checks; e is the local estimate.
AdmitUsage(r, e) ==
    /\ run[r].phase = "claimed"
    /\ ScopeFree(r)
    /\ UsageAdmits(r, e)
    /\ run' = [run EXCEPT ![r].phase = "locked", ![r].est = e]
    /\ UNCHANGED <<req, usage, att, hold, acct>>

\* Mutant: open reservations are not counted.
WithinSettled(t, e) ==
    acct[t].limit # None => acct[t].settled + e <= acct[t].limit

WithinLimit(t, e) ==
    acct[t].limit # None => acct[t].settled + acct[t].reserved + e <= acct[t].limit

\* Conditional update of the account, the reservation row, commit.  When the
\* answer to the commit is lost the handler sees an error and sends nothing.
CommitAttempt(r) ==
    LET a == run[r].cur
        t == req[r].tenant
        e == run[r].est
    IN  /\ run[r].phase = "locked"
        /\ WithinLimit(t, e)
        /\ att'  = [att EXCEPT ![a].state = "started"]
        /\ hold' = [hold EXCEPT ![a] = [state |-> "reserved", tenant |-> t,
                                        cost |-> e, paid |-> 0]]
        /\ acct' = [acct EXCEPT ![t].reserved = @ + e]
        /\ usage' = IF Limited(r)
                    THEN [usage EXCEPT ![r] = [state |-> "reserved", cost |-> @.cost + e]]
                    ELSE usage
        /\ \/ run' = [run EXCEPT ![r].phase = "inflight", ![r].sent = TRUE, ![r].est = 0]
           \/ run' = [run EXCEPT ![r].phase = "closing", ![r].cur = None, ![r].est = 0]
        /\ UNCHANGED req

\* Quota, budget or pricing refused, or the database failed: roll back.
AttemptFails(r) ==
    /\ run[r].phase \in InTransaction
    /\ att' = [att EXCEPT ![run[r].cur] = NoAttempt]
    /\ run' = [run EXCEPT ![r].phase = "closing", ![r].cur = None, ![r].est = 0]
    /\ UNCHANGED <<req, usage, hold, acct>>

-----------------------------------------------------------------------------
(* finalize_attempt and finalize_request_usage.  b is the billable cost    *)
(* the attempt ended with; None when only the local estimate is known.     *)

Amount(b) == IF b = None THEN 0 ELSE b

Charges(e) == {None} \cup {b \in Costs : Overrun \/ b <= e}

\* Mutant: gives back what was charged, not what was reserved.
CloseHoldByCharge(a, b) ==
    LET t == hold[a].tenant
    IN  /\ hold[a].state = "reserved"
        /\ acct[t].reserved >= Amount(b)
        /\ hold' = [hold EXCEPT ![a].state = IF b = None THEN "released" ELSE "settled",
                                ![a].paid = Amount(b)]
        /\ acct' = [acct EXCEPT ![t].reserved = @ - Amount(b),
                                ![t].settled = @ + Amount(b)]

\* Mutant: settles the estimate, not the charge.
CloseHoldAtEstimate(a, b) ==
    LET t == hold[a].tenant
    IN  /\ hold[a].state = "reserved"
        /\ acct[t].reserved >= hold[a].cost
        /\ hold' = [hold EXCEPT ![a].state = IF b = None THEN "released" ELSE "settled",
                                ![a].paid = Amount(b)]
        /\ acct' = [acct EXCEPT ![t].reserved = @ - hold[a].cost,
                                ![t].settled = @ + hold[a].cost]

\* settle_budget_pg when a billable cost is known, release_budget_pg otherwise.
CloseHold(a, b) ==
    LET t == hold[a].tenant
    IN  /\ hold[a].state = "reserved"
        /\ acct[t].reserved >= hold[a].cost
        /\ hold' = [hold EXCEPT ![a].state = IF b = None THEN "released" ELSE "settled",
                                ![a].paid = Amount(b)]
        /\ acct' = [acct EXCEPT ![t].reserved = @ - hold[a].cost,
                                ![t].settled = @ + Amount(b)]

\* What the handler does next, whether or not the ledger took the outcome: it goes
\* on with the charge in its totals, or, for an error that ends the attempt loop,
\* stops without it.
AttemptDone(r, b) ==
    \/ run' = [run EXCEPT ![r].phase = "ready", ![r].cur = None, ![r].bill = @ + Amount(b)]
    \/ run' = [run EXCEPT ![r].phase = "closing", ![r].cur = None]

FinalizeAttempt(r, b) ==
    LET a == run[r].cur
    IN  /\ run[r].phase = "inflight"
        /\ b \in Charges(hold[a].cost)
        /\ att[a].state = "started"
        /\ att' = [att EXCEPT ![a].state = "final", ![a].lease = 0]
        /\ CloseHold(a, b)
        /\ AttemptDone(r, b)
        /\ UNCHANGED <<req, usage>>

\* The attempt is already terminal (no-op), or the transaction failed and the
\* error was only logged.
FinalizeAttemptLost(r, b) ==
    /\ run[r].phase = "inflight"
    /\ b \in Charges(hold[run[r].cur].cost)
    /\ AttemptDone(r, b)
    /\ UNCHANGED <<req, usage, att, hold, acct>>

\* settle_usage_reservation_pg
SettleUsage(r, charged) ==
    usage' = [usage EXCEPT ![r].state =
                  IF @ # "reserved" THEN @ ELSE IF charged THEN "settled" ELSE "released"]

\* Mutant: finalises whatever the request's state is.
FinalizeRequestLate(r) ==
    /\ run[r].phase \in {"ready", "closing"}
    /\ req' = [req EXCEPT ![r].state = "final", ![r].lease = 0,
                          ![r].charged = run[r].sent, ![r].bill = run[r].bill]
    /\ SettleUsage(r, run[r].sent)
    /\ run' = [run EXCEPT ![r] = [Idle EXCEPT !.phase = "done"]]
    /\ UNCHANGED <<att, hold, acct>>

FinalizeRequest(r) ==
    /\ run[r].phase \in {"ready", "closing"}
    /\ req[r].state = "started"
    /\ req' = [req EXCEPT ![r].state = "final", ![r].lease = 0,
                          ![r].charged = run[r].sent, ![r].bill = run[r].bill]
    /\ SettleUsage(r, run[r].sent)
    /\ run' = [run EXCEPT ![r] = [Idle EXCEPT !.phase = "done"]]
    /\ UNCHANGED <<att, hold, acct>>

\* The request is no longer open, or the transaction failed: logged only.
FinalizeRequestLost(r) ==
    /\ run[r].phase \in {"ready", "closing"}
    /\ run' = [run EXCEPT ![r] = [Idle EXCEPT !.phase = "done"]]
    /\ UNCHANGED <<req, usage, att, hold, acct>>

-----------------------------------------------------------------------------
(* Leases: heartbeat, time, reconciliation.                                *)

\* renew_lease: the request row and its open attempts; refused once the
\* request is terminal.
RenewLease(r) ==
    /\ run[r].phase \in Live
    /\ req[r].state = "started"
    /\ req' = [req EXCEPT ![r].lease = LeaseTtl]
    /\ att' = [a \in Attempts |-> IF att[a].req = r /\ att[a].state = "started"
                                  THEN [att[a] EXCEPT !.lease = LeaseTtl] ELSE att[a]]
    /\ UNCHANGED <<usage, hold, acct, run>>

Elapse(row) == [row EXCEPT !.lease = IF @ = 0 THEN 0 ELSE @ - 1]

Tick ==
    /\ \/ \E r \in Requests : req[r].lease > 0
       \/ \E a \in Attempts : att[a].lease > 0
    /\ req' = [r \in Requests |-> Elapse(req[r])]
    /\ att' = [a \in Attempts |-> Elapse(att[a])]
    /\ UNCHANGED <<usage, hold, acct, run>>

\* Mutants: finished attempts expire too; attempts of ended requests, or requests
\* without an attempt, are not looked for.
ExpiredOrFinal == {a \in Attempts : att[a].state \in {"started", "final"} /\ att[a].lease = 0}

ExpiredAttempts == {a \in Attempts : att[a].state = "started" /\ att[a].lease = 0}
ExpiredRequests == {r \in Requests : req[r].state = "started" /\ req[r].lease = 0}

\* begin_attempt holds the reservation row it found (SELECT ... FOR UPDATE).
UsageRowLocked(r) == run[r].phase = "locked" /\ Limited(r) /\ usage[r].state = "reserved"

HoldsOf(S, t) == [a \in Attempts |->
    IF a \in S /\ hold[a].state = "reserved" /\ hold[a].tenant = t THEN hold[a].cost ELSE 0]

\* reconcile_expired: one transaction over everything that has expired.
ReconcileExpired ==
    /\ ExpiredAttempts \cup ExpiredRequests # {}
    /\ \A r \in ExpiredRequests : ~UsageRowLocked(r)
    /\ att' = [a \in Attempts |-> IF a \in ExpiredAttempts
                                  THEN [att[a] EXCEPT !.state = "unreconciled"] ELSE att[a]]
    /\ hold' = [a \in Attempts |-> IF a \in ExpiredAttempts /\ hold[a].state = "reserved"
                                   THEN [hold[a] EXCEPT !.state = "released"] ELSE hold[a]]
    /\ acct' = [t \in Tenants |-> [acct[t] EXCEPT
                                   !.reserved = @ - Total(HoldsOf(ExpiredAttempts, t))]]
    /\ req' = [r \in Requests |-> IF r \in ExpiredRequests
                                  THEN [req[r] EXCEPT !.state = "unreconciled"] ELSE req[r]]
    /\ usage' = [r \in Requests |-> IF r \in ExpiredRequests /\ usage[r].state = "reserved"
                                    THEN [usage[r] EXCEPT !.state = "released"] ELSE usage[r]]
    /\ UNCHANGED run

-----------------------------------------------------------------------------
(* The handler's future is dropped (client gone) or the process crashes:   *)
(* its heartbeat stops and a transaction in progress rolls back.           *)

Stop(S) ==
    /\ att' = [a \in Attempts |-> IF att[a].state = "pending" /\ att[a].req \in S
                                  THEN NoAttempt ELSE att[a]]
    /\ run' = [r \in Requests |-> IF r \in S THEN [Idle EXCEPT !.phase = "gone"] ELSE run[r]]
    /\ UNCHANGED <<req, usage, hold, acct>>

Abandon(r) == run[r].phase \in Live /\ Stop({r})

Crash ==
    LET S == {r \in Requests : run[r].phase \in Live}
    IN  S # {} /\ Stop(S)

-----------------------------------------------------------------------------
(* Administration: budget limit, manual adjustment, detail retention.      *)

UpdateBudget(t, l) ==
    /\ acct' = [acct EXCEPT ![t].limit = l]
    /\ UNCHANGED <<req, usage, att, hold, run>>

\* Mutant: a correction may make settled spend negative.
AdjustBudgetUnchecked(t, d) ==
    /\ acct[t].settled + d <= MaxSettled
    /\ acct' = [acct EXCEPT ![t].settled = @ + d, ![t].adjusted = @ + d]
    /\ UNCHANGED <<req, usage, att, hold, run>>

AdjustBudget(t, d) ==
    /\ acct[t].settled + d \in 0 .. MaxSettled
    /\ acct' = [acct EXCEPT ![t].settled = @ + d, ![t].adjusted = @ + d]
    /\ UNCHANGED <<req, usage, att, hold, run>>

\* run_retention clears the idempotency key of old terminal requests.
RetainRequest(r) ==
    /\ req[r].state \in {"final", "unreconciled"}
    /\ req' = [req EXCEPT ![r].key = None]
    /\ UNCHANGED <<usage, att, hold, acct, run>>

-----------------------------------------------------------------------------
Handler(r) ==
    \/ \E a \in Attempts : ClaimAttempt(r, a)
    \/ ClaimRefused(r)
    \/ \E e \in Costs : AdmitUsage(r, e)
    \/ CommitAttempt(r)
    \/ AttemptFails(r)
    \/ \E b \in Costs \cup {None} : FinalizeAttempt(r, b) \/ FinalizeAttemptLost(r, b)
    \/ FinalizeRequest(r)
    \/ FinalizeRequestLost(r)

Next ==
    \/ \E r \in Requests, t \in Tenants, u \in Users, k \in Keys \cup {None} :
           BeginRequest(r, t, u, k)
    \/ \E r \in Requests : Handler(r) \/ RenewLease(r) \/ Abandon(r) \/ RetainRequest(r)
    \/ Tick
    \/ ReconcileExpired
    \/ Crash
    \/ \E t \in Tenants : \/ \E l \in Limits \cup {None} : UpdateBudget(t, l)
                          \/ \E d \in Deltas : AdjustBudget(t, d)

Spec == Init /\ [][Next]_vars

\* The reconciler is spawned at start-up and loops; wall-clock time passes; a
\* handler's awaits are bounded by upstream and database timeouts.
Fairness ==
    /\ WF_vars(Tick)
    /\ WF_vars(ReconcileExpired)
    /\ \A r \in Requests : WF_vars(Handler(r))

FairSpec == Spec /\ Fairness

-----------------------------------------------------------------------------
(* Correctness.                                                            *)

RequestRow == [state : {"absent", "started", "final", "unreconciled"},
               tenant : Tenants \cup {None}, user : Users \cup {None},
               key : Keys \cup {None}, lease : Nat,
               charged : BOOLEAN, bill : Nat]
UsageRow   == [state : {"none", "reserved", "settled", "released"}, cost : Nat]
AttemptRow == [state : {"absent", "pending", "started", "final", "unreconciled"},
               req : Requests \cup {None}, lease : Nat]
HoldRow    == [state : {"none", "reserved", "settled", "released"},
               tenant : Tenants \cup {None}, cost : Nat, paid : Nat]
AccountRow == [limit : Nat \cup {None}, reserved : Nat, settled : Nat, adjusted : Int]
HandlerRow == [phase : {"none", "done", "gone"} \cup Live, cur : Attempts \cup {None},
               est : Nat, sent : BOOLEAN, bill : Nat]

\* Every row of every table, and every handler record, has its type: counters
\* of the accounts never go below zero, as the tables' CHECK constraints demand.
TypeOK ==
    /\ req \in [Requests -> RequestRow]
    /\ usage \in [Requests -> UsageRow]
    /\ att \in [Attempts -> AttemptRow]
    /\ hold \in [Attempts -> HoldRow]
    /\ acct \in [Tenants -> AccountRow]
    /\ run \in [Requests -> HandlerRow]

\* Budget conservation: the reserved counter of an account, kept by increments
\* and decrements in begin_attempt, finalize_attempt and reconcile_expired, is
\* at all times the sum of the tenant's open reservation rows.
ReservedIsOpenHolds ==
    \A t \in Tenants : acct[t].reserved = Total(HoldsOf(Attempts, t))

PaidBy(t) == [a \in Attempts |-> IF hold[a].tenant = t THEN hold[a].paid ELSE 0]

\* Settled spend of an account is what its reservations were settled for plus
\* the manual adjustments: no settlement is lost or counted twice, whichever of
\* the handler and the reconciler closes the reservation.
SettledIsPaidHolds ==
    \A t \in Tenants : acct[t].settled = Total(PaidBy(t)) + acct[t].adjusted

\* A budget reservation is open exactly while its attempt is; an attempt that
\* the reconciler closed is never settled, whatever its handler reports later.
HoldFollowsAttempt ==
    \A a \in Attempts :
        /\ hold[a].state = "none" <=> att[a].state \in {"absent", "pending"}
        /\ hold[a].state = "reserved" <=> att[a].state = "started"
        /\ att[a].state = "unreconciled" => hold[a].state = "released"

\* Two logical requests of a tenant never hold the same idempotency key, and a
\* key is free again only after retention cleared it.
OneRequestPerKey ==
    \A q, r \in Requests :
        req[q].key # None /\ req[q].key = req[r].key /\ req[q].tenant = req[r].tenant => q = r

\* A usage reservation is settled only by the finalisation of a request that sent
\* something, and released only when nothing was sent or the request expired: a
\* late handler never turns expired work into settled usage.
UsageFollowsRequest ==
    \A r \in Requests :
        /\ usage[r].state = "settled" => req[r].state = "final" /\ req[r].charged
        /\ usage[r].state = "released" =>
               req[r].state = "unreconciled" \/ (req[r].state = "final" /\ ~req[r].charged)
        /\ usage[r].state = "reserved" => req[r].state # "final"

\* Hard usage limits survive concurrency: when no provider charges more than
\* the estimate, settled plus reserved usage of a user never passes the limit,
\* although estimates are admitted, settled and expired by different
\* transactions.
QuotaNeverExceeded ==
    Overrun \/ \A u \in Users : Quota[u] # None => UsedBy(u) <= Quota[u]


\* The abstract budget that the tables represent.
BudgetLimit == [t \in Tenants |-> acct[t].limit]
BudgetSpent == [t \in Tenants |-> acct[t].settled]
HoldStage(s) == IF s = "none" THEN "none" ELSE IF s = "reserved" THEN "open" ELSE "closed"
BudgetHolds == [a \in Attempts |-> [state |-> HoldStage(hold[a].state),
                                    tenant |-> hold[a].tenant, cost |-> hold[a].cost]]

B == INSTANCE Budget WITH limit <- BudgetLimit, spent <- BudgetSpent, holds <- BudgetHolds

\* Every behaviour of the ledger is one of the abstract budget, whose held money
\* is not a counter but the sum of its open holds: what begin_attempt compares
\* with the limit is the true sum, in every interleaving.
ImplementsBudget == B!Spec

Terminal == {"final", "unreconciled"}


\* Once a request is terminal its usage reservation is closed.
TerminalHasNoOpenUsage ==
    \A r \in Requests : req[r].state \in Terminal => usage[r].state # "reserved"


=============================================================================
