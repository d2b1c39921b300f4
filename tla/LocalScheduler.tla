--------------------------- MODULE LocalScheduler ---------------------------
(***************************************************************************)
(* Admission to the one local inference slot: LocalScheduler of            *)
(* src/governance.rs.  A request's handler calls acquire, holds the lease  *)
(* it gets while its attempt runs, and drops it.                           *)
(*                                                                         *)
(* The permit (a semaphore of one) and the state mutex are separate, so    *)
(* acquire is one step per critical section: pc[r] is the next one.  The   *)
(* only await inside acquire is the wait for a notification; a handler     *)
(* whose client is gone is dropped there, and nothing removes its entry.   *)
(*                                                                         *)
(* service_time_ms is abstracted: the predicted wait is zero when nothing  *)
(* is ahead, and otherwise may or may not exceed the overflow bound.       *)
(***************************************************************************)
EXTENDS Integers, Sequences, FiniteSets

CONSTANTS
    Requests,           \* calls of acquire in progress at one time
    Users,
    None,               \* nobody holds the permit
    ExecutingPerUser,   \* executing_per_user
    QueuedPerUser,      \* queued_per_user
    QueueLimit,         \* QueueLimit[c]: length bound of the queue of class c
    Jobs                \* the arguments acquire is called with

Classes == {"interactive", "batch"}
Modes   == {"local_strict", "local_first", "cloud_first"}  \* balanced acts as local_first

ASSUME SchedulerConstants ==
    /\ IsFiniteSet(Requests)
    /\ None \notin Requests
    /\ ExecutingPerUser \in Nat \ {0}
    /\ QueuedPerUser \in Nat
    /\ QueueLimit \in [Classes -> Nat]
    /\ Jobs \subseteq [user : Users, mode : Modes, class : Classes, cloud : BOOLEAN]

VARIABLES
    pc,        \* pc[r]: the next critical section of r, or how acquire ended
    job,       \* job[r]: the arguments of acquire
    late,      \* late[r]: r's deadline has passed
    token,     \* token[r]: r's Notify holds an unconsumed notification
    queue,     \* queue[c]: the waiting requests of class c
    queued,    \* queued_by_user
    running,   \* running_by_user
    holder     \* who owns the execution permit

vars == <<pc, job, late, token, queue, queued, running, holder>>

Returned == {"idle", "overflow", "user_full", "queue_full", "expired", "done"}
Queued   == {"enqueued", "check", "try", "deadline", "wait", "won", "lost"}
Notifier == {"enqueued", "won_notify", "lost_notify", "drop_notify"}
Leased   == {"won_count", "running", "drop_permit"}

Init ==
    /\ pc = [r \in Requests |-> "idle"]
    /\ job \in {[r \in Requests |-> j] : j \in Jobs}   \* not read before acquire
    /\ late = [r \in Requests |-> FALSE]
    /\ token = [r \in Requests |-> FALSE]
    /\ queue = [c \in Classes |-> <<>>]
    /\ queued = [u \in Users |-> 0]
    /\ running = [u \in Users |-> 0]
    /\ holder = None

\* saturating_sub(1)
Less(n) == IF n = 0 THEN 0 ELSE n - 1

Goto(r, l) == pc' = [pc EXCEPT ![r] = l]

-----------------------------------------------------------------------------
(* acquire: the fast path, the predicted wait, the queue.                  *)

\* try_acquire_owned, whoever may be queued.
Acquire(r, j) ==
    /\ pc[r] \in Returned
    /\ job' = [job EXCEPT ![r] = j]
    /\ late' = [late EXCEPT ![r] = FALSE]
    /\ token' = [token EXCEPT ![r] = FALSE]
    /\ IF holder = None THEN holder' = r /\ Goto(r, "count")
                        ELSE UNCHANGED holder /\ Goto(r, "estimate")
    /\ UNCHANGED <<queue, queued, running>>

CountFast(r) ==
    LET u == job[r].user
    IN  /\ pc[r] = "count"
        /\ IF running[u] < ExecutingPerUser
           THEN /\ running' = [running EXCEPT ![u] = @ + 1]
                /\ Goto(r, "running")
                /\ UNCHANGED holder
           ELSE /\ holder' = None
                /\ Goto(r, "estimate")
                /\ UNCHANGED running
        /\ UNCHANGED <<job, late, token, queue, queued>>

\* estimated_wait: is anything ahead of a request of class c?
SomethingAhead(c) ==
    \/ queue["interactive"] # <<>>
    \/ c = "batch" /\ queue["batch"] # <<>>
    \/ \E u \in Users : running[u] > 0

Overflows(r) == job[r].mode = "local_first" /\ job[r].cloud

EstimateWait(r) ==
    /\ pc[r] = "estimate"
    /\ \/ Overflows(r) /\ SomethingAhead(job[r].class) /\ Goto(r, "overflow")
       \/ Goto(r, "enqueue")
    /\ UNCHANGED <<job, late, token, queue, queued, running, holder>>

Push(r) == queue' = [queue EXCEPT ![job[r].class] = Append(@, r)]

\* Mutant: one request too many per user.
EnqueueOneMore(r) ==
    LET u == job[r].user
        c == job[r].class
        Full == Len(queue[c]) >= QueueLimit[c]
    IN  /\ pc[r] = "enqueue"
        /\ IF queued[u] > QueuedPerUser THEN Goto(r, "user_full") /\ UNCHANGED <<queue, queued>>
           ELSE IF Full THEN /\ Goto(r, IF Overflows(r) THEN "overflow" ELSE "queue_full")
                             /\ UNCHANGED <<queue, queued>>
           ELSE /\ Push(r)
                /\ queued' = [queued EXCEPT ![u] = @ + 1]
                /\ Goto(r, "enqueued")
        /\ UNCHANGED <<job, late, token, running, holder>>

Enqueue(r) ==
    LET u == job[r].user
        c == job[r].class
        Full == Len(queue[c]) >= QueueLimit[c]
    IN  /\ pc[r] = "enqueue"
        /\ IF queued[u] >= QueuedPerUser THEN Goto(r, "user_full") /\ UNCHANGED <<queue, queued>>
           ELSE IF Full THEN /\ Goto(r, IF Overflows(r) THEN "overflow" ELSE "queue_full")
                             /\ UNCHANGED <<queue, queued>>
           ELSE /\ Push(r)
                /\ queued' = [queued EXCEPT ![u] = @ + 1]
                /\ Goto(r, "enqueued")
        /\ UNCHANGED <<job, late, token, running, holder>>

-----------------------------------------------------------------------------
(* The wait loop.                                                          *)

\* Whom notify_next wakes: the oldest interactive request, else the oldest batch one.
Front == IF queue["interactive"] # <<>> THEN {Head(queue["interactive"])}
         ELSE IF queue["batch"] # <<>> THEN {Head(queue["batch"])} ELSE {}

\* Mutant: gives way to a cloud that is not there.
AfterNotifyAnyway(r) ==
    CASE pc[r] = "enqueued"    -> "check"
      [] pc[r] = "won_notify"  -> "won_count"
      [] pc[r] = "drop_notify" -> "done"
      [] pc[r] = "lost_notify" -> IF job[r].mode # "local_strict" THEN "overflow" ELSE "expired"

AfterNotify(r) ==
    CASE pc[r] = "enqueued"    -> "check"
      [] pc[r] = "won_notify"  -> "won_count"
      [] pc[r] = "drop_notify" -> "done"
      [] pc[r] = "lost_notify" -> IF job[r].mode # "local_strict" /\ job[r].cloud
                                  THEN "overflow" ELSE "expired"

NotifyNext(r) ==
    /\ pc[r] \in Notifier
    /\ token' = [q \in Requests |-> token[q] \/ q \in Front]
    /\ Goto(r, AfterNotify(r))
    /\ UNCHANGED <<job, late, queue, queued, running, holder>>

\* Mutant: any queued request may be next.
IsQueued(r) == /\ running[job[r].user] < ExecutingPerUser
               /\ \E i \in DOMAIN queue[job[r].class] : queue[job[r].class][i] = r

\* is_front
IsFront(r) == running[job[r].user] < ExecutingPerUser /\ r \in Front

CheckFront(r) ==
    /\ pc[r] = "check"
    /\ Goto(r, IF IsFront(r) THEN "try" ELSE "deadline")
    /\ UNCHANGED <<job, late, token, queue, queued, running, holder>>

TryPermit(r) ==
    /\ pc[r] = "try"
    /\ IF holder = None THEN holder' = r /\ Goto(r, "won")
                        ELSE UNCHANGED holder /\ Goto(r, "deadline")
    /\ UNCHANGED <<job, late, token, queue, queued, running>>

\* Mutants: remove_queued without notify_next; the user's count cut by the queue's length.
RemoveQuietly(r) ==
    /\ pc[r] \in {"won", "lost"}
    /\ queue' = [queue EXCEPT ![job[r].class] = SelectSeq(@, LAMBDA q : q # r)]
    /\ queued' = [queued EXCEPT ![job[r].user] = Less(@)]
    /\ Goto(r, IF pc[r] = "won" THEN "won_count" ELSE "expired")
    /\ UNCHANGED <<job, late, token, running, holder>>
RemoveAll(r) ==
    LET c == job[r].class
    IN  /\ pc[r] \in {"won", "lost"}
        /\ queue' = [queue EXCEPT ![c] = SelectSeq(@, LAMBDA q : q # r)]
        /\ queued' = [queued EXCEPT ![job[r].user] = @ - Len(queue[c])]
        /\ Goto(r, IF pc[r] = "won" THEN "won_notify" ELSE "lost_notify")
        /\ UNCHANGED <<job, late, token, running, holder>>

\* remove_queued, up to its notify_next.
RemoveQueued(r) ==
    LET c == job[r].class
    IN  /\ pc[r] \in {"won", "lost"}
        /\ queue' = [queue EXCEPT ![c] = SelectSeq(@, LAMBDA q : q # r)]
        /\ queued' = [queued EXCEPT ![job[r].user] = Less(@)]
        /\ Goto(r, IF pc[r] = "won" THEN "won_notify" ELSE "lost_notify")
        /\ UNCHANGED <<job, late, token, running, holder>>

CountWon(r) ==
    /\ pc[r] = "won_count"
    /\ running' = [running EXCEPT ![job[r].user] = @ + 1]
    /\ Goto(r, "running")
    /\ UNCHANGED <<job, late, token, queue, queued, holder>>

CheckDeadline(r) ==
    /\ pc[r] = "deadline"
    /\ Goto(r, IF late[r] THEN "lost" ELSE "wait")
    /\ UNCHANGED <<job, late, token, queue, queued, running, holder>>

\* The notification arrived, or the timeout fired.
WakeUp(r) ==
    /\ pc[r] = "wait"
    /\ token[r] \/ late[r]
    /\ token' = [token EXCEPT ![r] = FALSE]
    /\ Goto(r, "check")
    /\ UNCHANGED <<job, late, queue, queued, running, holder>>

Expire(r) ==
    /\ pc[r] \in {"check", "try", "deadline", "wait"}
    /\ ~late[r]
    /\ late' = [late EXCEPT ![r] = TRUE]
    /\ UNCHANGED <<pc, job, token, queue, queued, running, holder>>

\* The client is gone: the future waiting inside acquire is dropped.
Cancel(r) ==
    /\ pc[r] = "wait"
    /\ Goto(r, "gone")
    /\ UNCHANGED <<job, late, token, queue, queued, running, holder>>

-----------------------------------------------------------------------------
(* Drop for LocalLease: uncount, release the permit, notify.               *)

\* Mutant: the permit goes back before the count.
DropPermitFirst(r) ==
    /\ pc[r] = "running"
    /\ holder' = None
    /\ Goto(r, "drop_permit")
    /\ UNCHANGED <<job, late, token, queue, queued, running>>

DropCount(r) ==
    /\ pc[r] = "running"
    /\ running' = [running EXCEPT ![job[r].user] = Less(@)]
    /\ Goto(r, "drop_permit")
    /\ UNCHANGED <<job, late, token, queue, queued, holder>>

DropPermit(r) ==
    /\ pc[r] = "drop_permit"
    /\ holder' = None
    /\ Goto(r, "drop_notify")
    /\ UNCHANGED <<job, late, token, queue, queued, running>>

-----------------------------------------------------------------------------
Step(r) ==
    \/ \E j \in Jobs : Acquire(r, j)
    \/ CountFast(r)  \/ EstimateWait(r) \/ Enqueue(r)
    \/ NotifyNext(r) \/ CheckFront(r)   \/ TryPermit(r)
    \/ RemoveQueued(r) \/ CountWon(r)   \/ CheckDeadline(r)
    \/ WakeUp(r) \/ Expire(r) \/ Cancel(r)
    \/ DropCount(r) \/ DropPermit(r)

Next == \E r \in Requests : Step(r)

Spec == Init /\ [][Next]_vars

-----------------------------------------------------------------------------
(* Correctness.                                                            *)

HasEntry(r, c) == \E i \in 1 .. Len(queue[c]) : queue[c][i] = r

\* Every variable has its type; the counters of the two maps are never negative.
TypeOK ==
    /\ pc \in [Requests -> Returned \cup Queued \cup Notifier \cup Leased
                            \cup {"count", "estimate", "enqueue", "gone"}]
    /\ job \in [Requests -> Jobs]
    /\ late \in [Requests -> BOOLEAN]
    /\ token \in [Requests -> BOOLEAN]
    /\ queue \in [Classes -> Seq(Requests)]
    /\ queued \in [Users -> Nat]
    /\ running \in [Users -> Nat]
    /\ holder \in Requests \cup {None}

\* One request executes locally at a time, and the counts by which is_front and
\* estimated_wait judge are exact: whoever is past try_acquire owns the permit,
\* and running_by_user counts the live leases although permit and count are
\* taken and given back in different critical sections.
PermitCoversRunning ==
    /\ \A r \in Requests : pc[r] \in {"count", "won", "won_notify"} \cup Leased => holder = r
    /\ \A u \in Users :
           running[u] = Cardinality({r \in Requests : pc[r] = "running" /\ job[r].user = u})

\* The queues hold each queued request once, in the queue of its class, and
\* cancelled ones stay; queued_by_user counts the entries; no limit is passed.
QueueAgrees ==
    /\ \A r \in Requests, c \in Classes :
           HasEntry(r, c) <=> pc[r] \in Queued \cup {"gone"} /\ job[r].class = c
    /\ \A c \in Classes : /\ Len(queue[c]) <= QueueLimit[c]
                          /\ \A i, k \in 1 .. Len(queue[c]) : queue[c][i] = queue[c][k] => i = k
    /\ \A u \in Users :
           /\ queued[u] = Cardinality({r \in Requests : /\ pc[r] \in Queued \cup {"gone"}
                                                       /\ job[r].user = u})
           /\ queued[u] <= QueuedPerUser

\* No lost wakeup: when the permit is free and the request to serve next sleeps
\* in acquire, it has a notification or its timeout to wake it, or someone is
\* about to notify.  Notifications are sent outside the state mutex and may be
\* consumed by a request that finds the permit taken by a newcomer.
NoLostWakeup ==
    holder = None => \A r \in Front :
        pc[r] = "wait" => token[r] \/ late[r] \/ \E q \in Requests : pc[q] \in Notifier

\* A request that leaves its queue with the permit is the oldest of its class,
\* although is_front, try_acquire and remove_queued are three critical sections.
OldestIsServed ==
    [][\A r \in Requests : pc[r] = "won" /\ pc'[r] # "won" => r = Head(queue[job[r].class])]_vars

\* local_strict never leaves the local boundary, and overflow always has a cloud
\* attempt to go to: of the three places where acquire gives way to the cloud.
StrictStaysLocal ==
    \A r \in Requests : pc[r] = "overflow" => job[r].mode # "local_strict" /\ job[r].cloud

\* A request refused with "per-user local queue limit exceeded (2 queued)" has
\* that many requests of its user waiting.
RefusedOnlyWhenFull ==
    [][\A r \in Requests : pc[r] = "enqueue" /\ pc'[r] = "user_full" =>
          QueuedPerUser <= Cardinality({q \in Requests : /\ pc[q] \in Queued
                                                         /\ job[q].user = job[r].user})]_vars
=============================================================================
