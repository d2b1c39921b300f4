----------------------------- MODULE Inference ------------------------------
(***************************************************************************)
(* One inference request from arrival to the last ledger write:            *)
(* handle_inference of src/routes/client_api.rs, its streaming finaliser,  *)
(* stream_lifecycle.rs, finalization.rs and the shutdown in server.rs.     *)
(*                                                                         *)
(* A step ends at an await, where the client may go away and the future be *)
(* dropped.  Usage is the sequence of what merge_usage_estimates added up: *)
(* entry i stands for what the request's attempt number i used, estimated  *)
(* or as charged by the provider.                                          *)
(*                                                                         *)
(* The local scheduler and the ledger appear by what they may answer; they *)
(* are modelled in LocalScheduler and Ledger.                              *)
(***************************************************************************)
EXTENDS Integers, Sequences, FiniteSets

CONSTANTS
    Requests,
    Providers,
    Local,        \* providers inside the local boundary
    MaxAttempts,  \* MaxAttempts[p]: retry.max_attempts of provider p
    Repairs,      \* providers whose rejected tool arguments may be repaired
    StreamLimit,  \* permits of the stream semaphore
    None,         \* no provider yet
    Jobs          \* Jobs[r]: what request r may be, [stream, mode, plan, allowed]

Modes == {"local_strict", "local_first", "cloud_first"}   \* balanced orders as local_first

ASSUME InferenceConstants ==
    /\ IsFiniteSet(Requests)
    /\ Local \subseteq Providers /\ Repairs \subseteq Providers
    /\ MaxAttempts \in [Providers -> Nat \ {0}]
    /\ StreamLimit \in Nat \ {0}
    /\ \A r \in Requests : Jobs[r] \subseteq [stream : BOOLEAN, mode : Modes,
                                               plan : Seq(Providers),
                                               allowed : SUBSET Providers]

VARIABLES
    h,         \* h[r]: the locals of r's handler, then of its stream finaliser
    sent,      \* sent[r]: the attempts of r, each with what its ledger row got
    row,       \* row[r]: what the request's ledger row got
    draining,  \* the draining flag of the application state
    server     \* "up", "stopped" (connections closed) or "exited"

vars == <<h, sent, row, draining, server>>

Closed     == {"ended", "rejected", "dropped", "lost"}
Finalizing == {"stream_attempt", "stream_request"}
Awaiting   == {"permit", "begin_request", "acquire", "prepare", "begin_attempt", "sending",
               "finalize_attempt", "sleep", "finalize_request"}

Fresh(p) == [prov |-> p, ord |-> 0]

NewHandler(j) ==
    [phase |-> "idle", job |-> j, todo |-> <<>>, cur |-> Fresh(None), res |-> "none",
     prior |-> <<>>, total |-> <<>>, repaired |-> FALSE, up |-> "pending",
     lease |-> FALSE, permit |-> FALSE, beat |-> FALSE]

Init ==
    /\ \E job \in [Requests -> UNION {Jobs[r] : r \in Requests}] :
          /\ \A r \in Requests : job[r] \in Jobs[r]
          /\ h = [r \in Requests |-> NewHandler(job[r])]
    /\ sent = [r \in Requests |-> <<>>]
    /\ row = [r \in Requests |-> [fin |-> 0, ok |-> FALSE, usage |-> <<>>]]
    /\ draining = FALSE
    /\ server = "up"

Is(r, p) == h[r].phase = p
Goto(r, p) == h' = [h EXCEPT ![r].phase = p]

\* Everything the handler's future owns is dropped with it.
Leave(r, p) ==
    h' = [h EXCEPT ![r].phase = p, ![r].lease = FALSE, ![r].permit = FALSE, ![r].beat = FALSE]

-----------------------------------------------------------------------------
(* Up to the attempt loop.                                                 *)

OrderedLocalFirst(plan, mode) ==
    SelectSeq(plan, LAMBDA p : p \in Local) \o SelectSeq(plan, LAMBDA p : p \notin Local)

\* order_attempts
Ordered(plan, mode) ==
    LET local == SelectSeq(plan, LAMBDA p : p \in Local)
        cloud == SelectSeq(plan, LAMBDA p : p \notin Local)
    IN  CASE mode = "local_strict" -> local
          [] mode = "local_first"  -> local \o cloud
          [] mode = "cloud_first"  -> cloud \o local

\* The attempts that project policy lets through, in order.
Authorized(j) == SelectSeq(Ordered(j.plan, j.mode), LAMBDA p : p \in j.allowed)

\* Refused: draining, authentication, validation, governance, routing, rate
\* limit, context admission; nothing is held yet.
Arrive(r) ==
    LET ps == Authorized(h[r].job)
    IN  /\ Is(r, "idle") /\ server = "up"
        /\ \/ Goto(r, "rejected")
           \/ /\ ~draining /\ ps # <<>>
              /\ h' = [h EXCEPT ![r].phase = "permit",
                                ![r].todo = [k \in 1 .. Len(ps) |-> Fresh(ps[k])]]
        /\ UNCHANGED <<sent, row, draining, server>>

PermitsTaken == {q \in Requests : h[q].permit}

TakePermitLate(r) ==
    /\ Is(r, "permit")
    /\ IF h[r].job.stream /\ Cardinality(PermitsTaken) > StreamLimit
       THEN Goto(r, "rejected")
       ELSE h' = [h EXCEPT ![r].phase = "begin_request", ![r].permit = h[r].job.stream]
    /\ UNCHANGED <<sent, row, draining, server>>

TakePermit(r) ==
    /\ Is(r, "permit")
    /\ IF h[r].job.stream /\ Cardinality(PermitsTaken) >= StreamLimit
       THEN Goto(r, "rejected")
       ELSE h' = [h EXCEPT ![r].phase = "begin_request", ![r].permit = h[r].job.stream]
    /\ UNCHANGED <<sent, row, draining, server>>

\* begin_request, then maintain_lease.
BeginRequest(r) ==
    /\ Is(r, "begin_request")
    /\ \/ h' = [h EXCEPT ![r].phase = "loop", ![r].beat = TRUE]
       \/ Leave(r, "rejected")
    /\ UNCHANGED <<sent, row, draining, server>>

-----------------------------------------------------------------------------
(* The attempt loop.                                                       *)

NextAttempt(r) ==
    LET a == Head(h[r].todo)
    IN  /\ Is(r, "loop")
        /\ IF h[r].todo = <<>> THEN Goto(r, "close")
           ELSE h' = [h EXCEPT ![r].todo = Tail(@), ![r].cur = a,
                               ![r].phase = IF a.prov \in Local THEN "acquire" ELSE "prepare"]
        /\ UNCHANGED <<sent, row, draining, server>>

CloudLeft(r) == \E k \in DOMAIN h[r].todo : h[r].todo[k].prov \notin Local

\* LocalScheduler::acquire: a lease, overflow to the cloud, or 429.
AcquireLocal(r) ==
    /\ Is(r, "acquire")
    /\ \/ h' = [h EXCEPT ![r].phase = "prepare", ![r].lease = TRUE]
       \/ h[r].job.mode # "local_strict" /\ CloudLeft(r) /\ Goto(r, "loop")
       \/ h' = [h EXCEPT ![r].phase = "close", ![r].res = "refused"]
    /\ UNCHANGED <<sent, row, draining, server>>

\* Credential, quota, validation and provider rate limit of one attempt: a
\* refusal moves on to the next one.
Prepare(r) ==
    /\ Is(r, "prepare")
    /\ \/ Goto(r, "begin_attempt")
       \/ h' = [h EXCEPT ![r].phase = "loop", ![r].res = "refused", ![r].lease = FALSE]
    /\ UNCHANGED <<sent, row, draining, server>>

\* begin_attempt of the ledger: a refusal ends the loop.
BeginAttempt(r) ==
    /\ Is(r, "begin_attempt")
    /\ \/ /\ sent' = [sent EXCEPT ![r] = Append(@, [prov |-> h[r].cur.prov, fin |-> 0,
                                                     usage |-> <<>>, health |-> "none"])]
          /\ Goto(r, "sending")
       \/ /\ h' = [h EXCEPT ![r].phase = "close", ![r].res = "refused", ![r].lease = FALSE]
          /\ UNCHANGED sent
    /\ UNCHANGED <<row, draining, server>>

Last(r) == Len(sent[r])

Health(r, v) == [sent EXCEPT ![r][Last(r)].health = v]

\* send_inference_attempt and the outcome recorded for router and credential; a
\* stream that starts is judged by its finaliser.
Send(r, o) ==
    /\ Is(r, "sending")
    /\ IF h[r].job.stream /\ o = "ok"
       THEN /\ h' = [h EXCEPT ![r].res = o, ![r].phase = "decide"]
            /\ UNCHANGED sent
       ELSE /\ h' = [h EXCEPT ![r].res = o, ![r].phase = "finalize_attempt"]
            /\ sent' = Health(r, IF o = "ok" THEN "ok" ELSE "failed")
    /\ UNCHANGED <<row, draining, server>>

FinalizeAttempt(r) ==
    /\ Is(r, "finalize_attempt")
    /\ sent' = [sent EXCEPT ![r][Last(r)].fin = @ + 1, ![r][Last(r)].usage = <<Last(r)>>]
    /\ Goto(r, "decide")
    /\ UNCHANGED <<row, draining, server>>

SucceedReleasing(r) ==
    /\ Is(r, "decide") /\ h[r].res = "ok"
    /\ h' = [h EXCEPT ![r].phase = "close", ![r].lease = FALSE]
    /\ UNCHANGED <<sent, row, draining, server>>

\* The loop is left with the local lease kept for the response.
Succeed(r) ==
    /\ Is(r, "decide") /\ h[r].res = "ok"
    /\ Goto(r, "close")
    /\ UNCHANGED <<sent, row, draining, server>>

Repairable(r) ==
    h[r].res = "tool" /\ ~h[r].job.stream /\ h[r].cur.prov \in Repairs /\ ~h[r].repaired

RepairForgets(r) ==
    /\ Is(r, "decide") /\ Repairable(r)
    /\ h' = [h EXCEPT ![r].phase = "loop", ![r].repaired = TRUE, ![r].lease = FALSE,
                      ![r].todo = <<h[r].cur>> \o @]
    /\ UNCHANGED <<sent, row, draining, server>>

\* Rejected tool arguments are sent back for repair once per request.
Repair(r) ==
    /\ Is(r, "decide") /\ Repairable(r)
    /\ h' = [h EXCEPT ![r].phase = "loop", ![r].repaired = TRUE, ![r].lease = FALSE,
                      ![r].prior = Append(@, Last(r)),
                      ![r].todo = <<h[r].cur>> \o @]
    /\ UNCHANGED <<sent, row, draining, server>>

RetriesLeftOneMore(r) == h[r].cur.ord < MaxAttempts[h[r].cur.prov]

RetriesLeft(r) == h[r].cur.ord + 1 < MaxAttempts[h[r].cur.prov]

\* The same provider again, after a delay slept with the local lease held.
Retry(r) ==
    /\ Is(r, "decide") /\ h[r].res = "retryable" /\ RetriesLeft(r)
    /\ h' = [h EXCEPT ![r].phase = "sleep", ![r].prior = Append(@, Last(r)),
                      ![r].todo = <<[h[r].cur EXCEPT !.ord = @ + 1]>> \o @]
    /\ UNCHANGED <<sent, row, draining, server>>

FallBack(r) ==
    /\ Is(r, "decide") /\ h[r].res = "retryable" /\ ~RetriesLeft(r)
    /\ h' = [h EXCEPT ![r].phase = "loop", ![r].lease = FALSE, ![r].prior = Append(@, Last(r))]
    /\ UNCHANGED <<sent, row, draining, server>>

GiveUp(r) ==
    /\ Is(r, "decide") /\ h[r].res \in {"tool", "fatal"} /\ ~Repairable(r)
    /\ h' = [h EXCEPT ![r].phase = "close", ![r].lease = FALSE]
    /\ UNCHANGED <<sent, row, draining, server>>

\* The retry delay is over; the iteration's lease is dropped.
Sleep(r) ==
    /\ Is(r, "sleep")
    /\ h' = [h EXCEPT ![r].phase = "loop", ![r].lease = FALSE]
    /\ UNCHANGED <<sent, row, draining, server>>

-----------------------------------------------------------------------------
(* After the loop.                                                         *)

\* The request's usage: what was merged for earlier attempts, and the last one
\* sent, whatever became of it.
Totals(r) == IF sent[r] = <<>> THEN h[r].prior ELSE Append(h[r].prior, Last(r))

StreamStarts(r) == h[r].job.stream /\ h[r].res = "ok"

\* A response header that cannot be encoded ends a started stream at once.
Close(r) ==
    /\ Is(r, "close")
    /\ \/ h' = [h EXCEPT ![r].total = Totals(r),
                         ![r].phase = IF StreamStarts(r) THEN "streaming" ELSE "finalize_request"]
       \/ StreamStarts(r) /\ Leave(r, "dropped")
    /\ UNCHANGED <<sent, row, draining, server>>

Write(r, ok) == row' = [row EXCEPT ![r] = [fin |-> @.fin + 1, ok |-> ok, usage |-> h[r].total]]

FinalizeRequest(r) ==
    /\ Is(r, "finalize_request")
    /\ Write(r, h[r].res = "ok")
    /\ Leave(r, "ended")
    /\ UNCHANGED <<sent, draining, server>>

\* The client is gone: the future is dropped at the await it is in.
Cancel(r) ==
    /\ h[r].phase \in Awaiting
    /\ Leave(r, "dropped")
    /\ UNCHANGED <<sent, row, draining, server>>

-----------------------------------------------------------------------------
(* A stream that started, and its finaliser.                               *)

\* mark_completed, mark_failed: the first one counts.
UpstreamMark(r, s) ==
    /\ Is(r, "streaming") /\ h[r].up = "pending"
    /\ h' = [h EXCEPT ![r].up = s]
    /\ UNCHANGED <<sent, row, draining, server>>

\* after_eof, after_body_error, after_drop
Outcome(how, up) ==
    CASE how = "eof"   -> IF up = "completed" THEN "completed" ELSE "upstream_failed"
      [] how = "error" -> IF up = "failed" THEN "upstream_failed" ELSE "delivery_failed"
      [] how = "drop"  -> "cancelled"

ProviderBlamed(out, up) ==
    IF out = "completed" \/ up = "completed" THEN "ok" ELSE "failed"

\* provider_terminal_outcome
ProviderOutcome(out, up) ==
    CASE out = "completed"       -> "ok"
      [] out = "upstream_failed" -> "failed"
      [] OTHER -> IF up = "completed" THEN "ok" ELSE IF up = "failed" THEN "failed" ELSE "none"

EndBodyDroppingLease(r, how) ==
    LET out == Outcome(how, h[r].up)
    IN  /\ Is(r, "streaming")
        /\ h' = [h EXCEPT ![r].phase = "stream_attempt", ![r].res = out,
                          ![r].lease = FALSE, ![r].permit = FALSE, ![r].beat = FALSE]
        /\ sent' = Health(r, ProviderOutcome(out, h[r].up))
        /\ UNCHANGED <<row, draining, server>>

\* The body ends, fails, or is dropped with the connection: the guard finalises
\* once.  The ledger writes are spawned; they own the lease's heartbeat.
EndBody(r, how) ==
    LET out == Outcome(how, h[r].up)
    IN  /\ Is(r, "streaming")
        /\ h' = [h EXCEPT ![r].phase = "stream_attempt", ![r].res = out,
                          ![r].lease = FALSE, ![r].permit = FALSE,
                          ![r].total = Append(h[r].prior, Last(r))]
        /\ sent' = Health(r, ProviderOutcome(out, h[r].up))
        /\ UNCHANGED <<row, draining, server>>


\* The attempt's outcome is taken from the request's usage.
StreamAttempt(r) ==
    /\ Is(r, "stream_attempt")
    /\ sent' = [sent EXCEPT ![r][Last(r)].fin = @ + 1, ![r][Last(r)].usage = h[r].total]
    /\ Goto(r, "stream_request")
    /\ UNCHANGED <<row, draining, server>>

StreamRequest(r) ==
    /\ Is(r, "stream_request")
    /\ Write(r, h[r].res = "completed")
    /\ Leave(r, "ended")
    /\ UNCHANGED <<sent, draining, server>>

-----------------------------------------------------------------------------
(* Shutdown: refuse, let the connections finish, wait for the finalisers.  *)

Drain ==
    /\ ~draining
    /\ draining' = TRUE
    /\ UNCHANGED <<h, sent, row, server>>

StopServer ==
    /\ draining /\ server = "up"
    /\ \A r \in Requests : h[r].phase \in {"idle"} \cup Closed \cup Finalizing
    /\ server' = "stopped"
    /\ UNCHANGED <<h, sent, row, draining>>


\* FinalizationTracker.active
Active == {r \in Requests : h[r].phase \in Finalizing}

DrainFinalizers ==
    /\ server = "stopped" /\ Active = {}
    /\ server' = "exited"
    /\ UNCHANGED <<h, sent, row, draining>>

\* The drain times out: the process ends with finalisers pending.
DrainTimeout ==
    /\ server = "stopped" /\ Active # {}
    /\ server' = "timed_out"
    /\ h' = [r \in Requests |-> IF r \in Active
                                THEN [h[r] EXCEPT !.phase = "lost", !.beat = FALSE] ELSE h[r]]
    /\ UNCHANGED <<sent, row, draining>>

-----------------------------------------------------------------------------
Outcomes == {"ok", "tool", "retryable", "fatal"}

Handler(r) ==
    \/ Arrive(r) \/ TakePermit(r) \/ BeginRequest(r) \/ NextAttempt(r)
    \/ AcquireLocal(r) \/ Prepare(r) \/ BeginAttempt(r)
    \/ \E o \in Outcomes : Send(r, o)
    \/ FinalizeAttempt(r)
    \/ Succeed(r) \/ Repair(r) \/ Retry(r) \/ FallBack(r) \/ GiveUp(r) \/ Sleep(r)
    \/ Close(r) \/ FinalizeRequest(r)
    \/ \E how \in {"eof", "error", "drop"} : EndBody(r, how)
    \/ StreamAttempt(r) \/ StreamRequest(r)

Upstream(r) == \E s \in {"completed", "failed"} : UpstreamMark(r, s)

Next ==
    \/ \E r \in Requests : Handler(r) \/ Upstream(r) \/ Cancel(r)
    \/ Drain \/ StopServer \/ DrainFinalizers \/ DrainTimeout

Spec == Init /\ [][Next]_vars

-----------------------------------------------------------------------------
(* Properties.                                                             *)

InLoop == {"loop", "acquire", "prepare", "begin_attempt", "sending", "finalize_attempt",
           "decide", "sleep", "close"}

\* The locals of handle_inference and of StreamFinalizationContext have the
\* shape the code gives them, and the stream semaphore never lends more
\* permits than it has.
TypeOK ==
    /\ \A r \in Requests :
          /\ h[r].phase \in {"idle", "permit", "begin_request", "finalize_request", "streaming"}
                            \cup InLoop \cup Finalizing \cup Closed
          /\ h[r].up \in {"pending", "completed", "failed"}
          /\ \A k \in DOMAIN h[r].todo : h[r].todo[k].ord < MaxAttempts[h[r].todo[k].prov]
          /\ row[r].fin \in {0, 1}
          /\ \A i \in DOMAIN sent[r] : sent[r][i].fin \in {0, 1}
    /\ Cardinality(PermitsTaken) <= StreamLimit


\* How often attempt i is in the usage u.
Counted(u, i) == Cardinality({k \in DOMAIN u : u[k] = i})

StreamOutcomes == {"completed", "upstream_failed", "delivery_failed", "cancelled"}

\* When a response was delivered or a stream started, the usage written for the
\* request counts every attempt that was sent exactly once, retries, repairs and
\* fallbacks included.
DeliveredCountsEachAttempt ==
    \A r \in Requests : row[r].fin = 1 /\ h[r].res \in {"ok"} \cup StreamOutcomes =>
        \A i \in DOMAIN sent[r] : Counted(row[r].usage, i) = 1

\* The usage written for an attempt is that attempt's own.
AttemptRowIsItsOwn ==
    \A r \in Requests : \A i \in DOMAIN sent[r] :
        \A k \in DOMAIN sent[r][i].usage : sent[r][i].usage[k] = i

\* The ledger lease is renewed from begin_request to the last ledger write,
\* through the spawned finaliser, and not beyond.
HeartbeatCoversLedgerWork ==
    \A r \in Requests :
        h[r].beat <=> h[r].phase \in {"finalize_request", "streaming"} \cup InLoop \cup Finalizing

\* A request talks to a local provider, or streams from one, only while it holds
\* a local lease, and keeps none between attempts or once it is over.
LocalLeaseCoversUse ==
    \A r \in Requests :
        /\ h[r].phase \in {"sending", "streaming"} /\ h[r].cur.prov \in Local => h[r].lease
        /\ h[r].lease => /\ h[r].cur.prov \in Local
                         /\ h[r].phase \notin {"loop", "acquire"} \cup Finalizing \cup Closed

\* Nothing is sent to a provider that the project's policy refuses, and in
\* local_strict mode nothing leaves the local boundary, whatever fails.
SendsStayWithinPolicy ==
    \A r \in Requests : \A i \in DOMAIN sent[r] :
        /\ sent[r][i].prov \in h[r].job.allowed
        /\ h[r].job.mode = "local_strict" => sent[r][i].prov \in Local

\* Retries and the repair together send a provider at most max_attempts + 1
\* requests (plans name a provider once).
AttemptsBounded ==
    \A r \in Requests, p \in Providers :
        Cardinality({i \in DOMAIN sent[r] : sent[r][i].prov = p})
            <= MaxAttempts[p] + IF h[r].repaired THEN 1 ELSE 0

\* A provider is blamed for a stream only if its side failed or ended without a
\* terminal signal, never because the client left; and a stream is recorded as
\* successful only if the provider's side completed.
BlameFollowsUpstream ==
    \A r \in Requests : h[r].phase \in Finalizing \cup {"ended"} /\ h[r].res \in StreamOutcomes =>
        /\ sent[r][Last(r)].health = "failed" =>
              h[r].up = "failed" \/ (h[r].up = "pending" /\ h[r].res = "upstream_failed")
        /\ row[r].ok => h[r].up = "completed" /\ sent[r][Last(r)].health = "ok"

=============================================================================
