------------------------------- MODULE Budget -------------------------------
(***************************************************************************)
(* What the ledger promises of the budgets: a hold is placed only if       *)
(* everything spent and held then fits the limit, and is closed once, by a *)
(* settlement or a release.  There is no counter of held money here: what  *)
(* is held is what the open holds add up to.                               *)
(***************************************************************************)
EXTENDS Integers, FiniteSets, Sums

CONSTANTS Tenants, Attempts, None, Costs, Limits, Deltas

VARIABLES limit, spent, holds

vars == <<limit, spent, holds>>

Held(t) == Total([a \in Attempts |->
    IF holds[a].state = "open" /\ holds[a].tenant = t THEN holds[a].cost ELSE 0])

Closed(a) == [holds[a] EXCEPT !.state = "closed"]

Init ==
    /\ limit = [t \in Tenants |-> None]
    /\ spent = [t \in Tenants |-> 0]
    /\ holds = [a \in Attempts |-> [state |-> "none", tenant |-> None, cost |-> 0]]

Place(a, t, c) ==
    /\ holds[a].state = "none"
    /\ limit[t] # None => spent[t] + Held(t) + c <= limit[t]
    /\ holds' = [holds EXCEPT ![a] = [state |-> "open", tenant |-> t, cost |-> c]]
    /\ UNCHANGED <<limit, spent>>

Settle(a, p) ==
    /\ holds[a].state = "open"
    /\ holds' = [holds EXCEPT ![a] = Closed(a)]
    /\ spent' = [spent EXCEPT ![holds[a].tenant] = @ + p]
    /\ UNCHANGED limit

Release(S) ==
    /\ \A a \in S : holds[a].state = "open"
    /\ holds' = [a \in Attempts |-> IF a \in S THEN Closed(a) ELSE holds[a]]
    /\ UNCHANGED <<limit, spent>>

SetLimit(t, l) ==
    /\ limit' = [limit EXCEPT ![t] = l]
    /\ UNCHANGED <<spent, holds>>

Correct(t, d) ==
    /\ spent[t] + d >= 0
    /\ spent' = [spent EXCEPT ![t] = @ + d]
    /\ UNCHANGED <<limit, holds>>

Next ==
    \/ \E a \in Attempts, t \in Tenants, c \in Costs : Place(a, t, c)
    \/ \E a \in Attempts, p \in Costs : Settle(a, p)
    \/ \E S \in SUBSET Attempts : Release(S)
    \/ \E t \in Tenants, l \in Limits \cup {None} : SetLimit(t, l)
    \/ \E t \in Tenants, d \in Deltas : Correct(t, d)

Spec == Init /\ [][Next]_vars
=============================================================================
