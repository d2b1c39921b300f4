-------------------------- MODULE MCLocalScheduler --------------------------
(* Instances of LocalScheduler for model checking.                         *)
EXTENDS LocalScheduler, TLC

CONSTANTS q1, q2, q3, q4, u1, u2

Job(u, m, c, b) == [user |-> u, mode |-> m, class |-> c, cloud |-> b]

\* Every mode and class, shared between two users.
Mixed == {Job(u1, "local_strict", "interactive", FALSE), Job(u2, "local_first", "interactive", TRUE),
          Job(u1, "cloud_first", "batch", FALSE), Job(u2, "local_strict", "batch", FALSE)}

\* One user, with requests that never leave the local boundary.
StrictOnly == {Job(u1, "local_strict", "interactive", FALSE)}

TwoAndOne == [c \in Classes |-> IF c = "interactive" THEN 2 ELSE 1]
Sixteen == [c \in Classes |-> 16]

Symmetry == Permutations(Requests)
=============================================================================
