--------------------------- MODULE MCInference ------------------------------
(* A small instance of Inference: one local and one cloud provider.        *)
EXTENDS Inference

CONSTANTS loc, cld

TwoThenOne == [p \in {loc, cld} |-> IF p = loc THEN 2 ELSE 1]

Job(s, m, a) == [stream |-> s, mode |-> m, plan |-> <<cld, loc>>, allowed |-> a]

Both == {loc, cld}

\* One request that may stream, fall back, stay within the boundary or be kept
\* off the local provider, beside a stream that only competes for the permit.
Varied == {Job(TRUE, "local_first", Both), Job(FALSE, "cloud_first", Both),
           Job(FALSE, "local_strict", Both), Job(FALSE, "local_first", {cld})}

CONSTANTS r1, r2

Pair == [r \in {r1, r2} |-> IF r = r1 THEN Varied ELSE {Job(TRUE, "cloud_first", {cld})}]

OneStream == [r \in {r1} |-> {Job(TRUE, "local_first", Both)}]
=============================================================================
