-------------------------- MODULE MCParallelWorkers --------------------------
(* Two jobs.  The first has up to three signatures of one kind, or two of     *)
(* different kinds: with batches of two, a full batch, a full one and a rest, *)
(* and a rest alone.                                                          *)
EXTENDS AuthBatch

CONSTANTS w1, w2

TwoJobs == 1 .. 2
TwoWorkers == {w1, w2}

OneKind(n, kind) ==
    {[k \in 1 .. n |-> [batch |-> kind, bad |-> b[k]]] : b \in [1 .. n -> BOOLEAN]}

FirstJob ==
    UNION {OneKind(n, TRUE) : n \in 0 .. 3} \cup OneKind(2, FALSE)
        \cup {<<Head(s), Head(t)>> : s \in OneKind(1, TRUE), t \in OneKind(1, FALSE)}

TwoPlans == {<<s, t>> : s \in FirstJob, t \in OneKind(1, FALSE)}
=============================================================================
