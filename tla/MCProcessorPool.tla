--------------------------- MODULE MCProcessorPool ---------------------------
(***************************************************************************)
(* Small instances of the pool: two processes, up to three articles.       *)
(***************************************************************************)
EXTENDS ProcessorPool, TLC

CONSTANTS a1, a2, a3, s1, s2, p1, p2

OneSource == [a \in Article |-> s1]
TwoSources == [a \in Article |-> IF a = a3 THEN s2 ELSE s1]
EqualPriority == [a \in Article |-> 10]
FirstUrgent == [a \in Article |-> IF a = a1 THEN 40 ELSE 10]

Processes == Permutations({p1, p2})
=============================================================================
