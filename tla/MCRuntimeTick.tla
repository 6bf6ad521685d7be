---------------------------- MODULE MCRuntimeTick ----------------------------
(***************************************************************************)
(* Small instances of the runtime: up to two articles of one source.       *)
(***************************************************************************)
EXTENDS RuntimeTick

CONSTANTS a1, a2, s1

OneSource == [a \in Article |-> s1]
EqualPriority == [a \in Article |-> 10]
=============================================================================
