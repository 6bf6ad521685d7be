-------------------------- MODULE MCRuntimeHistory --------------------------
(***************************************************************************)
(* Small instances of the runtime with its history: one article, up to two *)
(* destinations.                                                           *)
(***************************************************************************)
EXTENDS RuntimeHistory

CONSTANTS a1, s1

OneSource == [a \in Article |-> s1]
EqualPriority == [a \in Article |-> 10]
=============================================================================
