-------------------------- MODULE MCWorkerHistory --------------------------
(***************************************************************************)
(* Small instances of the worker pool with its history: workers w1 and w2, *)
(* one process p1 that ingests, one article.                               *)
(***************************************************************************)
EXTENDS WorkerHistory, TLC

CONSTANTS a1, s1

OneSource == [a \in Article |-> s1]
EqualPriority == [a \in Article |-> 10]

\* The workers differ in nothing but their names.
AlikeWorkers == Permutations(Worker)

(***************************************************************************)
(* Once another process has saved the row of every job under a claim, the *)
(* promises to jobs left alone have nothing more to say, and never will.   *)
(* KeyHasPost makes no exception: WorkerKeysArePosted has it for the rest. *)
(***************************************************************************)
SomeRowKept == \E j \in Job : <<j, "overwritten">> \notin disturbed
=============================================================================
