--------------------------- MODULE MCWorkerPool ----------------------------
(***************************************************************************)
(* Small instances of the worker pool: a worker w1 on the backlog that an  *)
(* ingestion left behind, articles a1 and a2 of source s1, a3 of source s2 *)
(* and a4 of source s3.                                                    *)
(***************************************************************************)
EXTENDS WorkerPool, TLC

CONSTANTS a1, a2, a3, a4, s1, s2, s3

ThreeSources == [a \in Article |-> CASE a \in {a1, a2} -> s1 [] a = a3 -> s2 [] a = a4 -> s3]
EqualPriority == [a \in Article |-> 10]

\* Articles of one source, and sources with one article each, differ in nothing but their names.
AlikeArticles == {p @@ q : p \in Permutations({a1, a2}), q \in Permutations({a3, a4})}

\* All articles were queued and then saved before the worker starts.
QueuedInit ==
    /\ BacklogInit({1})
    /\ \A a \in Article : articles[a].stored
    /\ \A j \in Job : jobs[j].status = "pending"
    /\ IntakeInit
    /\ ClaimInit

QueuedSpec == QueuedInit /\ [][Next]_vars
=============================================================================
