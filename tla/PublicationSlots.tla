-------------------------- MODULE PublicationSlots --------------------------
(***************************************************************************)
(* Which new articles a cycle gives a publication slot: what               *)
(* _select_new_articles promises of its result, without its loops.  The    *)
(* limits are kept, an article is passed over only when they leave it no   *)
(* slot, urgent articles come first, the oldest of a source first, and the *)
(* sources of one priority take turns.                                     *)
(***************************************************************************)
EXTENDS PublicationStore

(***************************************************************************)
(* _select_new_articles as a predicate on its result S: the articles that  *)
(* were not holding a slot and are given one of the free slots.            *)
(***************************************************************************)
Candidates(t) == {j[1] : j \in Eligible(t)} \ Consumed(t)

FreeSlots(t) ==
    LET used == Cardinality(Consumed(t)) IN IF used < MaxGlobal THEN MaxGlobal - used ELSE 0

(***************************************************************************)
(* a entered the queue before b.                                           *)
(***************************************************************************)
Older(a, b, t) ==
    \E j \in Eligible(t) : /\ j[1] = a
                           /\ \A k \in Eligible(t) :
                                 k[1] = b => jobs[j].created < jobs[k].created

SameBucket(a, b) == SourceOf[a] = SourceOf[b] /\ PriorityOf[a] = PriorityOf[b]

(***************************************************************************)
(* How many articles of S as urgent as a, or more so, its source has, with *)
(* those that held a slot before.                                          *)
(***************************************************************************)
SourceUse(S, a, t) ==
    SourceCount(SourceOf[a], t)
      + Cardinality({b \in S : SourceOf[b] = SourceOf[a] /\ PriorityOf[b] >= PriorityOf[a]})

Turns(S, a) == Cardinality({b \in S : SameBucket(a, b)})

(***************************************************************************)
(* b may be taken while a is passed over: urgent articles first, the       *)
(* oldest of a bucket first, and the sources of one priority take turns in *)
(* the order of their oldest article.                                      *)
(***************************************************************************)
MayPrecede(b, a, S, t) ==
    /\ PriorityOf[b] >= PriorityOf[a]
    /\ SameBucket(a, b) => ~Older(a, b, t)
    /\ PriorityOf[b] = PriorityOf[a] /\ SourceOf[b] # SourceOf[a] =>
          \/ Turns(S, b) <= Turns(S, a)
          \/ /\ Turns(S, b) = Turns(S, a) + 1
             /\ \E c \in Candidates(t) :
                   /\ SameBucket(c, b)
                   /\ \A x \in Candidates(t) : SameBucket(x, a) => ~Older(x, c, t)

FairSelection(S, t) ==
    /\ Cardinality(S) <= FreeSlots(t)
    /\ \A a \in S : SourceUse(S, a, t) <= MaxSource
    /\ \A a \in Candidates(t) \ S :
          \/ SourceUse(S, a, t) >= MaxSource
             /\ \A b \in S : SameBucket(a, b) => ~Older(a, b, t)
          \/ /\ Cardinality(S) = FreeSlots(t)
             /\ \A b \in S : MayPrecede(b, a, S, t)

=============================================================================
