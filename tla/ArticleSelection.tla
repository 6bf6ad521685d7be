-------------------------- MODULE ArticleSelection --------------------------
(***************************************************************************)
(* The loops of _select_new_articles, one action per test and turn: the    *)
(* priorities in descending order; for each, passes over the sources that  *)
(* are still active; in a pass, one article for each source.  The store    *)
(* does not change meanwhile: the loops run inside a transaction.          *)
(***************************************************************************)
EXTENDS PublicationSlots, SequencesExt

CONSTANT Ages   \* bound: when the jobs were queued

ASSUME AgesAssumption == Ages \subseteq Nat \ {0}

VARIABLE selection

selectionVars == <<storeVars, selection>>

(***************************************************************************)
(* The queue as the transaction finds it: each job is queued, or claimed   *)
(* by another process.                                                     *)
(***************************************************************************)
Queued(age) == [NoRow EXCEPT !.status = "pending", !.created = age]

SelectionInit ==
    /\ now \in {t \in Ages : \A age \in Ages : age <= t}
    /\ articles = [a \in Article |-> [stored |-> TRUE, ts |-> 1, sent |-> 0]]
    /\ jobs \in [Job -> {Queued(age) : age \in Ages} \cup {Claimed(Queued(1), now)}]
    /\ delivered = [j \in Job |-> 0]
    /\ legacyKeys = {} /\ versionKeys = {} /\ posts = {} /\ reposts = {}
    /\ lastPost = [j \in Job |-> 0]
    /\ selection = [step |-> "priority", selected |-> {}, visited |-> {}, level |-> 0,
                    active |-> <<>>, turns |-> <<>>, progressed |-> FALSE]

-----------------------------------------------------------------------------
Full == Cardinality(selection.selected) >= FreeSlots(now)

(***************************************************************************)
(* by_priority: what is left in the queue of a source at a priority.       *)
(***************************************************************************)
Queue(priority, source) ==
    {a \in Candidates(now) \ selection.selected :
        PriorityOf[a] = priority /\ SourceOf[a] = source}

\* Mutant: the sources take their turns in any order.
MetInAnyOrder(order, priority) == TRUE

(***************************************************************************)
(* An order the sources of a priority can have been met in, the eligible   *)
(* jobs being sorted by age.                                               *)
(***************************************************************************)
MetInOrder(order, priority) ==
    \A m, n \in DOMAIN order : m < n =>
        \E a \in Queue(priority, order[m]) :
            \A b \in Queue(priority, order[n]) : ~Older(b, a, now)

NextPriority ==
    /\ selection.step = "priority"
    /\ LET left == {PriorityOf[a] : a \in Candidates(now)} \ selection.visited
       IN  IF left = {} \/ Full
           THEN selection' = [selection EXCEPT !.step = "done"]
           ELSE \E top \in left :
                \E order \in SetToSeqs({SourceOf[a] : a \in {c \in Candidates(now) :
                                                             PriorityOf[c] = top}}) :
                   /\ \A priority \in left : priority <= top
                   /\ MetInOrder(order, top)
                   /\ selection' = [selection EXCEPT !.step = "pass", !.level = top,
                                                     !.visited = @ \cup {top},
                                                     !.active = order]
    /\ UNCHANGED storeVars

StartPass ==
    /\ selection.step = "pass"
    /\ selection' = IF selection.active = <<>> \/ Full
                    THEN [selection EXCEPT !.step = "priority"]
                    ELSE [selection EXCEPT !.step = "turn", !.turns = selection.active,
                                           !.progressed = FALSE]
    /\ UNCHANGED storeVars

\* Mutant: the limit of a source is not tested.
ExhaustedUncapped(source) == Queue(selection.level, source) = {}

(***************************************************************************)
(* The turn of one source: it leaves the passes when it is at its limit or *)
(* has nothing left, or gets a slot for its oldest article.                *)
(***************************************************************************)
Exhausted(source) ==
    \/ SourceCount(source, now)
         + Cardinality({a \in selection.selected : SourceOf[a] = source}) >= MaxSource
    \/ Queue(selection.level, source) = {}

\* Mutant: an exhausted source stays active, and its turn counts as progress.
TakeTurnKeeping ==
    /\ selection.step = "turn" /\ selection.turns # <<>>
    /\ LET source == Head(selection.turns)
           queue == Queue(selection.level, source)
       IN  IF Exhausted(source)
           THEN selection' = [selection EXCEPT !.progressed = TRUE, !.turns = Tail(@)]
           ELSE \E a \in queue :
                   selection' = [selection EXCEPT !.selected = @ \cup {a}, !.progressed = TRUE,
                                                  !.turns = Tail(@)]
    /\ UNCHANGED storeVars

TakeTurn ==
    /\ selection.step = "turn" /\ selection.turns # <<>>
    /\ LET source == Head(selection.turns)
           queue == Queue(selection.level, source)
       IN  IF Exhausted(source)
           THEN selection' = [selection EXCEPT !.active = RemoveFirst(@, source),
                                               !.turns = Tail(@)]
           ELSE \E a \in queue :
                   /\ \A b \in queue : ~Older(b, a, now)
                   /\ selection' = [selection EXCEPT
                         !.selected = @ \cup {a},
                         !.progressed = TRUE,
                         !.turns = IF Cardinality(selection.selected) + 1 >= FreeSlots(now)
                                   THEN <<>> ELSE Tail(@)]
    /\ UNCHANGED storeVars

EndPass ==
    /\ selection.step = "turn" /\ selection.turns = <<>>
    /\ selection' = [selection EXCEPT !.step = IF selection.progressed THEN "pass" ELSE "priority"]
    /\ UNCHANGED storeVars

SelectionNext == NextPriority \/ StartPass \/ TakeTurn \/ EndPass

SelectionSpec ==
    SelectionInit /\ [][SelectionNext]_selectionVars /\ WF_selectionVars(SelectionNext)

-----------------------------------------------------------------------------
(***************************************************************************)
(* What the loops select is a fair selection: limits kept, no slot wasted, *)
(* urgent before routine, sources in turn.                                 *)
(***************************************************************************)
SelectsFairly == selection.step = "done" => FairSelection(selection.selected, now)

(***************************************************************************)
(* Unless jobs were queued at the same instant, it is the only one: the    *)
(* predicate the cycle is specified with leaves it no freedom that the     *)
(* code does not have.                                                     *)
(***************************************************************************)
SelectionDetermined ==
    /\ selection.step = "done"
    /\ \A j, k \in Eligible(now) : jobs[j].created = jobs[k].created => j[1] = k[1]
    => \A S \in SUBSET Candidates(now) : FairSelection(S, now) => S = selection.selected

(***************************************************************************)
(* The nested loops end, with sources leaving them as they are exhausted.  *)
(***************************************************************************)
SelectionEnds == <>(selection.step = "done")

=============================================================================
