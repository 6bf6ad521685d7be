--------------------------- MODULE RuntimeHistory ---------------------------
(***************************************************************************)
(* The runtime with a history variable: the dates a feed listed before     *)
(* they came.  Nothing in the code refuses such a date, and the skip test  *)
(* compares the date of a version with the time its predecessor was        *)
(* delivered, so what it promises depends on them.  The variable changes   *)
(* nothing else.                                                           *)
(***************************************************************************)
EXTENDS RuntimeTick

VARIABLE early   \* the <<article, date>> a batch listed while the date was yet to come

varsH == <<vars, early>>

InitH == Init /\ early = {}

Listed(p) == {a \in Article : intake'[p].items[a].stored}

IngestStepH(p) ==
    /\ IngestStep(p)
    /\ early' = early \cup
          {<<a, intake'[p].items[a].ts>> : a \in {b \in Listed(p) : intake'[p].items[b].ts > now}}

NextH ==
    \/ TickStep /\ UNCHANGED early
    \/ \E p \in Process : \/ IngestStepH(p)
                          \/ (StartCycle(p) \/ CycleStepOf(p) \/ Crash(p)) /\ UNCHANGED early

SpecH == InitH /\ [][NextH]_varsH

-----------------------------------------------------------------------------
(***************************************************************************)
(* A destination that has a version of an article never receives an older  *)
(* one, though feeds list old copies and retries delay new ones: unless    *)
(* the feed dated the version it has into the future, and corrected that   *)
(* later (queue_processor.py:242).                                         *)
(***************************************************************************)
NeverRegresses ==
    [][\A new \in posts' \ posts : \A old \in posts :
          new[1] = old[1] /\ <<old[1][1], old[2]>> \notin early => old[2] < new[2]]_varsH

=============================================================================
