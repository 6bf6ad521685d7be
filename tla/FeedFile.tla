------------------------------ MODULE FeedFile ------------------------------
(***************************************************************************)
(* The JSON and RSS feed files: a publish reads the items of the file,     *)
(* drops the one with the same id, puts the article first, writes the      *)
(* first items of that to a temporary file and replaces the file with it.  *)
(* Only the replacement is seen, so one process publishes in one step.     *)
(***************************************************************************)
EXTENDS SequencesExt

CONSTANTS
    FileDestination,   \* the publishers that keep a file
    MaxFeedItems,      \* max_items
    OldItems           \* what the files hold from earlier days, latest first

ASSUME FeedAssumption ==
    /\ MaxFeedItems \in Nat \ {0}
    /\ OldItems \in Seq(ToSet(OldItems))
    /\ Len(OldItems) <= MaxFeedItems /\ IsInjective(OldItems)

VARIABLES
    files,     \* FileDestination -> the articles of its file, first to last
    written    \* FileDestination -> all articles ever put in it, the latest first

fileVars == <<files, written>>

FeedInit ==
    /\ files = [d \in FileDestination |-> OldItems]
    /\ written = [d \in FileDestination |-> OldItems]

Truncated(items) == SubSeq(items, 1, IF Len(items) < MaxFeedItems THEN Len(items) ELSE MaxFeedItems)

\* Mutant: the item of an article that is published again stays.
InsertedTwice(items, a) == Truncated(<<a>> \o items)

(***************************************************************************)
(* No id is in a file twice: dropping the items with that of the article   *)
(* drops at most one.                                                      *)
(***************************************************************************)
Inserted(items, a) == Truncated(<<a>> \o RemoveFirst(items, a))

Replace(d, a) ==
    /\ files' = [files EXCEPT ![d] = Inserted(@, a)]
    /\ written' = [written EXCEPT ![d] = <<a>> \o RemoveFirst(@, a)]

-----------------------------------------------------------------------------
(***************************************************************************)
(* Through retries, updates and crashes a feed lists the articles that     *)
(* were published last, each of them once, the latest first.               *)
(***************************************************************************)
FeedsLatest == \A d \in FileDestination : files[d] = Truncated(written[d])

=============================================================================
