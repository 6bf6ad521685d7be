--------------------------- MODULE WorkerHistory ---------------------------
(***************************************************************************)
(* The worker pool with a history variable: what went wrong with the       *)
(* claims so far.  Nothing in the code keeps ingestion, a recovery or      *)
(* another worker off a job that is being published, so what the engine    *)
(* promises of its claims is stated for the jobs that were left alone, and *)
(* the variable tells which these are.  It changes nothing else.           *)
(***************************************************************************)
EXTENDS WorkerPool

(***************************************************************************)
(* overwritten: another process saved the row of a job with an open claim. *)
(* redated: another process saved another version of its article after the *)
(* claim had loaded it.  expired: the lease of the claim ran out and the   *)
(* row was taken back.  lost: the reply to its publish was lost.  died:    *)
(* its worker died.                                                        *)
(***************************************************************************)
Trouble == {"overwritten", "redated", "expired", "lost", "died"}

VARIABLE disturbed    \* the <<job, trouble>> of all claims so far

varsH == <<vars, disturbed>>

InitH == Init /\ disturbed = {}

-----------------------------------------------------------------------------
(***************************************************************************)
(* The claims other workers hold that a step finds open.                   *)
(***************************************************************************)
Beside(w) == {v \in Worker \ {w} : claim[v].step # "idle"}

RowSaved(v) == jobs'[claim[v].job] # jobs[claim[v].job]

Redated(v) ==
    /\ claim[v].step # "load"
    /\ articles'[claim[v].job[1]].ts # articles[claim[v].job[1]].ts

JobsOf(W) == {claim[v].job : v \in W}

\* What saving rows and articles does to the claims of W.
Saved(W) ==
    JobsOf({v \in W : RowSaved(v)}) \X {"overwritten"}
      \cup JobsOf({v \in W : Redated(v)}) \X {"redated"}

IngestStepH(p) ==
    /\ IngestStep(p)
    /\ disturbed' = disturbed \cup Saved({w \in Worker : claim[w].step # "idle"})

RecoverH(w) ==
    /\ RecoverLeases(w)
    /\ UNCHANGED intake
    /\ disturbed' = disturbed \cup
          JobsOf({v \in Beside(w) : RowSaved(v) /\ claim[v].at + Lease <= now}) \X {"expired"}

ClaimH(w) == ClaimNext(w) /\ UNCHANGED <<intake, disturbed>>

ReplyLost(w) == claim[w].step = "send" /\ claim'[w].step = "readFailed" /\ channels' # channels

PublishH(w) ==
    /\ Publish(w)
    /\ UNCHANGED intake
    /\ disturbed' = disturbed \cup Saved(Beside(w))
                      \cup JobsOf({v \in {w} : ReplyLost(v)}) \X {"lost"}

DieH(w) ==
    /\ LoseClaim(w)
    /\ UNCHANGED intake
    /\ disturbed' = disturbed \cup {<<claim[w].job, "died">>}

NextH ==
    \/ TickStep /\ UNCHANGED disturbed
    \/ \E p \in Ingester : IngestStepH(p)
    \/ \E w \in Worker : RecoverH(w) \/ ClaimH(w) \/ PublishH(w) \/ DieH(w)

SpecH == InitH /\ [][NextH]_varsH

-----------------------------------------------------------------------------
(***************************************************************************)
(* A worker works on the job of its claim until it has put it back.        *)
(***************************************************************************)
Working(w) == claim[w].step \notin {"idle", "recordFailure"}

Running(w) == claim[w].at + Lease > now

Calm(j) == \A trouble \in Trouble : <<j, trouble>> \notin disturbed

(***************************************************************************)
(* Two workers work on one job under leases that both run only if another  *)
(* process has saved the row of the job while one of them was working on   *)
(* it.  No selection, recovery, retry or crash leads to that.              *)
(***************************************************************************)
ClaimsExclude ==
    \A w, v \in Worker :
        /\ Working(w) /\ Running(w)
        /\ Working(v) /\ Running(v)
        /\ claim[w].job = claim[v].job
        /\ <<claim[w].job, "overwritten">> \notin disturbed
        => w = v

(***************************************************************************)
(* A version of an article reaches a destination twice only if a claim on  *)
(* the job was disturbed: listing, queueing, refusing and retrying it any  *)
(* number of times does not repeat a post.                                 *)
(***************************************************************************)
RepostsExplained == \A post \in reposts : ~Calm(post[1])

(***************************************************************************)
(* Of a job that was left alone, a worker acknowledges, and marks a        *)
(* version key for, only a version that its destination received, or one   *)
(* that is older than what it received.  An article has one delivery time  *)
(* for all destinations, so that is promised only until a second           *)
(* destination has the article.                                            *)
(***************************************************************************)
UpToDate(j, ts) == \E post \in posts : post[1] = j /\ post[2] >= ts

Shared(j) == \E k \in legacyKeys \ {j} : k[1] = j[1]

AcknowledgesPosted ==
    /\ \A w \in Worker :
          claim[w].step \in {"readSucceeded", "saveSucceeded", "markLegacy"} =>
              \/ UpToDate(claim[w].job, claim[w].article.ts)
              \/ ~Calm(claim[w].job) \/ Shared(claim[w].job)
    /\ \A key \in versionKeys : UpToDate(key[1], key[2]) \/ ~Calm(key[1]) \/ Shared(key[1])

=============================================================================
