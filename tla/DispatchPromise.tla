--------------------------- MODULE DispatchPromise --------------------------
(***************************************************************************)
(* What the queue of Dispatch promises the slots that drain it: with lanes *)
(* a directory stays with one slot and nobody is sent away too early, the  *)
(* end it reports is the end, and lanes, cursors, held cases and retries   *)
(* together are no more than the queue of CaseQueue.                       *)
(***************************************************************************)
EXTENDS Dispatch

\* `A directory belongs to whichever slot claimed it first': a case that runs,
\* or is held, is at the slot that owns its directory, first attempt or retry.
DirectoryOnOneSlot ==
    Lanes => \A s \in Slots : \A c \in Rng(held[s]) \cup {tcase[s]} :
                c # 0 => \A d \in Case : Dir[d] = Dir[c] => owner[d] = s

\* With lanes every retry finds its owner still asking, so the general retry
\* queue is never used: the branch for a departed owner is dead.
RetryQueueUnused == Lanes => retryQueue = <<>>

\* A directory's database is its slot's alone, whatever becomes of its cases.
LanesApart == DirectoryOnOneSlot /\ RetryQueueUnused

\* ClaimFor: `false means the run is over for this claimant, and only that' --
\* nothing is held for a slot that was told so, and no case waits that its lane
\* may take.
FalseMeansOver ==
    \A s \in departed :
        /\ held[s] = <<>>
        /\ \A c \in Case \ taken : Lanes /\ ~ LaneMatch(c, SlotLane[s])

\* A lane's cursor has passed no case the lane could still take.
CursorSound ==
    \A l \in Lane : \A c \in Case :
        c < cursor[l] /\ LaneMatch(c, l) => c \in taken

\* No scan passes over, and no slot is sent away from, a case it could take.
NothingPassedOver == FalseMeansOver /\ CursorSound

\* `The last one standing drains the retries alone': when every slot has gone
\* and nobody stopped the run, every case is done with.
RunComplete == AllGone /\ ~stopped /\ ~cancelled => done = Case

\* Finished() is not said of a run that still has work.
FinishedMeansDone == Finished /\ ~stopped /\ ~cancelled => done = Case

\* The two ends agree: the queue says it has finished, and the last slot leaves,
\* only over a run that is done.
EndIsDone == RunComplete /\ FinishedMeansDone

\* The queue with lanes: it keeps its cases, a directory stays with one slot, no
\* slot is sent away from a case it could take, and the end is the end (ClaimFor,
\* scan, enqueue, Finished).
LanesKept == QueueSound /\ LanesApart /\ NothingPassedOver /\ EndIsDone

\* The queue as the runner that drains it sees it.
Q == INSTANCE CaseQueue WITH
        left <- (Case \ done) \ {tcase[s] : s \in Slots},
        out <- {tcase[s] : s \in Slots} \ {0}, over <- done

\* ClaimFor hands a case to one slot at a time, and never again once Complete has
\* put it away.
ImplementsCaseQueue == Q!QueueSpec
=============================================================================
