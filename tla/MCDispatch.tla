----------------------------- MODULE MCDispatch -----------------------------
(***************************************************************************)
(* The settings of the queue, small: four cases without lanes under a gate *)
(* and a heavy cap; five cases in three directories on two lanes, with     *)
(* slots that fail and stop the run; four cases with the corpus reclaimed  *)
(* behind them; and the SQL run, whose slots bring their servers up first. *)
(***************************************************************************)
EXTENDS QueueSettings, TLC

OwnDirs == [c \in Case |-> c]
NoLanes == [d \in 1..N |-> "fast"]
AnySlot == [s \in Slots |-> "any"]
FirstTwo == {1, 2}

\* Cases 1 and 3 share a directory, out of order with the one between them;
\* directory 2 is slow, and one slot of the three is its.
FiveOnLanes == [
    slots |-> {"s1", "s2", "s3"}, n |-> 5, dir |-> <<1, 2, 1, 2, 3>>,
    dirLane |-> <<"fast", "slow", "fast">>,
    slotLane |-> ("s1" :> "fast" @@ "s2" :> "fast" @@ "s3" :> "slow"),
    maxRetry |-> 2]

\* Two of the cases share a directory with another's case between them; a slot
\* of the fast lane runs a third directory after it.
FourShared == [
    slots |-> {"s1", "s2"}, n |-> 4, dir |-> <<"a", "b", "a", "c">>,
    dirLane |-> [d \in {"a", "b", "c"} |-> IF d = "b" THEN "slow" ELSE "fast"],
    slotLane |-> ("s1" :> "fast" @@ "s2" :> "slow"),
    maxRetry |-> 1]

\* Three cases, the first two in one directory, on any slot.
ThreeOfSql == [
    slots |-> {"s1", "s2", "s3"}, n |-> 3, dir |-> <<"a", "a", "b">>,
    dirLane |-> ("a" :> "fast" @@ "b" :> "fast"),
    slotLane |-> ("s1" :> "any" @@ "s2" :> "any" @@ "s3" :> "any"),
    rank |-> ("s1" :> 1 @@ "s2" :> 2 @@ "s3" :> 3)]

\* The same lanes over three cases and a gate that is set.
G == INSTANCE Dispatch WITH
        Slots <- {"s1", "s2", "s3"}, N <- 3, Dir <- <<1, 2, 1>>, Lanes <- TRUE,
        DirLane <- <<"fast", "slow">>,
        SlotLane <- ("s1" :> "fast" @@ "s2" :> "fast" @@ "s3" :> "slow"),
        MaxRetry <- 1, Gate <- TRUE, Heavy <- {}, HeavyMax <- 1,
        MayStop <- FALSE, MayCancel <- FALSE,
        taken <- lTaken, cursor <- lCursor, owner <- lOwner, held <- lHeld,
        retryQueue <- lRetryQueue, retryCount <- lRetryCount,
        queued <- lQueued, inFlight <- lInFlight, running <- lRunning,
        departed <- lDeparted, stopped <- lStopped, full <- lFull,
        cancelled <- lCancelled, pc <- lPc, tcase <- lTcase,
        tretry <- lTretry, tried <- lTried, done <- lDone

\* The fairness is that of the shared queue and of the SQL run, whose ends are
\* asked for.
MCSpec ==
    /\ MCInit /\ [][SettingsNext]_mcVars
    /\ Fairness
    /\ \A s \in OfSql.slots : WF_mcVars(SqlDoes(S!RunStep(s)))
    /\ WF_mcVars(SqlDoes(S!EndSetup \/ S!EndFailed \/ S!EndWell))

GateSpec ==
    /\ Init /\ machine = "gate" /\ G!Init /\ NoCorpus /\ NoSql
    /\ [][machine = "gate" /\ G!Next /\ UNCHANGED <<machine, vars, restVars, sqlVars>>]_mcVars

-----------------------------------------------------------------------------
\* The gate and the cap hold for every first attempt, and nobody waits for ever:
\* for a case or, in the SQL run, for a turn.
QueueServes ==
    /\ AdmissionHolds
    /\ machine = "shared" => Termination
    /\ machine = "sql" => S!RunEnds

\* With lanes: nothing new starts over the mark unless nothing is running.
LanesGateHolds == G!GateHolds
=============================================================================
