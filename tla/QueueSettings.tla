---------------------------- MODULE QueueSettings ----------------------------
(***************************************************************************)
(* The queue where the code uses it: drained by a run without lanes (the   *)
(* module's own constants), by one with lanes, by a shell run with its     *)
(* corpus behind it, and by an SQL run.  Each is a setting of its own, one *)
(* to a behaviour; while it moves the others stand where they begin.       *)
(***************************************************************************)
EXTENDS DispatchPromise

CONSTANTS
    OnLanes,    \* the run with lanes: its slots, its cases 1..n, their
                \* directories, both sides' lanes and the retries it has
    WithCorpus, \* the shell run, likewise
    OfSql       \* the SQL run, likewise, with its places' ranks

VARIABLES
    machine,    \* "shared", "lanes", "corpus" or "sql"
    lTaken, lCursor, lOwner, lHeld, lRetryQueue, lRetryCount, lQueued,
    lInFlight, lRunning, lDeparted, lStopped, lFull, lCancelled, lPc,
    lTcase, lTretry, lTried, lDone,
    inside, pending, files, entries, post, ended, closed, failed,
    together, phase, served, startErr, begun, recorded, errs, rec, ret, blamed,
    down

\* A run has the constants of the others for nothing.
L == INSTANCE DispatchProofs WITH
        Slots <- OnLanes.slots, N <- OnLanes.n, Dir <- OnLanes.dir, Lanes <- TRUE,
        DirLane <- OnLanes.dirLane, SlotLane <- OnLanes.slotLane,
        MaxRetry <- OnLanes.maxRetry, Gate <- FALSE, Heavy <- {}, HeavyMax <- 1,
        MayStop <- TRUE, MayCancel <- TRUE, Registries <- {}, Starts <- {}, Rank <- <<>>,
        taken <- lTaken, cursor <- lCursor, owner <- lOwner, held <- lHeld,
        retryQueue <- lRetryQueue, retryCount <- lRetryCount,
        queued <- lQueued, inFlight <- lInFlight, running <- lRunning,
        departed <- lDeparted, stopped <- lStopped, full <- lFull,
        cancelled <- lCancelled, pc <- lPc, tcase <- lTcase,
        tretry <- lTretry, tried <- lTried, done <- lDone

K == INSTANCE DispatchProofs WITH
        Slots <- WithCorpus.slots, N <- WithCorpus.n, Dir <- WithCorpus.dir, Lanes <- TRUE,
        DirLane <- WithCorpus.dirLane, SlotLane <- WithCorpus.slotLane,
        MaxRetry <- WithCorpus.maxRetry, Gate <- FALSE, Heavy <- {}, HeavyMax <- 1,
        MayStop <- FALSE, MayCancel <- TRUE, Registries <- BOOLEAN,
        Starts <- {}, Rank <- <<>>,
        taken <- lTaken, cursor <- lCursor, owner <- lOwner, held <- lHeld,
        retryQueue <- lRetryQueue, retryCount <- lRetryCount,
        queued <- lQueued, inFlight <- lInFlight, running <- lRunning,
        departed <- lDeparted, stopped <- lStopped, full <- lFull,
        cancelled <- lCancelled, pc <- lPc, tcase <- lTcase,
        tretry <- lTretry, tried <- lTried, done <- lDone

S == INSTANCE DispatchProofs WITH
        Slots <- OfSql.slots, N <- OfSql.n, Dir <- OfSql.dir, Lanes <- TRUE,
        DirLane <- OfSql.dirLane, SlotLane <- OfSql.slotLane,
        MaxRetry <- 0, Gate <- FALSE, Heavy <- {}, HeavyMax <- 1,
        MayStop <- TRUE, MayCancel <- TRUE, Starts <- BOOLEAN, Rank <- OfSql.rank,
        Registries <- {},
        taken <- lTaken, cursor <- lCursor, owner <- lOwner, held <- lHeld,
        retryQueue <- lRetryQueue, retryCount <- lRetryCount,
        queued <- lQueued, inFlight <- lInFlight, running <- lRunning,
        departed <- lDeparted, stopped <- lStopped, full <- lFull,
        cancelled <- lCancelled, pc <- lPc, tcase <- lTcase,
        tretry <- lTretry, tried <- lTried, done <- lDone

\* The queue as the runner with lanes sees it.
LQ == INSTANCE CaseQueue WITH
        Case <- L!Case,
        left <- IF machine = "lanes" THEN (L!Case \ lDone) \ {lTcase[s] : s \in OnLanes.slots}
                ELSE L!Case,
        out <- IF machine = "lanes" THEN {lTcase[s] : s \in OnLanes.slots} \ {0} ELSE {},
        over <- IF machine = "lanes" THEN lDone ELSE {}

\* Each is a run the queue is made for, and the SQL run's places are numbered.
ASSUME SettingsAssumption ==
    /\ L!DispatchAssumption /\ K!DispatchAssumption
    /\ S!DispatchAssumption /\ S!Places

laneVars == <<
    lTaken, lCursor, lOwner, lHeld, lRetryQueue, lRetryCount, lQueued,
    lInFlight, lRunning, lDeparted, lStopped, lFull, lCancelled, lPc,
    lTcase, lTretry, lTried, lDone>>
restVars == <<
    inside, pending, files, entries, post, ended, closed, failed>>
sqlVars == <<
    together, phase, served, startErr, begun, recorded, errs, rec, ret, blamed,
    down>>
mcVars == <<machine, vars, laneVars, restVars, sqlVars>>

NoCorpus ==
    /\ inside = FALSE /\ pending = <<>> /\ files = {} /\ entries = {}
    /\ post = <<>> /\ ended = <<>> /\ closed = FALSE /\ failed = FALSE

NoSql ==
    /\ together = FALSE /\ phase = <<>> /\ served = {} /\ startErr = {} /\ begun = FALSE
    /\ recorded = {} /\ errs = <<>> /\ rec = "open" /\ ret = "none" /\ blamed = 0
    /\ down = {}

MCInit ==
    /\ Init
    /\ \/ machine = "shared" /\ L!Init /\ NoCorpus /\ NoSql
       \/ machine = "lanes" /\ L!Init /\ NoCorpus /\ NoSql
       \/ machine = "corpus" /\ K!CorpusInit /\ NoSql
       \/ machine = "sql" /\ S!RunInit /\ NoCorpus

SharedStep == machine = "shared" /\ Next /\ UNCHANGED <<machine, laneVars, restVars, sqlVars>>
LanesStep == machine = "lanes" /\ L!Next /\ UNCHANGED <<machine, vars, restVars, sqlVars>>
CorpusStep == machine = "corpus" /\ K!CorpusNext /\ UNCHANGED <<machine, vars, sqlVars>>
SqlDoes(A) == machine = "sql" /\ A /\ UNCHANGED <<machine, vars, restVars>>

SettingsNext == SharedStep \/ LanesStep \/ CorpusStep \/ SqlDoes(S!RunNext)

SettingsSpec == MCInit /\ [][SettingsNext]_mcVars

-----------------------------------------------------------------------------
\* With lanes: the cases are kept as well, a directory stays with one slot, no
\* slot is sent away from a case it could take, and the end is the end.
OnLanesKept == machine = "lanes" => L!LanesKept

\* Behind the queue: a directory's count is of its cases that have not retired,
\* everything is reclaimed by the end, and no case runs in a slot whose registry
\* names a database that is gone.
CorpusTrue == machine = "corpus" => K!CorpusTrue

\* A case's files outlive it for as long as a sibling may run.
KeptForSiblings == K!KeptForSiblings

\* The SQL run: servers come up in turn, no case is missed, and a run that lost
\* one does not pass.
SqlSound == machine = "sql" => S!SqlSound

\* Cursors, held cases, owners and retries come to no more than a queue that
\* hands a case to one slot at a time and never again once it is done with.
QueuesImplemented == ImplementsCaseQueue /\ LQ!QueueSpec
=============================================================================
