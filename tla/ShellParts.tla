----------------------------- MODULE ShellParts -----------------------------
(***************************************************************************)
(* What surrounds the queue in a shell run, one part to a behaviour: the   *)
(* worker and its monitor (the module's own constants); what a run records *)
(* and a later one continues; the containment; and the run itself, from    *)
(* its case list to the files it leaves to the next.  While one moves the  *)
(* others stand where they begin.                                          *)
(***************************************************************************)
EXTENDS Monitor, FiniteSets

CONSTANTS
    Recorded,   \* the record: its cases, environments and slots, and the bound
                \* on its runs
    Held,       \* the containment: its slots, and the bound on kills
    Tested      \* the runs of the suite: the constants of ShellRun, by name

VARIABLES
    machine,    \* "monitor", "resume", "contain" or "run"
    rAll, rFin, rStat, rRuns, rPhase, rCont, rEnv, rOpened, rCount, rWaiting,
    rSpc, rScase, rCancelled, rJudged, rRecorded, rSkipped, rClean, rCut,
    rOutcome,
    cProc, cCode, cOutside, cAt, cOk, cRoot, cKeeper, cReady, cCmd, cTold,
    cKills,
    sPlan, sSizes, sSource, sLayer, sFin, sAll, sTold, sRun, sSl, sTodo,
    sRecord, sHeld, sApplied, sJudged, sLogs, sCancelled, sStuck, sRuns,
    sTrouble

R == INSTANCE Resume WITH
        Cases <- Recorded.cases, Envs <- Recorded.envs, Slots <- Recorded.slots,
        MaxRuns <- Recorded.runs,
        all <- rAll, fin <- rFin, stat <- rStat, runs <- rRuns,
        phase <- rPhase, cont <- rCont, env <- rEnv, opened <- rOpened,
        count <- rCount, waiting <- rWaiting, spc <- rSpc, scase <- rScase,
        cancelled <- rCancelled, judged <- rJudged, recorded <- rRecorded,
        skipped <- rSkipped, clean <- rClean, cut <- rCut, outcome <- rOutcome

C == INSTANCE Contain WITH
        NSlots <- Held.slots, Kills <- Held.kills,
        proc <- cProc, code <- cCode, outside <- cOutside, at <- cAt,
        ok <- cOk, root <- cRoot, keeper <- cKeeper, ready <- cReady,
        cmd <- cCmd, told <- cTold, kills <- cKills

S == INSTANCE ShellRun WITH
        DirOf <- Tested.dirOf, Unit <- Tested.unit,
        Case <- Tested.case, Slots <- Tested.slots, Settings <- Tested.settings,
        Took <- Tested.took, Holds <- Tested.holds,
        LogKB <- Tested.logKB, LogBudget <- Tested.logBudget,
        MaxRetry <- Tested.maxRetry, Runs <- Tested.runs, Trouble <- Tested.trouble,
        plan <- sPlan, sizes <- sSizes, source <- sSource, layer <- sLayer,
        fin <- sFin, all <- sAll, told <- sTold, run <- sRun, sl <- sSl,
        todo <- sTodo, record <- sRecord, held <- sHeld, applied <- sApplied,
        judged <- sJudged, logs <- sLogs, cancelled <- sCancelled,
        stuck <- sStuck, runs <- sRuns, trouble <- sTrouble

\* A record is of finitely many cases, none of them called what stands for none,
\* in a run that has a slot; so has a contained run; and what the suite is bounded
\* by are numbers.
RecordGiven ==
    /\ IsFiniteSet(Recorded.cases) /\ R!NoCase \notin Recorded.cases
    /\ Recorded.slots # {} /\ Recorded.runs \in Nat
RunGiven ==
    /\ Tested.slots \in Nat /\ Tested.logKB \in Nat /\ Tested.logBudget \in Nat
    /\ Tested.runs \in Nat
ASSUME PartsAssumption == RecordGiven /\ Held.slots \in Nat \ {0} /\ RunGiven

resumeVars == <<
    rAll, rFin, rStat, rRuns, rPhase, rCont, rEnv, rOpened, rCount, rWaiting,
    rSpc, rScase, rCancelled, rJudged, rRecorded, rSkipped, rClean, rCut,
    rOutcome>>
containVars == <<
    cProc, cCode, cOutside, cAt, cOk, cRoot, cKeeper, cReady, cCmd, cTold,
    cKills>>
shellVars == <<
    sPlan, sSizes, sSource, sLayer, sFin, sAll, sTold, sRun, sSl, sTodo,
    sRecord, sHeld, sApplied, sJudged, sLogs, sCancelled, sStuck, sRuns,
    sTrouble>>
mcVars == <<machine, vars, resumeVars, containVars, shellVars>>

MonitorDoes(A) == machine = "monitor" /\ A /\ UNCHANGED <<machine, resumeVars, containVars, shellVars>>
ResumeDoes(A) == machine = "resume" /\ A /\ UNCHANGED <<machine, vars, containVars, shellVars>>
ContainDoes(A) == machine = "contain" /\ A /\ UNCHANGED <<machine, vars, resumeVars, shellVars>>
RunDoes(A) == machine = "run" /\ A /\ UNCHANGED <<machine, vars, resumeVars, containVars>>

MCInit ==
    /\ machine \in {"monitor", "resume", "contain", "run"}
    /\ Init /\ R!Init /\ C!Init /\ S!Init
    /\ machine # "resume" => rEnv = CHOOSE e \in Recorded.envs : TRUE

MCNext == MonitorDoes(Next) \/ ResumeDoes(R!Next) \/ ContainDoes(C!Next) \/ RunDoes(S!Next)

PartsSpec == MCInit /\ [][MCNext]_mcVars

-----------------------------------------------------------------------------
\* What a continued run skips was judged, what it runs was not, and its counters
\* are not behind.
ResumeTrue == R!ResumeSound /\ R!CompleteMeansJudged /\ R!CountersKeepUp

\* Nothing meant for the namespaces runs outside them, no status is lost, and no
\* slot outlives its run.
Contained == C!Contained

\* No run makes the plan or the footprints forget.
PlanKeeps == S!PlanKeeps

\* Every case has a lane with a slot, and the lanes are what was asked for.
LanesServed == S!LanesServed

\* A verdict is about the source it says, the checkout comes out as it went in,
\* and the captured logs stay within their budget.
CorpusHonest == S!PatchTruth /\ S!CorpusClean /\ S!LogsBounded
=============================================================================
