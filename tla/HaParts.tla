------------------------------- MODULE HaParts ------------------------------
(***************************************************************************)
(* The HA replication suite, one part of it to a behaviour: a run on its   *)
(* pairs; runs one after another, resumed and killed; the set of pairs and *)
(* who makes and unmakes it; and the commands that check the applier.      *)
(* While one moves the others stand where they begin.                      *)
(***************************************************************************)
EXTENDS PairSet, HaApply

CONSTANTS
    OfSuite,    \* the run on its pairs: the constants of HaRepl, by name
    OfAgain     \* the runs that follow each other: the same

VARIABLES
    machine,    \* "suite", "resume", "pairs" or "apply"
    rPhase, rResetEvery, rRuns, rKills, rCancelled, rDone, rTodo, rPc, rCur,
    rRes, rLastDir, rLastCase, rFound, rResults, rStranded, rLedger, rFile,
    rMaster, rSlave, rLag, rNoted, rLevel, rClean, rRepaired

Suite == INSTANCE HaRunLemmas WITH
        Pairs <- OfSuite.pairs, Corpus <- OfSuite.corpus,
        Directory <- OfSuite.directory, Resets <- OfSuite.resets,
        Late <- OfSuite.late, Diverging <- OfSuite.diverging,
        Renaming <- OfSuite.renaming, Stubborn <- OfSuite.stubborn,
        NoRepair <- OfSuite.noRepair, Unreadable <- OfSuite.unreadable,
        Resumes <- OfSuite.resumes, Outages <- OfSuite.outages,
        MaxRuns <- OfSuite.runs, MaxKills <- OfSuite.kills, phase <- rPhase,
        resetEvery <- rResetEvery, runs <- rRuns, kills <- rKills,
        cancelled <- rCancelled, done <- rDone, todo <- rTodo, pc <- rPc,
        cur <- rCur, res <- rRes, lastDir <- rLastDir, lastCase <- rLastCase,
        found <- rFound, results <- rResults, stranded <- rStranded,
        ledger <- rLedger, file <- rFile, master <- rMaster, slave <- rSlave,
        lag <- rLag, noted <- rNoted, level <- rLevel, clean <- rClean,
        repaired <- rRepaired

Again == INSTANCE HaRunLemmas WITH
        Pairs <- OfAgain.pairs, Corpus <- OfAgain.corpus,
        Directory <- OfAgain.directory, Resets <- OfAgain.resets,
        Late <- OfAgain.late, Diverging <- OfAgain.diverging,
        Renaming <- OfAgain.renaming, Stubborn <- OfAgain.stubborn,
        NoRepair <- OfAgain.noRepair, Unreadable <- OfAgain.unreadable,
        Resumes <- OfAgain.resumes, Outages <- OfAgain.outages,
        MaxRuns <- OfAgain.runs, MaxKills <- OfAgain.kills, phase <- rPhase,
        resetEvery <- rResetEvery, runs <- rRuns, kills <- rKills,
        cancelled <- rCancelled, done <- rDone, todo <- rTodo, pc <- rPc,
        cur <- rCur, res <- rRes, lastDir <- rLastDir, lastCase <- rLastCase,
        found <- rFound, results <- rResults, stranded <- rStranded,
        ledger <- rLedger, file <- rFile, master <- rMaster, slave <- rSlave,
        lag <- rLag, noted <- rNoted, level <- rLevel, clean <- rClean,
        repaired <- rRepaired

\* A command like any other, where no command is run.
Standing(p) == p.names = {} /\ p.verb = "pairs"

\* A run is given pairs and cases, a conf asks for a number of pairs, the catalog
\* is one of patterns, and there is a command to stand by.
ASSUME HaAssumption ==
    Suite!RunGiven /\ Again!RunGiven /\ PairGiven /\ ApplyGiven /\ \E p \in Asked : Standing(p)

runVars == <<
    rPhase, rResetEvery, rRuns, rKills, rCancelled, rDone, rTodo, rPc, rCur,
    rRes, rLastDir, rLastCase, rFound, rResults, rStranded, rLedger, rFile,
    rMaster, rSlave, rLag, rNoted, rLevel, rClean, rRepaired>>
mcVars == <<machine, runVars, pairVars, vars>>

RunDoes(m, B) == machine = m /\ B /\ UNCHANGED <<machine, pairVars, vars>>
SetDoes(B) == machine = "pairs" /\ B /\ UNCHANGED <<machine, runVars, vars>>
ApplyDoes(B) == machine = "apply" /\ B /\ UNCHANGED <<machine, runVars, pairVars>>

PartsInit ==
    /\ machine \in {"suite", "resume", "pairs", "apply"}
    /\ IF machine = "suite" THEN Suite!Init ELSE Again!Init
    /\ PairInit
    /\ IF machine = "apply" THEN Init ELSE InitWith(CHOOSE p \in Asked : Standing(p))

MCNext ==
    \/ RunDoes("suite", Suite!Next) \/ RunDoes("resume", Again!Next)
    \/ SetDoes(PairNext) \/ ApplyDoes(Next)

PartsSpec == PartsInit /\ [][MCNext]_mcVars

-----------------------------------------------------------------------------
\* A case starts from what is its own, or the reset before it said otherwise.
CaseOnItsOwn ==
    /\ machine = "suite" => Suite!StartsOnItsOwn
    /\ machine = "resume" => Again!StartsOnItsOwn

\* What a run says of its cases and its slaves is so, a directory is on one
\* pair, and over all its runs a case has the verdict it earned last.
HonestRun ==
    /\ machine = "suite" => Suite!ReportHonest /\ Suite!DirectoryOnOnePair /\ Suite!RunAccounts
    /\ machine = "resume" => Again!ReportHonest /\ Again!RunAccounts

\* A run is on the set it asked for, and leaves none of its own behind.
PairsTrue == SetAsAsked /\ LeavesNothing

\* A verdict is the engine's, the ledger whole, and what a command leaves it
\* says.
ApplyTrue == VerdictsSound /\ LedgerSound /\ NothingLeft
=============================================================================
