--------------------------- MODULE IsolationParts ---------------------------
(***************************************************************************)
(* The isolation task: one of its test cases under the controller (the     *)
(* module's own constants), and the suite that runs such cases.  One or    *)
(* the other to a behaviour, while the other stands where it begins.       *)
(***************************************************************************)
EXTENDS Ctl

CONSTANT
    OfSuite     \* the suite: its corpus, slots, exclusions and patches, and the
                \* bounds on wrecks and runs

VARIABLES
    machine,    \* "ctl" or "suite"
    iLeft, iOut, iOver, iAt, iMode, iCtx, iExit, iTree, iTodo, iRefused,
    iOpened, iAll, iFin, iSized, iRuns, iWst, iWtc, iWok, iFiles, iSeen,
    iLines, iCounts, iBackup, iHome, iLeavers, iBlamed, iMissed, iPassed

\* The install under test is not ~/CUBRID.
I == INSTANCE Isolation WITH
        Case <- OfSuite.cases, Slots <- OfSuite.slots, Entries <- OfSuite.entries,
        Patches <- OfSuite.patches, HomeInstall <- FALSE,
        Wrecks <- OfSuite.wrecks, Runs <- OfSuite.runs,
        left <- iLeft, out <- iOut, over <- iOver, at <- iAt, mode <- iMode,
        ctx <- iCtx, exit <- iExit, tree <- iTree, todo <- iTodo,
        refused <- iRefused, opened <- iOpened, all <- iAll, fin <- iFin,
        sized <- iSized, runs <- iRuns, wst <- iWst, wtc <- iWtc, wok <- iWok,
        files <- iFiles, seen <- iSeen, lines <- iLines, counts <- iCounts,
        backup <- iBackup, home <- iHome, leavers <- iLeavers,
        blamed <- iBlamed, missed <- iMissed, passed <- iPassed

\* The suite's cases and slots are numbered.
ASSUME SuiteAssumption == I!IsolationGiven

suiteVars == <<
    iLeft, iOut, iOver, iAt, iMode, iCtx, iExit, iTree, iTodo, iRefused,
    iOpened, iAll, iFin, iSized, iRuns, iWst, iWtc, iWok, iFiles, iSeen,
    iLines, iCounts, iBackup, iHome, iLeavers, iBlamed, iMissed, iPassed>>
mcVars == <<machine, vars, suiteVars>>

CtlDoes(A) == machine = "ctl" /\ A /\ UNCHANGED <<machine, suiteVars>>
SuiteDoes(A) == machine = "suite" /\ A /\ UNCHANGED <<machine, vars>>

PartsInit == machine \in {"ctl", "suite"} /\ Init /\ I!Init

MCNext == CtlDoes(Next) \/ SuiteDoes(I!Next)

PartsSpec == PartsInit /\ [][MCNext]_mcVars

-----------------------------------------------------------------------------
\* The wreck of a server fails the case it appeared under, and no other.
WreckageBlamed == I!WreckageBlamed

\* The corpus is steady under open slots and clean after them, and what outlives
\* a run -- its sizing, its backups -- is true of it.
SuiteHonest == I!TreeSteady /\ I!EndHonest
=============================================================================
