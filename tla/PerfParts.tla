------------------------------ MODULE PerfParts ------------------------------
(***************************************************************************)
(* The performance runner, one machine to a behaviour: the session; a case *)
(* of it; a wait before one of the case's windows; and an HA side after a  *)
(* failover case.  The first abstracts the others to their outcomes.       *)
(* While one moves the others stand where they begin.                      *)
(***************************************************************************)
EXTENDS PerfSession

CONSTANTS
    OfPass,     \* the case: the constants of PerfPass, by name
    OfWait,     \* the wait: those of PerfWaits, and the offsets it may begin with
    OfSettle    \* the HA side: those of HaSettle

VARIABLES
    machine,    \* "session", "pass", "wait" or "settle"
    kind, pAt, step, side, cur, passes, pSignalled, faults, verdict,
    wait, wAt, left, events, engine, watcher, reads, pusher, ckpt, notes,
    role, settle, goal, n1, troubles, cut

P == INSTANCE PerfPass WITH at <- pAt, signalled <- pSignalled,
        Kinds <- OfPass.kinds, NWarmup <- OfPass.warmup,
        NRepeats <- OfPass.repeats, NRemeasure <- OfPass.remeasure,
        MinPairs <- OfPass.pairs, Times <- OfPass.times, Faults <- OfPass.faults
W == INSTANCE PerfWaits WITH at <- wAt, Reads <- OfWait.reads,
        Running <- OfWait.running, Unreadable <- OfWait.unreadable,
        MaxPushes <- OfWait.pushes, Events <- OfWait.events
H == INSTANCE HaSettle WITH Readings <- OfSettle.readings, Troubles <- OfSettle.troubles

\* A wait is given a whole time, of one poll or more; a case is repeated and
\* measured again at least once, and logarithms are whole.
ASSUME PerfPartsAssumption ==
    /\ OfWait.running \in Nat \ {0} /\ OfWait.offsets \subseteq Int
    /\ OfPass.warmup \in Nat /\ OfPass.repeats \in Nat \ {0}
    /\ OfPass.remeasure \in Nat \ {0}
    /\ \A s \in P!Sides : OfPass.times[s] \subseteq Int

pVars == <<kind, pAt, step, side, cur, passes, pSignalled, faults, verdict>>
wVars == <<wait, wAt, left, events, engine, watcher, reads, pusher, ckpt, notes>>
hVars == <<role, settle, goal, n1, troubles, cut>>
mcVars == <<machine, vars, pVars, wVars, hVars>>

PartsInit ==
    /\ machine \in {"session", "pass", "wait", "settle"}
    /\ Init
    /\ \E k \in OfPass.kinds : P!PassInit(k)
    /\ \E w \in {"vacuum", "checkpoint"}, on, seen \in BOOLEAN, off \in OfWait.offsets :
           W!WaitInit(w, on, seen, off)
    /\ \E m \in H!Nodes : H!SettleInit(m)

SessionDoes(A) == machine = "session" /\ A /\ UNCHANGED <<machine, pVars, wVars, hVars>>
PassDoes(A) == machine = "pass" /\ A /\ UNCHANGED <<machine, vars, wVars, hVars>>
WaitDoes(A) == machine = "wait" /\ A /\ UNCHANGED <<machine, vars, pVars, hVars>>
SettleDoes(A) == machine = "settle" /\ A /\ UNCHANGED <<machine, vars, pVars, wVars>>

\* The machines' own steps, and what the world does to them.
MCNext ==
    \/ SessionDoes(Next)
    \/ PassDoes(P!Run) \/ PassDoes(P!Signal \/ P!Drift)
    \/ WaitDoes(W!Waits) \/ WaitDoes(W!Engine)
    \/ SettleDoes(H!Settles) \/ SettleDoes(H!Heartbeat \/ H!ServerDies)

PartsSpec == PartsInit /\ [][MCNext]_mcVars

-----------------------------------------------------------------------------
\* The session keeps account of its clusters: what guard stage 3 reads is
\* there, none of them is left standing that no note names, and a group's cases
\* run on the sides it asked for.
ClustersKnown == GuardCounts /\ NothingLeft /\ RightSides

\* Every case is on record, and session.json says no more than the record.
RecordTrue == CasesOnRecord /\ DocTruthful

\* A value was taken on the hosts it claims, no cluster is left paused that is
\* not marked frozen, a flag stands on the pairs it needs, and every repetition
\* is on record.
PassesSound == P!ValuesSound /\ P!PauseKnown /\ P!FlagEarned /\ P!RepsOnRecord

\* A wait with nothing to say has seen what it waited for; no settle stops the
\* one master, and a restored side has its roles.
WaitsTrue == W!VacuumDone /\ W!CheckpointOver /\ H!MasterKept /\ H!RestoredTrue
=============================================================================
