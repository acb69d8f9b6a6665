------------------------------- MODULE SqlRun -------------------------------
(***************************************************************************)
(* A run of the sql or medium task (internal/runner/sqlsuite): its slots   *)
(* start a server and an executor each, drain the queue of module Dispatch *)
(* and end together.                                                       *)
(*                                                                         *)
(* Servers come up one slot at a time unless the overlays are volatile:    *)
(* each slot waits for the slot before it to have tried.  A slot that does *)
(* not come up is missed and no more; an executor that dies, or a verdict  *)
(* that cannot be recorded, ends the run for every slot.                   *)
(***************************************************************************)
EXTENDS Dispatch

CONSTANTS
    Rank,       \* Rank[s]: the slot's place in the list of places, from 1
    Starts      \* whether servers start side by side (contain.Volatile), either
                \* way when it has both

VARIABLES
    together,   \* this run's slots start side by side
    phase,      \* phase[s]: how far slot s has come
    served,     \* slots whose turn at starting a server is over
    startErr,   \* slots whose server or executor did not come up
    begun,      \* rec.Begin has printed the run's first lines
    recorded,   \* cases rec.Case has recorded
    errs,       \* errs[s]: how the loop of slot s ended
    rec,        \* the result directory: open, kept (End) or discarded
    ret,        \* how Run returned
    blamed,     \* the slot whose error it returned
    down        \* slots that failed once the run was cancelled (observation)

startVars == <<together, phase, served, startErr, begun>>
endVars == <<together, rec, ret, blamed>>
runVars == <<startVars, recorded, errs, endVars, down>>
sqlVars == <<vars, runVars>>

Phase == {"wait", "serve", "java", "loop", "out"}
Error == {"none", "ctx", "gone", "record"}

-----------------------------------------------------------------------------
(* Coming up.  A name that ends in _F is a seeded fault.                   *)

Before(s) == {t \in Slots : Rank[t] + 1 = Rank[s]}

MyTurn_F(s) == TRUE

\* The channel this slot waits on is closed.
MyTurn(s) == together \/ Before(s) \subseteq served

MoveTo(s, p) == phase' = [phase EXCEPT ![s] = p]

\* doneServing, deferred: the next slot's turn.
Served(s) == served' = served \cup {s}

\* Its turn: start the server, unless the queue has nothing left for a slot
\* that comes up now.
TakeTurn(s) ==
    /\ phase[s] = "wait"
    /\ MyTurn(s)
    /\ IF Rank[s] > 1 /\ Drained
       THEN MoveTo(s, "out") /\ Served(s)
       ELSE MoveTo(s, "serve") /\ UNCHANGED served
    /\ UNCHANGED <<vars, startErr, begun, recorded, errs, endVars, down>>

\* Or the run is cancelled while it waits.
LeaveWaiting(s) ==
    /\ phase[s] = "wait"
    /\ cancelled
    /\ MoveTo(s, "out")
    /\ Served(s)
    /\ UNCHANGED <<vars, startErr, begun, recorded, errs, endVars, down>>

Serve_F(s) ==
    /\ phase[s] = "serve"
    /\ Served(s)
    /\ MoveTo(s, "java")
    /\ startErr' \in {startErr, startErr \cup {s}}
    /\ UNCHANGED <<vars, begun, recorded, errs, endVars, down>>

\* do_serve has ended: the server and its broker are up, or they are not.
Serve(s) ==
    /\ phase[s] = "serve"
    /\ Served(s)
    /\ \/ MoveTo(s, "java") /\ UNCHANGED startErr
       \/ MoveTo(s, "out") /\ startErr' = startErr \cup {s}
    /\ UNCHANGED <<vars, begun, recorded, errs, endVars, down>>

\* The executor says it is ready, and found the cases this runner found ...
Ready(s) ==
    /\ phase[s] = "java"
    /\ MoveTo(s, "loop")
    /\ begun' = TRUE
    /\ UNCHANGED <<vars, served, startErr, recorded, errs, endVars, down>>

\* ... or not.
NotReady(s) ==
    /\ phase[s] = "java"
    /\ MoveTo(s, "out")
    /\ startErr' = startErr \cup {s}
    /\ UNCHANGED <<vars, served, begun, recorded, errs, endVars, down>>

-----------------------------------------------------------------------------
(* The loop of a slot that is up.                                          *)

\* The next ticket, or the end of the queue.
LoopClaim(s) ==
    /\ phase[s] = "loop"
    /\ Claim(s)
    /\ UNCHANGED runVars

\* The worker looks at the run's context before it starts the case ...
LoopRun(s) ==
    /\ phase[s] = "loop"
    /\ ~ cancelled
    /\ Begin(s)
    /\ UNCHANGED runVars

\* ... and leaves with its error, the ticket never completed.
LoopCancelled(s) ==
    /\ phase[s] = "loop"
    /\ pc[s] = "claimed" /\ cancelled
    /\ pc' = [pc EXCEPT ![s] = "failed"]
    /\ errs' = [errs EXCEPT ![s] = "ctx"]
    /\ down' = down \cup {s}
    /\ UNCHANGED <<firstPassVars, held, retryVars, inFlight, running, departed,
                   envVars, tcase, tretry, seenVars, startVars, recorded,
                   endVars>>

\* The case ran (or had no answer), and its verdict is recorded.
LoopCase(s) ==
    /\ phase[s] = "loop"
    /\ Complete(s, "ok")
    /\ recorded' = recorded \cup {tcase[s]}
    /\ UNCHANGED <<startVars, errs, endVars, down>>

LoopFails_F(s, e) ==
    /\ phase[s] = "loop"
    /\ Complete(s, "ok")
    /\ UNCHANGED runVars

\* The executor died under the case -- by itself, or killed with the run's
\* context -- or its verdict could not be recorded.
LoopFails(s, e) ==
    /\ phase[s] = "loop"
    /\ Fail(s)
    /\ errs' = [errs EXCEPT ![s] = e]
    /\ down' = IF cancelled THEN down \cup {s} ELSE down
    /\ UNCHANGED <<startVars, recorded, endVars>>

\* cancel() and then queue.Stop().
LoopEnds(s) ==
    /\ phase[s] = "loop"
    /\ Abort(s) \/ Stop(s)
    /\ UNCHANGED runVars

-----------------------------------------------------------------------------
(* The end, once every slot has returned (wg.Wait).                        *)

Back(s) == phase[s] = "out" \/ pc[s] = "gone"
AllBack == \A s \in Slots : Back(s)

Died == {s \in Slots : errs[s] = "gone"}
Failed_F == Died
Failed == {s \in Slots : errs[s] # "none"}

\* Nothing came up: nothing is kept.
EndSetup ==
    /\ ret = "none" /\ AllBack
    /\ startErr = Slots
    /\ rec' = "discarded" /\ ret' = "setup"
    /\ UNCHANGED <<vars, startVars, recorded, errs, blamed, down>>

\* The first slot whose executor died, else the first with an error.
EndFailed ==
    /\ ret = "none" /\ AllBack
    /\ startErr # Slots
    /\ \E s \in IF Died # {} THEN Died ELSE Failed :
       /\ \A t \in IF Died # {} THEN Died ELSE Failed : Rank[s] <= Rank[t]
       /\ blamed' = s
    /\ ret' = "error"
    /\ UNCHANGED <<vars, startVars, recorded, errs, rec, down>>

\* rec.End: the summary of the run.
EndWell ==
    /\ ret = "none" /\ AllBack
    /\ startErr # Slots
    /\ Failed = {}
    /\ rec' = "kept" /\ ret' = "ok"
    /\ UNCHANGED <<vars, startVars, recorded, errs, blamed, down>>

Ended == ret # "none" /\ UNCHANGED <<vars, startVars, recorded, errs, endVars, down>>

RunInit ==
    /\ Init
    /\ together \in Starts
    /\ phase = [s \in Slots |-> "wait"]
    /\ served = {} /\ startErr = {} /\ begun = FALSE
    /\ recorded = {}
    /\ errs = [s \in Slots |-> "none"]
    /\ rec = "open" /\ ret = "none" /\ blamed = NoSlot
    /\ down = {}

RunStep(s) ==
    \/ TakeTurn(s) \/ LeaveWaiting(s) \/ Serve(s) \/ Ready(s) \/ NotReady(s)
    \/ LoopClaim(s) \/ LoopRun(s) \/ LoopCancelled(s) \/ LoopCase(s)
    \/ \E e \in {"gone", "record"} : LoopFails(s, e)
    \/ LoopEnds(s)

\* A signal, while there is a run to cancel.
Signal ==
    /\ ret = "none" /\ Cancel
    /\ UNCHANGED <<startVars, recorded, errs, endVars, down>>

RunNext ==
    \/ \E s \in Slots : RunStep(s)
    \/ EndSetup \/ EndFailed \/ EndWell
    \/ Signal
    \/ Ended

RunSpec == RunInit /\ [][RunNext]_sqlVars

\* Each slot is a goroutine that keeps going, and its commands come back: a
\* server start and an executor end by themselves or with the run's context.
RunFairSpec ==
    /\ RunSpec
    /\ \A s \in Slots : WF_sqlVars(RunStep(s))
    /\ WF_sqlVars(EndSetup \/ EndFailed \/ EndWell)

-----------------------------------------------------------------------------
(* Properties.                                                             *)

\* The run's state, with the queue's, has its types; a slot that did not come
\* up takes no part.
RunTypeOK ==
    /\ TypeOK
    /\ together \in Starts
    /\ phase \in [Slots -> Phase] /\ served \subseteq Slots
    /\ startErr \subseteq Slots /\ begun \in BOOLEAN
    /\ recorded \subseteq Case /\ errs \in [Slots -> Error]
    /\ rec \in {"open", "kept", "discarded"}
    /\ ret \in {"none", "setup", "error", "ok"}
    /\ blamed \in Slots \cup {NoSlot} /\ down \subseteq Slots
    /\ \A s \in startErr : phase[s] = "out"

\* Until the run is cancelled servers come up a slot at a time: `one at a time,
\* the first slot is working within a minute'.
OneServer ==
    ~ together /\ ~ cancelled => \A s, t \in Slots :
        phase[s] = "serve" /\ phase[t] = "serve" => s = t

\* The same, in a state that is well formed.
ServersInTurn == RunTypeOK /\ OneServer

\* A run that returns no error has recorded every case, however many of its
\* slots never came up, were skipped, or came up late -- or, when it was
\* cancelled, every case it handed out.
OkMeansAll == ret = "ok" => recorded = (IF cancelled THEN taken ELSE Case)

\* A case the queue has let go of without a verdict makes the run an error: an
\* executor's death is never a pass.
NoSilentLoss == recorded # done => Failed # {}

\* A slot that skips its start leaves nothing behind that only it could run:
\* whatever is left when it does is on a slot that is up.
SkippedUnneeded ==
    \A s \in Slots :
        phase[s] = "out" /\ s \notin startErr /\ ~ cancelled =>
            taken = Case \/ stopped

\* A run that ends well is complete, and no slot that stayed down was missed.
NothingMissed == OkMeansAll /\ SkippedUnneeded

\* Together, the promises of a run that ends.
SqlSound == ServersInTurn /\ NothingMissed /\ NoSilentLoss

\* The run ends: no slot waits for ever for a turn, whatever fails.
RunEnds == <>(ret # "none")

-----------------------------------------------------------------------------
(* What a comment or a document says and the code does not have.           *)

\* sql.go: `nothing ran, so there is nothing to keep: a result directory here
\* would be a run that never happened'.
KeptMeansRan == rec = "kept" => begun

\* sql.go: the error returned is `the executor that died, not the slots it took
\* down with it'.
BlamesCulprit ==
    ret = "error" /\ Died \ down # {} => blamed \notin down
=============================================================================
