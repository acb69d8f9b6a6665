------------------------------ MODULE Monitor -------------------------------
(***************************************************************************)
(* One slot's worker and the timeout monitor beside it, from               *)
(* internal/runner/shellsuite: monitor.go and the part of worker.go the    *)
(* two goroutines share.                                                   *)
(*                                                                         *)
(* They share the fields under Worker.mu and nothing else, and the monitor *)
(* takes that lock three times in one check: runningSince, markTimedOut,   *)
(* resolvedAt.  Each is an action, and the worker may move between any two *)
(* of them.  Time is counted in poll intervals, as ages that stop growing  *)
(* where nobody can tell them apart any more.                              *)
(*                                                                         *)
(* A case is known by its attempt number.  What it does is one of three    *)
(* lives: it ends by itself, it waits for something the sweep kills, or it *)
(* waits for something the sweep misses.                                   *)
(*                                                                         *)
(* A definition whose name ends in _F is a seeded fault: the one that      *)
(* follows it with a plausible bug.  No specification uses it.             *)
(***************************************************************************)
EXTENDS Integers

CONSTANTS
    Attempts,   \* bound: how many attempts the worker makes
    Timeout,    \* Monitor.Timeout in poll intervals; 0 disables the monitor
    Grace,      \* EscalateAfter in poll intervals
    Escalates,  \* EscalateAfter is not negative
    MayCancel   \* the run's context may be cancelled

ASSUME MonitorAssumption ==
    /\ Attempts \in Nat /\ Timeout \in Nat /\ Grace \in Nat
    /\ Escalates \in BOOLEAN /\ MayCancel \in BOOLEAN

VARIABLES
    current,    \* a case is in flight: its start is set
    timeout,    \* the case in flight was declared over time
    resolved,   \* age of the first declaration, Never before it
    abort,      \* the attempt abort() ends, 0 when it is nil
    wpc,        \* where the worker is
    attempt,    \* the attempt the worker is at
    age,        \* how long that attempt has run, until its endCase
    life,       \* what its command is waiting for
    ended,      \* its context was cancelled
    success,    \* the verdict as runOne returned it, then as it is recorded
    mpc,        \* where the monitor is
    seen,       \* the attempt whose start runningSince returned
    seenAge,    \* how long ago that was by now
    first,      \* what markTimedOut returned
    pulled,     \* the attempt whose abort resolvedAt returned
    ticked,     \* the ticker's channel holds a tick
    cancelled,  \* the run's context is done
    swept,      \* a sweep freed this attempt (observation)
    passes,     \* sweeps this attempt has had, up to 2 (observation)
    flagged     \* it was declared over time while in flight (observation)

shared == <<current, timeout, resolved, abort>>
case == <<attempt, age, life, ended, success>>
look == <<seen, seenAge, first, pulled>>
seenVars == <<swept, passes, flagged>>
vars == <<shared, wpc, case, mpc, look, ticked, cancelled, seenVars>>

Never == -1
Life == {"short", "stuck", "deaf"}
Least(a, b) == IF a <= b THEN a ELSE b

-----------------------------------------------------------------------------
(* The worker: one trip through the loop of Run.                           *)

MayBegin_F == ~cancelled /\ attempt <= Attempts

\* ClaimFor had a case and the run goes on.
MayBegin == ~cancelled /\ attempt < Attempts

\* beginCase: everything about the case before is forgotten.
BeginCase ==
    /\ wpc = "idle" /\ MayBegin
    /\ wpc' = "running"
    /\ attempt' = attempt + 1
    /\ current' = TRUE /\ timeout' = FALSE /\ resolved' = Never
    /\ abort' = attempt + 1
    /\ age' = 0 /\ ended' = FALSE /\ success' = FALSE
    /\ life' \in Life
    /\ swept' = FALSE /\ passes' = 0 /\ flagged' = FALSE
    /\ UNCHANGED <<mpc, look, ticked, cancelled>>

\* runOne returns: by itself, because what the case waited for is dead, or
\* because its context ended.  Whatever a killed case had written may pass; an
\* ended context is a Runtime error.
RunOne ==
    /\ wpc = "running"
    /\ life = "short" \/ swept \/ ended
    /\ wpc' = "returned"
    /\ success' \in IF ended THEN {FALSE} ELSE BOOLEAN
    /\ UNCHANGED <<shared, attempt, age, life, ended, mpc, look, ticked,
                   cancelled, seenVars>>

EndCase_F ==
    /\ wpc = "returned"
    /\ wpc' = "ended"
    /\ current' = FALSE /\ timeout' = FALSE /\ abort' = 0 /\ resolved' = Never
    /\ UNCHANGED <<case, mpc, look, ticked, cancelled, seenVars>>

\* endCase: timeout stays, for tookTooLong and for finish.
EndCase ==
    /\ wpc = "returned"
    /\ wpc' = "ended"
    /\ current' = FALSE /\ abort' = 0 /\ resolved' = Never
    /\ UNCHANGED <<timeout, case, mpc, look, ticked, cancelled, seenVars>>

\* tookTooLong, and what follows from it.
TookTooLong ==
    /\ wpc = "ended"
    /\ wpc' = "judged"
    /\ success' = (success /\ ~timeout)
    /\ UNCHANGED <<shared, attempt, age, life, ended, mpc, look, ticked,
                   cancelled, seenVars>>

\* finish: the verdict is recorded.  The worker's loop goes round.
Finish ==
    /\ wpc = "judged"
    /\ wpc' = "idle"
    /\ UNCHANGED <<shared, case, mpc, look, ticked, cancelled, seenVars>>

\* ClaimFor has nothing, or the context is done: Run returns, and the deferred
\* stopMonitor ends the monitor's context.
Return ==
    /\ wpc = "idle" /\ ~MayBegin
    /\ wpc' = "gone"
    /\ UNCHANGED <<shared, case, mpc, look, ticked, cancelled, seenVars>>

Worker == BeginCase \/ RunOne \/ EndCase \/ TookTooLong \/ Finish \/ Return

-----------------------------------------------------------------------------
(* The monitor: Watch and check.                                           *)

MonitorStopped_F == cancelled

\* The monitor's context: the run's, ended by the worker's return as well.
MonitorStopped == cancelled \/ wpc = "gone"

\* check begins: runningSince.
RunningSince ==
    /\ mpc = "wait" /\ ticked
    /\ ticked' = FALSE
    /\ IF current
       THEN mpc' = "read" /\ seen' = attempt /\ seenAge' = age
       ELSE UNCHANGED <<mpc, seen, seenAge>>
    /\ UNCHANGED <<shared, wpc, case, first, pulled, cancelled, seenVars>>

\* time.Since(since) against the timeout.
Elapsed ==
    /\ mpc = "read"
    /\ mpc' = IF seenAge < Timeout THEN "wait" ELSE "mark"
    /\ UNCHANGED <<shared, wpc, case, look, ticked, cancelled, seenVars>>

MarkTimedOut_F ==
    /\ mpc = "mark"
    /\ mpc' = "sweep"
    /\ first' = ~timeout
    /\ timeout' = TRUE
    /\ resolved' = IF timeout THEN resolved ELSE 0
    /\ current' = FALSE
    /\ flagged' = (wpc \in {"running", "returned"} \/ flagged)
    /\ UNCHANGED <<abort, wpc, case, seen, seenAge, pulled, ticked, cancelled,
                   swept, passes>>

\* markTimedOut: whatever case is in flight by now.
MarkTimedOut ==
    /\ mpc = "mark"
    /\ mpc' = "sweep"
    /\ first' = ~timeout
    /\ timeout' = TRUE
    /\ resolved' = IF timeout THEN resolved ELSE 0
    /\ flagged' = (wpc \in {"running", "returned"} \/ flagged)
    /\ UNCHANGED <<current, abort, wpc, case, seen, seenAge, pulled, ticked,
                   cancelled, swept, passes>>

Escalating_F == Escalates

\* Never on the pass that resolved the case, and only where it is allowed.
Escalating == Escalates /\ ~first

\* KillScript returns.  It is not about any one case: whatever the worker is
\* running now may have lost what it was waiting for, unless it is deaf, and
\* the script itself may fail.
KillScript ==
    /\ mpc = "sweep"
    /\ mpc' = IF Escalating THEN "escalate" ELSE "wait"
    /\ IF wpc = "running"
       THEN /\ swept' \in IF life = "stuck" THEN {TRUE}
                          ELSE IF life = "short" THEN {swept, TRUE}
                          ELSE {swept}
            /\ passes' = Least(passes + 1, 2)
       ELSE UNCHANGED <<swept, passes>>
    /\ UNCHANGED <<shared, wpc, case, look, ticked, cancelled, flagged>>

SweepFails ==
    /\ mpc = "sweep"
    /\ mpc' = IF Escalating THEN "escalate" ELSE "wait"
    /\ UNCHANGED <<shared, wpc, case, look, ticked, cancelled, seenVars>>

\* The case was resolved, is still in flight, and has had its grace.
Due == abort # 0 /\ resolved # Never /\ resolved >= Grace

\* escalate: resolvedAt returns both under one lock.
ResolvedAt ==
    /\ mpc = "escalate"
    /\ IF Due
       THEN mpc' = "pull" /\ pulled' = abort
       ELSE mpc' = "wait" /\ UNCHANGED pulled
    /\ UNCHANGED <<shared, wpc, case, seen, seenAge, first, ticked, cancelled,
                   seenVars>>

Abort_F ==
    /\ mpc = "pull"
    /\ mpc' = "wait"
    /\ ended' = (ended \/ wpc = "running")
    /\ UNCHANGED <<shared, wpc, attempt, age, life, success, look, ticked,
                   cancelled, seenVars>>

\* abort(): the context of the attempt it was made for, and no other.
Abort ==
    /\ mpc = "pull"
    /\ mpc' = "wait"
    /\ ended' = (ended \/ pulled = attempt)
    /\ UNCHANGED <<shared, wpc, attempt, age, life, success, look, ticked,
                   cancelled, seenVars>>

\* Watch returns when its context ends.
Quit ==
    /\ mpc = "wait" /\ MonitorStopped
    /\ mpc' = "off"
    /\ UNCHANGED <<shared, wpc, case, look, ticked, cancelled, seenVars>>

Check ==
    \/ RunningSince \/ Elapsed \/ MarkTimedOut \/ KillScript \/ SweepFails
    \/ ResolvedAt \/ Abort

-----------------------------------------------------------------------------
(* Time and signals.                                                       *)

Older(a, limit) == Least(a + 1, limit)

\* One poll interval goes by.
Tick ==
    /\ wpc # "gone"
    /\ ticked' = TRUE
    /\ age' = IF wpc \in {"running", "returned"} THEN Older(age, Timeout) ELSE age
    /\ seenAge' = Older(seenAge, Timeout)
    /\ resolved' = IF resolved = Never THEN Never ELSE Older(resolved, Grace)
    /\ UNCHANGED <<current, timeout, abort, wpc, attempt, life, ended, success,
                   mpc, seen, first, pulled, cancelled, seenVars>>

\* SIGINT or SIGTERM: the run's context, and with it the case's.
Cancel ==
    /\ MayCancel /\ ~cancelled
    /\ cancelled' = TRUE
    /\ ended' = TRUE
    /\ UNCHANGED <<shared, wpc, attempt, age, life, success, mpc, look, ticked,
                   seenVars>>

Over == wpc = "gone" /\ mpc = "off" /\ UNCHANGED vars

Init ==
    /\ current = FALSE /\ timeout = FALSE /\ resolved = Never /\ abort = 0
    /\ wpc = "idle" /\ attempt = 0 /\ age = 0 /\ life = "short"
    /\ ended = FALSE /\ success = FALSE
    /\ mpc = IF Timeout > 0 THEN "wait" ELSE "off"
    /\ seen = 0 /\ seenAge = 0 /\ first = FALSE /\ pulled = 0
    /\ ticked = FALSE /\ cancelled = FALSE
    /\ swept = FALSE /\ passes = 0 /\ flagged = FALSE

Next == Worker \/ Check \/ Quit \/ Tick \/ Cancel \/ Over

Spec == Init /\ [][Next]_vars

\* Both goroutines run, the ticker ticks, a short case ends and the sweep's
\* script comes back on the monitor's own channel.
Fairness ==
    /\ WF_vars(Worker)
    /\ WF_vars(Check)
    /\ WF_vars(Quit)
    /\ WF_vars(Tick)

FairSpec == Spec /\ Fairness

-----------------------------------------------------------------------------
(* Properties.                                                             *)

WorkerPC == {"idle", "running", "returned", "ended", "judged", "gone"}
MonitorPC == {"wait", "read", "mark", "sweep", "escalate", "pull", "off"}

SharedOK ==
    /\ resolved \in {Never} \cup 0..Grace
    /\ abort \in 0..Attempts

CaseOK ==
    /\ wpc \in WorkerPC
    /\ attempt \in 0..Attempts
    /\ age \in 0..Timeout
    /\ life \in Life

LookOK ==
    /\ mpc \in MonitorPC
    /\ seen \in 0..Attempts /\ seenAge \in 0..Timeout
    /\ pulled \in 0..Attempts
    /\ passes \in 0..2

FlagsOK ==
    /\ current \in BOOLEAN /\ timeout \in BOOLEAN
    /\ ended \in BOOLEAN /\ success \in BOOLEAN /\ first \in BOOLEAN
    /\ ticked \in BOOLEAN /\ cancelled \in BOOLEAN
    /\ swept \in BOOLEAN /\ flagged \in BOOLEAN

\* The shared fields and both goroutines' locals have their types.
TypeOK == SharedOK /\ CaseOK /\ LookOK /\ FlagsOK

InFlight == wpc \in {"running", "returned"}

\* The last resort never falls on a case that is not over its time, that has
\* not had its grace since the first resolve, or that no earlier pass has
\* declared over time: `never on the same pass that resolved it'.  The monitor
\* holds an abort it read some time ago, and the worker may be a case further.
AbortDue ==
    mpc = "pull" /\ pulled = attempt /\ InFlight =>
        /\ age >= Timeout
        /\ resolved >= Grace
        /\ flagged /\ ~first

\* What ends a case early is its own abort, earned as above, or the run's end:
\* never the abort of the case before it.
EndedForCause == ended => cancelled \/ (flagged /\ age >= Timeout)

\* No case is ended that had not earned it, in a state that is well formed: the
\* abort read, and the abort pulled.
AbortsJust == TypeOK /\ AbortDue /\ EndedForCause

\* A case that was declared over time while it was in flight does not pass,
\* however its command ended: the flag outlives endCase.
FlaggedFails == flagged /\ wpc = "judged" => ~success

\* A case in flight comes to an end even if no sweep ever frees it: it is swept
\* on every pass, not only once, and the second pass may escalate.
CaseEnds == wpc = "running" ~> wpc # "running"

\* The monitor of a run that is over stops watching.
MonitorQuits == wpc = "gone" ~> mpc = "off"

\* Neither of the two goroutines is left waiting for the other.
BothEnd == CaseEnds /\ MonitorQuits

-----------------------------------------------------------------------------
(* What a comment or a document says and the code does not have.           *)

\* monitor.go: `Mark first.  The kill makes the worker's command return, and if the flag
\* arrived afterwards the case could be recorded as a pass': a case the sweep
\* freed is not recorded as a pass.
SweptFails == swept /\ wpc = "judged" => ~success

\* worker.go: `markTimedOut records that the case in flight ran past its timeout': a case
\* in flight that carries the flag has run that long.
FlagMeansOverdue == timeout /\ wpc = "running" => age >= Timeout
=============================================================================
