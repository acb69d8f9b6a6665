----------------------------- MODULE ShellProofs ----------------------------
(***************************************************************************)
(* What the parts of a shell run guarantee: the worker and its monitor for *)
(* any timeout, any grace and any number of attempts; then the record, the *)
(* containment and the run itself where ShellParts puts them.              *)
(***************************************************************************)
EXTENDS ShellParts, FiniteSetTheorems, TLAPS

-----------------------------------------------------------------------------
(* Typing, and which shared fields are set in which control state.          *)

\* abort is set for exactly as long as a case is in flight.
FieldsInv ==
    /\ abort = IF InFlight THEN attempt ELSE 0
    /\ attempt = 0 => wpc \in {"idle", "gone"}

NumbersInv == SharedOK /\ CaseOK /\ LookOK /\ FieldsInv

TypeInv == NumbersInv /\ FlagsOK

LEMMA TypeInit == Init => TypeInv
<1> SUFFICES ASSUME Init PROVE TypeInv
  OBVIOUS
<1>1. NumbersInv
  BY MonitorAssumption
     DEF Init, NumbersInv, SharedOK, CaseOK, LookOK, FieldsInv, WorkerPC, MonitorPC,
         InFlight, Life, Never
<1>2. FlagsOK
  BY DEF Init, FlagsOK
<1> QED BY <1>1, <1>2 DEF TypeInv

LEMMA NumbersStep == TypeInv /\ [Next]_vars => NumbersInv'
<1> SUFFICES ASSUME NumbersInv, [Next]_vars PROVE NumbersInv'
  BY DEF TypeInv
<1> USE MonitorAssumption
    DEF NumbersInv, SharedOK, CaseOK, LookOK, FieldsInv, InFlight, Life, Never,
        WorkerPC, MonitorPC, shared, case, look, seenVars
<1>1. CASE BeginCase
  BY <1>1 DEF BeginCase, MayBegin
<1>2. CASE RunOne \/ TookTooLong
  BY <1>2 DEF RunOne, TookTooLong
<1>3. CASE EndCase
  BY <1>3 DEF EndCase
<1>4. CASE Finish \/ Return
  BY <1>4 DEF Finish, Return
<1>5. CASE RunningSince
  BY <1>5 DEF RunningSince
<1>6. CASE Elapsed
  BY <1>6 DEF Elapsed
<1>7. CASE MarkTimedOut
  BY <1>7 DEF MarkTimedOut
<1>8. CASE KillScript \/ SweepFails
  <2>1. passes' = passes \/ passes' = Least(passes + 1, 2)
    BY <1>8, Zenon DEF KillScript, SweepFails
  <2>2. mpc' \in {"wait", "escalate"}
    BY <1>8 DEF KillScript, SweepFails
  <2>3. UNCHANGED <<resolved, abort, wpc, attempt, age, life, seen, seenAge, pulled>>
    BY <1>8, Zenon DEF KillScript, SweepFails
  <2> QED BY <2>1, <2>2, <2>3 DEF Least
<1>9. CASE ResolvedAt
  BY <1>9 DEF ResolvedAt
<1>10. CASE Abort \/ Quit \/ Cancel
  BY <1>10 DEF Abort, Quit, Cancel
<1>11. CASE Tick
  BY <1>11 DEF Tick, Older, Least
<1>12. CASE Over \/ UNCHANGED vars
  BY <1>12 DEF Over, vars
<1> QED BY <1>1, <1>2, <1>3, <1>4, <1>5, <1>6, <1>7, <1>8, <1>9, <1>10, <1>11, <1>12
        DEF Next, Worker, Check

LEMMA FlagsStep == FlagsOK /\ [Next]_vars => FlagsOK'
<1> SUFFICES ASSUME FlagsOK, [Next]_vars PROVE FlagsOK'
  OBVIOUS
<1> USE DEF FlagsOK, shared, case, look, seenVars
<1>1. CASE Worker
  BY <1>1, Zenon DEF Worker, BeginCase, RunOne, EndCase, TookTooLong, Finish, Return
<1>2. CASE Check
  BY <1>2, Zenon DEF Check, RunningSince, Elapsed, MarkTimedOut, KillScript, SweepFails,
                     ResolvedAt, Abort
<1>3. CASE Quit \/ Tick \/ Cancel \/ Over \/ UNCHANGED vars
  BY <1>3, Zenon DEF Quit, Tick, Cancel, Over, vars
<1> QED BY <1>1, <1>2, <1>3 DEF Next

LEMMA TypeStep == TypeInv /\ [Next]_vars => TypeInv'
BY NumbersStep, FlagsStep DEF TypeInv

\* The fields the two goroutines share, and their locals, are always typed.
THEOREM TypeCorrect == Spec => []TypeOK
<1>1. TypeInv => TypeOK
  BY DEF TypeInv, NumbersInv, TypeOK
<1> QED BY <1>1, TypeInit, TypeStep, PTL DEF Spec

-----------------------------------------------------------------------------
(* What the monitor may still believe about the case in flight.             *)

\* The flag is the case's own for as long as the case is judged by it.
FlagInv ==
    /\ InFlight => (flagged <=> timeout) /\ (timeout <=> resolved # Never)
    /\ wpc \in {"ended", "judged"} /\ flagged => timeout
    /\ wpc = "judged" /\ flagged => ~success

\* What was read of the attempt in flight is still true of it.
ReadInv ==
    /\ seen <= attempt
    /\ InFlight /\ seen = attempt => seenAge = age
    /\ ~InFlight /\ seen = attempt => seenAge >= age
    /\ mpc \in {"mark", "sweep", "escalate", "pull"} => seenAge >= Timeout

\* A flag found up is this attempt's only if this check read this attempt.
MarkInv ==
    /\ mpc \in {"read", "mark"} /\ timeout /\ InFlight => seen = attempt
    /\ mpc \in {"sweep", "escalate"} /\ ~first /\ timeout /\ InFlight
          => seen = attempt
    /\ mpc \in {"escalate", "pull"} => ~first

\* An abort in hand was earned by its attempt.
PullInv ==
    /\ pulled <= attempt
    /\ mpc = "pull" => pulled # 0
    /\ mpc = "pull" /\ pulled = attempt => flagged /\ age >= Timeout
    /\ mpc = "pull" /\ pulled = attempt /\ InFlight => resolved >= Grace

MonitorInv == FlagInv /\ ReadInv /\ MarkInv /\ PullInv /\ EndedForCause

LEMMA MonitorInit == Init => MonitorInv
BY MonitorAssumption
   DEF Init, MonitorInv, FlagInv, ReadInv, MarkInv, PullInv, EndedForCause, InFlight,
       Never

LEMMA FlagStep == TypeInv /\ FlagInv /\ [Next]_vars => FlagInv'
<1> SUFFICES ASSUME TypeInv, FlagInv, [Next]_vars PROVE FlagInv'
  OBVIOUS
<1> USE DEF FlagInv, InFlight, Never, shared, case, look, seenVars
<1>1. CASE BeginCase
  BY <1>1 DEF BeginCase
<1>2. CASE RunOne
  BY <1>2 DEF RunOne
<1>3. CASE EndCase
  BY <1>3 DEF EndCase
<1>4. CASE TookTooLong
  BY <1>4 DEF TookTooLong
<1>5. CASE Finish \/ Return
  BY <1>5 DEF Finish, Return
<1>6. CASE MarkTimedOut
  <2>1. UNCHANGED <<wpc, success>>
    BY <1>6, Zenon DEF MarkTimedOut
  <2>2. mpc = "mark" /\ timeout'
    BY <1>6, Zenon DEF MarkTimedOut
  <2>3. InFlight => flagged'
    BY <1>6, Zenon DEF MarkTimedOut
  <2>4. ~ InFlight => (flagged' <=> flagged)
    BY <1>6, Zenon DEF MarkTimedOut
  <2>5. InFlight => resolved' # -1
    <3>1. resolved' = IF timeout THEN resolved ELSE 0
      BY <1>6, Zenon DEF MarkTimedOut
    <3> QED BY <3>1
  <2>6. ~ (wpc \in {"ended", "judged"} /\ InFlight)
    OBVIOUS
  <2> QED BY <2>1, <2>2, <2>3, <2>4, <2>5, <2>6
<1>7. CASE KillScript \/ SweepFails
  <2>1. UNCHANGED <<timeout, resolved, wpc, success, flagged>>
    BY <1>7, Zenon DEF KillScript, SweepFails
  <2> QED BY <2>1
<1>8. CASE RunningSince \/ Elapsed \/ ResolvedAt \/ Abort \/ Quit \/ Cancel
  <2>1. UNCHANGED <<timeout, resolved, wpc, success, flagged>>
    BY <1>8, Zenon DEF RunningSince, Elapsed, ResolvedAt, Abort, Quit, Cancel
  <2> QED BY <2>1
<1>9. CASE Tick
  BY <1>9, MonitorAssumption
     DEF Tick, Older, Least, TypeInv, NumbersInv, SharedOK
<1>10. CASE Over \/ UNCHANGED vars
  BY <1>10 DEF Over, vars
<1> QED BY <1>1, <1>2, <1>3, <1>4, <1>5, <1>6, <1>7, <1>8, <1>9, <1>10
        DEF Next, Worker, Check

LEMMA ReadStep == TypeInv /\ ReadInv /\ [Next]_vars => ReadInv'
<1> SUFFICES ASSUME NumbersInv, ReadInv, [Next]_vars PROVE ReadInv'
  BY DEF TypeInv
<1> USE MonitorAssumption
    DEF ReadInv, NumbersInv, SharedOK, CaseOK, LookOK, InFlight, shared, case, look,
        seenVars
<1>1. CASE BeginCase
  BY <1>1 DEF BeginCase
<1>2. CASE RunOne \/ EndCase \/ TookTooLong \/ Finish \/ Return
  <2>1. UNCHANGED <<attempt, age, mpc, seen, seenAge>>
    BY <1>2, Zenon DEF RunOne, EndCase, TookTooLong, Finish, Return
  <2>2. InFlight' <=> InFlight /\ ~ EndCase
    BY <1>2 DEF RunOne, EndCase, TookTooLong, Finish, Return
  <2> QED BY <2>1, <2>2
<1>3. CASE RunningSince
  BY <1>3 DEF RunningSince
<1>4. CASE Elapsed
  BY <1>4 DEF Elapsed
<1>5. CASE MarkTimedOut \/ KillScript \/ SweepFails
  <2>1. UNCHANGED <<attempt, age, wpc, seen, seenAge>>
    BY <1>5, Zenon DEF MarkTimedOut, KillScript, SweepFails
  <2>2. mpc \in {"mark", "sweep"}
    BY <1>5, Zenon DEF MarkTimedOut, KillScript, SweepFails
  <2> QED BY <2>1, <2>2
<1>6. CASE ResolvedAt \/ Abort \/ Quit \/ Cancel
  BY <1>6 DEF ResolvedAt, Abort, Quit, Cancel
<1>7. CASE Tick
  BY <1>7 DEF Tick, Older, Least
<1>8. CASE Over \/ UNCHANGED vars
  BY <1>8 DEF Over, vars
<1> QED BY <1>1, <1>2, <1>3, <1>4, <1>5, <1>6, <1>7, <1>8 DEF Next, Worker, Check

LEMMA MarkStep == TypeInv /\ ReadInv /\ MarkInv /\ [Next]_vars => MarkInv'
<1> SUFFICES ASSUME NumbersInv, MarkInv, [Next]_vars PROVE MarkInv'
  BY DEF TypeInv
<1> USE DEF MarkInv, InFlight, shared, case, look, seenVars
<1>1. CASE BeginCase
  BY <1>1 DEF BeginCase
<1>2. CASE RunOne \/ EndCase \/ TookTooLong \/ Finish \/ Return
  <2>1. UNCHANGED <<timeout, attempt, mpc, seen, first>>
    BY <1>2, Zenon DEF RunOne, EndCase, TookTooLong, Finish, Return
  <2>2. InFlight' => InFlight
    BY <1>2 DEF RunOne, EndCase, TookTooLong, Finish, Return
  <2> QED BY <2>1, <2>2
<1>3. CASE RunningSince
  BY <1>3 DEF RunningSince
<1>4. CASE Elapsed
  BY <1>4 DEF Elapsed
<1>5. CASE MarkTimedOut
  BY <1>5 DEF MarkTimedOut
<1>6. CASE KillScript \/ SweepFails
  <2>1. UNCHANGED <<timeout, wpc, attempt, seen, first>>
    BY <1>6, Zenon DEF KillScript, SweepFails
  <2>2. mpc = "sweep" /\ mpc' = (IF Escalating THEN "escalate" ELSE "wait")
    BY <1>6, Zenon DEF KillScript, SweepFails
  <2>3. Escalating => ~ first
    BY Zenon DEF Escalating
  <2> QED BY <2>1, <2>2, <2>3
<1>7. CASE ResolvedAt \/ Abort \/ Quit \/ Cancel \/ Tick
  BY <1>7 DEF ResolvedAt, Abort, Quit, Cancel, Tick
<1>8. CASE Over \/ UNCHANGED vars
  BY <1>8 DEF Over, vars
<1> QED BY <1>1, <1>2, <1>3, <1>4, <1>5, <1>6, <1>7, <1>8 DEF Next, Worker, Check

LEMMA PullStep == TypeInv /\ MonitorInv /\ [Next]_vars => PullInv'
<1> SUFFICES ASSUME NumbersInv, FlagInv, ReadInv, MarkInv, PullInv, [Next]_vars
             PROVE  PullInv'
  BY DEF TypeInv, MonitorInv
<1> USE MonitorAssumption
    DEF PullInv, NumbersInv, SharedOK, CaseOK, LookOK, InFlight, shared, case, look,
        seenVars
<1>1. CASE BeginCase
  BY <1>1 DEF BeginCase
<1>2. CASE RunOne \/ TookTooLong \/ Finish \/ Return
  BY <1>2 DEF RunOne, TookTooLong, Finish, Return
<1>3. CASE EndCase
  BY <1>3 DEF EndCase
<1>4. CASE RunningSince \/ Elapsed \/ MarkTimedOut \/ KillScript \/ SweepFails
      \/ Abort \/ Quit
  <2>1. mpc' # "pull" /\ pulled' = pulled /\ attempt' = attempt
    BY <1>4, Zenon DEF RunningSince, Elapsed, MarkTimedOut, KillScript, SweepFails,
                       Abort, Quit
  <2> QED BY <2>1
<1>5. CASE ResolvedAt
  <2>1. CASE ~ Due
    BY <1>5, <2>1 DEF ResolvedAt
  <2>2. CASE Due
    <3>1. mpc' = "pull" /\ pulled' = abort /\ abort # 0 /\ mpc = "escalate"
      BY <1>5, <2>2 DEF ResolvedAt, Due
    <3>2. InFlight /\ abort = attempt
      BY <3>1 DEF FieldsInv
    <3>3. timeout /\ flagged
      BY <2>2, <3>2 DEF Due, FlagInv
    <3>4. seen = attempt /\ seenAge = age /\ seenAge >= Timeout
      BY <3>1, <3>2, <3>3 DEF MarkInv, ReadInv
    <3>5. UNCHANGED <<attempt, age, wpc, flagged, resolved>>
      BY <1>5 DEF ResolvedAt
    <3>6. resolved >= Grace
      BY <2>2 DEF Due
    <3> QED BY <3>1, <3>2, <3>3, <3>4, <3>5, <3>6
  <2> QED BY <2>1, <2>2
<1>6. CASE Tick
  BY <1>6 DEF Tick, Older, Least, Never
<1>7. CASE Cancel \/ Over \/ UNCHANGED vars
  BY <1>7 DEF Cancel, Over, vars
<1> QED BY <1>1, <1>2, <1>3, <1>4, <1>5, <1>6, <1>7 DEF Next, Worker, Check

LEMMA CauseStep == TypeInv /\ MonitorInv /\ [Next]_vars => EndedForCause'
<1> SUFFICES ASSUME NumbersInv, PullInv, EndedForCause, [Next]_vars
             PROVE  EndedForCause'
  BY DEF TypeInv, MonitorInv
<1> USE DEF EndedForCause, shared, case, look, seenVars
<1>1. CASE BeginCase
  BY <1>1 DEF BeginCase
<1>2. CASE Abort
  BY <1>2 DEF Abort, PullInv
<1>3. CASE MarkTimedOut
  BY <1>3 DEF MarkTimedOut
<1>4. CASE Tick
  BY <1>4, MonitorAssumption DEF Tick, Older, Least, NumbersInv, CaseOK
<1>5. CASE Cancel
  BY <1>5 DEF Cancel
<1>6. CASE RunOne \/ EndCase \/ TookTooLong \/ Finish \/ Return \/ RunningSince
           \/ Elapsed \/ KillScript \/ SweepFails \/ ResolvedAt \/ Quit
  <2>1. UNCHANGED <<ended, cancelled, flagged, age>>
    BY <1>6, Zenon DEF RunOne, EndCase, TookTooLong, Finish, Return, RunningSince,
                       Elapsed, KillScript, SweepFails, ResolvedAt, Quit
  <2> QED BY <2>1
<1>7. CASE Over \/ UNCHANGED vars
  BY <1>7 DEF Over, vars
<1> QED BY <1>1, <1>2, <1>3, <1>4, <1>5, <1>6, <1>7 DEF Next, Worker, Check

LEMMA MonitorStep == TypeInv /\ MonitorInv /\ [Next]_vars => MonitorInv'
BY FlagStep, ReadStep, MarkStep, PullStep, CauseStep DEF MonitorInv

\* The abort the monitor holds is due, whatever the worker did since.
THEOREM AbortsAreDue == Spec => []AbortDue
<1>1. PullInv /\ MarkInv => AbortDue
  BY DEF PullInv, MarkInv, AbortDue
<1>2. MonitorInv => AbortDue
  BY <1>1 DEF MonitorInv
<1> QED BY <1>2, TypeInit, TypeStep, MonitorInit, MonitorStep, PTL DEF Spec

\* No case is ended early but by the run's end or an abort it earned.
THEOREM NoStrayAbort == Spec => []EndedForCause
<1>1. MonitorInv => EndedForCause
  BY DEF MonitorInv
<1> QED BY <1>1, TypeInit, TypeStep, MonitorInit, MonitorStep, PTL DEF Spec

\* No case that was declared over time in flight passes.
THEOREM FlaggedNeverPass == Spec => []FlaggedFails
<1>1. MonitorInv => FlaggedFails
  BY DEF MonitorInv, FlagInv, FlaggedFails
<1> QED BY <1>1, TypeInit, TypeStep, MonitorInit, MonitorStep, PTL DEF Spec

\* Whatever the monitor and the worker do between each other's steps, an abort
\* is due when it is held and no case ends early without a cause.
THEOREM AbortsAreJust == Spec => []AbortsJust
BY TypeCorrect, AbortsAreDue, NoStrayAbort, PTL DEF AbortsJust

-----------------------------------------------------------------------------
(* The containment, for every number of slots and of killed processes.     *)

\* The places of a run before it has opened a slot, and those of one slot's
\* preparation.
Before == {"setup", "hosts", "root"}
Preparing == {"overlay", "mount", "tmp", "gcc", "dos2unix"}

ContainTypes ==
    /\ cProc \in [C!Procs -> {"none", "up", "done", "killed"}]
    /\ cCode \in [C!Procs -> {0, 1, 128}]
    /\ cOutside = FALSE
    /\ cAt \in Before \cup Preparing \cup {"open", "work", "close", "end"}
    /\ cOk \in BOOLEAN
    /\ cRoot \in {"none", "there", "warned"}
    /\ cKeeper \in [C!Slots -> {"none", "up", "dead", "gone"}]
    /\ cCmd \in [C!Slots -> {"none", "inside", "ended", "lost"}]
    /\ cReady \in 0..Held.slots

\* How far the run is says which slots there are: none before OpenSlots, room
\* for one more where it opens one, the last of the list where it prepares one.
\* Only slots of that list have a keeper that is not gone, or a command.
OpenInv ==
    /\ cAt \in Before => cReady = 0 /\ cRoot = "none"
    /\ cAt = "open" => cReady < Held.slots
    /\ cAt \in Preparing => cReady > 0
    /\ \A s \in C!Slots :
          s > cReady => cKeeper[s] \in {"none", "gone"} /\ cCmd[s] = "none"

\* A command is started by the run, so there is none before it; one whose status
\* went to the init has no run to wait for it any more.
CommandInv ==
    /\ cProc["run"] = "none" => \A s \in C!Slots : cCmd[s] = "none"
    /\ C!Up("run") => \A s \in C!Slots : cCmd[s] # "lost"

\* An exit code 0 comes from the run, through the init, to the user.
CodeInv ==
    /\ cProc["init"] = "done" /\ cCode["init"] = 0 =>
          cProc["run"] = "done" /\ cCode["run"] = 0
    /\ cProc["outer"] = "done" /\ cCode["outer"] = 0 =>
          cProc["run"] = "done" /\ cCode["run"] = 0

ContainInv == ContainTypes /\ OpenInv /\ CommandInv /\ CodeInv /\ C!SlotsGo

\* A run begins contained, with no slot.
LEMMA ContainInit == ASSUME Held.slots \in Nat \ {0}, C!Init PROVE ContainInv
  BY DEF C!Init, ContainInv, ContainTypes, OpenInv, CommandInv, CodeInv, C!SlotsGo,
       C!Procs,
         Before, Preparing, C!Slots, C!Up

\* The processes of Enter and Init: started, ended, killed.
LEMMA ProcessesStep ==
    ASSUME Held.slots \in Nat \ {0}, ContainInv,
           \/ C!Enter \/ C!InitFork \/ C!InitEnd \/ C!EnterEnd \/ C!ParentGone
           \/ \E p \in C!Procs : C!Kill(p)
    PROVE  ContainInv'
<1> USE DEF ContainInv, ContainTypes, OpenInv, CommandInv, CodeInv, C!SlotsGo, C!Procs,
            C!Up, C!Gone, C!runVars, C!slotVars
<1>1. CASE C!Enter
  BY <1>1 DEF C!Enter, C!Exit
<1>2. CASE C!InitFork
  BY <1>2 DEF C!InitFork, C!Exit
<1>3. CASE C!InitEnd
  BY <1>3 DEF C!InitEnd, C!Exit
<1>4. CASE C!EnterEnd
  <2>1. C!EnterResult \in {0, 1, 128} /\ C!EnterResult # -1
    BY DEF C!EnterResult
  <2>2. cOutside' = FALSE /\ UNCHANGED <<C!runVars, C!slotVars, cTold, cKills>>
    BY <1>4, <2>1, Zenon DEF C!EnterEnd
  <2>3. C!EnterResult = 0 => cProc["run"] = "done" /\ cCode["run"] = 0
    BY <1>4 DEF C!EnterEnd, C!EnterResult
  <2>4. C!Exit("outer", C!EnterResult)
    BY <1>4 DEF C!EnterEnd
  <2> QED BY <2>1, <2>2, <2>3, <2>4 DEF C!Exit
<1>5. CASE C!ParentGone
  BY <1>5 DEF C!ParentGone
<1>6. ASSUME NEW p \in C!Procs, C!Kill(p) PROVE ContainInv'
  BY <1>6 DEF C!Kill
<1> QED BY <1>1, <1>2, <1>3, <1>4, <1>5, <1>6

\* The run up to its slots, the opening of one, and what prepares it.
LEMMA OpeningStep ==
    ASSUME Held.slots \in Nat \ {0}, ContainInv,
           C!Setup \/ C!NewSlotRoot \/ C!Open \/ C!Mount
    PROVE  ContainInv'
<1> USE DEF ContainInv, ContainTypes, OpenInv, CommandInv, CodeInv, C!SlotsGo, C!Procs,
            C!Up, C!Gone, C!runVars, C!slotVars, C!procVars, Before, Preparing, C!Slots
<1>1. CASE C!Setup
  BY <1>1 DEF C!Setup, C!SetupMounts, C!BindHosts, C!Ready, C!Exit
<1>2. CASE C!NewSlotRoot
  <2>1. cReady = 0 /\ 0 < Held.slots /\ cRoot = "none"
    BY <1>2 DEF C!NewSlotRoot
  <2>2. CASE cAt' = "open" /\ cRoot' = "there" /\ UNCHANGED <<cProc, cCode>>
    BY <1>2, <2>1, <2>2 DEF C!NewSlotRoot
  <2>3. CASE cAt' = "end" /\ C!Exit("run", 1) /\ UNCHANGED cRoot
    BY <1>2, <2>1, <2>3 DEF C!NewSlotRoot, C!Exit
  <2> QED BY <1>2, <2>2, <2>3 DEF C!NewSlotRoot
<1>3. CASE C!Open
  <2>1. cReady < Held.slots /\ UNCHANGED <<C!procVars, cRoot, cCmd, cTold, cKills>>
    BY <1>3 DEF C!Open
  <2>2. CASE C!OpenFails /\ UNCHANGED <<cKeeper, cReady>>
    BY <2>1, <2>2 DEF C!OpenFails
  <2>3. CASE C!OpenFails /\ cKeeper' = [cKeeper EXCEPT ![cReady + 1] = "gone"]
        /\ UNCHANGED cReady
    BY <1>3, <2>1, <2>3 DEF C!Open, C!OpenFails
  <2>4. CASE /\ cKeeper' = [cKeeper EXCEPT ![cReady + 1] = "up"] /\ cReady' = cReady + 1
             /\ cAt' = "overlay" /\ UNCHANGED cOk
    BY <1>3, <2>1, <2>4 DEF C!Open
  <2> QED BY <1>3, <2>2, <2>3, <2>4 DEF C!Open
<1>4. CASE C!Mount
  <2>1. CASE C!Overlay
    BY <2>1 DEF C!Overlay, C!Prepare, C!OpenFails
  <2>2. CASE C!OverlayFails
    BY <2>2 DEF C!OverlayFails, C!OpenFails
  <2>3. CASE C!RunnerMount
    BY <2>3 DEF C!RunnerMount, C!Prepare, C!OpenFails
  <2>4. CASE C!SlotTmp
    BY <2>4 DEF C!SlotTmp, C!Prepare, C!OpenFails
  <2>5. CASE C!GccShim
    BY <2>5 DEF C!GccShim, C!Prepare, C!OpenFails
  <2>6. CASE C!Dos2UnixShim
    <3>1. CASE cReady = Held.slots
      BY <2>6, <3>1 DEF C!Dos2UnixShim, C!Prepare, C!OpenFails
    <3>2. CASE cReady # Held.slots
      <4>1. C!Prepare("dos2unix", "open")
        BY <2>6, <3>2, Zenon DEF C!Dos2UnixShim
      <4>2. cReady < Held.slots
        BY <3>2
      <4> QED BY <4>1, <4>2 DEF C!Prepare, C!OpenFails
    <3> QED BY <3>1, <3>2
  <2> QED BY <1>4, <2>1, <2>2, <2>3, <2>4, <2>5, <2>6 DEF C!Mount
<1> QED BY <1>1, <1>2, <1>3, <1>4

\* A command starts in an open slot, ends, and is waited for by its parent.
LEMMA WorkStep ==
    ASSUME Held.slots \in Nat \ {0}, ContainInv,
           C!Work \/ (\E s \in C!Slots : C!InitReap(s))
                 \/ (\E s \in C!Slots : C!KillKeeper(s))
    PROVE  ContainInv'
<1> USE DEF ContainInv, ContainTypes, OpenInv, CommandInv, CodeInv, C!SlotsGo, C!Procs,
            C!Up, C!Gone, C!runVars, C!slotVars, C!procVars, Before, Preparing, C!Slots
<1>1. CASE C!EndWork
  BY <1>1 DEF C!EndWork
<1>2. ASSUME NEW s \in C!Slots, C!RunCommand(s) PROVE ContainInv'
  BY <1>2 DEF C!RunCommand, C!Where, C!Alive
<1>3. ASSUME NEW s \in C!Slots, C!CommandEnds(s) PROVE ContainInv'
  BY <1>3 DEF C!CommandEnds
<1>4. ASSUME NEW s \in C!Slots, C!Reap(s) PROVE ContainInv'
  BY <1>4 DEF C!Reap
<1>5. ASSUME NEW s \in C!Slots, C!InitReap(s) PROVE ContainInv'
  BY <1>5 DEF C!InitReap, C!ParentOf
<1>6. ASSUME NEW s \in C!Slots, C!KillKeeper(s) PROVE ContainInv'
  BY <1>6 DEF C!KillKeeper
<1> QED BY <1>1, <1>2, <1>3, <1>4, <1>5, <1>6 DEF C!Work

\* The slots go: closed by the run, or with PID 1 of their namespace.
LEMMA EndingStep ==
    ASSUME Held.slots \in Nat \ {0}, ContainInv, C!Close \/ C!NamespaceGone
    PROVE  ContainInv'
<1> USE DEF ContainInv, ContainTypes, OpenInv, CommandInv, CodeInv, C!SlotsGo, C!Procs,
            C!Up, C!Gone, C!runVars, C!slotVars, C!procVars, Before, Preparing, C!Slots
<1>1. CASE C!Close
  BY <1>1 DEF C!Close, C!CloseAll, C!Exit
<1>2. CASE C!NamespaceGone
  BY <1>2 DEF C!NamespaceGone
<1> QED BY <1>1, <1>2

\* Every step of a contained run keeps what ContainInv says of it.
LEMMA ContainStep ==
    ASSUME Held.slots \in Nat \ {0}, ContainInv, [C!Next]_(C!vars)
    PROVE  ContainInv'
<1>1. CASE C!Process
  BY <1>1, ProcessesStep, OpeningStep, EndingStep, WorkStep DEF C!Process
<1>2. CASE C!Work
  BY <1>2, WorkStep
<1>3. CASE C!Kernel
  BY <1>3, ProcessesStep, EndingStep DEF C!Kernel
<1>4. CASE C!Interrupt \/ C!Forward("outer", "init") \/ C!Forward("init", "run")
           \/ UNCHANGED C!vars
  BY <1>4 DEF C!Interrupt, C!Forward, ContainInv, ContainTypes, OpenInv, CommandInv,
       CodeInv,
             C!SlotsGo, C!Up, C!Gone, C!vars, C!procVars, C!runVars, C!slotVars
<1>5. CASE (\E p \in C!Procs : C!Kill(p)) \/ \E s \in C!Slots : C!KillKeeper(s)
  BY <1>5, ProcessesStep, WorkStep
<1> QED BY <1>1, <1>2, <1>3, <1>4, <1>5 DEF C!Next

\* What is promised of a contained run follows.
LEMMA ContainFollows == ASSUME ContainInv PROVE C!Contained
<1>1. \A s \in C!Slots : cCmd[s] # "outside"
  BY DEF ContainInv, ContainTypes
<1> QED BY <1>1 DEF ContainInv, ContainTypes, CommandInv, CodeInv, C!Contained,
                    C!StaysInside, C!StatusKept, C!SlotsGo

-----------------------------------------------------------------------------
(* The record: through crashes between two writes and inside one, the      *)
(* finished list never runs ahead of the verdicts, and the counters never  *)
(* behind it.                                                              *)

\* What any environment has recorded as finished.
Done == UNION {rFin[e] : e \in Recorded.envs}

\* The cases whose counter has moved and whose line is still to be written.
Counted ==
    {rScase[s] : s \in {t \in Recorded.slots : rSpc[t] \in {"counting", "counted"}}}

\* Until its first case is claimed, a run has no case and no counter of its own.
FreshInv ==
    /\ rPhase \in {"open", "listed"} =>
          /\ \A s \in Recorded.slots : rSpc[s] = "claim" /\ rScase[s] = R!NoCase
          /\ ~rOpened
          /\ ~rCont => rCount = 0
    /\ rPhase = "listed" => ~rCont /\ rRecorded = {}

\* A case is waiting, or with one slot, or has its line: one of the three.
HeldInv ==
    rPhase \in {"listed", "test"} =>
        /\ rWaiting \cap rRecorded = {}
        /\ \A s \in Recorded.slots : rScase[s] # R!NoCase =>
              /\ rScase[s] \notin rRecorded
              /\ rScase[s] \notin rWaiting
              /\ \A t \in Recorded.slots : rScase[t] = rScase[s] => t = s

\* A line is written after the verdict, and a campaign's lines are never lost: a
\* fresh run truncates only what an earlier campaign left.
LinesInv ==
    /\ rRecorded \subseteq Done
    /\ rClean => Done \subseteq rJudged /\ rSkipped \subseteq rJudged
    /\ rPhase = "test" /\ ~rCont /\ ~rOpened => rRecorded = {}
    /\ rPhase = "test" => \A s \in Recorded.slots : rSpc[s] = "counted"
          => rScase[s] \in rJudged

\* No case of the pool is passed over: it waits, is with a slot, or has its
\* verdict; and the last slot leaves nothing behind unless the run is cancelled.
PoolInv ==
    /\ rPhase \in {"listed", "test"} /\ rClean =>
          rAll \subseteq rWaiting \cup rJudged \cup {rScase[s] : s \in Recorded.slots}
    /\ rPhase = "test" /\ ~rCancelled /\ (\A s \in Recorded.slots : rSpc[s] = "gone")
          => rWaiting = {}
    /\ rOutcome = "complete" => rPhase = "off"
    /\ rOutcome = "complete" /\ rClean => rAll \subseteq rJudged

\* The counter is never short of the lines written and about to be, and the file
\* holds it except while it is being written.
CountInv ==
    ~rCut =>
        /\ rPhase \in {"off", "open"} => rStat >= Cardinality(rRecorded)
        /\ rPhase = "open" /\ rCont => rCount = rStat
        /\ rPhase = "test" =>
              /\ rCount >= Cardinality(rRecorded \cup Counted)
              /\ (\A s \in Recorded.slots : rSpc[s] # "counting") => rStat = rCount

ResumeInv == R!TypeOK /\ FreshInv /\ HeldInv /\ LinesInv /\ PoolInv /\ CountInv

-----------------------------------------------------------------------------
\* The sets whose sizes are compared are finite, so that a smaller one has no
\* more elements.
LEMMA Sizes ==
    ASSUME RecordGiven, NEW A \in SUBSET Recorded.cases, NEW B \in SUBSET A
    PROVE  /\ Cardinality(A) \in Nat /\ Cardinality(B) \in Nat
           /\ Cardinality(B) <= Cardinality(A)
  BY FS_Subset, FS_CardinalityType DEF RecordGiven

\* One more case is at most one more.
LEMMA OneMore ==
    ASSUME RecordGiven, NEW A \in SUBSET Recorded.cases, NEW c \in Recorded.cases
    PROVE  Cardinality(A \cup {c}) <= Cardinality(A) + 1
<1>1. IsFiniteSet(A)
  BY FS_Subset DEF RecordGiven
<1>2. Cardinality(A) \in Nat
  BY <1>1, FS_CardinalityType
<1>3. Cardinality(A \cup {c}) = IF c \in A THEN Cardinality(A) ELSE Cardinality(A) + 1
  BY <1>1, FS_AddElement
<1> QED BY <1>2, <1>3

LEMMA CountedTyped == ASSUME R!TypeOK PROVE Counted \subseteq Recorded.cases
  BY DEF R!TypeOK, R!RunOK, Counted

\* The tree is empty at first.
LEMMA ResumeInit == ASSUME RecordGiven, R!Init PROVE ResumeInv
<1> USE DEF R!Init, R!Idle, R!NoCase
<1>1. R!TypeOK
  <2>1. R!RunOK
    BY DEF RecordGiven, R!RunOK, R!Phase, R!SlotPC
  <2>2. R!DiskOK /\ R!FlagsOK /\ R!CampaignOK
    BY DEF R!DiskOK, R!FlagsOK, R!CampaignOK, R!Outcome
  <2> QED BY <2>1, <2>2 DEF R!TypeOK
<1>2. FreshInv /\ HeldInv /\ PoolInv
  BY DEF FreshInv, HeldInv, PoolInv
<1>3. LinesInv
  BY DEF LinesInv, Done
<1>4. CountInv
  BY FS_EmptySet DEF CountInv
<1> QED BY <1>1, <1>2, <1>3, <1>4 DEF ResumeInv

-----------------------------------------------------------------------------
\* A run begins, fresh or a continuation: the tree is as it was.
LEMMA StartStep ==
    ASSUME RecordGiven, ResumeInv, NEW e \in Recorded.envs, NEW continued \in BOOLEAN,
            R!Start(e, continued)
    PROVE  ResumeInv'
<1> USE DEF ResumeInv, R!Start, R!disk, R!campaign
<1>1. R!TypeOK'
  <2>1. R!DiskOK' /\ R!CampaignOK'
    BY DEF R!TypeOK, R!DiskOK, R!CampaignOK, R!Outcome
  <2>2. R!FlagsOK'
    BY DEF R!TypeOK, R!FlagsOK
  <2>3. rCount' \in Nat
    BY DEF R!TypeOK, R!DiskOK, R!ReadStats
  <2>4. R!RunOK'
    BY <2>3 DEF RecordGiven, R!Idle, R!NoCase, R!TypeOK, R!RunOK, R!Phase, R!SlotPC
  <2> QED BY <2>1, <2>2, <2>4 DEF R!TypeOK
<1>2. FreshInv'
  BY DEF FreshInv, R!ReadStats, R!Idle, R!NoCase
<1>3. HeldInv' /\ PoolInv'
  BY DEF HeldInv, PoolInv
<1>4. LinesInv'
  BY DEF LinesInv, Done
<1>5. CountInv'
  BY DEF CountInv, R!ReadStats
<1> QED BY <1>1, <1>2, <1>3, <1>4, <1>5

\* A campaign begins, or may have been cut while its list was being written.
LEMMA CampaignStep ==
    ASSUME RecordGiven, ResumeInv, R!WriteAll \/ R!CrashInAll
    PROVE  ResumeInv'
<1> USE DEF ResumeInv, R!NewCampaign, R!run, R!slots
<1>1. R!TypeOK'
  BY DEF RecordGiven, R!WriteAll, R!CrashInAll, R!work, R!TypeOK, R!DiskOK, R!RunOK,
       R!FlagsOK, R!CampaignOK,
         R!Phase, R!Outcome
<1>2. FreshInv'
  <2>1. CASE R!WriteAll
    <3>1. rPhase = "open" /\ ~rCont /\ UNCHANGED <<rSpc, rScase, rOpened, rCount, rCont>>
      BY <2>1 DEF R!WriteAll
    <3>2. rPhase' = "listed" /\ rRecorded' = {}
      BY <2>1 DEF R!WriteAll
    <3> QED BY <3>1, <3>2 DEF FreshInv
  <2>2. CASE R!CrashInAll
    BY <2>2 DEF R!CrashInAll, FreshInv
  <2> QED BY <2>1, <2>2
<1>3. HeldInv'
  BY DEF R!WriteAll, R!CrashInAll, HeldInv, FreshInv
<1>4. LinesInv'
  <2>1. Done' = Done
    BY DEF R!WriteAll, R!CrashInAll, Done
  <2>2. rClean' => Done = {}
    BY DEF R!WriteAll, R!CrashInAll, Done
  <2> QED BY <2>1, <2>2 DEF R!WriteAll, R!CrashInAll, LinesInv
<1>5. PoolInv'
  BY DEF R!WriteAll, R!CrashInAll, PoolInv
<1>6. CountInv'
  <2>1. rRecorded' = {} /\ rStat' = rStat /\ rStat \in Nat
    BY DEF R!WriteAll, R!CrashInAll, R!TypeOK, R!DiskOK
  <2>2. Cardinality(rRecorded') = 0
    BY <2>1, FS_EmptySet
  <2>3. rPhase' \in {"listed", "off"}
    BY DEF R!WriteAll, R!CrashInAll
  <2>4. rStat' >= Cardinality(rRecorded')
    BY <2>1, <2>2
  <2> QED BY <2>3, <2>4 DEF CountInv
<1> QED BY <1>1, <1>2, <1>3, <1>4, <1>5, <1>6

\* The counters of a fresh run are written, and its slots start.
LEMMA TotalStep == ASSUME RecordGiven, ResumeInv, R!TotalTestCase PROVE ResumeInv'
<1> USE DEF ResumeInv, R!TotalTestCase, R!run, R!work, R!slots, R!campaign
<1>1. R!TypeOK'
  BY DEF R!TypeOK, R!DiskOK, R!RunOK, R!FlagsOK, R!CampaignOK, R!Phase
<1>2. FreshInv' /\ HeldInv'
  BY DEF FreshInv, HeldInv
<1>3. LinesInv'
  BY DEF LinesInv, FreshInv, Done
<1>4. PoolInv'
  BY DEF RecordGiven, PoolInv, FreshInv
<1>5. CountInv'
  <2>1. rRecorded' = {} /\ Counted' = {} /\ rStat' = rCount' /\ rCount' \in Nat
    BY DEF FreshInv, Counted, R!TypeOK, R!RunOK
  <2>2. Cardinality(rRecorded' \cup Counted') = 0
    BY <2>1, FS_EmptySet
  <2> QED BY <2>1, <2>2 DEF CountInv
<1> QED BY <1>1, <1>2, <1>3, <1>4, <1>5

\* A continued run's list: everything the campaign has no line for.
LEMMA RemainingStep == ASSUME RecordGiven, ResumeInv, R!ReadRemaining PROVE ResumeInv'
<1> USE DEF ResumeInv, R!run, R!slots, R!disk
<1>a. \/ rPhase' = "off" /\ rOutcome' = "empty"
      \/ rPhase' = "test" /\ UNCHANGED rOutcome
  BY Zenon DEF R!ReadRemaining
<1>0. /\ rPhase = "open" /\ rCont /\ rWaiting' = R!Remaining
      /\ rSkipped' = rAll \ R!Remaining
      /\ UNCHANGED <<rAll, rFin, rStat, rRuns, rCont, rEnv, rOpened, rCount, rSpc,
                     rScase, rCancelled,
                     rJudged, rRecorded, rClean, rCut>>
  BY DEF R!ReadRemaining
<1>r. R!Remaining = rAll \ Done
  BY Zenon DEF R!Remaining, Done
<1>1. R!TypeOK'
  BY <1>a, <1>0, <1>r DEF R!TypeOK, R!DiskOK, R!RunOK, R!FlagsOK, R!CampaignOK, R!Phase,
       R!Outcome
<1>2. FreshInv' /\ HeldInv'
  BY <1>a, <1>0, <1>r DEF FreshInv, HeldInv, LinesInv
<1>3. LinesInv'
  BY <1>a, <1>0, <1>r DEF LinesInv, FreshInv, Done
<1>4. PoolInv'
  BY <1>a, <1>0, <1>r DEF RecordGiven, PoolInv, FreshInv, LinesInv
<1>5. CountInv'
  <2>1. Counted' = {} /\ rRecorded' \cup Counted' = rRecorded
    BY <1>a, <1>0 DEF FreshInv, Counted
  <2> QED BY <1>a, <1>0, <2>1 DEF CountInv
<1> QED BY <1>1, <1>2, <1>3, <1>4, <1>5

-----------------------------------------------------------------------------
(* The slots.                                                              *)

\* A slot takes a waiting case.
LEMMA ClaimStep ==
    ASSUME RecordGiven, ResumeInv, NEW s \in Recorded.slots, R!Claim(s)
    PROVE  ResumeInv'
<1> USE DEF ResumeInv
<1>0. PICK c \in rWaiting :
        /\ rPhase = "test" /\ rSpc[s] = "claim" /\ ~rCancelled
        /\ rWaiting' = rWaiting \ {c}
        /\ rSpc' = [rSpc EXCEPT ![s] = "run"]
        /\ rScase' = [rScase EXCEPT ![s] = c]
        /\ UNCHANGED <<rAll, rFin, rStat, rRuns, rCont, rEnv, rPhase, rOpened, rCount,
                       rCancelled,
                       rJudged, rRecorded, rSkipped, rClean, rCut, rOutcome>>
  BY DEF R!Claim, R!disk, R!run, R!campaign
<1>1. c \in Recorded.cases /\ c # R!NoCase
  BY DEF RecordGiven, R!TypeOK, R!RunOK
<1>2. R!TypeOK'
  BY <1>0, <1>1 DEF R!TypeOK, R!DiskOK, R!RunOK, R!FlagsOK, R!CampaignOK, R!SlotPC
<1>3. FreshInv'
  BY <1>0 DEF FreshInv
<1>4. HeldInv'
  BY <1>0, <1>1 DEF HeldInv, R!TypeOK, R!RunOK
<1>5. LinesInv'
  BY <1>0 DEF LinesInv, Done, R!TypeOK, R!RunOK
<1>6. PoolInv'
  <2>1. rScase[s] = R!NoCase
    BY <1>0 DEF R!TypeOK, R!RunOK
  <2>2. rAll' \cap Recorded.cases \subseteq rAll
    BY <1>0
  <2>3. ASSUME rClean, NEW d \in rAll
        PROVE  d \in rWaiting' \cup rJudged' \cup {rScase'[t] : t \in Recorded.slots}
    BY <1>0, <2>1, <2>3, <1>1 DEF PoolInv, R!TypeOK, R!RunOK, R!DiskOK, RecordGiven
  <2>4. rSpc'[s] # "gone"
    BY <1>0 DEF R!TypeOK, R!RunOK
  <2> QED BY <1>0, <2>3, <2>4 DEF PoolInv
<1>7. CountInv'
  <2>1. Counted' = Counted
    BY <1>0 DEF Counted, R!TypeOK, R!RunOK
  <2>2. \A t \in Recorded.slots : rSpc'[t] = "counting" <=> rSpc[t] = "counting"
    BY <1>0 DEF R!TypeOK, R!RunOK
  <2> QED BY <1>0, <2>1, <2>2 DEF CountInv
<1> QED BY <1>2, <1>3, <1>4, <1>5, <1>6, <1>7

\* A case goes back for another attempt.
LEMMA RetryStep ==
    ASSUME RecordGiven, ResumeInv, NEW s \in Recorded.slots, R!Retry(s)
    PROVE  ResumeInv'
<1> USE DEF ResumeInv
<1>0. /\ rPhase = "test" /\ rSpc[s] = "run"
      /\ rWaiting' = rWaiting \cup {rScase[s]}
      /\ rSpc' = [rSpc EXCEPT ![s] = "claim"] /\ rScase' = [rScase EXCEPT ![s] = R!NoCase]
      /\ UNCHANGED <<rAll, rFin, rStat, rRuns, rCont, rEnv, rPhase, rOpened, rCount,
                     rCancelled,
                     rJudged, rRecorded, rSkipped, rClean, rCut, rOutcome>>
  BY DEF R!Retry, R!Requeue, R!Release, R!run, R!campaign
<1>1. rScase[s] \in Recorded.cases /\ rScase[s] # R!NoCase
  BY <1>0 DEF R!TypeOK, R!RunOK
<1>2. R!TypeOK'
  BY <1>0, <1>1 DEF R!TypeOK, R!DiskOK, R!RunOK, R!FlagsOK, R!CampaignOK, R!SlotPC
<1>3. FreshInv'
  BY <1>0 DEF FreshInv
<1>4. HeldInv'
  BY <1>0, <1>1 DEF HeldInv, R!TypeOK, R!RunOK
<1>5. LinesInv'
  BY <1>0 DEF LinesInv, Done, R!TypeOK, R!RunOK
<1>6. PoolInv'
  <2>1. ASSUME rClean, NEW d \in rAll
        PROVE  d \in rWaiting' \cup rJudged' \cup {rScase'[t] : t \in Recorded.slots}
    BY <1>0, <2>1 DEF PoolInv, R!TypeOK, R!RunOK
  <2>2. rSpc'[s] # "gone"
    BY <1>0 DEF R!TypeOK, R!RunOK
  <2> QED BY <1>0, <2>1, <2>2 DEF PoolInv
<1>7. CountInv'
  <2>1. Counted' = Counted
    BY <1>0 DEF Counted, R!TypeOK, R!RunOK
  <2>2. \A t \in Recorded.slots : rSpc'[t] = "counting" <=> rSpc[t] = "counting"
    BY <1>0 DEF R!TypeOK, R!RunOK
  <2> QED BY <1>0, <2>1, <2>2 DEF CountInv
<1> QED BY <1>2, <1>3, <1>4, <1>5, <1>6, <1>7

\* The counter moves and the file is cut.
LEMMA CaseStopStep ==
    ASSUME RecordGiven, ResumeInv, NEW s \in Recorded.slots, R!CaseStop(s)
    PROVE  ResumeInv'
<1> USE DEF ResumeInv
<1>0. /\ rPhase = "test" /\ rSpc[s] = "run"
      /\ \A t \in Recorded.slots : rSpc[t] # "counting"
      /\ rSpc' = [rSpc EXCEPT ![s] = "counting"]
      /\ rCount' = rCount + 1 /\ rStat' = 0
      /\ UNCHANGED <<rAll, rFin, rRuns, rCont, rEnv, rPhase, rOpened, rWaiting, rScase,
                     rCancelled,
                     rJudged, rRecorded, rSkipped, rClean, rCut, rOutcome>>
  BY DEF R!CaseStop, R!run, R!campaign
<1>1. R!TypeOK'
  BY <1>0 DEF R!TypeOK, R!DiskOK, R!RunOK, R!FlagsOK, R!CampaignOK, R!SlotPC
<1>2. FreshInv'
  BY <1>0 DEF FreshInv
<1>3. HeldInv'
  BY <1>0 DEF HeldInv
<1>4. LinesInv'
  BY <1>0 DEF LinesInv, Done, R!TypeOK, R!RunOK
<1>5. PoolInv'
  BY <1>0 DEF PoolInv, R!TypeOK, R!RunOK
<1>6. CountInv'
  <2>1. rSpc'[s] = "counting" /\ \A t \in Recorded.slots : t # s => rSpc'[t] = rSpc[t]
    BY <1>0 DEF R!TypeOK, R!RunOK
  <2>2. rScase[s] \in Recorded.cases /\ Counted \subseteq Recorded.cases
        /\ rRecorded \subseteq Recorded.cases
    BY <1>0, CountedTyped DEF R!TypeOK, R!RunOK, R!CampaignOK
  <2>3. Counted' \subseteq Counted \cup {rScase[s]}
    BY <1>0, <2>1 DEF Counted
  <2>4. rRecorded' \cup Counted' \subseteq (rRecorded \cup Counted) \cup {rScase[s]}
    BY <1>0, <2>3
  <2> DEFINE A == rRecorded \cup Counted
  <2>5. A \subseteq Recorded.cases /\ A \cup {rScase[s]} \subseteq Recorded.cases
    BY <2>2
  <2>6. Cardinality(rRecorded' \cup Counted') <= Cardinality(A \cup {rScase[s]})
    BY <2>4, <2>5, Sizes
  <2>7. Cardinality(A \cup {rScase[s]}) <= Cardinality(A) + 1
    BY <2>2, <2>5, OneMore
  <2>8. /\ Cardinality(A) \in Nat /\ Cardinality(A \cup {rScase[s]}) \in Nat
        /\ Cardinality(rRecorded' \cup Counted') \in Nat
    BY <2>4, <2>5, Sizes
  <2>9. ~rCut => rCount >= Cardinality(A)
    BY <1>0 DEF CountInv
  <2>10. rCount \in Nat
    BY DEF R!TypeOK, R!RunOK
  <2> HIDE DEF A
  <2>11. ~rCut => rCount' >= Cardinality(rRecorded' \cup Counted')
    BY <1>0, <2>6, <2>7, <2>8, <2>9, <2>10
  <2> QED BY <1>0, <2>1, <2>11 DEF CountInv
<1> QED BY <1>1, <1>2, <1>3, <1>4, <1>5, <1>6

\* The file has the counter, and the case its verdict.
LEMMA StatsWrittenStep ==
    ASSUME RecordGiven, ResumeInv, NEW s \in Recorded.slots, R!StatsWritten(s)
    PROVE  ResumeInv'
<1> USE DEF ResumeInv
<1>0. /\ rPhase = "test" /\ rSpc[s] = "counting"
      /\ rSpc' = [rSpc EXCEPT ![s] = "counted"]
      /\ rStat' = rCount /\ rJudged' = rJudged \cup {rScase[s]}
      /\ UNCHANGED <<rAll, rFin, rRuns, rCont, rEnv, rPhase, rOpened, rCount, rWaiting,
                     rScase, rCancelled,
                     rRecorded, rSkipped, rClean, rCut, rOutcome>>
  BY DEF R!StatsWritten, R!run, R!work
<1>1. rScase[s] \in Recorded.cases
  BY <1>0 DEF R!TypeOK, R!RunOK
<1>2. R!TypeOK'
  BY <1>0, <1>1 DEF R!TypeOK, R!DiskOK, R!RunOK, R!FlagsOK, R!CampaignOK, R!SlotPC
<1>3. FreshInv' /\ HeldInv'
  BY <1>0 DEF FreshInv, HeldInv
<1>4. LinesInv'
  BY <1>0 DEF LinesInv, Done, R!TypeOK, R!RunOK
<1>5. PoolInv'
  BY <1>0 DEF PoolInv, R!TypeOK, R!RunOK
<1>6. CountInv'
  <2>1. rSpc'[s] = "counted" /\ \A t \in Recorded.slots : t # s => rSpc'[t] = rSpc[t]
    BY <1>0 DEF R!TypeOK, R!RunOK
  <2>2. Counted' = Counted
    BY <1>0, <2>1 DEF Counted
  <2> QED BY <1>0, <2>2 DEF CountInv
<1> QED BY <1>2, <1>3, <1>4, <1>5, <1>6

\* The case's line is written, after its verdict.
LEMMA FinishedStep ==
    ASSUME RecordGiven, ResumeInv, NEW s \in Recorded.slots, R!Finished(s)
    PROVE  ResumeInv'
<1> USE DEF ResumeInv
<1>0. /\ rPhase = "test" /\ rSpc[s] = "counted"
      /\ rFin' = [rFin EXCEPT ![rEnv] =
               IF R!Appends THEN rFin[rEnv] \cup {rScase[s]}
               ELSE {rScase[s]}]
      /\ rOpened' = TRUE /\ rRecorded' = rRecorded \cup {rScase[s]}
      /\ rSpc' = [rSpc EXCEPT ![s] = "claim"] /\ rScase' = [rScase EXCEPT ![s] = R!NoCase]
      /\ UNCHANGED <<rAll, rStat, rRuns, rCont, rEnv, rPhase, rCount, rWaiting,
                     rCancelled, rJudged,
                     rSkipped, rClean, rCut, rOutcome>>
  BY DEF R!Finished, R!Release, R!run
<1>1. rScase[s] \in Recorded.cases /\ rScase[s] # R!NoCase
  BY <1>0 DEF R!TypeOK, R!RunOK
<1>2. /\ rSpc'[s] = "claim" /\ \A t \in Recorded.slots : t # s => rSpc'[t] = rSpc[t]
      /\ rScase'[s] = R!NoCase /\ \A t \in Recorded.slots : t # s
            => rScase'[t] = rScase[t]
  BY <1>0 DEF R!TypeOK, R!RunOK
<1>3. R!TypeOK'
  <2>1. R!DiskOK'
    BY <1>0, <1>1 DEF R!TypeOK, R!DiskOK, R!RunOK
  <2> QED BY <1>0, <1>1, <2>1 DEF R!TypeOK, R!RunOK, R!FlagsOK, R!CampaignOK, R!SlotPC
<1>4. FreshInv'
  BY <1>0 DEF FreshInv
<1>5. HeldInv'
  BY <1>0, <1>1, <1>2 DEF HeldInv
<1>6. LinesInv'
  <2>1. rEnv \in Recorded.envs /\ rFin \in [Recorded.envs -> SUBSET Recorded.cases]
    BY DEF R!TypeOK, R!DiskOK, R!RunOK
  <2>2. /\ rFin'[rEnv] = IF R!Appends THEN rFin[rEnv] \cup {rScase[s]} ELSE {rScase[s]}
        /\ \A e \in Recorded.envs : e # rEnv => rFin'[e] = rFin[e]
    BY <1>0, <2>1
  <2>3. Done' \subseteq Done \cup {rScase[s]} /\ rScase[s] \in Done'
    BY <1>0, <2>1, <2>2 DEF Done
  <2>4. R!Appends => Done \subseteq Done'
    BY <1>0, <2>1, <2>2 DEF Done
  <2>5. ~R!Appends => rRecorded = {}
    BY <1>0 DEF R!Appends, LinesInv
  <2>6. rRecorded' \subseteq Done'
    BY <1>0, <2>3, <2>4, <2>5 DEF LinesInv
  <2>7. rClean => Done' \subseteq rJudged
    BY <1>0, <2>3 DEF LinesInv
  <2> QED BY <1>0, <1>2, <2>6, <2>7 DEF LinesInv
<1>7. PoolInv'
  <2>1. ASSUME rClean, NEW d \in rAll
        PROVE  d \in rWaiting' \cup rJudged' \cup {rScase'[t] : t \in Recorded.slots}
    BY <1>0, <1>2, <2>1 DEF PoolInv, LinesInv
  <2> QED BY <1>0, <1>2, <2>1 DEF PoolInv
<1>8. CountInv'
  <2>1. Counted \subseteq Recorded.cases /\ rRecorded \subseteq Recorded.cases
    BY CountedTyped DEF R!TypeOK, R!CampaignOK
  <2>2. rRecorded' \cup Counted' \subseteq rRecorded \cup Counted
    BY <1>0, <1>2 DEF Counted
  <2>3. /\ Cardinality(rRecorded' \cup Counted') <= Cardinality(rRecorded \cup Counted)
        /\ Cardinality(rRecorded' \cup Counted') \in Nat
        /\ Cardinality(rRecorded \cup Counted) \in Nat
    BY <2>1, <2>2, Sizes
  <2>4. rCount \in Nat
    BY DEF R!TypeOK, R!RunOK
  <2>5. ~rCut => rCount' >= Cardinality(rRecorded' \cup Counted')
    BY <1>0, <2>3, <2>4 DEF CountInv
  <2>6. (\A t \in Recorded.slots : rSpc'[t] # "counting")
        => \A t \in Recorded.slots : rSpc[t] # "counting"
    BY <1>0, <1>2
  <2> QED BY <1>0, <2>5, <2>6 DEF CountInv
<1> QED BY <1>3, <1>4, <1>5, <1>6, <1>7, <1>8

\* A slot leaves: nothing is waiting, or the run is cancelled.
LEMMA LeaveStep ==
    ASSUME RecordGiven, ResumeInv, NEW s \in Recorded.slots, R!Leave(s)
    PROVE  ResumeInv'
<1> USE DEF ResumeInv
<1>0. /\ rPhase = "test" /\ rSpc[s] = "claim" /\ (rCancelled \/ rWaiting = {})
      /\ rSpc' = [rSpc EXCEPT ![s] = "gone"]
      /\ UNCHANGED <<rAll, rFin, rStat, rRuns, rCont, rEnv, rPhase, rOpened, rCount,
                     rWaiting, rScase,
                     rCancelled, rJudged, rRecorded, rSkipped, rClean, rCut, rOutcome>>
  BY DEF R!Leave, R!MayLeave, R!disk, R!run, R!work, R!campaign
<1>1. rSpc'[s] = "gone" /\ \A t \in Recorded.slots : t # s => rSpc'[t] = rSpc[t]
  BY <1>0 DEF R!TypeOK, R!RunOK
<1>2. R!TypeOK'
  BY <1>0 DEF R!TypeOK, R!DiskOK, R!RunOK, R!FlagsOK, R!CampaignOK, R!SlotPC
<1>3. FreshInv' /\ HeldInv'
  BY <1>0 DEF FreshInv, HeldInv
<1>4. LinesInv' /\ PoolInv'
  BY <1>0, <1>1 DEF LinesInv, Done, PoolInv
<1>5. CountInv'
  <2>1. Counted' = Counted
    BY <1>0, <1>1 DEF Counted
  <2>2. \A t \in Recorded.slots : rSpc'[t] = "counting" <=> rSpc[t] = "counting"
    BY <1>0, <1>1
  <2> QED BY <1>0, <2>1, <2>2 DEF CountInv
<1> QED BY <1>2, <1>3, <1>4, <1>5

-----------------------------------------------------------------------------
(* The end of a run, and what may come before it.                          *)

\* Whatever is left of the file is not behind, unless its write was cut.
LEMMA NotBehind ==
    ASSUME RecordGiven, ResumeInv, rPhase # "off", ~rCut,
            \A s \in Recorded.slots : rSpc[s] # "counting"
    PROVE  rStat >= Cardinality(rRecorded)
<1> USE DEF ResumeInv
<1>1. CASE rPhase = "test"
  <2>1. /\ Cardinality(rRecorded) \in Nat /\ Cardinality(rRecorded \cup Counted) \in Nat
        /\ Cardinality(rRecorded) <= Cardinality(rRecorded \cup Counted)
    BY CountedTyped, Sizes DEF R!TypeOK, R!CampaignOK
  <2>2. rStat = rCount /\ rCount \in Nat /\ rCount >= Cardinality(rRecorded \cup Counted)
    BY <1>1 DEF CountInv, R!TypeOK, R!RunOK
  <2> QED BY <2>1, <2>2
<1>2. CASE rPhase = "listed"
  <2>1. Cardinality(rRecorded) = 0
    BY <1>2, FS_EmptySet DEF FreshInv
  <2> QED BY <2>1 DEF R!TypeOK, R!DiskOK
<1>3. CASE rPhase = "open"
  BY <1>3 DEF CountInv
<1> QED BY <1>1, <1>2, <1>3 DEF R!TypeOK, R!RunOK, R!Phase

\* Every worker has returned, or the process is gone.
LEMMA EndStep == ASSUME RecordGiven, ResumeInv, R!End \/ R!Crash PROVE ResumeInv'
<1> USE DEF ResumeInv, R!disk, R!run, R!work, R!slots, R!campaign
<1>1. R!TypeOK'
  BY DEF R!End, R!Crash, R!TypeOK, R!DiskOK, R!RunOK, R!FlagsOK, R!CampaignOK, R!Phase,
       R!Outcome
<1>2. FreshInv' /\ HeldInv'
  BY DEF R!End, R!Crash, FreshInv, HeldInv
<1>3. LinesInv'
  BY DEF R!End, R!Crash, LinesInv, Done
<1>4. PoolInv'
  <2>1. CASE R!Crash
    BY <2>1 DEF R!Crash, PoolInv
  <2>2. CASE R!End
    <3>1. \A s \in Recorded.slots : rScase[s] = R!NoCase
      BY <2>2 DEF R!End, R!TypeOK, R!RunOK
    <3>2. rClean /\ ~rCancelled => rAll \subseteq rJudged
      BY <2>2, <3>1 DEF R!End, PoolInv, R!TypeOK, R!DiskOK, RecordGiven
    <3> QED BY <2>2, <3>2 DEF R!End, PoolInv
  <2> QED BY <2>1, <2>2
<1>5. CountInv'
  <2>1. UNCHANGED <<rStat, rRecorded>> /\ rPhase # "off" /\ rPhase' = "off"
    BY DEF R!End, R!Crash
  <2>2. ~rCut' => ~rCut /\ \A s \in Recorded.slots : rSpc[s] # "counting"
    BY DEF R!End, R!Crash
  <2> QED BY <2>1, <2>2, NotBehind DEF CountInv
<1> QED BY <1>1, <1>2, <1>3, <1>4, <1>5

\* An interruption changes nothing but the flag.
LEMMA CancelStep ==
    ASSUME RecordGiven, ResumeInv, R!Cancel \/ UNCHANGED R!vars
    PROVE  ResumeInv'
<1> USE DEF ResumeInv, R!disk, R!run, R!work, R!slots, R!campaign, R!vars, R!Cancel
<1>1. R!TypeOK'
  BY DEF R!TypeOK, R!DiskOK, R!RunOK, R!FlagsOK, R!CampaignOK
<1>2. FreshInv' /\ HeldInv' /\ LinesInv'
  BY DEF FreshInv, HeldInv, LinesInv, Done
<1>3. PoolInv'
  BY DEF PoolInv
<1>4. CountInv'
  <2>1. UNCHANGED <<Counted, rCut, rPhase, rCont, rCount, rStat, rRecorded, rSpc>>
    BY DEF Counted
  <2> QED BY <2>1 DEF CountInv
<1> QED BY <1>1, <1>2, <1>3, <1>4

LEMMA ResumeStep == ASSUME RecordGiven, ResumeInv, [R!Next]_(R!vars) PROVE ResumeInv'
<1>1. CASE \E e \in Recorded.envs, continued \in BOOLEAN : R!Start(e, continued)
  BY <1>1, StartStep
<1>2. CASE R!WriteAll \/ R!CrashInAll
  BY <1>2, CampaignStep
<1>3. CASE R!TotalTestCase
  BY <1>3, TotalStep
<1>4. CASE R!ReadRemaining
  BY <1>4, RemainingStep
<1>5. CASE \E s \in Recorded.slots : R!Slot(s)
  BY <1>5, ClaimStep, RetryStep, CaseStopStep, StatsWrittenStep, FinishedStep,
       LeaveStep DEF R!Slot
<1>6. CASE R!End \/ R!Crash
  BY <1>6, EndStep
<1>7. CASE R!Cancel \/ R!Over \/ UNCHANGED R!vars
  BY <1>7, CancelStep DEF R!Over
<1> QED BY <1>1, <1>2, <1>3, <1>4, <1>5, <1>6, <1>7 DEF R!Next

\* What a resumed run relies on follows.
LEMMA ResumeFollows ==
    ASSUME ResumeInv PROVE R!ResumeSound /\ R!CompleteMeansJudged /\ R!CountersKeepUp
<1>1. R!RunOnce
  BY DEF ResumeInv, HeldInv, R!RunOnce
<1>2. R!CleanSkips
  BY DEF ResumeInv, LinesInv, R!CleanSkips
<1>3. R!CompleteMeansJudged
  BY DEF ResumeInv, PoolInv, R!CompleteMeansJudged
<1>4. R!CountersKeepUp
  <2>1. CountInv
    BY DEF ResumeInv
  <2>2. R!Cardinality(rRecorded) = Cardinality(rRecorded)
    BY DEF R!Cardinality, Cardinality
  <2> QED BY <2>1, <2>2 DEF CountInv, R!CountersKeepUp
<1> QED BY <1>1, <1>2, <1>3, <1>4 DEF ResumeInv, R!ResumeSound

-----------------------------------------------------------------------------
(* The runs of the suite: of the source a verdict is about, of the         *)
(* checkout, of the budget for logs, and of the files one run leaves to    *)
(* the next.                                                               *)

\* A slot that has a case.
Attempt ==
    [at : {"running", "ended", "capturing", "captured"}, case : Tested.case, try : Int,
     fresh : BOOLEAN, patch : S!ApplyScript, whole : BOOLEAN, ok : BOOLEAN,
     ran : {"nothing", "patched", "plain"}]

\* The stages of a run; its slots have anything to do only while it tests.
StagesInv ==
    /\ sRun.at \in {"idle", "opened", "testing", "closing"}
    /\ sRun.at \in {"opened", "testing"} =>
          \E conf \in Tested.settings, cont \in BOOLEAN :
             sRun = [at |-> sRun.at, conf |-> conf, cont |-> cont, lanes |-> sRun.lanes]
    /\ sSl \in [S!Slot -> {S!NoCase, [at |-> "free"]} \cup Attempt]
    /\ sRun.at # "testing" => \A s \in S!Slot : sSl[s] = S!NoCase
    /\ sTodo \in [DOMAIN sTodo -> Int]
    /\ sRuns \in Nat

\* What the file had when the run began, its record has: as it was, or of a case
\* that has finished since.
KeepInv ==
    sRun.at \in {"opened", "testing"} =>
        \A c \in DOMAIN sPlan : c \in DOMAIN sRecord /\ (sRecord[c] = sPlan[c] \/ c \in sFin)

\* The slots whose case is running against a source they patched.
Putting == {s \in S!Slot : sSl[s].at = "running" /\ sSl[s].patch = "applied"}

\* A patched source is one the log tells of, or one a slot is about to put back.
CleanInv ==
    \/ sSource \subseteq sStuck
    \/ sRun.at = "testing" /\ ~S!overlaid /\ sSource \subseteq sStuck \cup {sSl[s].case : s \in Putting}

\* What a slot knows of its case's source it hands to the verdict; verdicts of
\* this run are told from those it found by the number of runs left.
TruthInv ==
    /\ sRun.at = "testing" =>
          /\ \A s \in S!Slot : sSl[s].at \notin {"out", "free"} /\ sSl[s].case \in sRun.conf.patches =>
                /\ sSl[s].ok \/ sSl[s].at = "running" => sSl[s].ran = "patched"
                /\ sSl[s].ran = "patched" => sSl[s].case \in sApplied
          /\ \A c \in DOMAIN sJudged \cap sRun.conf.patches : sJudged[c].in = sRuns =>
                /\ sJudged[c].ok => sJudged[c].ran = "patched"
                /\ sJudged[c].ran = "patched" => c \in sApplied
    /\ \A c \in DOMAIN sJudged :
          sJudged[c].in \in Nat /\ sJudged[c].in >= sRuns
          /\ (sRun.at = "opened" => sJudged[c].in > sRuns)

Capturing == {s \in S!Slot : sSl[s].at = "capturing"}

\* What the slots may still be charged for what they are copying.
LogsInv ==
    /\ sLogs \in [spent : Nat, stopped : BOOLEAN, kept : Nat]
    /\ Tested.logBudget > 0 =>
          /\ ~sLogs.stopped => sLogs.spent < Tested.logBudget
          /\ sLogs.spent + Cardinality(Capturing) * Tested.logKB < Tested.logBudget + Tested.slots * Tested.logKB

RunInv == StagesInv /\ KeepInv /\ CleanInv /\ TruthInv /\ LogsInv

-----------------------------------------------------------------------------
\* No more slots capture than there are.
LEMMA SlotCount ==
    ASSUME RunGiven, NEW T \in SUBSET S!Slot
    PROVE  IsFiniteSet(T) /\ Cardinality(T) \in Nat /\ Cardinality(T) <= Tested.slots
<1>1. IsFiniteSet(S!Slot) /\ Cardinality(S!Slot) = Tested.slots
  <2>1. S!Slot = 1..Tested.slots /\ Tested.slots \in Nat
    BY DEF RunGiven, S!Slot
  <2> QED BY <2>1, FS_Interval
<1>2. IsFiniteSet(T) /\ Cardinality(T) <= Cardinality(S!Slot)
  BY <1>1, FS_Subset
<1> QED BY <1>1, <1>2, FS_CardinalityType

LEMMA Products ==
    ASSUME NEW a \in Nat, NEW b \in Nat, NEW k \in Nat, a <= b
    PROVE  a * k \in Nat /\ b * k \in Nat /\ a * k <= b * k /\ (a + 1) * k = a * k + k
<1>1. PICK d \in Nat : b = a + d
  <2>1. b - a \in Nat /\ b = a + (b - a)
    OBVIOUS
  <2> QED BY <2>1
<1>2. d * k \in Nat /\ a * k \in Nat
  OBVIOUS
<1>3. b * k = a * k + d * k
  BY <1>1
<1>4. (a + 1) * k = a * k + k
  OBVIOUS
<1> QED BY <1>2, <1>3, <1>4

LEMMA RunInit == ASSUME RunGiven, S!Init PROVE RunInv
<1> USE DEF S!Init
<1>1. StagesInv
  BY DEF RunGiven, StagesInv, S!Idle, S!NoCase, S!Empty
<1>2. KeepInv /\ CleanInv
  BY DEF KeepInv, CleanInv, S!Idle
<1>3. TruthInv
  BY DEF TruthInv, S!Idle, S!Empty
<1>4. LogsInv
  <2>1. Capturing = {}
    BY DEF Capturing, S!NoCase
  <2>2. Cardinality(Capturing) = 0 /\ Tested.slots * Tested.logKB \in Nat
    BY <2>1, FS_EmptySet DEF RunGiven
  <2>3. 0 * Tested.logKB = 0 /\ Tested.logBudget \in Nat
    BY DEF RunGiven
  <2> QED BY <2>2, <2>3 DEF LogsInv
<1> QED BY <1>1, <1>2, <1>3, <1>4 DEF RunInv

\* A run is started, refused or not.
LEMMA RunStarts == ASSUME RunGiven, RunInv, S!Start PROVE RunInv'
<1> USE DEF RunInv
<1>0. /\ sRun.at = "idle" /\ sRuns > 0 /\ sRuns' = sRuns - 1
      /\ sRecord' = sPlan /\ sApplied' = {}
      /\ sLogs' = [spent |-> 0, stopped |-> FALSE, kept |-> 0]
      /\ UNCHANGED <<sPlan, sSource, sSl, sTodo, sStuck>>
  BY DEF S!Start, S!Continue
<1>1. PICK conf \in Tested.settings, cont \in BOOLEAN :
        /\ sRun' = IF S!Refuses(conf) THEN [at |-> "closing", lanes |-> S!NoLanes]
                  ELSE [at |-> "opened", conf |-> conf, cont |-> cont, lanes |-> S!splitOf(conf)]
        /\ sJudged' = IF cont THEN sJudged ELSE S!Empty
  BY DEF S!Start
<1>2. /\ sRun'.at \in {"opened", "closing"}
      /\ sRun'.at = "opened" =>
           sRun' = [at |-> sRun'.at, conf |-> conf, cont |-> cont, lanes |-> S!splitOf(conf)]
  BY <1>1
<1>3. \A s \in S!Slot : sSl[s] = S!NoCase
  BY <1>0 DEF StagesInv
<1>4. StagesInv'
  BY <1>0, <1>2, <1>3 DEF StagesInv
<1>5. KeepInv' /\ CleanInv'
  BY <1>0, <1>2 DEF KeepInv, CleanInv
<1>6. TruthInv'
  <2>1. \A c \in DOMAIN sJudged' : c \in DOMAIN sJudged /\ sJudged'[c] = sJudged[c]
    BY <1>1 DEF S!Empty
  <2> QED BY <1>0, <1>2, <2>1 DEF TruthInv, StagesInv
<1>7. LogsInv'
  <2>1. Capturing' = {}
    BY <1>0, <1>3 DEF Capturing, S!NoCase
  <2>2. Cardinality(Capturing') = 0 /\ Tested.slots * Tested.logKB \in Nat
    BY <2>1, FS_EmptySet DEF RunGiven
  <2>3. 0 * Tested.logKB = 0 /\ Tested.logBudget \in Nat
    BY DEF RunGiven
  <2> QED BY <1>0, <2>2, <2>3 DEF LogsInv
<1> QED BY <1>4, <1>5, <1>6, <1>7

\* A run has its cases, or none: no slot is at one yet.
LEMMA RunPrepares == ASSUME RunGiven, RunInv, S!Prepare \/ S!PrepareFails PROVE RunInv'
<1> USE DEF RunInv
<1>0. /\ sRun.at = "opened"
      /\ UNCHANGED <<sPlan, sSource, sFin, sRecord, sApplied, sLogs, sJudged, sStuck, sRuns>>
  BY DEF S!Prepare, S!PrepareFails, S!files, S!own
<1>1. PICK conf \in Tested.settings, cont \in BOOLEAN :
        sRun = [at |-> "opened", conf |-> conf, cont |-> cont, lanes |-> sRun.lanes]
  BY <1>0 DEF StagesInv
<1>2. /\ sRun' = [sRun EXCEPT !.at = sRun'.at] /\ sRun'.at \in {"testing", "closing"}
      /\ sRun' = [at |-> sRun'.at, conf |-> conf, cont |-> cont, lanes |-> sRun.lanes]
  BY <1>1 DEF S!Prepare, S!PrepareFails
<1>3. \A s \in S!Slot : sSl[s] = S!NoCase
  BY <1>0 DEF StagesInv
<1>4. /\ sSl' \in [S!Slot -> {S!NoCase, [at |-> "free"]}]
      /\ sRun'.at # "testing" => \A s \in S!Slot : sSl'[s] = S!NoCase
  <2>1. CASE S!PrepareFails
    BY <1>3, <2>1 DEF S!PrepareFails, StagesInv
  <2>2. CASE S!Prepare
    <3> DEFINE cases == S!caseList(sRun.conf, sRun.cont)
    <3>1. /\ sRun' = [sRun EXCEPT !.at = IF cases = {} THEN "closing" ELSE "testing"]
          /\ sSl' = [s \in S!Slot |-> IF cases = {} THEN S!NoCase ELSE [at |-> "free"]]
      BY <2>2 DEF S!Prepare
    <3> QED BY <1>1, <3>1
  <2> QED BY <2>1, <2>2
<1>5. sTodo' \in [DOMAIN sTodo' -> Int]
  BY DEF S!Prepare, S!PrepareFails, StagesInv
<1>6. StagesInv'
  BY <1>0, <1>2, <1>4, <1>5 DEF StagesInv
<1>7. KeepInv' /\ CleanInv'
  BY <1>0, <1>2 DEF KeepInv, CleanInv
<1>8. \A s \in S!Slot : sSl'[s].at \in {"out", "free"}
  BY <1>4 DEF S!NoCase
<1>9. TruthInv'
  BY <1>0, <1>2, <1>8 DEF TruthInv, StagesInv
<1>10. LogsInv'
  <2>1. Capturing' = {} /\ Capturing = {}
    BY <1>3, <1>8 DEF Capturing, S!NoCase
  <2> QED BY <1>0, <2>1 DEF LogsInv
<1> QED BY <1>6, <1>7, <1>9, <1>10

\* The run is cancelled, or ends, or is killed: the slots have nothing to put
\* back but what the log tells of.
LEMMA RunEndings ==
    ASSUME RunGiven, RunInv, S!Interrupt \/ S!WriteBack \/ S!Close \/ S!Die \/ UNCHANGED S!vars
    PROVE  RunInv'
<1> USE DEF RunInv
<1>1. CASE S!Interrupt \/ UNCHANGED S!vars
  <2>1. UNCHANGED <<S!files, sRun, sSl, sTodo, S!own, sJudged, sStuck, sRuns>>
    BY <1>1 DEF S!Interrupt, S!vars
  <2>2. UNCHANGED <<sPlan, sSource, sFin, sRecord, sApplied, sLogs, Putting, S!overlaid, Capturing>>
    BY <2>1 DEF S!files, S!own, Putting, S!overlaid, Capturing
  <2>3. StagesInv' /\ KeepInv' /\ CleanInv'
    BY <2>1, <2>2 DEF StagesInv, KeepInv, CleanInv
  <2>4. TruthInv' /\ LogsInv'
    BY <2>1, <2>2 DEF TruthInv, LogsInv
  <2> QED BY <2>3, <2>4
<1>2. CASE S!WriteBack
  <2>1. /\ sRun.at = "testing" /\ sRun' = [sRun EXCEPT !.at = "closing"]
        /\ \A s \in S!Slot : sSl[s].at = "out"
        /\ UNCHANGED <<sSource, sFin, sSl, sTodo, sRecord, sApplied, sLogs, sJudged, sStuck, sRuns>>
    BY <1>2 DEF S!WriteBack, S!own
  <2>2. sRun'.at = "closing"
    BY <2>1 DEF StagesInv
  <2>3. \A s \in S!Slot : sSl[s] = S!NoCase
    BY <2>1 DEF StagesInv, S!NoCase, Attempt
  <2>4. Putting = {} /\ Capturing' = Capturing
    BY <2>1 DEF Putting, Capturing
  <2>5. StagesInv' /\ KeepInv' /\ CleanInv'
    BY <2>1, <2>2, <2>3, <2>4 DEF StagesInv, KeepInv, CleanInv
  <2>6. TruthInv' /\ LogsInv'
    BY <2>1, <2>2, <2>4 DEF TruthInv, LogsInv
  <2> QED BY <2>5, <2>6
<1>3. CASE S!Close \/ S!Die
  <2>1. /\ sRun' = S!Idle /\ sTodo' = S!Empty
        /\ UNCHANGED <<sPlan, sSource, sRecord, sLogs, sJudged, sRuns>>
    BY <1>3 DEF S!Close, S!Die, S!files, S!own
  <2>2. /\ \A s \in S!Slot : sSl'[s] = S!NoCase
        /\ sSl' \in [S!Slot -> {S!NoCase}]
    BY <1>3 DEF S!Close, S!Die, S!files, S!own, StagesInv
  <2>3. sSource \subseteq sStuck'
    BY <1>3 DEF S!Close, S!Die, CleanInv
  <2>4. sRun'.at = "idle"
    BY <2>1 DEF S!Idle
  <2>5. StagesInv' /\ KeepInv' /\ CleanInv'
    BY <2>1, <2>2, <2>3, <2>4 DEF StagesInv, KeepInv, CleanInv, S!Empty
  <2>6. TruthInv'
    BY <2>1, <2>4 DEF TruthInv
  <2>7. LogsInv'
    <3>1. Capturing' = {} /\ Capturing \subseteq S!Slot
      BY <2>2 DEF Capturing, S!NoCase
    <3>2. Cardinality({}) = 0 /\ Cardinality(Capturing) \in Nat
      BY <3>1, FS_EmptySet, SlotCount
    <3>3. 0 * Tested.logKB <= Cardinality(Capturing) * Tested.logKB
      BY <3>2, Products DEF RunGiven
    <3>4. 0 * Tested.logKB = 0 /\ Cardinality(Capturing) * Tested.logKB \in Nat
         /\ Tested.slots * Tested.logKB \in Nat
      BY <3>2, Products DEF RunGiven
    <3>5. sLogs.spent \in Nat /\ Tested.logBudget \in Nat
      BY DEF LogsInv, RunGiven
    <3> QED BY <2>1, <3>1, <3>2, <3>3, <3>4, <3>5 DEF LogsInv
  <2> QED BY <2>5, <2>6, <2>7
<1> QED BY <1>1, <1>2, <1>3

-----------------------------------------------------------------------------
(* One slot.                                                               *)

\* A slot that is at an attempt is at one.
LEMMA AtAttempt ==
    ASSUME StagesInv, NEW s \in S!Slot, sSl[s].at \notin {"out", "free"}
    PROVE  sSl[s] \in Attempt /\ sRun.at = "testing"
  BY DEF StagesInv, S!NoCase

\* Only what may be charged and what has been bounds the logs.
LEMMA LogsKept ==
    ASSUME RunGiven, LogsInv, UNCHANGED sLogs, Capturing' \subseteq Capturing, Capturing \subseteq S!Slot
    PROVE  LogsInv'
<1>1. /\ Cardinality(Capturing') \in Nat /\ Cardinality(Capturing) \in Nat
      /\ Cardinality(Capturing') <= Cardinality(Capturing)
  <2>1. IsFiniteSet(Capturing) /\ Capturing' \subseteq S!Slot
    BY SlotCount
  <2> QED BY <2>1, SlotCount, FS_Subset
<1>2. /\ Cardinality(Capturing') * Tested.logKB <= Cardinality(Capturing) * Tested.logKB
      /\ Cardinality(Capturing') * Tested.logKB \in Nat /\ Cardinality(Capturing) * Tested.logKB \in Nat
  BY <1>1, Products DEF RunGiven
<1>3. Tested.slots * Tested.logKB \in Nat /\ Tested.logBudget \in Nat /\ sLogs.spent \in Nat
  BY DEF RunGiven, LogsInv
<1> QED BY <1>2, <1>3 DEF LogsInv

\* A slot claims: a patched source is run as that, or the case is failed.
LEMMA RunClaims == ASSUME RunGiven, RunInv, NEW s \in S!Slot, S!Claim(s) PROVE RunInv'
<1> USE DEF RunInv
<1>0. PICK c \in Tested.case, reset \in BOOLEAN, patch \in S!ApplyScript
         : S!MayClaim(s, c) /\ S!runOne(s, c, reset, patch)
  BY DEF S!Claim, S!RestoreScript
<1>1. /\ sRun.at = "testing" /\ sSl[s].at = "free"
      /\ UNCHANGED <<sPlan, sFin, sRun, sTodo, sRecord, sLogs, sJudged, sStuck, sRuns>>
  BY DEF S!Claim
<1> DEFINE try == sTodo[c] + 1
           ran == IF patch = "refused" THEN "nothing"
                  ELSE IF c \in sSource' \union sLayer' THEN "patched" ELSE "plain"
           new == [at |-> IF patch = "refused" THEN "ended" ELSE "running", case |-> c, try |-> try,
                   fresh |-> reset, patch |-> patch, whole |-> TRUE, ok |-> FALSE, ran |-> ran]
<1>2. try \in Int /\ ran \in {"nothing", "patched", "plain"}
  BY <1>0 DEF S!MayClaim, StagesInv
<1>3. /\ sSl' = [sSl EXCEPT ![s] = new]
      /\ sSource' = IF patch = "applied" /\ ~S!overlaid THEN sSource \union {c} ELSE sSource
      /\ sLayer' = IF patch = "applied" /\ S!overlaid THEN sLayer \union {c} ELSE sLayer
      /\ sApplied' = IF patch = "applied" THEN sApplied \union {c} ELSE sApplied
      /\ patch = "none" => c \notin sRun.conf.patches
  BY <1>0, Zenon DEF S!runOne
<1>4. new \in Attempt
  BY <1>2 DEF Attempt, S!ApplyScript
<1>5. ran = "patched" /\ c \in sRun.conf.patches => patch = "applied"
  BY <1>3 DEF S!ApplyScript
<1>6. patch = "applied" => ran = "patched"
  BY <1>3
<1>7. /\ new.case = c /\ new.ok = FALSE /\ new.patch = patch /\ new.ran = ran
      /\ new.at = IF patch = "refused" THEN "ended" ELSE "running"
  OBVIOUS
<1> HIDE DEF try, ran, new
<1>8. sSl'[s] = new /\ \A t \in S!Slot : t # s => sSl'[t] = sSl[t]
  BY <1>3 DEF StagesInv
<1>9. StagesInv'
  BY <1>1, <1>3, <1>4 DEF StagesInv
<1>10. KeepInv'
  BY <1>1 DEF KeepInv
<1>11. CleanInv'
  <2>1. UNCHANGED S!overlaid
    BY <1>1 DEF S!overlaid
  <2>2. \A t \in Putting : t # s /\ t \in Putting' /\ sSl'[t] = sSl[t]
    BY <1>1, <1>8 DEF Putting
  <2>3. patch = "applied" => s \in Putting' /\ sSl'[s].case = c
    BY <1>7, <1>8 DEF Putting
  <2>4. {sSl[t].case : t \in Putting} \subseteq {sSl'[t].case : t \in Putting'}
    BY <2>2
  <2>5. CASE patch = "applied" /\ ~S!overlaid
    <3>1. sSource \subseteq sStuck \cup {sSl[t].case : t \in Putting}
      BY DEF CleanInv
    <3>2. c \in {sSl'[t].case : t \in Putting'}
      BY <2>3, <2>5
    <3> QED BY <1>1, <1>3, <2>1, <2>4, <2>5, <3>1, <3>2 DEF CleanInv
  <2>6. CASE ~(patch = "applied" /\ ~S!overlaid)
    BY <1>1, <1>3, <2>1, <2>4, <2>6 DEF CleanInv
  <2> QED BY <2>5, <2>6
<1>12. TruthInv'
  <2>1. sApplied \subseteq sApplied'
    BY <1>3
  <2>2. c \in sRun.conf.patches => (new.ran = "patched" => c \in sApplied')
    BY <1>3, <1>5, <1>7
  <2>3. c \in sRun.conf.patches => (new.at = "running" => new.ran = "patched")
    BY <1>3, <1>6, <1>7 DEF S!ApplyScript
  <2>4. ASSUME NEW t \in S!Slot, sSl'[t].at \notin {"out", "free"}, sSl'[t].case \in sRun.conf.patches
        PROVE  /\ sSl'[t].ok \/ sSl'[t].at = "running" => sSl'[t].ran = "patched"
               /\ sSl'[t].ran = "patched" => sSl'[t].case \in sApplied'
    BY <1>1, <1>7, <1>8, <2>1, <2>2, <2>3, <2>4 DEF TruthInv
  <2> QED BY <1>1, <2>1, <2>4 DEF TruthInv
<1>13. LogsInv'
  <2>1. Capturing' \subseteq Capturing /\ Capturing \subseteq S!Slot
    BY <1>1, <1>7, <1>8 DEF Capturing
  <2> QED BY <1>1, <2>1, LogsKept
<1> QED BY <1>9, <1>10, <1>11, <1>12, <1>13

\* A case ends and its patch is put back, or the log says that it is not.
LEMMA RunEnded == ASSUME RunGiven, RunInv, NEW s \in S!Slot, S!Ends(s) PROVE RunInv'
<1> USE DEF RunInv
<1>0. PICK ok \in BOOLEAN, fits \in BOOLEAN :
        /\ ~fits => sSl[s].patch = "applied"
        /\ sSl' = [sSl EXCEPT ![s].at = "ended", ![s].ok = ok, ![s].whole = ~sCancelled]
        /\ LET back == IF sSl[s].patch = "applied" /\ fits THEN {sSl[s].case} ELSE {}
           IN  sSource' = sSource \ back
        /\ sStuck' = IF fits \/ S!overlaid THEN sStuck ELSE sStuck \union {sSl[s].case}
  BY DEF S!Ends, S!Reverted
<1>1. /\ sSl[s].at = "running"
      /\ UNCHANGED <<sPlan, sFin, sRun, sTodo, sRecord, sApplied, sLogs, sJudged, sRuns>>
  BY DEF S!Ends
<1>2. sSl[s] \in Attempt /\ sRun.at = "testing"
  BY <1>1, AtAttempt
<1>3. /\ sSl'[s] = [sSl[s] EXCEPT !.at = "ended", !.ok = ok, !.whole = ~sCancelled]
      /\ \A t \in S!Slot : t # s => sSl'[t] = sSl[t]
      /\ DOMAIN sSl' = S!Slot /\ sSl' = [t \in S!Slot |-> sSl'[t]]
  BY <1>0 DEF StagesInv
<1>4. /\ sSl'[s] \in Attempt /\ sSl'[s].at = "ended" /\ sSl'[s].case = sSl[s].case
      /\ sSl'[s].ran = sSl[s].ran
  BY <1>2, <1>3 DEF Attempt
<1>5. StagesInv'
  <2>1. sSl' \in [S!Slot -> {S!NoCase, [at |-> "free"]} \cup Attempt]
    BY <1>3, <1>4 DEF StagesInv
  <2> QED BY <1>1, <1>2, <2>1 DEF StagesInv
<1>6. KeepInv'
  BY <1>1 DEF KeepInv
<1>7. CleanInv'
  <2>1. UNCHANGED S!overlaid
    BY <1>1 DEF S!overlaid
  <2>2. Putting' = Putting \ {s} /\ \A t \in Putting' : sSl'[t] = sSl[t]
    BY <1>3, <1>4 DEF Putting
  <2>3. sSl[s].patch # "applied" => s \notin Putting
    BY DEF Putting
  <2>4. CASE sSource \subseteq sStuck
    BY <1>0, <2>4 DEF CleanInv
  <2>5. CASE ~S!overlaid /\ sSource \subseteq sStuck \cup {sSl[t].case : t \in Putting}
    <3>1. ASSUME NEW c \in sSource' PROVE c \in sStuck' \cup {sSl'[t].case : t \in Putting'}
      <4>1. c \in sSource
        BY <1>0
      <4>2. CASE c \in sStuck
        BY <1>0, <4>2
      <4>3. CASE c \notin sStuck
        <5>1. PICK t \in Putting : c = sSl[t].case
          BY <2>5, <4>1, <4>3
        <5>2. CASE t = s
          BY <1>0, <2>3, <2>5, <5>1, <5>2
        <5>3. CASE t # s
          BY <2>2, <5>1, <5>3
        <5> QED BY <5>2, <5>3
      <4> QED BY <4>2, <4>3
    <3> QED BY <1>1, <1>2, <2>1, <2>5, <3>1 DEF CleanInv
  <2> QED BY <2>4, <2>5 DEF CleanInv
<1>8. TruthInv'
  <2>1. sSl[s].case \in sRun.conf.patches => sSl[s].ran = "patched" /\ sSl[s].case \in sApplied
    BY <1>1, <1>2 DEF TruthInv
  <2>2. ASSUME NEW t \in S!Slot, sSl'[t].at \notin {"out", "free"}, sSl'[t].case \in sRun.conf.patches
        PROVE  /\ sSl'[t].ok \/ sSl'[t].at = "running" => sSl'[t].ran = "patched"
               /\ sSl'[t].ran = "patched" => sSl'[t].case \in sApplied
    <3>1. CASE t = s
      BY <1>4, <2>1, <2>2, <3>1
    <3>2. CASE t # s
      BY <1>2, <1>3, <2>2, <3>2 DEF TruthInv
    <3> QED BY <3>1, <3>2
  <2> QED BY <1>1, <2>2 DEF TruthInv
<1>9. LogsInv'
  <2>1. Capturing' \subseteq Capturing /\ Capturing \subseteq S!Slot
    BY <1>3, <1>4 DEF Capturing
  <2> QED BY <1>1, <2>1, LogsKept
<1> QED BY <1>5, <1>6, <1>7, <1>8, <1>9

\* An attempt that has ended goes through its capture as it is.
LEMMA AttemptMoves ==
    ASSUME RunInv, NEW s \in S!Slot, sSl[s].at \in {"ended", "capturing"},
           NEW to \in {"capturing", "captured"}, sSl' = [sSl EXCEPT ![s].at = to],
           UNCHANGED <<sPlan, sSource, sFin, sRun, sTodo, sRecord, sApplied, sJudged, sStuck, sRuns>>
    PROVE  /\ StagesInv' /\ KeepInv' /\ CleanInv' /\ TruthInv'
           /\ sSl'[s].at = to /\ \A t \in S!Slot : t # s => sSl'[t] = sSl[t]
<1> USE DEF RunInv
<1>1. sSl[s] \in Attempt /\ sRun.at = "testing"
  BY AtAttempt
<1>2. /\ sSl'[s] = [sSl[s] EXCEPT !.at = to] /\ \A t \in S!Slot : t # s => sSl'[t] = sSl[t]
      /\ DOMAIN sSl' = S!Slot /\ sSl' = [t \in S!Slot |-> sSl'[t]]
  BY DEF StagesInv
<1>3. /\ sSl'[s] \in Attempt /\ sSl'[s].at = to /\ sSl'[s].case = sSl[s].case
      /\ sSl'[s].ran = sSl[s].ran /\ sSl'[s].ok = sSl[s].ok
  BY <1>1, <1>2 DEF Attempt
<1>4. StagesInv'
  <2>1. sSl' \in [S!Slot -> {S!NoCase, [at |-> "free"]} \cup Attempt]
    BY <1>2, <1>3 DEF StagesInv
  <2> QED BY <1>1, <2>1 DEF StagesInv
<1>5. KeepInv'
  BY DEF KeepInv
<1>6. CleanInv'
  <2>1. Putting' = Putting /\ s \notin Putting
    BY <1>2, <1>3 DEF Putting
  <2>2. {sSl'[t].case : t \in Putting'} = {sSl[t].case : t \in Putting}
    BY <1>2, <2>1 DEF Putting
  <2>3. UNCHANGED S!overlaid
    BY DEF S!overlaid
  <2> QED BY <2>2, <2>3 DEF CleanInv
<1>7. TruthInv'
  <2>1. \A t \in S!Slot : sSl'[t].at \notin {"out", "free"} /\ sSl'[t].case \in sRun.conf.patches =>
           /\ sSl'[t].ok \/ sSl'[t].at = "running" => sSl'[t].ran = "patched"
           /\ sSl'[t].ran = "patched" => sSl'[t].case \in sApplied
    BY <1>1, <1>2, <1>3 DEF TruthInv
  <2> QED BY <1>1, <2>1 DEF TruthInv
<1> QED BY <1>2, <1>3, <1>4, <1>5, <1>6, <1>7

\* A copy begins only within the budget, and is charged once.
LEMMA RunCaptures ==
    ASSUME RunGiven, RunInv, NEW s \in S!Slot, S!Capture(s) \/ S!spend(s)
    PROVE  RunInv'
<1>0. LogsInv /\ Capturing \subseteq S!Slot
  BY DEF RunInv, Capturing
<1>a. /\ sLogs \in [spent : Nat, stopped : BOOLEAN, kept : Nat]
      /\ Tested.logBudget \in Nat /\ Tested.logKB \in Nat /\ Tested.slots \in Nat
       /\ Tested.slots * Tested.logKB \in Nat
  BY <1>0 DEF LogsInv, RunGiven
<1>1. CASE S!Capture(s)
  <2>1. PICK to \in {"capturing", "captured"} :
          /\ sSl[s].at = "ended" /\ sSl' = [sSl EXCEPT ![s].at = to]
          /\ to = "capturing" => ~sLogs.stopped
    BY <1>1 DEF S!Capture, S!wants
  <2>2. UNCHANGED <<sPlan, sSource, sFin, sRun, sTodo, sRecord, sApplied, sJudged, sStuck, sRuns, sLogs>>
    BY <1>1 DEF S!Capture, S!files, S!own
  <2>3. /\ StagesInv' /\ KeepInv' /\ CleanInv' /\ TruthInv'
        /\ sSl'[s].at = to /\ \A t \in S!Slot : t # s => sSl'[t] = sSl[t]
    BY <2>1, <2>2, AttemptMoves
  <2>4. LogsInv'
    <3>1. CASE to = "captured"
      <4>1. Capturing' \subseteq Capturing
        BY <2>3, <3>1 DEF Capturing
      <4> QED BY <1>0, <2>2, <4>1, LogsKept
    <3>2. CASE to = "capturing"
      <4>1. Cardinality(Capturing') \in Nat /\ Cardinality(Capturing') <= Tested.slots
        <5>1. Capturing' \subseteq S!Slot
          BY DEF Capturing
        <5> QED BY <5>1, SlotCount
      <4>2. /\ Cardinality(Capturing') * Tested.logKB <= Tested.slots * Tested.logKB
            /\ Cardinality(Capturing') * Tested.logKB \in Nat
        BY <1>a, <4>1, Products
      <4>3. Tested.logBudget > 0 => sLogs.spent < Tested.logBudget
        BY <1>0, <2>1, <3>2 DEF LogsInv
      <4> QED BY <1>a, <2>2, <4>2, <4>3 DEF LogsInv
    <3> QED BY <3>1, <3>2
  <2> QED BY <2>3, <2>4 DEF RunInv
<1>2. CASE S!spend(s)
  <2>1. sSl[s].at = "capturing" /\ sSl' = [sSl EXCEPT ![s].at = "captured"]
    BY <1>2 DEF S!spend
  <2>2. UNCHANGED <<sPlan, sSource, sFin, sRun, sTodo, sRecord, sApplied, sJudged, sStuck, sRuns>>
    BY <1>2 DEF S!spend, S!files
  <2>3. /\ StagesInv' /\ KeepInv' /\ CleanInv' /\ TruthInv'
        /\ sSl'[s].at = "captured" /\ \A t \in S!Slot : t # s => sSl'[t] = sSl[t]
    BY <2>1, <2>2, AttemptMoves
  <2>4. Capturing' = Capturing \ {s} /\ s \in Capturing
    BY <2>1, <2>3 DEF Capturing
  <2>5. CASE sCancelled
    <3>1. UNCHANGED sLogs
      BY <1>2, <2>5 DEF S!spend
    <3> QED BY <1>0, <2>3, <2>4, <3>1, LogsKept DEF RunInv
  <2>6. CASE ~sCancelled
    <3>1. sLogs' = [spent |-> sLogs.spent + Tested.logKB, kept |-> sLogs.kept + 1,
                   stopped |-> sLogs.stopped \/
                                (Tested.logBudget > 0 /\ sLogs.spent + Tested.logKB >= Tested.logBudget)]
      BY <1>2, <2>6 DEF S!spend
    <3> DEFINE n == Cardinality(Capturing')
    <3>2. n \in Nat /\ Cardinality(Capturing) = n + 1
      <4>1. IsFiniteSet(Capturing) /\ IsFiniteSet(Capturing') /\ Cardinality(Capturing') \in Nat
        BY <1>0, <2>4, SlotCount
      <4>2. Capturing = Capturing' \cup {s} /\ s \notin Capturing'
        BY <2>4
      <4> QED BY <4>1, <4>2, FS_AddElement
    <3> HIDE DEF n
    <3>3. n * Tested.logKB \in Nat /\ (n + 1) * Tested.logKB = n * Tested.logKB + Tested.logKB
      <4>1. n \in Nat /\ Tested.logKB \in Nat /\ n <= n
        BY <1>a, <3>2
      <4> QED BY <4>1, Products
    <3>4. Tested.logBudget > 0 => sLogs.spent + (n + 1) * Tested.logKB
                         < Tested.logBudget + Tested.slots * Tested.logKB
      BY <1>0, <3>2 DEF LogsInv
    <3>5. Tested.logBudget > 0 => sLogs'.spent + n * Tested.logKB
                         < Tested.logBudget + Tested.slots * Tested.logKB
      BY <1>a, <3>1, <3>3, <3>4
    <3>6. sLogs' \in [spent : Nat, stopped : BOOLEAN, kept : Nat]
      BY <1>a, <3>1
    <3>7. Tested.logBudget > 0 /\ ~sLogs'.stopped => sLogs'.spent < Tested.logBudget
      <4>1. sLogs'.spent = sLogs.spent + Tested.logKB /\ sLogs.spent \in Nat
        BY <1>a, <3>1
      <4>2. ~sLogs'.stopped => ~(Tested.logBudget > 0 /\ sLogs.spent + Tested.logKB >= Tested.logBudget)
        BY <3>1, Zenon
      <4> QED BY <1>a, <4>1, <4>2
    <3> QED BY <2>3, <3>5, <3>6, <3>7 DEF RunInv, LogsInv, n
  <2> QED BY <2>5, <2>6
<1> QED BY <1>1, <1>2

\* A slot is done with its case: what it learnt of it is on record.
LEMMA RunFinishes ==
    ASSUME RunGiven, RunInv, NEW s \in S!Slot, S!finish(s) \/ S!Return(s)
    PROVE  RunInv'
<1> USE DEF RunInv
<1>1. /\ sSl[s].at \in {"captured", "free"} /\ sRun.at = "testing"
      /\ UNCHANGED <<sPlan, sSource, sRun, sApplied, sLogs, sStuck, sRuns>>
  BY AtAttempt DEF S!finish, S!Return, S!files, S!own
<1>2. /\ sSl'[s] \in {S!NoCase, [at |-> "free"]} /\ \A t \in S!Slot : t # s => sSl'[t] = sSl[t]
      /\ sSl' \in [S!Slot -> {S!NoCase, [at |-> "free"]} \cup Attempt]
  BY DEF S!finish, S!Return, StagesInv
<1>3. sSl'[s].at \in {"out", "free"}
  BY <1>2 DEF S!NoCase
<1>4. \/ UNCHANGED <<sFin, sRecord, sJudged>> /\ sTodo' \in [DOMAIN sTodo' -> Int]
      \/ /\ sSl[s] \in Attempt /\ sTodo' \in [DOMAIN sTodo' -> Int]
         /\ \E v : sRecord' = S!With(sRecord, sSl[s].case, v)
         /\ sJudged' = S!With(sJudged, sSl[s].case,
                           [ok |-> sSl[s].ok, ran |-> sSl[s].ran, in |-> sRuns])
         /\ sFin' = sFin \union {sSl[s].case}
  <2>1. CASE S!Return(s)
    BY <2>1 DEF S!Return, S!files, S!own, StagesInv
  <2>2. CASE S!finish(s) /\ ~S!retires(s)
    <3>1. sSl[s] \in Attempt
      BY <2>2, AtAttempt DEF S!finish
    <3>2. sTodo' = [sTodo EXCEPT ![sSl[s].case] = sSl[s].try] /\ UNCHANGED <<sFin, sRecord, sJudged>>
      BY <2>2 DEF S!finish
    <3>3. sTodo' \in [DOMAIN sTodo' -> Int]
      BY <3>1, <3>2 DEF StagesInv, Attempt
    <3> QED BY <3>2, <3>3
  <2>3. CASE S!finish(s) /\ S!retires(s)
    <3>1. sSl[s] \in Attempt
      BY <2>3, AtAttempt DEF S!finish
    <3>2. sTodo' = [x \in DOMAIN sTodo \ {sSl[s].case} |-> sTodo[x]]
      BY <2>3 DEF S!finish
    <3>3. /\ sRecord' = S!With(sRecord, sSl[s].case,
                           IF sSl[s].whole THEN Tested.took[sSl[s].case] ELSE 0)
          /\ sJudged' = S!With(sJudged, sSl[s].case,
                           [ok |-> sSl[s].ok, ran |-> sSl[s].ran, in |-> sRuns])
          /\ sFin' = sFin \union {sSl[s].case}
      BY <2>3 DEF S!finish
    <3>4. sTodo' \in [DOMAIN sTodo' -> Int]
      BY <3>2 DEF StagesInv
    <3> QED BY <3>1, <3>3, <3>4
  <2> QED BY <2>1, <2>2, <2>3
<1>5. StagesInv'
  BY <1>1, <1>2, <1>4 DEF StagesInv
<1>6. KeepInv'
  <2>1. CASE UNCHANGED <<sFin, sRecord, sJudged>>
    BY <1>1, <2>1 DEF KeepInv
  <2>2. ASSUME NEW v, sRecord' = S!With(sRecord, sSl[s].case, v), sFin' = sFin \union {sSl[s].case}
        PROVE  KeepInv'
    BY <1>1, <2>2 DEF KeepInv, S!With
  <2> QED BY <1>4, <2>1, <2>2
<1>7. CleanInv'
  <2>1. Putting' = Putting /\ \A t \in Putting : sSl'[t] = sSl[t]
    BY <1>1, <1>2, <1>3 DEF Putting
  <2>2. {sSl'[t].case : t \in Putting'} = {sSl[t].case : t \in Putting}
    BY <2>1
  <2>3. UNCHANGED S!overlaid
    BY <1>1 DEF S!overlaid
  <2> QED BY <1>1, <2>2, <2>3 DEF CleanInv
<1>8. TruthInv'
  <2>1. \A t \in S!Slot : sSl'[t].at \notin {"out", "free"} => sSl'[t] = sSl[t]
    BY <1>2, <1>3
  <2>2. CASE UNCHANGED sJudged
    BY <1>1, <2>1, <2>2 DEF TruthInv
  <2>3. CASE /\ sSl[s] \in Attempt
             /\ sJudged' = S!With(sJudged, sSl[s].case,
                               [ok |-> sSl[s].ok, ran |-> sSl[s].ran, in |-> sRuns])
    <3>1. DOMAIN sJudged' = DOMAIN sJudged \union {sSl[s].case}
      BY <2>3 DEF S!With
    <3>2. sJudged'[sSl[s].case] = [ok |-> sSl[s].ok, ran |-> sSl[s].ran, in |-> sRuns]
      BY <2>3 DEF S!With
    <3>3. \A c \in DOMAIN sJudged : c # sSl[s].case => sJudged'[c] = sJudged[c]
      BY <2>3 DEF S!With
    <3>4. sSl[s].at \notin {"out", "free"}
      BY <2>3 DEF Attempt
    <3>5. sSl[s].case \in sRun.conf.patches =>
            /\ sSl[s].ok => sSl[s].ran = "patched"
            /\ sSl[s].ran = "patched" => sSl[s].case \in sApplied
      BY <1>1, <3>4 DEF TruthInv
    <3>6. \A c \in DOMAIN sJudged' \cap sRun.conf.patches : sJudged'[c].in = sRuns =>
             /\ sJudged'[c].ok => sJudged'[c].ran = "patched"
             /\ sJudged'[c].ran = "patched" => c \in sApplied
      BY <1>1, <3>1, <3>2, <3>3, <3>5 DEF TruthInv
    <3>7. \A c \in DOMAIN sJudged' : sJudged'[c].in \in Nat /\ sJudged'[c].in >= sRuns
      BY <3>1, <3>2, <3>3 DEF TruthInv, StagesInv
    <3> QED BY <1>1, <2>1, <3>6, <3>7 DEF TruthInv
  <2> QED BY <1>4, <2>2, <2>3
<1>9. LogsInv'
  <2>1. Capturing' \subseteq Capturing /\ Capturing \subseteq S!Slot
    BY <1>2, <1>3 DEF Capturing
  <2> QED BY <1>1, <2>1, LogsKept
<1> QED BY <1>5, <1>6, <1>7, <1>8, <1>9

\* Every step of the runs keeps what RunInv says of them.
LEMMA RunStep == ASSUME RunGiven, RunInv, [S!Next]_(S!vars) PROVE RunInv'
<1>1. CASE S!Start \/ S!Prepare \/ S!PrepareFails
  BY <1>1, RunStarts, RunPrepares
<1>2. CASE S!Interrupt \/ S!WriteBack \/ S!Close \/ S!Die \/ UNCHANGED S!vars
  BY <1>2, RunEndings
<1>3. ASSUME NEW s \in S!Slot, S!Work(s) PROVE RunInv'
  BY <1>3, RunClaims, RunEnded, RunCaptures, RunFinishes DEF S!Work
<1> QED BY <1>1, <1>2, <1>3 DEF S!Next

\* What the files, the checkout and the logs are promised follows.
LEMMA RunFollows == ASSUME RunGiven, RunInv PROVE S!PatchTruth /\ S!CorpusClean /\ S!LogsBounded
<1> USE DEF RunInv
<1>1. S!PatchTruth
  BY DEF TruthInv, S!PatchTruth
<1>2. S!CorpusClean
  BY DEF CleanInv, S!CorpusClean
<1>3. S!LogsBounded
  <2>1. Cardinality(Capturing) \in Nat
    <3>1. Capturing \subseteq S!Slot
      BY DEF Capturing
    <3> QED BY <3>1, SlotCount
  <2>2. Cardinality(Capturing) * Tested.logKB \in Nat /\ Tested.slots * Tested.logKB \in Nat
    BY <2>1, Products DEF RunGiven
  <2> QED BY <2>2 DEF LogsInv, S!LogsBounded, RunGiven
<1> QED BY <1>1, <1>2, <1>3

\* A run writes the plan from a record that has what the plan had, and the
\* footprints into what was there.
LEMMA PlanStep ==
    ASSUME RunInv, [S!Next]_(S!vars)
    PROVE  /\ DOMAIN sPlan \subseteq DOMAIN sPlan'
           /\ DOMAIN sSizes \subseteq DOMAIN sSizes'
           /\ \A c \in DOMAIN sPlan : sPlan'[c] # sPlan[c] => c \in sFin
<1>1. CASE S!WriteBack
  <2>1. sRun.at = "testing" /\ sPlan' = (IF sRecord = S!Empty THEN sPlan ELSE sRecord)
    BY <1>1 DEF S!WriteBack, S!WritePlan
  <2>2. sSizes' = S!Over(sSizes, sHeld)
    BY <1>1 DEF S!WriteBack, S!WriteSizes, S!Continue
  <2>3. \A c \in DOMAIN sPlan : c \in DOMAIN sRecord /\ (sRecord[c] = sPlan[c] \/ c \in sFin)
    BY <2>1 DEF RunInv, KeepInv
  <2>4. DOMAIN sSizes \subseteq DOMAIN sSizes'
    BY <2>2 DEF S!Over
  <2> QED BY <2>1, <2>3, <2>4
<1>2. CASE ~S!WriteBack
  <2>1. UNCHANGED <<sPlan, sSizes>>
    BY <1>2 DEF S!Next, S!Start, S!Prepare, S!PrepareFails, S!Interrupt, S!Close, S!Die, S!Work, S!Claim, S!Ends,
                S!Capture, S!spend, S!finish, S!Return, S!vars, S!files
  <2> QED BY <2>1
<1> QED BY <1>1, <1>2

-----------------------------------------------------------------------------
(* The parts, each where it moves and where it stands.                     *)

\* A part that does not move is as it was; a step is one of some part.
LEMMA Elsewhere ==
    ASSUME [MCNext]_mcVars
    PROVE  /\ UNCHANGED resumeVars \/ R!Next
           /\ UNCHANGED containVars \/ C!Next
           /\ UNCHANGED shellVars \/ S!Next
  BY DEF MCNext, MonitorDoes, ResumeDoes, ContainDoes, RunDoes, mcVars

\* The files of one run and what the next makes of them, however many runs there
\* are and wherever they die: nothing with a line is run again, nothing without a
\* verdict is passed over in a clean tree, no counter is behind.
THEOREM ResumeTrueThere == PartsSpec => []ResumeTrue
<1>1. MCInit => ResumeInv
  BY PartsAssumption, ResumeInit DEF MCInit
<1>2. ResumeInv /\ [MCNext]_mcVars => ResumeInv'
  <2> SUFFICES ASSUME ResumeInv, [MCNext]_mcVars PROVE ResumeInv'
    OBVIOUS
  <2>1. UNCHANGED resumeVars => UNCHANGED R!vars
    BY DEF resumeVars, R!vars, R!disk, R!run, R!work, R!slots, R!campaign
  <2> QED BY <2>1, Elsewhere, PartsAssumption, ResumeStep
<1>3. ResumeInv => ResumeTrue
  BY ResumeFollows DEF ResumeTrue
<1> QED BY <1>1, <1>2, <1>3, PTL DEF PartsSpec

\* A contained run, for any number of slots and whichever of its processes is
\* killed: it never runs outside, the init never takes the status of a command the
\* run waits for, testkit exits with 0 only when its run did, and a run that ends
\* leaves no keeper, no command and no slot root.
THEOREM ContainedThere == PartsSpec => []Contained
<1>1. MCInit => ContainInv
  BY PartsAssumption, ContainInit DEF MCInit
<1>2. ContainInv /\ [MCNext]_mcVars => ContainInv'
  <2> SUFFICES ASSUME ContainInv, [MCNext]_mcVars PROVE ContainInv'
    OBVIOUS
  <2>1. UNCHANGED containVars => UNCHANGED C!vars
    BY DEF containVars, C!vars, C!procVars, C!runVars, C!slotVars
  <2> QED BY <2>1, Elsewhere, PartsAssumption, ContainStep
<1>3. ContainInv => Contained
  BY ContainFollows DEF Contained
<1> QED BY <1>1, <1>2, <1>3, PTL DEF PartsSpec

\* The runs of the suite, over one corpus: a verdict is about the source it says
\* it is, whatever was refused, retried or left patched; the checkout comes out as
\* it went in but for what the log tells; and what is captured of failed cases
\* stays within the budget to within what the slots were copying.
THEOREM CorpusHonestThere == PartsSpec => []CorpusHonest
<1>1. MCInit => RunInv
  BY PartsAssumption, RunInit DEF MCInit
<1>2. RunInv /\ [MCNext]_mcVars => RunInv'
  <2> SUFFICES ASSUME RunInv, [MCNext]_mcVars PROVE RunInv'
    OBVIOUS
  <2>1. UNCHANGED shellVars => UNCHANGED S!vars
    BY DEF shellVars, S!vars, S!files, S!own
  <2> QED BY <2>1, Elsewhere, PartsAssumption, RunStep
<1>3. RunInv => CorpusHonest
  BY PartsAssumption, RunFollows DEF CorpusHonest
<1> QED BY <1>1, <1>2, <1>3, PTL DEF PartsSpec

\* What one run measured the next one still has: no step of any run makes the plan
\* or the footprints forget, interrupted, killed, continued or of a part of the
\* corpus.
THEOREM PlanKeepsThere == PartsSpec => PlanKeeps
<1>1. MCInit => RunInv
  BY PartsAssumption, RunInit DEF MCInit
<1>2. RunInv /\ [MCNext]_mcVars => RunInv'
  <2> SUFFICES ASSUME RunInv, [MCNext]_mcVars PROVE RunInv'
    OBVIOUS
  <2>1. UNCHANGED shellVars => UNCHANGED S!vars
    BY DEF shellVars, S!vars, S!files, S!own
  <2> QED BY <2>1, Elsewhere, PartsAssumption, RunStep
<1> DEFINE Keeps ==
        /\ DOMAIN sPlan \subseteq DOMAIN sPlan'
        /\ DOMAIN sSizes \subseteq DOMAIN sSizes'
        /\ \A c \in DOMAIN sPlan : sPlan'[c] # sPlan[c] => c \in sFin
<1>3. RunInv /\ [MCNext]_mcVars => [Keeps]_(S!vars)
  <2> SUFFICES ASSUME RunInv, [MCNext]_mcVars PROVE [Keeps]_(S!vars)
    OBVIOUS
  <2>1. UNCHANGED shellVars => UNCHANGED S!vars
    BY DEF shellVars, S!vars, S!files, S!own
  <2> QED BY <2>1, Elsewhere, PlanStep
<1> HIDE DEF Keeps
<1>4. PartsSpec => [][Keeps]_(S!vars)
  BY <1>1, <1>2, <1>3, PTL DEF PartsSpec
<1> QED BY <1>4 DEF PlanKeeps, S!PlanKeeps, Keeps
=============================================================================
