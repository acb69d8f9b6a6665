------------------------------ MODULE Contain ------------------------------
(***************************************************************************)
(* A contained run and its slots (internal/contain).  testkit re-executes  *)
(* itself in namespaces (Enter); the process that becomes PID 1 there is   *)
(* an init and nothing else (Init), its child is the run; the run opens    *)
(* slots (OpenSlots), each a namespace held open by a keeper, with the     *)
(* install behind an overlay on a directory of the run's own root.         *)
(*                                                                         *)
(* Any process may be killed.  What the kernel does of itself is external: *)
(* a PID namespace goes with its PID 1, a child told so with its parent,   *)
(* and the children of a process that goes are PID 1's.                    *)
(***************************************************************************)
EXTENDS Integers, FiniteSets

CONSTANTS
    NSlots,     \* the slots a run opens
    Kills       \* bound: processes killed from outside

VARIABLES
    proc,     \* proc[p] of "outer", "init", "run": "none", "up", "done", "killed"
    code,     \* code[p]: the exit code of one that is done; 1 is a failure
    outside,  \* the run went on outside the namespaces
    at,       \* how far the run is: setup, its slots, its work, their end
    ok,       \* it has had no failure
    root,     \* its slot root is on disk; "warned" when it could not be removed
    keeper,   \* keeper[s]: "none", "up", "dead" and not yet waited for, "gone"
    ready,    \* how many slots are in the list closeAll goes through
    cmd,      \* cmd[s]: "none", "inside", "outside", "ended", "lost"
    told,     \* the processes a stop signal has reached
    kills     \* the processes killed so far

procVars == <<proc, code, outside>>
runVars == <<at, ok, root>>
slotVars == <<keeper, ready, cmd>>
vars == <<procVars, runVars, slotVars, told, kills>>

Slots == 1..NSlots

Up(p) == proc[p] = "up"
Gone(p) == proc[p] \in {"done", "killed"}
Procs == {"outer", "init", "run"}

Init ==
    /\ proc = [p \in Procs |-> IF p = "outer" THEN "up" ELSE "none"]
    /\ code = [p \in Procs |-> 0] /\ outside = FALSE
    /\ at = "setup" /\ ok = TRUE /\ root = "none"
    /\ keeper = [s \in Slots |-> "none"] /\ ready = 0 /\ cmd = [s \in Slots |-> "none"]
    /\ told = {} /\ kills = 0

Exit(p, c) == proc' = [proc EXCEPT ![p] = "done"] /\ code' = [code EXCEPT ![p] = c]

-----------------------------------------------------------------------------
(* The three processes.                                                    *)

\* Enter: the child in the new namespaces, or no run at all.
Enter ==
    /\ Up("outer") /\ proc["init"] = "none"
    /\ \/ proc' = [proc EXCEPT !["init"] = "up"] /\ UNCHANGED code
       \/ Exit("outer", 1)
    /\ UNCHANGED <<outside, runVars, slotVars, told, kills>>

\* Init: PID 1 starts the program again, and does nothing but collect orphans.
InitFork ==
    /\ Up("init") /\ proc["run"] = "none"
    /\ \/ proc' = [proc EXCEPT !["run"] = "up"] /\ UNCHANGED code
       \/ Exit("init", 1)
    /\ UNCHANGED <<outside, runVars, slotVars, told, kills>>

ParentOf_F(s) == "init"

\* Who started the command of slot s: the run, which waits for it.
ParentOf(s) == IF Up("run") THEN "run" ELSE "init"

\* Init's Wait4(-1): any child of its own, whose status it throws away.
InitReap(s) ==
    /\ Up("init") /\ cmd[s] = "ended" /\ ParentOf(s) = "init"
    /\ cmd' = [cmd EXCEPT ![s] = "lost"]
    /\ UNCHANGED <<procVars, runVars, keeper, ready, told, kills>>

\* Init: the run ended, and the init with its status.
InitEnd ==
    /\ Up("init") /\ Gone("run")
    /\ Exit("init", IF proc["run"] = "done" THEN code["run"] ELSE 128)
    /\ UNCHANGED <<outside, runVars, slotVars, told, kills>>

EnterResult_F == IF proc["init"] = "done" THEN code["init"] ELSE -1

\* Enter, once the child is gone: its exit code; a child that was killed has
\* none, and fails this process.
EnterResult == IF proc["init"] = "done" THEN code["init"] ELSE 1

\* main: a result is this process's exit code; -1 means that there was nothing
\* to contain, and the run goes on here.
EnterEnd ==
    /\ Up("outer") /\ Gone("init")
    /\ outside' = (EnterResult = -1)
    /\ Exit("outer", EnterResult)
    /\ UNCHANGED <<runVars, slotVars, told, kills>>

-----------------------------------------------------------------------------
(* The run.                                                                *)

\* The next thing the run needs before it has slots, or the end of it.
Ready(from, to) ==
    /\ Up("run") /\ at = from
    /\ \/ at' = to /\ UNCHANGED <<proc, code>>
       \/ at' = "end" /\ Exit("run", 1)
    /\ UNCHANGED <<outside, ok, root, slotVars, told, kills>>

\* Setup: mounts of its own, a /proc of the namespace, a /bin/sh that is bash ...
SetupMounts == Ready("setup", "hosts")

\* ... and a name of the machine that is loopback (bindHosts).
BindHosts == Ready("hosts", "root")

Setup == SetupMounts \/ BindHosts

\* NewSlotRoot: a directory nobody else's.
NewSlotRoot ==
    /\ Up("run") /\ at = "root"
    /\ \/ at' = "open" /\ root' = "there" /\ UNCHANGED <<proc, code>>
       \/ at' = "end" /\ Exit("run", 1) /\ UNCHANGED root
    /\ UNCHANGED <<outside, ok, slotVars, told, kills>>

OpenFails == at' = "close" /\ ok' = FALSE

\* Open: the keeper, its scratch directory, and what the namespaces do not give
\* of themselves.  One that cannot be prepared is closed at once.
Open ==
    /\ Up("run") /\ at = "open"
    /\ \/ OpenFails /\ UNCHANGED <<keeper, ready>>
       \/ OpenFails /\ keeper' = [keeper EXCEPT ![ready + 1] = "gone"] /\ UNCHANGED ready
       \/ /\ keeper' = [keeper EXCEPT ![ready + 1] = "up"] /\ ready' = ready + 1
          /\ at' = "overlay" /\ UNCHANGED ok
    /\ UNCHANGED <<procVars, root, cmd, told, kills>>

\* Alive: the keeper's pid answers.  One that died and was not waited for still
\* does.
Alive(s) == keeper[s] \in {"up", "dead"}

\* The next thing a slot needs, or the end of OpenSlots.
Prepare(from, to) ==
    /\ Up("run") /\ at = from
    /\ OpenFails \/ (at' = to /\ UNCHANGED ok)
    /\ UNCHANGED <<procVars, root, slotVars, told, kills>>

\* Overlay: the install, and the registry unless the install covers it, behind
\* layers of the slot's own; refused when the keeper does not answer, and failing
\* inside when it answers and is dead.
Overlay == at = "overlay" /\ keeper[ready] = "up" /\ Alive(ready) /\ Prepare("overlay", "mount")

OverlayFails ==
    /\ Up("run") /\ at = "overlay" /\ keeper[ready] # "up"
    /\ OpenFails
    /\ UNCHANGED <<procVars, root, slotVars, told, kills>>

\* The runner's own mount hook.
RunnerMount == Prepare("mount", "tmp")

\* slotTmp: the directory of the master's socket, if a path to it is short
\* enough for one.
SlotTmp == Prepare("tmp", "gcc")

\* GccShim and Dos2UnixShim: only where this machine needs them.
GccShim == Prepare("gcc", "dos2unix")
Dos2UnixShim == Prepare("dos2unix", IF ready = NSlots THEN "work" ELSE "open")

Mount == Overlay \/ OverlayFails \/ RunnerMount \/ SlotTmp \/ GccShim \/ Dos2UnixShim

Where_F(s) == IF keeper[s] = "up" THEN "inside" ELSE "outside"

\* nsChannel.Run: a command joins the keeper's namespace, or is not run.
Where(s) == IF keeper[s] = "up" THEN "inside" ELSE "none"

RunCommand(s) ==
    /\ Up("run") /\ at = "work" /\ "run" \notin told
    /\ cmd[s] = "none" /\ Alive(s)
    /\ cmd' = [cmd EXCEPT ![s] = Where(s)]
    /\ UNCHANGED <<procVars, runVars, keeper, ready, told, kills>>

CommandEnds(s) ==
    /\ cmd[s] = "inside"
    /\ cmd' = [cmd EXCEPT ![s] = "ended"]
    /\ UNCHANGED <<procVars, runVars, keeper, ready, told, kills>>

\* The run waits for its command and reads its status.
Reap(s) ==
    /\ Up("run") /\ cmd[s] = "ended"
    /\ cmd' = [cmd EXCEPT ![s] = "none"]
    /\ UNCHANGED <<procVars, runVars, keeper, ready, told, kills>>

\* The work ends, on its own, or stopped, or in a slot whose namespace is gone.
EndWork ==
    /\ Up("run") /\ at = "work"
    /\ at' = "close" /\ ok' \in {ok, FALSE}
    /\ UNCHANGED <<procVars, root, slotVars, told, kills>>

CloseAll_F == IF ok THEN 1..ready ELSE {}

\* closeAll: the slots that were opened, on every way out of OpenSlots.
CloseAll == 1..ready

\* Close, for every slot: the keeper is killed and waited for, and all that is
\* in its namespace goes with it; then the root.
Close ==
    /\ Up("run") /\ at = "close"
    /\ keeper' = [s \in Slots |-> IF s \in CloseAll THEN "gone" ELSE keeper[s]]
    /\ cmd' = [s \in Slots |-> IF s \in CloseAll THEN "none" ELSE cmd[s]]
    /\ root' \in {"none", "warned"}
    /\ at' = "end" /\ Exit("run", IF ok THEN 0 ELSE 1)
    /\ UNCHANGED <<outside, ok, ready, told, kills>>

-----------------------------------------------------------------------------
(* Signals and the kernel.                                                 *)

Interrupt ==
    /\ Up("outer") /\ told = {}
    /\ told' = {"outer"}
    /\ UNCHANGED <<procVars, runVars, slotVars, kills>>

\* Enter and Init pass a signal on; the run has a context of its own.
Forward(p, q) ==
    /\ p \in told /\ q \notin told /\ Up(p) /\ Up(q)
    /\ told' = told \cup {q}
    /\ UNCHANGED <<procVars, runVars, slotVars, kills>>

\* A process is killed: by a user, or by the kernel for its memory.
Kill(p) ==
    /\ kills < Kills /\ Up(p)
    /\ proc' = [proc EXCEPT ![p] = "killed"] /\ kills' = kills + 1
    /\ UNCHANGED <<code, outside, runVars, slotVars, told>>

KillKeeper(s) ==
    /\ kills < Kills /\ keeper[s] = "up"
    /\ keeper' = [keeper EXCEPT ![s] = "dead"] /\ kills' = kills + 1
    /\ cmd' = [cmd EXCEPT ![s] = IF @ = "inside" THEN "ended" ELSE @]
    /\ UNCHANGED <<procVars, runVars, ready, told>>

Pdeathsig_F == FALSE

\* Enter asks for the child to be killed when its parent goes.
Pdeathsig == TRUE

\* The child of a process that is gone.
ParentGone ==
    /\ Gone("outer") /\ Up("init") /\ Pdeathsig
    /\ proc' = [proc EXCEPT !["init"] = "killed"]
    /\ UNCHANGED <<code, outside, runVars, slotVars, told, kills>>

\* PID 1 of the namespace is gone, and all of it.
NamespaceGone ==
    /\ Gone("init")
    /\ Up("run") \/ \E s \in Slots : keeper[s] = "up" \/ cmd[s] \in {"inside", "ended"}
    /\ proc' = [proc EXCEPT !["run"] = IF @ = "up" THEN "killed" ELSE @]
    /\ keeper' = [s \in Slots |-> IF keeper[s] = "none" THEN "none" ELSE "gone"]
    /\ cmd' = [s \in Slots |-> "none"]
    /\ UNCHANGED <<code, outside, runVars, ready, told, kills>>

Process ==
    \/ Enter \/ InitFork \/ InitEnd \/ EnterEnd
    \/ Setup \/ NewSlotRoot \/ Open \/ Mount \/ Close
    \/ \E s \in Slots : InitReap(s)

\* What a suite does in its slots, for as long as it likes.
Work == EndWork \/ \E s \in Slots : RunCommand(s) \/ CommandEnds(s) \/ Reap(s)

Kernel == ParentGone \/ NamespaceGone

Next ==
    \/ Process \/ Work \/ Kernel \/ Interrupt
    \/ Forward("outer", "init") \/ Forward("init", "run")
    \/ \E p \in Procs : Kill(p)
    \/ \E s \in Slots : KillKeeper(s)

\* The processes run, what prepares and closes the slots returns, and the kernel
\* does its part.  The work itself may take for ever.
Spec == Init /\ [][Next]_vars /\ WF_vars(Process) /\ WF_vars(Kernel)

-----------------------------------------------------------------------------
(* Properties.                                                             *)

\* What was to be contained never runs outside: not the run, when its process
\* in the namespaces is killed and leaves no exit code, and not a command of a
\* slot whose keeper has died.  The reset there matches processes and empties
\* directories of the whole machine (the comments in Enter and Alive).
StaysInside == ~outside /\ \A s \in Slots : cmd[s] # "outside"

\* No status is lost: while the run is up, the init never takes that of one of
\* its commands (the comment on Init), and testkit exits with 0 only when the
\* run ended so, whichever process was killed.
StatusKept ==
    /\ Up("run") => \A s \in Slots : cmd[s] # "lost"
    /\ proc["outer"] = "done" /\ code["outer"] = 0 =>
          proc["run"] = "done" /\ code["run"] = 0

\* A run that ends leaves no keeper, no command in a slot and no slot root it
\* has not said it could not remove: also one that failed with some of its slots
\* open (closeAll).
SlotsGo ==
    proc["run"] = "done" =>
        /\ \A s \in Slots : keeper[s] \in {"none", "gone"} /\ cmd[s] = "none"
        /\ root # "there"

\* Nothing meant for the namespaces runs outside them, no status is lost, and no
\* slot outlives its run, whichever process was killed.
Contained == StaysInside /\ StatusKept /\ SlotsGo

\* Once testkit is gone, by itself or killed, nothing of the run goes on in the
\* namespaces, where nobody could see it (the comment on Pdeathsig).
NothingGoesOn ==
    Gone("outer") ~>
        ~Up("init") /\ ~Up("run") /\ \A s \in Slots : keeper[s] # "up" /\ cmd[s] # "inside"
=============================================================================
