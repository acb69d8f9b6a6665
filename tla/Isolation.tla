----------------------------- MODULE Isolation -----------------------------
(***************************************************************************)
(* A run of the isolation task (internal/runner/isolationsuite): the cases *)
(* are fetched, the corpus is patched, slots are opened and prepared side  *)
(* by side, a worker per slot drains the queue, and what the run changed   *)
(* is put back by the deferred calls of Run, last registered first.        *)
(*                                                                         *)
(* A case is executed by runone.sh.  What a dying server leaves in a slot  *)
(* -- a report or a core file, lines of FATAL ERROR in a log -- is looked  *)
(* for after each case, and what is new counts against that case.          *)
(*                                                                         *)
(* The run may be interrupted, and it may be killed; what is on disk then  *)
(* is where the next run starts.                                           *)
(***************************************************************************)
EXTENDS CaseQueue, Integers, Sequences, FiniteSets

CONSTANTS
    Slots,        \* the slots of a run
    Entries,      \* the exclusion file: for each line, the cases containing it
    Patches,      \* the cases case_patch_dir has a patch for
    HomeInstall,  \* the install under test is ~/CUBRID, whose log runone.sh empties
    Wrecks,       \* bound: cases of a run whose servers leave a wreck
    Runs          \* bound: runs one after another

\* Cases and slots are numbered from 1; 0 is neither.
IsolationGiven ==
    /\ Case \subseteq Nat \ {0} /\ Patches \subseteq Case
    /\ Slots # {} /\ 0 \notin Slots /\ Runs \in Nat \ {0}

VARIABLES
    at,        \* how far Run has come
    mode,      \* "fresh" or "continue" (test_continue_yn)
    ctx,       \* "live", or "done": the run was interrupted
    exit,      \* what Run returned: "ok", "quit" (255), "error", "killed"
    tree,      \* the patched cases of the corpus on disk
    todo,      \* what applyPatches or putPatchesBack has yet to go through
    refused,   \* patches that could not be taken out again, and said so
    opened,    \* the slots that are open
    all, fin,  \* dispatch_tc_ALL.txt and dispatch_tc_FIN_*.txt
    sized,     \* the run's sizing was recorded
    runs       \* runs so far
VARIABLES
    wst,       \* wst[s]: where the worker of slot s is
    wtc,       \* wtc[s]: its case, 0 without
    wok,       \* wok[s]: the verdict so far
    files,     \* files[s]: the cases whose report or core lies in the slot
    seen,      \* seen[s]: those the worker has counted (crashes, cores)
    lines,     \* lines[s]: FATAL ERROR lines in the slot's log
    counts,    \* counts[s]: how many of them it has counted (fatals)
    backup,    \* backup[s]: the backup of a core, by its name, 0 without
    home       \* the machine's ~/error_backup: where each backup went
VARIABLES
    leavers,   \* cases whose servers left a wreck this run (observation)
    blamed,    \* cases failed for one (observation)
    missed,    \* cases nobody could look after (observation)
    passed     \* cases with the verdict OK (observation)

runVars == <<at, mode, ctx, exit, runs>>
treeVars == <<tree, todo, refused>>
diskVars == <<all, fin, sized, home>>
workVars == <<wst, wtc, wok>>
slotVars == <<files, seen, lines, counts, backup>>
ghostVars == <<leavers, blamed, missed, passed>>
vars == <<queueVars, runVars, treeVars, diskVars, opened, workVars, slotVars, ghostVars>>

First(S) == CHOOSE c \in S : \A d \in S : c <= d

\* The cases of this run.
List == left \cup out \cup over

Each(v) == [s \in Slots |-> v]

Init ==
    /\ left = {} /\ out = {} /\ over = {}
    /\ at = "begin" /\ mode = "fresh" /\ ctx = "live" /\ exit = "none" /\ runs = 1
    /\ tree = {} /\ todo = {} /\ refused = {} /\ opened = {}
    /\ all = {} /\ fin = {} /\ sized = FALSE /\ home = {}
    /\ wst = Each("none") /\ wtc = Each(0) /\ wok = Each(TRUE)
    /\ files = Each({}) /\ seen = Each({}) /\ lines = Each(0) /\ counts = Each(0)
    /\ backup = Each(0)
    /\ leavers = {} /\ blamed = {} /\ missed = {} /\ passed = {}

-----------------------------------------------------------------------------
(* Before the slots.  A definition whose name ends in _F is a seeded fault *)
(* and is used by no specification.                                        *)

\* Run returns, with nothing of its own to put back.
Return(e) == at' = "over" /\ exit' = e

\* The configuration names other machines, or there is no build.
NoBuild == Return("quit")

\* resolveScenario: the directory is not there.  Said, and the task ends with 0.
ScenarioGone == Return("ok")

\* result.Open: another run has the result directory.
SinkTaken == Return("error")

SetupFails ==
    /\ at = "begin"
    /\ NoBuild \/ ScenarioGone \/ SinkTaken
    /\ UNCHANGED <<queueVars, mode, ctx, runs, treeVars, diskVars, opened, workVars,
                   slotVars, ghostVars>>

\* The sink is open, and a run that does not continue empties it.
Setup ==
    /\ at = "begin" /\ at' = "fetch"
    /\ all' = IF mode = "fresh" THEN {} ELSE all
    /\ fin' = IF mode = "fresh" THEN {} ELSE fin
    /\ UNCHANGED <<queueVars, mode, ctx, exit, runs, treeVars, sized, home, opened,
                   workVars, slotVars, ghostVars>>

\* exclude: each entry removes the first case it matches of those left by the
\* entries before it, and only that one; 0 without.
Exclude(cases) ==
    LET hit[i \in 1..Len(Entries)] ==
            LET kept == cases \ {hit[j] : j \in 1..(i - 1)}
            IN  IF kept \cap Entries[i] = {} THEN 0 ELSE First(kept \cap Entries[i])
    IN  cases \ {hit[i] : i \in 1..Len(Entries)}

\* What this run is to test: what is left of the last one, or what is found.
Fetched == IF mode = "continue" THEN all \ fin ELSE Exclude(Case)

\* check: a variable, a command or a directory is not there.
CheckFails == Return("quit")

\* discover, exclusions: find fails, or a file of exclusions that was asked for
\* cannot be read.
DiscoverFails == mode = "fresh" /\ Return("quit")

\* Remaining: there is no list to continue.
NoList == mode = "continue" /\ Return("error")

FetchFails ==
    /\ at = "fetch"
    /\ CheckFails \/ DiscoverFails \/ NoList
    /\ UNCHANGED <<queueVars, mode, ctx, runs, treeVars, diskVars, opened, workVars,
                   slotVars, ghostVars>>

Fetch ==
    /\ at = "fetch"
    /\ all' = IF mode = "continue" THEN all ELSE Fetched
    /\ IF Fetched = {}
       THEN Return("ok") /\ UNCHANGED <<left, todo>>
       ELSE at' = "patch" /\ left' = Fetched /\ todo' = Patches \cap Fetched /\ UNCHANGED exit
    /\ UNCHANGED <<out, over, mode, ctx, runs, tree, refused, fin, sized, home, opened,
                   workVars, slotVars, ghostVars>>

\* ApplyScript takes a patch that fits: never one that is in already.
Fits(c) == c \notin tree /\ ctx = "live"

\* applyPatches, one case after another.
Patch ==
    /\ at = "patch" /\ todo # {}
    /\ Fits(First(todo))
    /\ tree' = tree \cup {First(todo)} /\ todo' = todo \ {First(todo)}
    /\ UNCHANGED <<queueVars, runVars, refused, diskVars, opened, workVars, slotVars,
                   ghostVars>>

\* One does not apply -- it is in already, the case has moved, the run was
\* interrupted: quit.  The call that takes patches out is not registered yet.
PatchRefused ==
    /\ at = "patch" /\ todo # {}
    /\ Return("quit")
    /\ UNCHANGED <<queueVars, mode, ctx, runs, treeVars, diskVars, opened, workVars,
                   slotVars, ghostVars>>

Deferred_F(p, e) ==
    /\ at' = "revert" /\ exit' = e
    /\ todo' = Patches \cap List

\* Run returns from here on through its deferred calls: the slots close, and
\* then the patches come out.
Deferred(p, e) ==
    /\ at' = p /\ exit' = e
    /\ todo' = IF p = "revert" THEN Patches \cap List ELSE {}

\* OpenSlots, with this suite's mounts.  One that fails has closed what it
\* opened.
OpenSlots ==
    /\ at = "patch" /\ todo = {}
    /\ \/ /\ at' = "deploy" /\ opened' = Slots
          /\ wst' = [s \in Slots |-> "deploy"]
          /\ UNCHANGED <<exit, todo>>
       \/ Deferred("revert", "quit") /\ UNCHANGED <<opened, wst>>
    /\ UNCHANGED <<queueVars, mode, ctx, runs, tree, refused, diskVars, wtc, wok, slotVars,
                   ghostVars>>

\* deploy, in every slot at once: processes cleared, the install step, the
\* configuration.  Any of them may fail.
Deploy(s) ==
    /\ at = "deploy" /\ wst[s] = "deploy"
    /\ \E p \in {"ready", "bad"} : wst' = [wst EXCEPT ![s] = p]
    /\ UNCHANGED <<queueVars, runVars, treeVars, diskVars, opened, wtc, wok, slotVars,
                   ghostVars>>

\* wg.Wait: one that failed ends the run before a case has started.
Deployed ==
    /\ at = "deploy" /\ \A s \in Slots : wst[s] \in {"ready", "bad"}
    /\ IF \E s \in Slots : wst[s] = "bad"
       THEN Deferred("close", "quit") /\ UNCHANGED wst
       ELSE /\ at' = "test" /\ wst' = [s \in Slots |-> "claim"]
            /\ UNCHANGED <<exit, todo>>
    /\ UNCHANGED <<queueVars, mode, ctx, runs, tree, refused, diskVars, opened, wtc, wok,
                   slotVars, ghostVars>>

-----------------------------------------------------------------------------
(* The worker of a slot.                                                   *)

GoTo(s, p) == wst' = [wst EXCEPT ![s] = p]

Nothing_F(s) == GoTo(s, "claim")

\* ClaimFor answers false: the run is over for this slot, and it never asks again.
Nothing(s) == GoTo(s, "stop")

\* The next case, or the end of the loop.
Claim(s) ==
    /\ wst[s] = "claim"
    /\ IF left = {}
       THEN Nothing(s) /\ UNCHANGED <<queueVars, wtc>>
       ELSE /\ HandOut(First(left)) /\ GoTo(s, "got")
            /\ wtc' = [wtc EXCEPT ![s] = First(left)]
    /\ UNCHANGED <<runVars, treeVars, diskVars, opened, wok, slotVars, ghostVars>>

\* An interrupted run leaves here, its ticket not completed.
Leave(s) ==
    /\ wst[s] = "got" /\ ctx = "done"
    /\ GoTo(s, "bad")
    /\ UNCHANGED <<queueVars, runVars, treeVars, diskVars, opened, wtc, wok, slotVars,
                   ghostVars>>

\* runone.sh starts: it empties every file under ~/CUBRID/log.
Start(s) ==
    /\ wst[s] = "got" /\ ctx = "live"
    /\ GoTo(s, "run")
    /\ lines' = [lines EXCEPT ![s] = IF HomeInstall THEN 0 ELSE @]
    /\ UNCHANGED <<queueVars, runVars, treeVars, diskVars, opened, wtc, wok, files, seen,
                   counts, backup, ghostVars>>

\* A server dies under the case: a report or a core, which runone.sh may back
\* up under a name made of the build and the second, or a line in the log.
Die(s) ==
    /\ wst[s] = "run" /\ wtc[s] \notin leavers /\ Cardinality(leavers) < Wrecks
    /\ leavers' = leavers \cup {wtc[s]}
    /\ \/ /\ files' = [files EXCEPT ![s] = @ \cup {wtc[s]}]
          /\ \E n \in {0, 1} : backup' = [backup EXCEPT ![s] = IF @ = 0 THEN n ELSE @]
          /\ UNCHANGED lines
       \/ lines' = [lines EXCEPT ![s] = @ + 1] /\ UNCHANGED <<files, backup>>
    /\ UNCHANGED <<queueVars, runVars, treeVars, diskVars, opened, workVars, seen, counts,
                   blamed, missed, passed>>

\* judge, by where the last of each mark is in the output, -1 when there is
\* none, and whether the output names a core or a fatal error.
Judge(lastOK, lastNOK, errs) == lastNOK <= lastOK /\ ~ errs /\ lastOK # -1

\* runone.sh has ended, or could not be run.
RunOne(s) ==
    /\ wst[s] = "run"
    /\ \/ \E lastOK, lastNOK \in -1..1, errs \in BOOLEAN :
            wok' = [wok EXCEPT ![s] = Judge(lastOK, lastNOK, errs)]
       \/ wok' = [wok EXCEPT ![s] = FALSE]
    /\ GoTo(s, "files")
    /\ UNCHANGED <<queueVars, runVars, treeVars, diskVars, opened, wtc, slotVars, ghostVars>>

Unseen_F(s) == files[s]

\* Crashes and Cores: what the slot holds and the worker has not seen yet.  A
\* command that cannot be run finds nothing.
Unseen(s) == files[s] \ seen[s]

CheckFiles(s) ==
    /\ wst[s] = "files" /\ GoTo(s, "fatals")
    /\ LET new == IF ctx = "live" THEN Unseen(s) ELSE {} IN
       /\ seen' = [seen EXCEPT ![s] = @ \cup new]
       /\ wok' = [wok EXCEPT ![s] = @ /\ new = {}]
       /\ blamed' = IF new = {} THEN blamed ELSE blamed \cup {wtc[s]}
    /\ missed' = IF ctx = "live" THEN missed ELSE missed \cup {wtc[s]}
    /\ UNCHANGED <<queueVars, runVars, treeVars, diskVars, opened, wtc, files, lines, counts,
                   backup, leavers, passed>>

\* Fatals: lines gained since the case before.
CheckFatals(s) ==
    /\ wst[s] = "fatals" /\ GoTo(s, "record")
    /\ LET gained == ctx = "live" /\ lines[s] > counts[s] IN
       /\ counts' = [counts EXCEPT ![s] = IF gained THEN lines[s] ELSE @]
       /\ wok' = [wok EXCEPT ![s] = @ /\ ~ gained]
       /\ blamed' = IF gained THEN blamed \cup {wtc[s]} ELSE blamed
    /\ missed' = IF ctx = "live" THEN missed ELSE missed \cup {wtc[s]}
    /\ UNCHANGED <<queueVars, runVars, treeVars, diskVars, opened, wtc, files, seen, lines,
                   backup, leavers, passed>>

\* The verdict goes to feedback, the worker's log and the finished list, and
\* the ticket back to the queue.
Record(s) ==
    /\ wst[s] = "record" /\ GoTo(s, "claim")
    /\ PutAway(wtc[s])
    /\ fin' = fin \cup {wtc[s]}
    /\ passed' = IF wok[s] THEN passed \cup {wtc[s]} ELSE passed
    /\ wtc' = [wtc EXCEPT ![s] = 0]
    /\ UNCHANGED <<runVars, treeVars, all, sized, home, opened, wok, slotVars, leavers, blamed,
                   missed>>

\* The loop is over: the service is stopped.
StopService(s) ==
    /\ wst[s] = "stop" /\ GoTo(s, "gone")
    /\ UNCHANGED <<queueVars, runVars, treeVars, diskVars, opened, wtc, wok, slotVars,
                   ghostVars>>

-----------------------------------------------------------------------------
(* The end of a run.                                                       *)

\* The worker's goroutine has returned, its loop drained or left.
Back(s) == wst[s] \in {"gone", "bad"}

Failed == \E s \in Slots : wst[s] = "bad"

Sizeable_F == mode = "fresh"

\* Only a whole run is recorded for the next one to be sized by.
Sizeable == mode = "fresh" /\ ctx = "live" /\ ~ Failed

\* wg.Wait, TaskStop, record.
Join ==
    /\ at = "test" /\ \A s \in Slots : Back(s)
    /\ at' = "keep" /\ exit' = IF Failed THEN "error" ELSE "ok"
    /\ sized' = Sizeable
    /\ UNCHANGED <<queueVars, mode, ctx, runs, treeVars, all, fin, home, opened, workVars,
                   slotVars, ghostVars>>

NameFor_F(s) == <<0, backup[s]>>

\* A name that is there already gets the slot's label in front.
NameFor(s) ==
    IF \E h \in home : h.name = <<0, backup[s]>> THEN <<s, backup[s]>> ELSE <<0, backup[s]>>

\* keepBackups: what the slot backed up is copied to the machine's own, over
\* what is there under that name.
Keep(s) ==
    /\ at = "keep" /\ Back(s)
    /\ GoTo(s, "kept")
    /\ home' = IF backup[s] = 0 THEN home
               ELSE {h \in home : h.name # NameFor(s)}
                    \cup {[name |-> NameFor(s), from |-> <<runs, s>>]}
    /\ UNCHANGED <<queueVars, runVars, treeVars, all, fin, sized, opened, wtc, wok, slotVars,
                   ghostVars>>

Kept ==
    /\ at = "keep" /\ \A s \in Slots : wst[s] = "kept"
    /\ at' = "close"
    /\ UNCHANGED <<queueVars, mode, ctx, exit, runs, treeVars, diskVars, opened, workVars,
                   slotVars, ghostVars>>

\* closeSlots, once, whichever way the run came here; then the pack of the run
\* directory, which fails without failing the run.
CloseSlots ==
    /\ at = "close" /\ opened' = {}
    /\ Deferred("revert", exit)
    /\ UNCHANGED <<queueVars, mode, ctx, runs, tree, refused, diskVars, workVars, slotVars,
                   ghostVars>>

\* putPatchesBack: a patch comes out, or it is said that it did not.
Revert ==
    /\ at = "revert" /\ todo # {}
    /\ todo' = todo \ {First(todo)}
    /\ \/ tree' = tree \ {First(todo)} /\ UNCHANGED refused
       \/ refused' = refused \cup {First(todo)} /\ UNCHANGED tree
    /\ UNCHANGED <<queueVars, runVars, diskVars, opened, workVars, slotVars, ghostVars>>

Returned ==
    /\ at = "revert" /\ todo = {}
    /\ at' = "over"
    /\ UNCHANGED <<queueVars, mode, ctx, exit, runs, treeVars, diskVars, opened, workVars,
                   slotVars, ghostVars>>

-----------------------------------------------------------------------------
(* The environment.                                                        *)

Interrupt ==
    /\ at # "over" /\ ctx = "live"
    /\ ctx' = "done"
    /\ UNCHANGED <<queueVars, at, mode, exit, runs, treeVars, diskVars, opened, workVars,
                   slotVars, ghostVars>>

\* The process is killed; its slots go with it.
Kill ==
    /\ at # "over" /\ runs < Runs
    /\ Return("killed") /\ opened' = {}
    /\ UNCHANGED <<queueVars, mode, ctx, runs, treeVars, diskVars, workVars, slotVars,
                   ghostVars>>

\* The next run, over what the last one left on disk.
Again ==
    /\ at = "over" /\ runs < Runs
    /\ runs' = runs + 1
    /\ mode' \in {"fresh", "continue"}
    /\ left' = {} /\ out' = {} /\ over' = {}
    /\ at' = "begin" /\ ctx' = "live" /\ exit' = "none"
    /\ todo' = {} /\ refused' = {} /\ opened' = {} /\ sized' = FALSE
    /\ wst' = Each("none") /\ wtc' = Each(0) /\ wok' = Each(TRUE)
    /\ files' = Each({}) /\ seen' = Each({}) /\ lines' = Each(0) /\ counts' = Each(0)
    /\ backup' = Each(0)
    /\ leavers' = {} /\ blamed' = {} /\ missed' = {} /\ passed' = {}
    /\ UNCHANGED <<tree, all, fin, home>>

Ended == at = "over" /\ runs = Runs /\ UNCHANGED vars

Step(s) ==
    \/ Deploy(s) \/ Claim(s) \/ Leave(s) \/ Start(s) \/ RunOne(s)
    \/ CheckFiles(s) \/ CheckFatals(s) \/ Record(s) \/ StopService(s) \/ Keep(s)

Main ==
    \/ SetupFails \/ Setup \/ FetchFails \/ Fetch \/ Patch \/ PatchRefused \/ OpenSlots
    \/ Deployed \/ Join \/ Kept \/ CloseSlots \/ Revert \/ Returned

Working == at \in {"deploy", "test", "keep"}

Next ==
    \/ Main
    \/ Working /\ \E s \in Slots : Step(s) \/ Die(s)
    \/ Interrupt \/ Kill \/ Again \/ Ended

Spec == Init /\ [][Next]_vars

\* The run and its workers are goroutines that keep going, and the commands
\* they run come back.
FairSpec ==
    Spec /\ WF_vars(Main) /\ \A s \in Slots : WF_vars(Working /\ Step(s))

-----------------------------------------------------------------------------
(* Properties.                                                             *)

\* ADR-021: what a dying server leaves fails the case it appeared under, and no
\* other.  A case is blamed only for a wreck of its own, however often the slot
\* was looked at before, and one that left a wreck passes only when the run was
\* interrupted before anybody could look.
WreckageBlamed == blamed \subseteq leavers /\ passed \cap leavers \subseteq missed

\* isolation.go: reverting under a live overlay would change the tree a slot is
\* reading.  While slots are open the corpus holds exactly the patches of the
\* run's cases, and a run that got as far as its slots has taken them out again
\* when it returns, or has said which it could not.
TreeSteady ==
    /\ opened # {} => tree \cap List = Patches \cap List
    /\ at = "over" /\ exit \in {"ok", "error"} => tree \cap List \subseteq refused

\* What outlives a run is true of it.  A sizing is recorded only of a run that
\* finished every case it found, and a backup a slot made is in the machine's
\* error_backup once the slots are gone, whatever names the others chose.
EndHonest ==
    /\ sized => left \cup out = {} /\ fin = all
    /\ at \in {"close", "revert", "over"} /\ exit \in {"ok", "error"} =>
         \A s \in Slots : backup[s] # 0 =>
            \E h \in home : h.from = <<runs, s>>

\* Every run ends, interrupted or not.
RunEnds == (at # "over") ~> (at = "over")

-----------------------------------------------------------------------------
(* What a comment says and the code does not have.                         *)

\* patch.go: "does the corpus come out as it went in" must not have "it
\* depends" as its answer.
CorpusAsItWas ==
    at = "over" /\ exit # "killed" /\ runs = 1 => tree \subseteq refused
=============================================================================
