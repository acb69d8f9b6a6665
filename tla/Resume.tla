------------------------------- MODULE Resume -------------------------------
(***************************************************************************)
(* What a run leaves on disk, and what a resumed run makes of it.          *)
(*                                                                         *)
(* result/sink.go keeps dispatch_tc_ALL.txt and one dispatch_tc_FIN_<env>  *)
(* per environment; feedback/file.go keeps the counters of                 *)
(* test_status.data; shellsuite/worker.go writes both when a case reaches  *)
(* its verdict.  test_continue_yn subtracts the second from the first and  *)
(* goes on counting from the third.  A run may be interrupted, and it may  *)
(* die anywhere: between two of these writes, or inside one of the two     *)
(* that truncate a file and write it again.                                *)
(*                                                                         *)
(* One run at a time has the result tree (lock.go), so there is one set of *)
(* run variables.  A campaign is a fresh run from the moment it writes its *)
(* case list, and the runs that continue it.                               *)
(*                                                                         *)
(* A definition whose name ends in _F is a seeded fault: the one that      *)
(* follows it with a plausible bug.  No specification uses it.             *)
(***************************************************************************)
EXTENDS Integers, FiniteSets

CONSTANTS
    Cases,      \* the cases discovery finds
    Envs,       \* the EnvIDs a configuration may name
    Slots,      \* the slots of a run
    MaxRuns     \* bound: how many times a run is started

VARIABLES
    all,        \* dispatch_tc_ALL.txt
    fin,        \* fin[e]: dispatch_tc_FIN_<e>.txt
    stat,       \* the executed cases test_status.data counts; 0 when it is cut
    runs,       \* how many runs were started
    phase,      \* where the run in progress is, "off" when there is none
    cont,       \* it is a continued one
    env,        \* the EnvID it records its cases under
    opened,     \* its FIN file has been opened
    count,      \* its executed counter in memory
    waiting,    \* the cases its queue still has
    spc,        \* spc[s]: where slot s is
    scase,      \* scase[s]: its case, NoCase when it has none
    cancelled,  \* its context is done
    judged,     \* cases with a verdict in this campaign (observation)
    recorded,   \* cases with a FIN line in this campaign (observation)
    skipped,    \* cases its last continuation did not run (observation)
    clean,      \* no FIN file held anything when it began (observation)
    cut,        \* a crash cut a write of test_status.data (observation)
    outcome     \* how the last run ended (observation)

disk == <<all, fin, stat>>
run == <<runs, cont, env>>
work == <<opened, count, waiting>>
slots == <<spc, scase>>
campaign == <<judged, recorded, skipped, clean, cut>>
vars == <<disk, run, phase, work, slots, cancelled, campaign, outcome>>

NoCase == "none"
Idle == [s \in Slots |-> "claim"]

-----------------------------------------------------------------------------
(* Starting.                                                               *)

ReadStats_F(continued) == 0

\* readStats: a continued run takes the counters the file has.
ReadStats(continued) == IF continued THEN stat ELSE 0

\* result.Open and feedback.Open.  Nothing of a fresh run's FIN files is
\* touched here: they are truncated when they are first written.
Start(e, continued) ==
    /\ phase = "off" /\ runs < MaxRuns
    /\ phase' = "open"
    /\ runs' = runs + 1 /\ cont' = continued /\ env' = e
    /\ opened' = FALSE /\ count' = ReadStats(continued) /\ waiting' = {}
    /\ spc' = Idle /\ scase' = [s \in Slots |-> NoCase]
    /\ cancelled' = FALSE /\ outcome' = "none"
    /\ UNCHANGED <<disk, campaign>>

\* A campaign begins with its case list.
NewCampaign ==
    /\ judged' = {} /\ recorded' = {} /\ skipped' = {}
    /\ clean' = (\A e \in Envs : fin[e] = {})
    /\ cut' = FALSE

\* All(): the fresh run's pool.
WriteAll ==
    /\ phase = "open" /\ ~cont
    /\ all' = Cases /\ waiting' = Cases
    /\ phase' = "listed"
    /\ NewCampaign
    /\ UNCHANGED <<fin, stat, run, opened, count, slots, cancelled, outcome>>

\* TotalTestCase of a fresh run: update() writes the counters, none of which
\* has moved yet.
TotalTestCase ==
    /\ phase = "listed"
    /\ stat' = count
    /\ phase' = "test"
    /\ UNCHANGED <<all, fin, run, work, slots, cancelled, campaign, outcome>>

Remaining_F == all \ fin[env]

\* Remaining(): the pool less what any environment recorded as finished.
Remaining == all \ UNION {fin[e] : e \in Envs}

\* A continued run's list.  Nothing left ends it here, without a summary.
ReadRemaining ==
    /\ phase = "open" /\ cont
    /\ waiting' = Remaining
    /\ skipped' = all \ Remaining
    /\ IF Remaining = {}
       THEN phase' = "off" /\ outcome' = "empty"
       ELSE phase' = "test" /\ UNCHANGED outcome
    /\ UNCHANGED <<disk, run, opened, count, slots, cancelled, judged, recorded,
                   clean, cut>>

-----------------------------------------------------------------------------
(* The slots.  Which case comes next and when a slot has nothing left is    *)
(* Dispatch's business: here a slot takes any waiting case and may leave    *)
(* when there is none.                                                     *)

Claim(s) ==
    /\ phase = "test" /\ spc[s] = "claim" /\ ~cancelled
    /\ \E c \in waiting :
       /\ waiting' = waiting \ {c}
       /\ spc' = [spc EXCEPT ![s] = "run"]
       /\ scase' = [scase EXCEPT ![s] = c]
    /\ UNCHANGED <<disk, run, phase, opened, count, cancelled, campaign, outcome>>

Release_F(s) == UNCHANGED scase

\* The slot is done with its case.
Release(s) == scase' = [scase EXCEPT ![s] = NoCase]

Requeue_F(c) ==
    /\ waiting' = waiting \cup {c}
    /\ fin' = [fin EXCEPT ![env] = @ \cup {c}]

\* A case going back for another attempt has no verdict, and is not written to
\* the finished list.
Requeue(c) == waiting' = waiting \cup {c} /\ UNCHANGED fin

Retry(s) ==
    /\ phase = "test" /\ spc[s] = "run"
    /\ Requeue(scase[s])
    /\ spc' = [spc EXCEPT ![s] = "claim"]
    /\ Release(s)
    /\ UNCHANGED <<all, stat, run, phase, opened, count, cancelled, campaign,
                   outcome>>

\* CaseStop, under the feedback lock: the counter moves and os.WriteFile has
\* truncated test_status.data ...  The verdict of an interrupted case is the
\* interruption, and it is recorded like any other.
CaseStop(s) ==
    /\ phase = "test" /\ spc[s] = "run"
    /\ \A t \in Slots : spc[t] # "counting"
    /\ spc' = [spc EXCEPT ![s] = "counting"]
    /\ count' = count + 1
    /\ stat' = 0
    /\ UNCHANGED <<all, fin, run, phase, opened, waiting, scase, cancelled,
                   campaign, outcome>>

\* ... and has written it.
StatsWritten(s) ==
    /\ phase = "test" /\ spc[s] = "counting"
    /\ spc' = [spc EXCEPT ![s] = "counted"]
    /\ stat' = count
    /\ judged' = judged \cup {scase[s]}
    /\ UNCHANGED <<all, fin, run, phase, work, scase, cancelled, recorded, skipped,
                   clean, cut, outcome>>

\* file(): a continued run appends; a fresh one truncates what was there, the
\* first time.
Appends == opened \/ cont

\* Finished(), the last thing finish does with a case.
Finished(s) ==
    /\ phase = "test" /\ spc[s] = "counted"
    /\ fin' = [fin EXCEPT ![env] = IF Appends THEN @ \cup {scase[s]} ELSE {scase[s]}]
    /\ opened' = TRUE
    /\ recorded' = recorded \cup {scase[s]}
    /\ spc' = [spc EXCEPT ![s] = "claim"]
    /\ Release(s)
    /\ UNCHANGED <<all, stat, run, phase, count, waiting, cancelled, judged, skipped,
                   clean, cut, outcome>>

MayLeave_F == cancelled \/ Cardinality(waiting) <= 1

\* ClaimFor answers false, or the worker finds its context done.
MayLeave == cancelled \/ waiting = {}

Leave(s) ==
    /\ phase = "test" /\ spc[s] = "claim"
    /\ MayLeave
    /\ spc' = [spc EXCEPT ![s] = "gone"]
    /\ UNCHANGED <<disk, run, phase, work, scase, cancelled, campaign, outcome>>

\* Every worker has returned: the summary, the archive, the lock released.
End ==
    /\ phase = "test"
    /\ \A s \in Slots : spc[s] = "gone"
    /\ phase' = "off"
    /\ outcome' = IF cancelled THEN "cancelled" ELSE "complete"
    /\ UNCHANGED <<disk, run, work, slots, cancelled, campaign>>

-----------------------------------------------------------------------------
(* Interruption.                                                           *)

Cancel ==
    /\ phase = "test" /\ ~cancelled
    /\ cancelled' = TRUE
    /\ UNCHANGED <<disk, run, phase, work, slots, campaign, outcome>>

\* The process is gone: killed, out of memory, power.  The lock was the
\* kernel's and goes with it.
Crash ==
    /\ phase # "off"
    /\ phase' = "off"
    /\ outcome' = "crash"
    /\ cut' = (cut \/ \E s \in Slots : spc[s] = "counting")
    /\ UNCHANGED <<disk, run, work, slots, cancelled, judged, recorded, skipped,
                   clean>>

\* It is gone in the middle of All(): the file holds a part of the pool.
CrashInAll ==
    /\ phase = "open" /\ ~cont
    /\ \E part \in SUBSET Cases : all' = part
    /\ phase' = "off"
    /\ outcome' = "crash"
    /\ NewCampaign
    /\ UNCHANGED <<fin, stat, run, work, slots, cancelled>>

Over == phase = "off" /\ runs = MaxRuns /\ UNCHANGED vars

Init ==
    /\ all = {} /\ fin = [e \in Envs |-> {}] /\ stat = 0
    /\ runs = 0 /\ phase = "off" /\ cont = FALSE /\ env \in Envs
    /\ opened = FALSE /\ count = 0 /\ waiting = {}
    /\ spc = Idle /\ scase = [s \in Slots |-> NoCase]
    /\ cancelled = FALSE
    /\ judged = {} /\ recorded = {} /\ skipped = {}
    /\ clean = TRUE /\ cut = FALSE
    /\ outcome = "none"

Slot(s) ==
    \/ Claim(s) \/ Retry(s) \/ CaseStop(s) \/ StatsWritten(s) \/ Finished(s)
    \/ Leave(s)

Next ==
    \/ \E e \in Envs, continued \in BOOLEAN : Start(e, continued)
    \/ WriteAll \/ TotalTestCase \/ ReadRemaining
    \/ \E s \in Slots : Slot(s)
    \/ End \/ Cancel \/ Crash \/ CrashInAll \/ Over

Spec == Init /\ [][Next]_vars

-----------------------------------------------------------------------------
(* Properties.                                                             *)

Phase == {"off", "open", "listed", "test"}
SlotPC == {"claim", "run", "counting", "counted", "gone"}
Outcome == {"none", "empty", "complete", "cancelled", "crash"}

DiskOK == all \subseteq Cases /\ fin \in [Envs -> SUBSET Cases] /\ stat \in Nat

RunOK ==
    /\ runs \in 0..MaxRuns /\ phase \in Phase /\ env \in Envs
    /\ count \in Nat /\ waiting \subseteq Cases
    /\ spc \in [Slots -> SlotPC] /\ scase \in [Slots -> Cases \cup {NoCase}]
    /\ \A s \in Slots : scase[s] = NoCase <=> spc[s] \in {"claim", "gone"}

FlagsOK ==
    /\ cont \in BOOLEAN /\ opened \in BOOLEAN /\ cancelled \in BOOLEAN
    /\ clean \in BOOLEAN /\ cut \in BOOLEAN

CampaignOK ==
    /\ judged \subseteq Cases /\ recorded \subseteq Cases /\ skipped \subseteq Cases
    /\ outcome \in Outcome

\* The files, the run and the campaign have their types.
TypeOK == DiskOK /\ RunOK /\ FlagsOK /\ CampaignOK

\* A case with a FIN line is not run again in the campaign, whichever
\* environment a continuation names, and not on two slots.
RunOnce ==
    \A s \in Slots : phase = "test" /\ scase[s] # NoCase =>
        /\ scase[s] \notin recorded
        /\ \A t \in Slots : scase[t] = scase[s] => t = s

\* The finished list never runs ahead of the verdicts, through any crash: what
\* a continuation skips has a verdict, if the campaign began in a clean tree.
CleanSkips == clean => skipped \subseteq judged

\* What the FIN files are believed for: neither a second verdict nor a case
\* passed over, in a state that is well formed.
ResumeSound == TypeOK /\ RunOnce /\ CleanSkips

\* A run that ends on its own, in a campaign that began clean and whose list
\* was written whole, leaves no case of the pool without a verdict.
CompleteMeansJudged == outcome = "complete" /\ clean => all \subseteq judged

\* Unless a crash cut the file, the counters a continuation would read are
\* never short of the finished list: CaseStop comes before Finished.
CountersKeepUp == phase = "off" /\ ~cut => stat >= Cardinality(recorded)

-----------------------------------------------------------------------------
(* What a comment or a document says and the code does not have.           *)

\* 04-configuration.md: `resume, skipping what already has a verdict' -- and nothing else.
SkipsOnlyJudged == skipped \subseteq judged

\* file.go: `a resumed run adds to whatever the previous one left, so counting would
\* double': no case is counted twice.
NeverDoubles == phase = "test" => count <= Cardinality(all)

\* file.go: a continued run `picks the counters up where they were left'.
CountersSurvive == phase = "off" => stat >= Cardinality(recorded)
=============================================================================
