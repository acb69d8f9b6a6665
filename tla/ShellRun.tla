--------------------------------- MODULE ShellRun ---------------------------------
(***************************************************************************)
(* Runs of the shell suite, one after another, over one corpus             *)
(* (shellsuite: Shell.Run, test, oneWorker; the case list of discover.go;  *)
(* compatibility patches; the case logs and their budget; the files of     *)
(* durations and footprints that one run leaves to the next).  The queue   *)
(* itself is Dispatch, the monitor Monitor, reclaiming Corpus; a claim     *)
(* here is any case of the slot's lane whose directory nobody holds.       *)
(***************************************************************************)
EXTENDS Lanes

CONSTANTS
    Case,       \* the corpus
    Slots,      \* parallel_slots
    Settings,   \* configurations a run may be started with
    Took,       \* [case |-> seconds a whole attempt takes]
    Holds,      \* [directory |-> megabytes it holds when it retires]
    LogKB,      \* what one capture of a failed case takes
    LogBudget,  \* case_logs_max_mb, in the same unit
    MaxRetry,   \* testcase_retry_num
    Runs,       \* bound: runs of the suite
    Trouble     \* bound: interrupts, kills, refusals of patch(1) and of the reset

VARIABLES
    plan,       \* the case_plan file: [case |-> seconds], of the cases measured
    sizes,      \* the case_sizes file: [directory |-> megabytes]
    source,     \* the cases whose source in the checkout is patched
    layer,      \* those patched in the overlays of this run
    fin,        \* dispatch_tc_FIN: the cases of this result directory that are finished
    all,        \* dispatch_tc_ALL
    told,       \* patched.txt, beside them: the cases it lists
    run,        \* where the run is, with what it was started with and read
    sl,         \* [slot |-> its attempt]
    todo,       \* [case |-> attempts made], of the cases the run has not retired
    record,     \* plan.Record: [case |-> seconds]
    held,       \* Corpus.Held: [directory |-> megabytes]
    applied,    \* patch.Set.applied
    judged,     \* [case |-> the verdict this result directory has of it]
    logs,       \* CaseLogs: spent, stopped, kept
    cancelled,  \* the run's context
    stuck,      \* cases whose patch could not be taken back, which the log says
    runs, trouble

files == <<plan, sizes, source, fin, all, told>>
own   == <<record, held, applied, logs, layer>>
vars  == <<files, run, sl, todo, own, judged, cancelled, stuck, runs, trouble>>

Slot == 1..Slots
NoCase == [at |-> "out"]
Idle == [at |-> "idle", lanes |-> NoLanes]
Empty == [x \in {} |-> 0]
Has(f, x) == x \in DOMAIN f
With(f, x, v) == [y \in DOMAIN f \union {x} |-> IF y = x THEN v ELSE f[y]]
Over(f, g) == [y \in DOMAIN f \union DOMAIN g |-> IF y \in DOMAIN g THEN g[y] ELSE f[y]]

Init ==
    /\ plan = Empty /\ sizes = Empty /\ source = {} /\ layer = {} /\ fin = {} /\ all = {} /\ told = {}
    /\ run = Idle /\ sl = [s \in Slot |-> NoCase] /\ todo = Empty
    /\ record = Empty /\ held = Empty /\ applied = {} /\ judged = Empty
    /\ logs = [spent |-> 0, stopped |-> FALSE, kept |-> 0]
    /\ cancelled = FALSE /\ stuck = {}
    /\ runs = Runs /\ trouble = Trouble

---------------------------------------------------------------------------------
(* The case list. *)

\* Remove, Include and Exclude over the discovered cases: the macro's first, then
\* what the list names, then what the exclusion files name.
RemoveNamed(cases, unwanted) == [kept |-> cases \ unwanted, removed |-> cases \intersect unwanted]
IncludeOnly(cases, only) == IF only = {} THEN cases ELSE cases \intersect only
ExcludeMatching(cases, patterns) == [kept |-> cases \ patterns, removed |-> cases \intersect patterns]

Selected(conf) ==
    ExcludeMatching(IncludeOnly(RemoveNamed(Case, conf.macro).kept, conf.only), conf.excluded).kept

\* caseList: what is left of an earlier run, or what discovery finds.
caseList(conf, cont) == IF cont THEN all \ fin ELSE Selected(conf)

---------------------------------------------------------------------------------
(* The run, up to its first case. *)

lanesAsked(conf) == conf.slowSecs > 0 \/ conf.slowMB > 0 \/ conf.slowMBps > 0
splitOf(conf) ==
    IF lanesAsked(conf) THEN planLanes(plan, sizes, conf.slowSecs, conf.slowMB, conf.slowMBps, Slots)
    ELSE NoLanes

\* What a configuration cannot ask for: lanes without memory or without what they
\* are measured by, two places for the corpus's writes, or an empty slow lane.
Refuses(conf) ==
    \/ lanesAsked(conf) /\ ~conf.ram
    \/ conf.disk /\ conf.ram
    \/ /\ lanesAsked(conf)
       /\ \/ LanesRefused(plan, sizes, conf.slowSecs, conf.slowMB, conf.slowMBps, Slots)
          \/ ~on(splitOf(conf))

\* Continue and ContinueSizes: the record starts from what is already known.
Continue_F(known) == Empty
Continue(known) == known

\* A fresh result directory, or the one there is; the two files are read, lanes
\* are planned, and the slots opened.
Start ==
    /\ run.at = "idle" /\ runs > 0
    /\ \E conf \in Settings, cont \in BOOLEAN :
          /\ cont => all # {}
          /\ run' = IF Refuses(conf) THEN [at |-> "closing", lanes |-> NoLanes]
                    ELSE [at |-> "opened", conf |-> conf, cont |-> cont, lanes |-> splitOf(conf)]
          /\ fin' = IF cont THEN fin ELSE {}
          /\ all' = IF cont THEN all ELSE {}
          /\ judged' = IF cont THEN judged ELSE Empty
    /\ runs' = runs - 1
    /\ record' = Continue(plan)
    /\ held' = Empty /\ applied' = {} /\ layer' = {}
    /\ logs' = [spent |-> 0, stopped |-> FALSE, kept |-> 0]
    /\ cancelled' = FALSE
    /\ UNCHANGED <<plan, sizes, source, told, sl, todo, stuck, trouble>>

\* Requirements, workspace, case list, deploy, queue, page, patches, case logs.
\* No case is the end of the run, and of nothing else.
Prepare ==
    /\ run.at = "opened"
    /\ LET cases == caseList(run.conf, run.cont)
       IN  /\ all' = IF run.cont THEN all ELSE cases
           /\ todo' = [c \in cases |-> 0]
           /\ run' = [run EXCEPT !.at = IF cases = {} THEN "closing" ELSE "testing"]
           /\ sl' = [s \in Slot |-> IF cases = {} THEN NoCase ELSE [at |-> "free"]]
    /\ UNCHANGED <<plan, sizes, source, fin, told, own, judged, cancelled, stuck, runs, trouble>>

\* A build that does not answer, a workspace that cannot be read, a deploy that
\* fails, a page address that is taken: the run quits.
PrepareFails ==
    /\ run.at = "opened" /\ trouble > 0
    /\ trouble' = trouble - 1
    /\ run' = [run EXCEPT !.at = "closing"]
    /\ UNCHANGED <<files, sl, todo, own, judged, cancelled, stuck, runs>>

---------------------------------------------------------------------------------
(* One attempt of a slot. *)

dirsHeld == {DirOf[sl[s].case] : s \in {t \in Slot : sl[t].at \notin {"out", "free"}}}

MayClaim(s, c) ==
    /\ c \in DOMAIN todo
    /\ DirOf[c] \notin dirsHeld
    /\ laneOf(run.lanes, s) \in {"any", caseLane(run.lanes, c)}

\* The slots see the corpus through an overlay.
overlaid == run.conf.ram \/ run.conf.disk

\* A patch that could not be applied is taken for one there was no need of.
runOne_F(s, c, reset, patch) ==
    /\ patch = "applied" => c \in run.conf.patches /\ c \notin source \union layer
    /\ patch = "none" => c \notin run.conf.patches
    /\ source' = IF patch = "applied" /\ ~overlaid THEN source \union {c} ELSE source
    /\ layer' = IF patch = "applied" /\ overlaid THEN layer \union {c} ELSE layer
    /\ applied' = IF patch = "applied" THEN applied \union {c} ELSE applied
    /\ sl' = [sl EXCEPT ![s] =
               [at |-> "running", case |-> c, try |-> todo[c] + 1, fresh |-> reset, patch |-> patch,
                whole |-> TRUE, ok |-> FALSE,
                ran |-> IF c \in source' \union layer' THEN "patched" ELSE "plain"]]

\* The reset is housekeeping: one that is refused is written to the worker log
\* and the case runs (quietly).  A patch is applied to the source the slot sees,
\* or the case is failed without being run.
runOne(s, c, reset, patch) ==
    LET wants == c \in run.conf.patches
        fits  == c \notin source \union layer
    IN  /\ patch = "applied" => wants /\ fits
        /\ patch = "refused" => wants
        /\ patch = "none"    => ~wants
        /\ source' = IF patch = "applied" /\ ~overlaid THEN source \union {c} ELSE source
        /\ layer' = IF patch = "applied" /\ overlaid THEN layer \union {c} ELSE layer
        /\ applied' = IF patch = "applied" THEN applied \union {c} ELSE applied
        /\ sl' = [sl EXCEPT ![s] =
                   [at |-> IF patch = "refused" THEN "ended" ELSE "running", case |-> c, try |-> todo[c] + 1,
                    fresh |-> reset, patch |-> patch, whole |-> TRUE, ok |-> FALSE,
                    ran |-> IF patch = "refused" THEN "nothing"
                            ELSE IF c \in source' \union layer' THEN "patched" ELSE "plain"]]

\* The reset put the install back, or was refused: no snapshot, or a name the
\* patterns would match (SnapshotScript, RestoreScript, KillScript).
RestoreScript == BOOLEAN

\* What patch(1) did: there was no patch, all of it went in, or none of it.
ApplyScript == {"none", "applied", "refused"}

Claim(s) ==
    /\ run.at = "testing" /\ sl[s].at = "free" /\ ~cancelled
    /\ \E c \in Case, reset \in RestoreScript, patch \in ApplyScript :
          /\ MayClaim(s, c)
          /\ runOne(s, c, reset, patch)
          /\ LET odd == ~reset \/ (patch = "refused" /\ c \notin source \union layer)
             IN  /\ odd => trouble > 0
                 /\ trouble' = trouble - (IF odd THEN 1 ELSE 0)
    /\ UNCHANGED <<plan, sizes, fin, all, told, run, todo, record, held, logs, judged, cancelled, stuck, runs>>

\* Putting a patch back, on the run's own context or on none.
Reverted_F(s, fits) == fits /\ ~cancelled
Reverted(s, fits) == fits

\* The case ends, or the interrupt ends it; its patch is put back unless the case
\* changed the file underneath, which the worker log says.
Ends(s) ==
    /\ sl[s].at = "running"
    /\ \E ok, fits \in BOOLEAN :
          /\ ok => ~cancelled
          /\ ~fits => sl[s].patch = "applied" /\ trouble > 0
          /\ trouble' = trouble - (IF fits THEN 0 ELSE 1)
          /\ sl' = [sl EXCEPT ![s].at = "ended", ![s].ok = ok, ![s].whole = ~cancelled]
          /\ LET back == IF sl[s].patch = "applied" /\ Reverted(s, fits) THEN {sl[s].case} ELSE {}
             IN  source' = source \ back /\ layer' = layer \ back
          /\ stuck' = IF fits \/ overlaid THEN stuck ELSE stuck \union {sl[s].case}
    /\ UNCHANGED <<plan, sizes, fin, all, told, run, todo, record, held, applied, logs, judged, cancelled, runs>>

\* Capture: nothing when the verdict asks for none or the budget is gone.
wants_F(s) == run.conf.logs = "all" \/ (run.conf.logs = "fail" /\ ~sl[s].ok)
wants(s) ==
    /\ run.conf.logs = "all" \/ (run.conf.logs = "fail" /\ ~sl[s].ok)
    /\ ~logs.stopped

Capture(s) ==
    /\ sl[s].at = "ended"
    /\ sl' = [sl EXCEPT ![s].at = IF wants(s) THEN "capturing" ELSE "captured"]
    /\ UNCHANGED <<files, run, todo, own, judged, cancelled, stuck, runs, trouble>>

\* spend: what du says of the capture is charged; the one that crosses is kept.
\* An interrupt ends the copy, which is charged nothing.
spend(s) ==
    /\ sl[s].at = "capturing"
    /\ logs' = IF cancelled THEN logs
               ELSE LET n == logs.spent + LogKB
                    IN  [spent |-> n, kept |-> logs.kept + 1,
                         stopped |-> logs.stopped \/ (LogBudget > 0 /\ n >= LogBudget)]
    /\ sl' = [sl EXCEPT ![s].at = "captured"]
    /\ UNCHANGED <<files, run, todo, record, held, applied, layer, judged, cancelled, stuck, runs, trouble>>

retires(s) == sl[s].ok \/ sl[s].try > MaxRetry

\* finish: back for another try, or the verdict, the duration, and -- with the
\* directory's last case -- its footprint and the overlay's writes.
finish(s) ==
    /\ sl[s].at = "captured"
    /\ LET c == sl[s].case
           left == DOMAIN todo \ {c}
           last == ~\E x \in left : DirOf[x] = DirOf[c]
       IN  IF ~retires(s)
           THEN /\ todo' = [todo EXCEPT ![c] = sl[s].try]
                /\ UNCHANGED <<layer, fin, record, held, judged>>
           ELSE /\ todo' = [x \in left |-> todo[x]]
                /\ record' = With(record, c, IF sl[s].whole THEN Took[c] ELSE 0)
                /\ judged' = With(judged, c, [ok |-> sl[s].ok, ran |-> sl[s].ran, in |-> runs])
                /\ fin' = fin \union {c}
                /\ held' = IF last /\ run.conf.ram /\ caseLane(run.lanes, c) # "slow"
                           THEN With(held, DirOf[c], Holds[DirOf[c]]) ELSE held
                /\ layer' = IF last /\ run.conf.ram
                            THEN {x \in layer : DirOf[x] # DirOf[c]} ELSE layer
    /\ sl' = [sl EXCEPT ![s] = [at |-> "free"]]
    /\ UNCHANGED <<plan, sizes, source, all, told, run, applied, logs, cancelled, stuck, runs, trouble>>

\* The slot's worker returns: its lane has nothing more to come, or the run is
\* cancelled.
Return(s) ==
    /\ run.at = "testing" /\ sl[s].at = "free"
    /\ \/ cancelled
       \/ ~\E c \in DOMAIN todo : laneOf(run.lanes, s) \in {"any", caseLane(run.lanes, c)}
    /\ sl' = [sl EXCEPT ![s] = NoCase]
    /\ UNCHANGED <<files, run, todo, own, judged, cancelled, stuck, runs, trouble>>

---------------------------------------------------------------------------------
(* The end. *)

Interrupt ==
    /\ run.at = "testing" /\ ~cancelled /\ trouble > 0
    /\ cancelled' = TRUE /\ trouble' = trouble - 1
    /\ UNCHANGED <<files, run, sl, todo, own, judged, stuck, runs>>

\* Record.Write, beside the file and renamed over it; an empty record writes nothing.
WritePlan(old, new) == IF new = Empty THEN old ELSE new

\* Sizes.Merge into what was known, and Sizes.Write.
WriteSizes(known, measured) == Over(Continue(known), measured)

\* patch.Set.Report: nothing is written when nothing was patched.
Report(old, patched) == IF patched = {} THEN old ELSE patched

\* Every worker is back: the plan, the patched cases and the footprints are
\* written, the run packed.
WriteBack ==
    /\ run.at = "testing" /\ \A s \in Slot : sl[s].at = "out"
    /\ plan' = WritePlan(plan, record)
    /\ told' = Report(told, applied)
    /\ sizes' = WriteSizes(sizes, held)
    /\ run' = [run EXCEPT !.at = "closing"]
    /\ UNCHANGED <<source, fin, all, sl, todo, own, judged, cancelled, stuck, runs, trouble>>

\* The deferred closes, last first: the page, the slots, the meter, the corpus --
\* and with it what was written to memory -- the channels, the feedback, the sink.
Close ==
    /\ run.at = "closing"
    /\ run' = Idle
    /\ todo' = Empty /\ layer' = {}
    /\ UNCHANGED <<files, sl, record, held, applied, logs, judged, cancelled, stuck, runs, trouble>>

\* The runner is killed: what it held is gone, and what was mounted with it.
Die ==
    /\ run.at \in {"opened", "testing", "closing"} /\ trouble > 0
    /\ trouble' = trouble - 1
    /\ run' = Idle /\ todo' = Empty /\ layer' = {}
    /\ sl' = [s \in Slot |-> NoCase]
    /\ stuck' = stuck \union source
    /\ UNCHANGED <<files, record, held, applied, logs, judged, cancelled, runs>>

Work(s) == Claim(s) \/ Ends(s) \/ Capture(s) \/ spend(s) \/ finish(s) \/ Return(s)
Next == \/ Start \/ Prepare \/ PrepareFails \/ Interrupt \/ WriteBack \/ Close \/ Die
        \/ \E s \in Slot : Work(s)

\* The runner goes on; a case ends by itself or by the monitor (Monitor).
Fairness == WF_vars(Prepare \/ WriteBack \/ Close) /\ \A s \in Slot : WF_vars(Work(s))
Spec == Init /\ [][Next]_vars /\ Fairness

---------------------------------------------------------------------------------
(* Properties. *)

\* What one run measured the next one still has: no run -- interrupted, killed,
\* continued, of a part of the corpus, with the directory in the lane that cannot
\* be measured -- makes the files forget a case or a directory (Continue,
\* ContinueSizes, Record.Write, Sizes.Merge).
PlanKeeps ==
    [][/\ DOMAIN plan \subseteq DOMAIN plan'
       /\ DOMAIN sizes \subseteq DOMAIN sizes'
       /\ \A c \in DOMAIN plan : plan'[c] # plan[c] => c \in fin]_vars

\* Every case the run still owes has a slot that may take it, whatever an old plan
\* says of a corpus that has grown since; and the split is what was asked for: the
\* rate of what went to disk for its rate is within the budget, nothing that would
\* still have fitted was left in memory, and the slots follow the work to within
\* half a slot, one at least to each lane (planLanes, laneOf, Assign).
LanesServed ==
    LET conf  == run.conf
        split == run.lanes
        bySec(d) == conf.slowSecs > 0 /\ worst(plan, d) >= conf.slowSecs
        byMB(d)  == conf.slowMB > 0 /\ heldOf(sizes, d) >= conf.slowMB
        rated == {d \in split.slow : ~bySec(d) /\ ~byMB(d)}
        spent == MapThenSumSet(LAMBDA d : rate(plan, sizes, d), rated)
        work  == total(plan, split.slow \union split.fast)
        exact == Slots * total(plan, split.slow)
    IN  run.at = "testing" =>
          /\ \A c \in DOMAIN todo : \E s \in Slot : laneOf(split, s) \in {"any", caseLane(split, c)}
          /\ on(split) =>
               /\ split.slow \intersect split.fast = {}
               /\ rated # {} => spent <= conf.slowMBps * Unit
               /\ \A d \in split.fast :
                     /\ ~bySec(d) /\ ~byMB(d)
                     /\ heldOf(sizes, d) > 0 /\ conf.slowMBps > 0
                          => rate(plan, sizes, d) + spent > conf.slowMBps * Unit
               /\ split.slowSlots + split.fastSlots = Slots
               /\ split.slowSlots \in 1..(Slots - 1)
               /\ split.slowSlots < Slots - 1 => 2 * work * split.slowSlots + work >= 2 * exact
               /\ split.slowSlots > 1 => 2 * work * split.slowSlots - work <= 2 * exact

\* A verdict is about the source the record says: a case that passed and has a
\* patch in this run ran against it, and a case the run calls unapplied never ran
\* patched -- over retries, refusals and sources an earlier run left patched
\* (runOne, Applied, Unapplied).
PatchTruth ==
    run.at = "testing" => \A c \in DOMAIN judged \intersect run.conf.patches : judged[c].in = runs =>
        /\ judged[c].ok => judged[c].ran = "patched"
        /\ judged[c].ran = "patched" => c \in applied

\* patched.txt lists the cases of this result directory that ran patched, and is
\* empty when none did: `the file's presence is itself the answer to "did this run
\* patch anything"' (patch.Set.Report).
PatchedTold ==
    (run.at = "closing" /\ ~cancelled /\ fin # {} /\ DOMAIN todo = {})
        => told = {c \in DOMAIN judged : judged[c].ran = "patched" /\ judged[c].in = runs}

\* The checkout comes out as it went in: interrupted or not, a run leaves patched
\* only what the worker log says it could not put back (RevertScript, on a context
\* of its own), and behind an overlay nothing.
CorpusClean == run.at \in {"idle", "closing"} => source \subseteq stuck

\* The budget for case logs holds to within what the slots were copying when it
\* went (spend, done).
LogsBounded == LogBudget > 0 => logs.spent < LogBudget + Slots * LogKB

\* A case runs on the install its run put aside: `a reset that quietly does nothing
\* is a case that runs against the previous case's leftovers' (RestoreScript).
FreshStart == \A s \in Slot : sl[s].at = "running" => sl[s].fresh

\* A run that is started ends (Shell.test waits for every slot).
RunEnds == (run.at # "idle") ~> (run.at = "idle")
====
