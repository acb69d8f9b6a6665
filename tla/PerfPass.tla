------------------------------ MODULE PerfPass ------------------------------
(***************************************************************************)
(* One case of the performance runner, measured and judged (internal/perf: *)
(* measure.go, client.go, collect.go, judge.go, and the steps of cluster.go*)
(* and fixture.go a pass is made of): warm-up passes, then repetitions in  *)
(* which the two sides take turns at going first, every pass with the      *)
(* other side paused, and once more when the pairs do not agree.           *)
(*                                                                         *)
(* A value is the logarithm of a time, so a ratio is a difference; both    *)
(* builds do one unit of counted work per operation.  Any call may fail,   *)
(* Faults times in a case.                                                 *)
(***************************************************************************)
EXTENDS Integers, Sequences, FiniteSets, FiniteSetsExt

CONSTANTS
    Kinds,       \* the cases: what a manifest may ask of a pass
    NWarmup, NRepeats, NRemeasure,
    MinPairs,    \* how many agreeing pairs a flag needs
    Times,       \* Times[s]: the logarithms of the times a pass on s may take
    Faults       \* how many calls may fail

VARIABLES
    kind,        \* the case
    at,          \* the pass of Order that is being made
    step,        \* where it is
    side,        \* side[s]: the cluster, and what the runner believes of it
    cur,         \* the pass: what it has said and what was read around it
    passes,      \* caseResult.Passes, the measured ones
    signalled, faults,
    verdict      \* judge's answer, "" before

passVars == <<kind, at, step, side, cur, passes, signalled, faults, verdict>>

Sides == {"target", "reference"}
Other(s) == CHOOSE o \in Sides : o # s

-----------------------------------------------------------------------------
(* The order of the passes.  A name that ends in _F is a seeded fault.     *)

\* Two passes to a repetition; n is the first of its two when it is odd.
Rep(n) == (n + 1) \div 2
Turn(n, first) == IF n % 2 = 1 THEN first ELSE Other(first)

\* runCase: every warm-up repetition begins with the target.
Warmup(n) == [phase |-> "warmup", rep |-> Rep(n), side |-> Turn(n, "target")]

\* measurePasses: the side that goes first alternates, across the
\* re-measurement as well.
Measure(n) ==
    [phase |-> "measure", rep |-> Rep(n),
     side |-> Turn(n, IF Rep(n) % 2 = 0 THEN "reference" ELSE "target")]

Order == [n \in 1..2 * (NWarmup + NRepeats + NRemeasure) |->
            IF n <= 2 * NWarmup THEN Warmup(n) ELSE Measure(n - 2 * NWarmup)]
Pass == Order[at]
Now == Pass.side

\* The last pass of the first round, and of the re-measurement.
RoundEnds == {2 * (NWarmup + NRepeats), 2 * (NWarmup + NRepeats + NRemeasure)}

-----------------------------------------------------------------------------
(* judge.                                                                  *)

\* measured, without what is null.
Valued(s) == {n \in DOMAIN passes : passes[n].side = s /\ passes[n].value # {}}
Nulls(s) == {n \in DOMAIN passes : passes[n].side = s /\ passes[n].value = {}}
The(S) == CHOOSE x \in S : TRUE

\* orient: above 0 is the target being slower.  A rate is the inverse of a time.
Orient(t, r) == IF kind.metric = "ops_per_s" THEN r - t ELSE t - r

\* metricValue
MetricValue(time) == IF kind.metric = "ops_per_s" THEN 0 - time ELSE time

\* pairRatios: of every repetition that both sides measured.
Both == {k \in 1..NRepeats + NRemeasure :
           \A s \in Sides : \E n \in Valued(s) : passes[n].rep = k}
ByRep(s) == [k \in Both |->
               The(passes[CHOOSE n \in Valued(s) : passes[n].rep = k].value)]
PairRatios == [k \in Both |-> Orient(ByRep("target")[k], ByRep("reference")[k])]

\* The h-th of the values of P in their order: the least with h of them up to it.
Nth(P, h) ==
    Min({P[k] : k \in {j \in DOMAIN P :
                         Cardinality({e \in DOMAIN P : P[e] <= P[j]}) >= h}})

\* Twice the median.
Median2(P) ==
    LET n == Cardinality(DOMAIN P) IN
    IF n % 2 = 1 THEN 2 * Nth(P, (n + 1) \div 2)
                 ELSE Nth(P, n \div 2) + Nth(P, n \div 2 + 1)

\* The operations a pass is measured over.
Ops == 2

\* meanPerOp, as a sum and the number of passes that had it.
PerOps(s) == {n \in DOMAIN passes : passes[n].side = s /\ ~ passes[n].null
                                    /\ passes[n].perop # {}}
SumPerOp(s) ==
    Cardinality({e \in PerOps(s) \X (1..Ops) : e[2] <= The(passes[e[1]].perop)})

\* workloadTolerance: a count that moved by more than 1 %, or from or to nothing.
Moved ==
    LET a == SumPerOp("target") * Cardinality(PerOps("reference"))
        b == SumPerOp("reference") * Cardinality(PerOps("target")) IN
    /\ PerOps("target") # {} /\ PerOps("reference") # {}
    /\ \/ (a = 0) # (b = 0)
       \/ 100 * (a - b) > b \/ 100 * (b - a) > b

\* nulls: either side lost more than half of its repetitions.
LostHalf(repeats) ==
    \E s \in Sides : Cardinality(Nulls(s)) > repeats \div 2

Agreed(P) ==
    /\ Cardinality(DOMAIN P) >= MinPairs
    /\ (\A k \in DOMAIN P : P[k] > 0) \/ \A k \in DOMAIN P : P[k] < 0

\* judge: any ratio but 1 is outside the tolerance.
Judge(repeats) ==
    LET P == PairRatios
        beyond == Median2(P) IN
    IF LostHalf(repeats) \/ DOMAIN P = {} THEN "null"
    ELSE IF beyond # 0
    THEN IF ~ Agreed(P) THEN "unconfirmed"
         ELSE IF beyond > 0 THEN "regression" ELSE "improvement"
    ELSE IF kind.statdump /\ Moved THEN "workload_change" ELSE "none"

-----------------------------------------------------------------------------
(* The sides.                                                              *)

\* What createSide and buildFixture leave: the server up, a watcher on it.
\* n1 is the node the runner takes for the master.
FreshSide == [paused |-> FALSE, frozen |-> FALSE, up |-> TRUE, running |-> TRUE,
              watcher |-> TRUE, data |-> "clean", cached |-> TRUE,
              master |-> "n1", n1 |-> "n1", dead |-> FALSE, lost |-> FALSE]

NoPass == [said |-> {}, missing |-> {}, watched |-> FALSE, null |-> FALSE,
           time |-> {}, warm |-> 0, fit |-> TRUE]

\* serverStop takes the watcher with it; serverStart.
Stopped(x) == [x EXCEPT !.up = FALSE, !.running = FALSE, !.watcher = FALSE]
Started(x) == [x EXCEPT !.up = TRUE, !.running = TRUE]

Fault == faults > 0 /\ faults' = faults - 1
NoFault == UNCHANGED faults

\* A step that fails before the client runs makes the pass null.
NullPass == cur' = [cur EXCEPT !.null = TRUE] /\ step' = "unpause"
Say(what) == cur' = [cur EXCEPT !.said = @ \cup {what}]
Go(next) == step' = next

-----------------------------------------------------------------------------
(* passOn.                                                                 *)

\* A cancelled run has the repetitions left on record as null.
SignalPass ==
    /\ step = "begin" /\ signalled /\ Pass.phase = "measure"
    /\ passes' = Append(passes, [side |-> Now, rep |-> Pass.rep, value |-> {},
                                 null |-> TRUE, perop |-> {}, fit |-> TRUE,
                                 blind |-> FALSE])
    /\ step' = "next"
    /\ UNCHANGED <<kind, at, side, cur, signalled, faults, verdict>>

\* The measured side is unpaused first, in case the last unpause failed.
Thaw ==
    /\ step = "begin" /\ ~ (signalled /\ Pass.phase = "measure")
    /\ cur' = NoPass
    /\ side' = [side EXCEPT ![Now].paused = FALSE, ![Now].frozen = FALSE]
    /\ Go("pause") /\ NoFault
    /\ UNCHANGED <<kind, at, passes, signalled, verdict>>

\* It fails, twice: the pass is null(pause) and the other side is not paused.
ThawFails ==
    /\ step = "begin" /\ ~ (signalled /\ Pass.phase = "measure")
    /\ side[Now].paused /\ Fault
    /\ side' = [side EXCEPT ![Now].frozen = TRUE]
    /\ cur' = [NoPass EXCEPT !.null = TRUE]
    /\ Go("record")
    /\ UNCHANGED <<kind, at, passes, signalled, verdict>>

\* A pause that fails is a note.
PauseIdle ==
    /\ step = "pause"
    /\ \/ /\ side' = [side EXCEPT ![Other(Now)].paused = TRUE]
          /\ NoFault /\ UNCHANGED cur
       \/ Fault /\ Say("unpaused") /\ UNCHANGED side
    /\ Go(IF kind.failover THEN "settle" ELSE "reset")
    /\ UNCHANGED <<kind, at, passes, signalled, verdict>>

\* An unpause that fails twice marks the idle side frozen; one that does not
\* leaves its mark as it was.
UnpauseIdle ==
    /\ step = "unpause"
    /\ \/ side' = [side EXCEPT ![Other(Now)].paused = FALSE] /\ NoFault
       \/ /\ side[Other(Now)].paused /\ Fault
          /\ side' = [side EXCEPT ![Other(Now)].frozen = TRUE]
    /\ Go("record")
    /\ UNCHANGED <<kind, at, cur, passes, signalled, verdict>>

-----------------------------------------------------------------------------
(* pass: before the client.                                                *)

\* haSettle (HaSettle has its steps): N1 follows the master, the node that was
\* killed is back; or it fails and N1 is left as it was.
Settled(x) == [x EXCEPT !.n1 = x.master, !.dead = FALSE]

Settle ==
    /\ step = "settle"
    /\ \/ side' = [side EXCEPT ![Now] = Settled(@)] /\ Go("reset") /\ NoFault /\ UNCHANGED cur
       \/ Fault /\ NullPass /\ UNCHANGED side
    /\ UNCHANGED <<kind, at, passes, signalled, verdict>>

\* reset.  A restore goes through a stop and a start; one that failed leaves
\* the database half copied, a start that failed may have started the server.
Reset ==
    /\ step = "reset"
    /\ LET x == side[Now] IN
       \/ /\ kind.reset = "none"
          /\ Go("slave") /\ NoFault /\ UNCHANGED <<side, cur>>
       \/ /\ kind.reset = "reload" /\ x.up /\ x.data # "partial"
          /\ side' = [side EXCEPT ![Now].data = "clean"]
          /\ Go("slave") /\ NoFault /\ UNCHANGED cur
       \/ /\ kind.reset = "reload"
          /\ IF x.up THEN Fault ELSE NoFault
          /\ NullPass /\ UNCHANGED side
       \/ /\ kind.reset = "restore"
          /\ side' = [side EXCEPT ![Now] =
                        [Started(Stopped(x)) EXCEPT !.data = "clean", !.watcher = TRUE]]
          /\ Go("slave") /\ NoFault /\ UNCHANGED cur
       \/ /\ kind.reset = "restore" /\ Fault
          /\ \E y \in {x, Stopped(x), [Stopped(x) EXCEPT !.data = "partial"],
                       [Stopped(x) EXCEPT !.data = "clean"],
                       [Stopped(x) EXCEPT !.data = "clean", !.up = TRUE],
                       [Started(Stopped(x)) EXCEPT !.data = "clean"]} :
                side' = [side EXCEPT ![Now] = y]
          /\ NullPass
    /\ UNCHANGED <<kind, at, passes, signalled, verdict>>

\* waitSlave, of an HA side.
Slave ==
    /\ step = "slave"
    /\ \/ /\ kind.ha => side[Now].n1 = side[Now].master /\ ~ side[Now].dead
          /\ Go(IF kind.cold THEN "cold" ELSE "watch")
          /\ NoFault /\ UNCHANGED cur
       \/ kind.ha /\ side[Now].n1 = side[Now].master /\ ~ side[Now].dead
          /\ Fault /\ NullPass
       \/ kind.ha /\ (side[Now].n1 # side[Now].master \/ side[Now].dead)
          /\ NoFault /\ NullPass
    /\ UNCHANGED <<kind, at, side, passes, signalled, verdict>>

\* pageCacheDrop is refused: the server is started again, and whether that
\* worked is not looked at.
CacheRefused(x) == Started(Stopped(x))

ColdStart_F ==
    /\ step = "cold"
    /\ LET x == side[Now] IN
       side' = [side EXCEPT ![Now] =
                  [Started(Stopped(x)) EXCEPT !.watcher = TRUE]]
    /\ Go("watch") /\ NoFault /\ UNCHANGED cur
    /\ UNCHANGED <<kind, at, passes, signalled, verdict>>

\* coldStart: the server down, the cache dropped, the server up, its watcher on.
ColdStart ==
    /\ step = "cold"
    /\ LET x == side[Now] IN
       \/ /\ side' = [side EXCEPT ![Now] = [Started(Stopped(x)) EXCEPT
                         !.watcher = TRUE, !.cached = FALSE]]
          /\ Go("watch") /\ NoFault /\ UNCHANGED cur
       \/ /\ Fault
          /\ \E y \in {x, CacheRefused(x), Stopped(x),
                       [Stopped(x) EXCEPT !.cached = FALSE],
                       [Stopped(x) EXCEPT !.cached = FALSE, !.up = TRUE],
                       [Started(Stopped(x)) EXCEPT !.cached = FALSE]} :
                side' = [side EXCEPT ![Now] = y]
          /\ NullPass
    /\ UNCHANGED <<kind, at, passes, signalled, verdict>>

\* watcherEnsure, waitVacuum, and with background: defer the checkpoint: of a
\* warm-up pass only what defer asks for.  None of them fails the pass.
Watch ==
    /\ step = "watch"
    /\ \/ /\ Pass.phase = "measure" \/ kind.defer
          /\ \/ side[Now].up /\ side' = [side EXCEPT ![Now].watcher = TRUE]
                /\ NoFault /\ UNCHANGED cur
             \/ /\ IF side[Now].up THEN Fault ELSE NoFault
                /\ Say("watcher") /\ UNCHANGED side
       \/ /\ Pass.phase # "measure" /\ ~ kind.defer
          /\ NoFault /\ UNCHANGED <<side, cur>>
    /\ Go("pre")
    /\ UNCHANGED <<kind, at, passes, signalled, verdict>>

\* prepareUtility, then the snapshots of a measured pass.
Pre ==
    /\ step = "pre"
    /\ \/ /\ \E miss \in SUBSET ((IF kind.failover THEN {} ELSE {"l0"})
                                   \cup (IF kind.statdump THEN {"statdump"} ELSE {})) :
                /\ miss # {} => faults > 0 /\ Pass.phase = "measure"
                /\ faults' = IF miss = {} THEN faults ELSE faults - 1
                /\ cur' = [cur EXCEPT !.missing = miss \cup
                              IF kind.failover THEN {"l0"} ELSE {},
                              !.watched = side[Now].watcher]
          /\ Go("client")
       \/ Fault /\ NullPass
    /\ UNCHANGED <<kind, at, side, passes, signalled, verdict>>

-----------------------------------------------------------------------------
(* The client, and after it.                                               *)

\* What a measurement claims of the hosts it ran on.
FitHosts ==
    LET x == side[Now] IN
    /\ ~ x.paused /\ x.up
    /\ kind.reset # "none" => x.data = "clean"
    /\ kind.cold => ~ x.cached
    /\ kind.ha => x.n1 = x.master /\ ~ x.dead
    /\ side[Other(Now)].paused \/ "unpaused" \in cur.said

\* runClient: it writes to the database, warms the cache and, in a failover
\* case, kills the master.
AfterClient(x) ==
    [x EXCEPT !.data = IF @ = "clean" THEN "dirty" ELSE @, !.cached = TRUE,
              !.master = IF kind.failover THEN IF @ = "n1" THEN "n2" ELSE "n1" ELSE @,
              !.dead = @ \/ kind.failover]

\* hostDelta.contaminated: pages were swapped in during the pass, and guard
\* stage 3 could read it.
Contaminated(host) == host = "swapped"

\* The client reported a time and the operations of its warm-up; or the budget
\* ran out, or it failed; or the call did not return.
Client ==
    /\ step = "client"
    /\ LET x == side[Now] IN
       \/ /\ x.up /\ (kind.ha => x.n1 = x.master)
          /\ \E t \in IF Pass.phase = "measure" THEN Times[Now] ELSE {0},
                w \in IF kind.statdump /\ Pass.phase = "measure" THEN {0, 2} ELSE {0},
                host \in IF faults > 0 THEN {"quiet", "swapped", "unreadable"}
                                       ELSE {"quiet"} :
                /\ cur' = [cur EXCEPT !.time = {t}, !.warm = w, !.fit = FitHosts,
                                      !.null = Contaminated(host)]
                /\ faults' = IF host = "quiet" THEN faults ELSE faults - 1
          /\ Go("after")
       \/ /\ IF x.up THEN Fault ELSE NoFault
          /\ cur' = [cur EXCEPT !.null = TRUE, !.fit = FitHosts]
          /\ Go("after")
       \/ Fault /\ NullPass
    /\ side' = [side EXCEPT ![Now] = AfterClient(@)]
    /\ UNCHANGED <<kind, at, passes, signalled, verdict>>

\* The snapshots after, and haAfterPass: N1 still the master, or, after a
\* failover, settled again.
After ==
    /\ step = "after"
    /\ \/ /\ \/ ~ kind.ha /\ UNCHANGED side
             \/ kind.failover /\ side' = [side EXCEPT ![Now] = Settled(@)]
             \/ kind.ha /\ ~ kind.failover /\ side[Now].n1 = side[Now].master
                /\ UNCHANGED side
          /\ \/ UNCHANGED cur /\ NoFault
             \/ /\ Pass.phase = "measure" /\ Fault
                /\ \E m \in {"l0", "statdump"} :
                       cur' = [cur EXCEPT !.missing = @ \cup {m}]
       \/ /\ kind.ha
          /\ IF ~ kind.failover /\ side[Now].n1 # side[Now].master
             THEN NoFault ELSE Fault
          /\ cur' = [cur EXCEPT !.null = TRUE]
          /\ UNCHANGED side
    /\ Go("unpause")
    /\ UNCHANGED <<kind, at, passes, signalled, verdict>>

PerOp_F(raw, warm) == raw \div Ops

\* perOp: what was read in the database node covers the warm-up too.
PerOp(raw, warm) == raw \div (Ops + warm)

\* What the server counted: nothing while no watcher is registered.
Raw == IF cur.watched THEN Ops + cur.warm ELSE 0

\* The pass joins the case's.
RecordPass ==
    /\ step = "record"
    /\ passes' =
         IF Pass.phase # "measure" THEN passes
         ELSE Append(passes,
                [side |-> Now, rep |-> Pass.rep, null |-> cur.null,
                 fit |-> cur.fit /\ (kind.ha => side[Now].n1 = side[Now].master),
                 blind |-> "watcher" \in cur.said,
                 value |-> IF cur.null THEN {}
                           ELSE {MetricValue(t) : t \in cur.time},
                 perop |-> IF \/ "statdump" \in cur.missing \/ ~ kind.statdump
                              \/ cur.time = {}
                           THEN {} ELSE {PerOp(Raw, cur.warm)}])
    /\ Go("next") /\ cur' = NoPass
    /\ UNCHANGED <<kind, at, side, signalled, faults, verdict>>

-----------------------------------------------------------------------------
(* The case.                                                               *)

NextPass ==
    /\ step = "next" /\ at \notin RoundEnds
    /\ at' = at + 1 /\ Go("begin")
    /\ UNCHANGED <<kind, side, cur, passes, signalled, faults, verdict>>

Repeats == IF at = 2 * (NWarmup + NRepeats) THEN NRepeats ELSE NRepeats + NRemeasure

Thawed == \A s \in Sides : ~ side[s].frozen

\* runGroup: judged, and measured again when the pairs do not agree and the
\* clock has the time, which answers either way.
Judges ==
    /\ step = "next" /\ at \in RoundEnds
    /\ LET v == Judge(Repeats) IN
       \/ /\ v = "unconfirmed" /\ Repeats = NRepeats
          /\ ~ signalled /\ Thawed
          /\ at' = at + 1 /\ Go("begin") /\ UNCHANGED verdict
       \/ /\ verdict' = v
          /\ Go(IF kind.failover THEN "restore" ELSE "done") /\ UNCHANGED at
    /\ UNCHANGED <<kind, side, cur, passes, signalled, faults>>

\* restoreN1: settled, n1 the master again, replicating; or the side is lost.
Restore ==
    /\ step = "restore"
    /\ \/ /\ side' = [s \in Sides |-> [side[s] EXCEPT !.master = "n1", !.n1 = "n1",
                                                       !.dead = FALSE]]
          /\ NoFault
       \/ /\ Fault
          /\ \E s \in Sides :
                side' = [side EXCEPT ![s].lost = TRUE,
                           ![Other(s)].master = "n1", ![Other(s)].n1 = "n1",
                           ![Other(s)].dead = FALSE]
    /\ Go("done")
    /\ UNCHANGED <<kind, at, cur, passes, signalled, verdict>>

Signal ==
    /\ step \in {"begin", "client"} /\ ~ signalled /\ faults > 0
    /\ signalled' = TRUE /\ faults' = faults - 1
    /\ UNCHANGED <<kind, at, step, side, cur, passes, verdict>>

\* The watcher goes between two passes; an HA pair fails over unasked.
Drift ==
    /\ step \in {"begin", "after"} /\ faults > 0 /\ faults' = faults - 1
    /\ \E s \in Sides :
          \/ /\ step = "begin" /\ side[s].watcher
             /\ side' = [side EXCEPT ![s].watcher = FALSE]
          \/ /\ kind.ha /\ ~ kind.failover /\ side[s].master = "n1"
             /\ side' = [side EXCEPT ![s].master = "n2"]
    /\ UNCHANGED <<kind, at, step, cur, passes, signalled, verdict>>

-----------------------------------------------------------------------------
PassInit(k) ==
    /\ kind = k /\ at = 1 /\ step = "begin"
    /\ side = [s \in Sides |-> FreshSide]
    /\ cur = NoPass /\ passes = <<>>
    /\ signalled = FALSE /\ faults = Faults /\ verdict = ""

Run ==
    \/ SignalPass \/ Thaw \/ ThawFails \/ PauseIdle \/ UnpauseIdle
    \/ Settle \/ Reset \/ Slave \/ ColdStart \/ Watch \/ Pre
    \/ Client \/ After \/ RecordPass \/ NextPass \/ Judges \/ Restore

PassNext == Run \/ Signal \/ Drift

\* One goroutine, every call of which has a bound.
PassSpec == (\E k \in Kinds : PassInit(k)) /\ [][PassNext]_passVars /\ WF_passVars(Run)

-----------------------------------------------------------------------------
(* Properties.                                                             *)

\* pass: a value was taken on the hosts it claims -- the measured cluster
\* thawed and its server up, the fixture as the reset leaves it, nothing in the
\* page cache when the case is cold, the master the node the client was
\* pointed at and still so afterwards, and the other cluster paused unless the
\* pass says it was not.
ValuesSound == \A n \in DOMAIN passes : passes[n].value # {} => passes[n].fit

\* passOn: between two passes a cluster that is paused is marked frozen, which
\* is what ends the pair.
PauseKnown ==
    step \in {"begin", "next", "restore", "done"} =>
      \A s \in Sides : side[s].paused => side[s].frozen

\* judge: a regression or an improvement stands on MinPairs repetitions or
\* more, in each of which both sides have a value and the target was slower, or
\* faster; and a change of the workload, when the builds do the same work per
\* operation, is read only from passes that say they had no watcher, however
\* the warm-ups differed.
FlagEarned ==
    LET both == {k \in 1..NRepeats + NRemeasure :
                    \A s \in Sides : \E n \in Valued(s) : passes[n].rep = k}
        Time(s, k) == MetricValue(The(passes[CHOOSE n \in Valued(s) :
                                               passes[n].rep = k].value)) IN
    /\ verdict = "regression" =>
         Cardinality(both) >= MinPairs
         /\ \A k \in both : Time("target", k) > Time("reference", k)
    /\ verdict = "improvement" =>
         Cardinality(both) >= MinPairs
         /\ \A k \in both : Time("target", k) < Time("reference", k)
    /\ verdict = "workload_change" => \E n \in DOMAIN passes : passes[n].blind

\* measurePasses: a case that was judged has each side's pass of every
\* repetition of its round on record once, whatever failed or ended it.
RepsOnRecord ==
    verdict # "" =>
      \A s \in Sides, k \in 1..Repeats :
        Cardinality({n \in DOMAIN passes :
                        passes[n].side = s /\ passes[n].rep = k}) = 1

\* Every case is judged.
CaseEnds == <>(step = "done")
=============================================================================
