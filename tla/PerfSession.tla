---------------------------- MODULE PerfSession ----------------------------
(***************************************************************************)
(* A weekly performance session (internal/perf: session.go, run.go,        *)
(* cluster.go, schedule.go): for every pair of builds a canary A/A on two  *)
(* clusters of the reference build, then the pair's cases A/B, by conf     *)
(* group, on clusters of the two builds, and against a second reference    *)
(* when the pair has an overlap.                                           *)
(*                                                                         *)
(* slot is what the session believes of its sides, cluster what stands on  *)
(* the host under their names: a cluster call may fail before or after it  *)
(* took effect.  A case, with its passes and the re-measurement, is the    *)
(* step from BeginCase to EndCase; the clock answers every gate either     *)
(* way.  Reports, counters and the time a thing takes are left out.        *)
(***************************************************************************)
EXTENDS Integers, Sequences, FiniteSets, SequencesExt

CONSTANTS
    None,        \* no side, no cluster
    NPairs,      \* the pairs of the session
    Canaries,    \* the canary cases, in order
    Selected,    \* Selected[p]: the cases of pair p, in its shuffled order
    Key,         \* Key[c]: the conf key of case c
    FixtureOf,   \* FixtureOf[c]: the fixture it runs on
    HAKeys,      \* the keys of HA groups
    Failovers,   \* the cases that fail their pair over
    BigKeys,     \* the keys that do not fit memory_cap
    Overlaps,    \* the pairs with a second reference
    Unreadable,  \* the sides whose cgroup may not be found
    Keeps,       \* the values of --keep
    Leftovers    \* what an earlier run of this session may have left standing

Pair == 1..NPairs
Names == {"t", "r", "o"}
Cases == DOMAIN Key

ASSUME PerfAssumption ==
    /\ NPairs \in Nat \ {0}
    /\ Canaries \in Seq(Cases) /\ Selected \in [Pair -> Seq(Cases)]
    /\ DOMAIN FixtureOf = Cases
    /\ Failovers \subseteq Cases /\ Overlaps \subseteq Pair
    /\ Unreadable \subseteq Names
    /\ Keeps \subseteq BOOLEAN
    /\ Leftovers \subseteq SUBSET Names
    \* canaryPairs, confKey: a canary never fails over, an HA key has one fixture.
    /\ ToSet(Canaries) \cap Failovers = {}
    /\ \A c \in Failovers : Key[c] \in HAKeys
    /\ \A c, d \in Cases :
           Key[c] = Key[d] /\ Key[c] \in HAKeys => FixtureOf[c] = FixtureOf[d]

VARIABLES
    keep,       \* --keep
    signalled,  \* the run's context is cancelled
    lease,      \* the lease file names this run
    pc, p,      \* where the session is, and the pair
    reason,     \* why it stops
    tried,      \* the pairs that were started
    skipped,    \* skipped[p]: why pair p is not measured, "" when it is
    valid,      \* valid[p]: its canaries passed
    written,    \* written[p]: its sidecar is on disk
    phase,      \* of the pair: "canary", "ab" or "overlap"
    g, i,       \* the conf group, and the case in it
    todo,       \* the sides the group has still to stand up
    stop,       \* why the pair stops
    broken,     \* it has lost a cluster
    gbroken,    \* this group has
    canaries,   \* the canaries' outcomes
    entries,    \* the pair's cases on record
    oentries,   \* the same against the overlap
    slot,       \* slot[s]: the side the pair has under that suffix
    cluster,    \* cluster[s]: what stands there
    guard,      \* the clusters whose containers guard stage 3 counts
    noted,      \* the clusters the notes say could not be torn down
    doc, code   \* session.json on disk, and the exit code

planVars == <<keep>>
outVars == <<signalled, lease>>
pairVars == <<tried, skipped, valid, written>>
walkVars == <<phase, g, i, todo>>
stopVars == <<stop, broken, gbroken>>
recordVars == <<canaries, entries, oentries>>
hostVars == <<cluster, guard, noted>>
endVars == <<reason, doc, code>>
vars == <<planVars, outVars, pc, p, pairVars, walkVars, stopVars, recordVars,
          slot, hostVars, endVars>>

-----------------------------------------------------------------------------
(* The order things run in.  A name that ends in _F is a seeded fault.     *)

\* The members of a set of positions, in their order.
InOrder(S) ==
    [k \in 1..Cardinality(S) |->
        CHOOSE n \in S : Cardinality({m \in S : m <= n}) = k]

\* Where the cases stand that have the conf key of the n-th, and where a key
\* comes up first.
Alike(cs, n) == {m \in DOMAIN cs : Key[cs[m]] = Key[cs[n]]}
Firsts(cs) == {n \in DOMAIN cs : \A m \in Alike(cs, n) : n <= m}

\* confGroups: the cases by key, in the order they came in.
ConfGroup(cs, n) == [k \in DOMAIN InOrder(Alike(cs, n)) |-> cs[InOrder(Alike(cs, n))[k]]]
ConfGroups(cs) ==
    [h \in DOMAIN InOrder(Firsts(cs)) |-> ConfGroup(cs, InOrder(Firsts(cs))[h])]

CanaryGroups == ConfGroups(Canaries)
PairGroups == [q \in Pair |-> ConfGroups(Selected[q])]

Groups == IF phase = "canary" THEN CanaryGroups ELSE PairGroups[p]
Group == Groups[g]
GroupKey == Key[Group[1]]
Case == Group[i]
Fixture == FixtureOf[Case]
HA == GroupKey \in HAKeys

\* The two sides a case runs on, and those that are idle meanwhile.
Ref == IF phase = "overlap" THEN "o" ELSE "r"
Measured == {"t", Ref}
Idle == {s \in Names \ Measured : slot[s] # None}

\* The build a side is stood up on: for the canaries both are the reference.
Build(s) ==
    IF phase = "canary" THEN "reference"
    ELSE CASE s = "t" -> "target" [] s = "r" -> "reference" [] s = "o" -> "overlap"

\* sides.frozen and lostReason.
Frozen == \E s \in Names : slot[s] # None /\ slot[s].frozen
Lost(S) == {s \in S : slot[s] # None /\ slot[s].lost}

\* leaseHeld.  A local session, which follows no lease, is one that never loses
\* it.
LeaseHeld == lease

\* ctxStop
CtxStop == IF signalled THEN "signal" ELSE ""

SkippedAll(cs) == [n \in DOMAIN cs |-> [id |-> cs[n], ran |-> FALSE]]

-----------------------------------------------------------------------------
(* The sides.                                                              *)

Up == {s \in Names : slot[s] # None}

Uncounted_F(D) == guard

\* destroySide: the guard forgets the containers that the sides D had it count.
Uncounted(D) == guard \ {s \in D : slot[s].counted}

\* destroySide, for the sides D: those of F could not be purged, which the
\* notes then say.
Destroy(D, F) ==
    /\ F \subseteq D
    /\ cluster' = [s \in Names |-> IF s \in D \ F THEN None ELSE cluster[s]]
    /\ guard' = Uncounted(D)
    /\ noted' = (noted \ D) \cup F

Side(k, run, counted) ==
    [key |-> k, running |-> run, counted |-> counted, frozen |-> FALSE,
     lost |-> FALSE]

\* What createSide stands up, once it has purged what it found under the name,
\* which create would resume: on an HA side the fixture's server is up
\* and stays up, on another every server is down once its fixtures are built.
Fresh(s) == [key |-> GroupKey, build |-> Build(s), mine |-> TRUE, used |-> FALSE,
             home |-> TRUE, up |-> IF HA THEN {FixtureOf[Group[1]]} ELSE {}]

\* A cluster another session left under the name.
Stale == [key |-> "", build |-> "", mine |-> FALSE, used |-> TRUE,
          home |-> TRUE, up |-> {}]

\* ensure: the slot holds a side of this conf key.
Kept(s) == slot[s] # None /\ slot[s].key = GroupKey

-----------------------------------------------------------------------------
(* Around the session.                                                     *)

(* The three happen at any time; the model has them where the session looks *)
(* next.                                                                   *)

\* SIGINT, SIGTERM or SIGHUP.
Signal ==
    /\ pc \in {"ensure", "cases", "measuring", "pairs"}
    /\ ~ signalled
    /\ signalled' = TRUE
    /\ UNCHANGED <<planVars, lease, pc, p, pairVars, walkVars, stopVars,
                   recordVars, slot, hostVars, endVars>>

\* Another run takes the lease.
LoseLease ==
    /\ pc = "cases" /\ lease
    /\ lease' = FALSE
    /\ UNCHANGED <<planVars, signalled, pc, p, pairVars, walkVars, stopVars,
                   recordVars, slot, hostVars, endVars>>

\* An HA pair fails over unasked.  Inside a pass it is the pass that is null.
FailOver(s) ==
    /\ pc = "cases"
    /\ cluster[s] # None /\ cluster[s].key \in HAKeys /\ cluster[s].home
    /\ cluster' = [cluster EXCEPT ![s].home = FALSE]
    /\ UNCHANGED <<planVars, outVars, pc, p, pairVars, walkVars, stopVars,
                   recordVars, slot, guard, noted, endVars>>

-----------------------------------------------------------------------------
(* Session.run.                                                            *)

\* setState: every pair that is not skipped is valid, and there is one.
DocValid ==
    /\ \E q \in Pair : skipped'[q] = ""
    /\ \A q \in Pair : skipped'[q] = "" => valid'[q]

WriteDoc(state) == doc' = [state |-> state, valid |-> DocValid]

\* No pair can run, the host is not fit, or the session starts.
Host ==
    /\ pc = "host"
    /\ \/ /\ \A q \in Pair : skipped[q] # ""
          /\ pc' = "done" /\ code' = 0
          /\ UNCHANGED <<skipped, valid>>
          /\ WriteDoc("complete")
       \/ /\ \E q \in Pair : skipped[q] = ""
          /\ pc' = "done" /\ code' = 3
          /\ UNCHANGED <<skipped, valid>>
          /\ WriteDoc("incomplete")
       \/ /\ \E q \in Pair : skipped[q] = ""
          /\ pc' = "pairs"
          /\ UNCHANGED <<skipped, valid>>
          /\ WriteDoc("incomplete")
          /\ UNCHANGED code
    /\ UNCHANGED <<keep, outVars, p, tried, written, walkVars, stopVars, recordVars,
                   slot, hostVars, reason>>

\* A pair skipped at the plan, by what stopped the session, or because the
\* clock does not fit its estimate.
PassPair ==
    /\ pc = "pairs" /\ p \in Pair
    /\ \/ skipped[p] # "" /\ UNCHANGED skipped
       \/ /\ skipped[p] = ""
          /\ \E why \in IF reason = "done" THEN {"budget"} ELSE {reason} :
                 skipped' = [skipped EXCEPT ![p] = why]
    /\ p' = p + 1
    /\ UNCHANGED <<planVars, outVars, pc, tried, valid, written, walkVars,
                   stopVars, recordVars, slot, hostVars, endVars>>

Cleared ==
    /\ phase' = "canary" /\ g' = 1 /\ i' = 1 /\ todo' = <<>>
    /\ stop' = "" /\ broken' = FALSE /\ gbroken' = FALSE
    /\ canaries' = <<>> /\ entries' = <<>> /\ oentries' = <<>>

\* runPair starts: no side is up, the canaries come first.
StartPair ==
    /\ pc = "pairs" /\ p \in Pair
    /\ skipped[p] = "" /\ reason = "done"
    /\ pc' = IF Canaries = <<>> THEN "gate" ELSE "ensure"
    /\ todo' = <<"r", "t">>
    /\ tried' = tried \cup {p}
    /\ UNCHANGED <<planVars, outVars, p, skipped, valid, written, phase, g, i,
                   stopVars, recordVars, slot, hostVars, endVars>>

-----------------------------------------------------------------------------
(* Standing a group's sides up.                                            *)

\* The next of the group's sides is up, or there is none left to stand up.
NextSide ==
    /\ todo' = Tail(todo)
    /\ IF Len(todo) = 1 THEN pc' = "cases" /\ i' = 1 /\ gbroken' = FALSE
                        ELSE UNCHANGED <<pc, i, gbroken>>

\* ensure: what is there is kept when it is of this conf key -- no two groups
\* of a pair share one, so it never is --, else replaced, and has the fixtures
\* built.  A cluster whose cgroup is not found goes uncounted.
StandUp ==
    /\ pc = "ensure"
    /\ ~ signalled
    /\ LET s == todo[1] IN
       IF Kept(s) THEN UNCHANGED <<slot, hostVars>>
       ELSE /\ guard' \in {guard \cup {s}}
                           \cup IF s \in Unreadable THEN {guard \ {s}} ELSE {}
            /\ slot' = [slot EXCEPT ![s] = Side(GroupKey, Fresh(s).up, s \in guard')]
            /\ cluster' = [cluster EXCEPT ![s] = Fresh(s)]
            /\ noted' = noted \ {s}
    /\ NextSide
    /\ UNCHANGED <<planVars, outVars, p, pairVars, phase, g, stop, broken,
                   recordVars, endVars>>

OverlapSkipped_F == oentries

\* The group's cases, skipped on the overlap's record.
OverlapSkipped == oentries \o SkippedAll(Group)

\* skipGroup: the cases of the group and of its overlap.
SkipGroup ==
    /\ entries' = entries \o SkippedAll(Group)
    /\ oentries' = IF p \in Overlaps THEN OverlapSkipped ELSE oentries
    /\ g' = g + 1
    /\ pc' = "group"
    /\ UNCHANGED canaries

\* A group that could not be stood up.  For the canaries the pair is over; for
\* the cases this group is, and those after it unless it was only its copy
\* mode that was not as asked.
NotUp(copyMode) ==
    IF phase = "canary"
    THEN /\ stop' = CtxStop
         /\ skipped' = IF signalled THEN skipped
                                    ELSE [skipped EXCEPT ![p] = "cluster"]
         /\ pc' = "gate"
         /\ UNCHANGED <<broken, g, recordVars>>
    ELSE /\ stop' = CtxStop
         /\ broken' = (~ signalled /\ ~ copyMode)
         /\ SkipGroup
         /\ UNCHANGED skipped

\* The side of the group before does not go: it stays in its slot.
StuckSide ==
    /\ pc = "ensure"
    /\ LET s == todo[1] IN
       /\ ~ Kept(s) /\ slot[s] # None
       /\ Destroy({s}, {s})
    /\ NotUp(FALSE)
    /\ UNCHANGED <<planVars, outVars, p, tried, valid, written, phase, i, todo,
                   gbroken, slot, endVars>>

\* createSide or buildFixtures fails: what it purges first is there still, or
\* gone, or a cluster stands that is not finished.  The side is the slot's
\* from here, for the teardown.
FailSide ==
    /\ pc = "ensure"
    /\ LET s == todo[1] IN
       /\ ~ Kept(s)
       /\ \E left \in {None, Fresh(s)}
                       \cup IF slot[s] = None THEN {cluster[s]} ELSE {} :
              cluster' = [cluster EXCEPT ![s] = left]
       /\ guard' \in {guard \ {s}} \cup
                     IF cluster'[s] = Fresh(s) THEN {guard \cup {s}} ELSE {}
       /\ slot' = [slot EXCEPT ![s] = Side(GroupKey, Fresh(s).up, s \in guard')]
       /\ noted' = noted \ {s}
    /\ \E copyMode \in {FALSE, /\ HA /\ todo[1] \notin guard'
                                /\ cluster'[todo[1]] = Fresh(todo[1])} :
           NotUp(copyMode)
    /\ UNCHANGED <<planVars, outVars, p, tried, valid, written, phase, i, todo,
                   gbroken, endVars>>

-----------------------------------------------------------------------------
(* runGroup.                                                               *)

Record_F(ran, ok) ==
    LET entry == [id |-> Case, ran |-> ran] IN
    /\ canaries' = IF phase = "canary" /\ ran THEN Append(canaries, ok) ELSE canaries
    /\ entries' = IF phase = "ab" /\ ran THEN Append(entries, entry) ELSE entries
    /\ oentries' = IF phase = "overlap" /\ ran THEN Append(oentries, entry)
                                              ELSE oentries
    /\ i' = IF ran THEN i + 1 ELSE i

\* What becomes of the case, on the record of this phase.
Record(ran, ok) ==
    LET entry == [id |-> Case, ran |-> ran] IN
    /\ canaries' = IF phase = "canary" THEN Append(canaries, ok) ELSE canaries
    /\ entries' = IF phase = "ab" THEN Append(entries, entry) ELSE entries
    /\ oentries' = IF phase = "overlap" THEN Append(oentries, entry) ELSE oentries
    /\ i' = i + 1

Open == stop = "" /\ ~ gbroken

\* The case is not run: the group has stopped, or the session stops here, or
\* a side's HA roles were not restored.
SkipCase ==
    /\ pc = "cases" /\ i <= Len(Group)
    /\ \/ ~ Open /\ UNCHANGED <<stop, gbroken>>
       \/ /\ Open
          /\ stop' = IF signalled THEN "signal"
                     ELSE IF ~ LeaseHeld THEN "lease" ELSE "budget"
          /\ UNCHANGED gbroken
       \/ /\ Open /\ ~ signalled /\ LeaseHeld
          /\ Lost(Measured) # {}
          /\ gbroken' = TRUE
          /\ UNCHANGED stop
    /\ Record(FALSE, FALSE)
    /\ UNCHANGED <<planVars, outVars, pc, p, pairVars, phase, g, todo, broken,
                   slot, hostVars, endVars>>

Runs == Open /\ ~ signalled /\ LeaseHeld /\ Lost(Measured) = {}

\* startFixtureServer and stopOthers: the servers the side thinks are up, and
\* those that are.  An HA side has its one server.
Switched(s) ==
    IF HA THEN <<slot[s].running, cluster[s].up>>
    ELSE LET others == slot[s].running \ {Fixture}
             start == IF Fixture \in slot[s].running THEN {} ELSE {Fixture} IN
         <<{Fixture}, (cluster[s].up \cup start) \ others>>

\* A switch that failed: the server did not start, or its start was given up
\* and it is up all the same; or it started, and its watcher failed, or the
\* stop of another did, with the other down or not.
HalfSwitched(s) ==
    LET run == slot[s].running  up == cluster[s].up IN
    IF HA THEN {<<run, up>>}
    ELSE {<<run, up>>, <<run, up \cup {Fixture}>>,
          <<run \cup {Fixture}, up \cup {Fixture}>>,
          <<run \cup {Fixture}, Switched(s)[2]>>}

\* The sides of f switched as it says.
SwitchTo(f) ==
    /\ slot' = [s \in Names |->
          IF s \in DOMAIN f THEN [slot[s] EXCEPT !.running = f[s][1]] ELSE slot[s]]
    /\ cluster' = [s \in Names |->
          IF s \in DOMAIN f THEN [cluster[s] EXCEPT !.up = f[s][2]] ELSE cluster[s]]

\* The servers are switched, and on an HA side haCheck finds n1 the master.
BeginCase ==
    /\ pc = "cases" /\ i <= Len(Group)
    /\ Runs
    /\ HA => \A s \in Measured : cluster[s].home
    /\ SwitchTo([s \in Measured |-> Switched(s)])
    /\ pc' = "measuring"
    /\ UNCHANGED <<planVars, outVars, p, pairVars, walkVars, stopVars,
                   recordVars, guard, noted, endVars>>

\* A switch fails: that case is skipped, the next is tried.
SwitchFails ==
    /\ pc = "cases" /\ i <= Len(Group)
    /\ Runs
    /\ \/ \E h \in HalfSwitched("t") : SwitchTo([s \in {"t"} |-> h])
       \/ \E h \in HalfSwitched(Ref) :
              SwitchTo([s \in Measured |-> IF s = Ref THEN h ELSE Switched(s)])
    /\ stop' = CtxStop
    /\ Record(FALSE, FALSE)
    /\ UNCHANGED <<planVars, outVars, pc, p, pairVars, phase, g, todo, broken,
                   gbroken, guard, noted, endVars>>

AtMostOne(S) == {{}} \cup {{s} : s \in S}

\* The passes, the re-measurement, the verdict, and n1 put back after a case
\* that failed its pair over.  A side that cannot be unpaused stops the group;
\* one whose roles cannot be restored is lost; a stop or a start between two
\* passes may have failed, done or not.  A second frozen side, or a second server down,
\* makes no difference to what follows.
EndCase ==
    /\ pc = "measuring"
    /\ \E frozen \in AtMostOne(Measured \cup Idle),
          lost \in SUBSET (IF Case \in Failovers THEN Measured ELSE {}),
          down \in AtMostOne(IF HA THEN {} ELSE Measured),
          h \in {<<{}, {}>>, <<{}, {Fixture}>>, <<{Fixture}, {}>>} :
          /\ slot' = [s \in Names |->
                IF s \in Measured
                THEN [slot[s] EXCEPT !.frozen = s \in frozen, !.lost = s \in lost,
                         !.running = IF s \in down THEN h[1] ELSE @]
                ELSE IF s \in frozen THEN [slot[s] EXCEPT !.frozen = TRUE]
                ELSE slot[s]]
          /\ cluster' = [s \in Names |->
                IF s \in Measured
                THEN [cluster[s] EXCEPT !.used = @ \/ phase = "canary",
                         !.home = s \notin lost,
                         !.up = IF s \in down THEN (@ \ {Fixture}) \cup h[2] ELSE @]
                ELSE cluster[s]]
          /\ gbroken' = (frozen # {})
    /\ \E ok \in BOOLEAN : (phase # "canary" => ok) /\ Record(TRUE, ok)
    /\ pc' = "cases"
    /\ UNCHANGED <<planVars, outVars, p, pairVars, phase, g, todo, stop, broken,
                   guard, noted, endVars>>

-----------------------------------------------------------------------------
(* runPair.                                                                *)

\* The canaries' group has run.
EndCanaries ==
    /\ pc = "cases" /\ phase = "canary" /\ i > Len(Group)
    /\ skipped' = IF stop = "" /\ Frozen THEN [skipped EXCEPT ![p] = "cluster"]
                                         ELSE skipped
    /\ IF stop = "" /\ ~ Frozen /\ g < Len(Groups)
       THEN pc' = "ensure" /\ g' = g + 1 /\ todo' = <<"r", "t">>
       ELSE pc' = "gate" /\ UNCHANGED <<g, todo>>
    /\ UNCHANGED <<planVars, outVars, p, tried, valid, written, phase, i,
                   stopVars, recordVars, slot, hostVars, endVars>>

\* Every canary was run, and within the tolerance.
Judged == Len(canaries) = Len(Canaries) /\ \A n \in DOMAIN canaries : canaries[n]

GateDown_F == {}

\* The canaries' clusters, which go before the cases; --keep leaves them to
\* the end when no case follows.
GateDown == IF keep /\ ~ valid'[p] THEN {} ELSE Up

\* The canaries have the pair's validity.  It goes on to its cases, or they
\* are on record as skipped.
Gate ==
    /\ pc = "gate"
    /\ LET ended == stop # "" \/ skipped[p] # "" IN
       /\ valid' = [valid EXCEPT ![p] = ~ ended /\ Judged]
       /\ \E F \in SUBSET GateDown : Destroy(GateDown, F)
       /\ slot' = [s \in Names |-> IF s \in GateDown THEN None ELSE slot[s]]
       /\ skipped' = IF stop # "" THEN [skipped EXCEPT ![p] = stop] ELSE skipped
       /\ written' = [written EXCEPT ![p] = ~ ended /\ ~ valid'[p]]
       /\ IF valid'[p]
          THEN pc' = "group" /\ phase' = "ab" /\ g' = 1 /\ UNCHANGED entries
          ELSE pc' = "endpair" /\ entries' = SkippedAll(Selected[p])
                              /\ UNCHANGED <<phase, g>>
    /\ UNCHANGED <<planVars, outVars, p, tried, i, todo, stopVars, canaries,
                   oentries, endVars>>

\* A group that is not stood up: the pair has stopped, or it would not fit the
\* memory, or the time left.
PassGroup ==
    /\ pc = "group" /\ g <= Len(Groups)
    /\ \/ (stop # "" \/ broken \/ GroupKey \in BigKeys) /\ UNCHANGED stop
       \/ stop = "" /\ ~ broken /\ GroupKey \notin BigKeys /\ stop' = "budget"
    /\ SkipGroup
    /\ UNCHANGED <<planVars, outVars, p, pairVars, phase, i, todo, broken,
                   gbroken, slot, hostVars, endVars>>

StartGroup ==
    /\ pc = "group" /\ g <= Len(Groups)
    /\ stop = "" /\ ~ broken /\ GroupKey \notin BigKeys
    /\ pc' = "ensure"
    /\ todo' = IF p \in Overlaps THEN <<"t", "r", "o">> ELSE <<"t", "r">>
    /\ UNCHANGED <<planVars, outVars, p, pairVars, phase, g, i, stopVars,
                   recordVars, slot, hostVars, endVars>>

\* The group's overlap is not run.
OverlapSkips == stop # "" \/ Frozen

\* The group has run A/B.  The same target runs against the second reference
\* next, with the servers of the first down; one that does not go is a note.
EndAB ==
    /\ pc = "cases" /\ phase = "ab" /\ i > Len(Group)
    /\ \/ /\ p \notin Overlaps
          /\ pc' = "close"
          /\ UNCHANGED <<phase, i, gbroken, oentries, slot, cluster>>
       \/ /\ p \in Overlaps /\ OverlapSkips
          /\ pc' = "close"
          /\ oentries' = OverlapSkipped
          /\ UNCHANGED <<phase, i, gbroken, slot, cluster>>
       \/ /\ p \in Overlaps /\ ~ OverlapSkips
          /\ phase' = "overlap" /\ i' = 1 /\ gbroken' = FALSE
          /\ \E D \in IF HA THEN {{}} ELSE SUBSET slot["r"].running :
                SwitchTo([s \in {"r"} |-> <<slot[s].running \ D, cluster[s].up \ D>>])
          /\ UNCHANGED <<pc, oentries>>
    /\ UNCHANGED <<planVars, outVars, p, pairVars, g, todo, stop, broken,
                   canaries, entries, guard, noted, endVars>>

EndOverlap ==
    /\ pc = "cases" /\ phase = "overlap" /\ i > Len(Group)
    /\ pc' = "close"
    /\ UNCHANGED <<planVars, outVars, p, pairVars, walkVars, stopVars,
                   recordVars, slot, hostVars, endVars>>

\* dropLost: the sides whose roles were not restored.
Dropped == Lost(Names)

\* The group is over: a frozen side ends the pair, a lost one is dropped, and
\* the next group stands another up.
CloseGroup ==
    /\ pc = "close"
    /\ IF stop # "" \/ Frozen
       THEN /\ broken' = (stop = "")
            /\ UNCHANGED <<slot, hostVars>>
       ELSE /\ \E F \in SUBSET Dropped : Destroy(Dropped, F)
            /\ slot' = [s \in Names |-> IF s \in Dropped THEN None ELSE slot[s]]
            /\ UNCHANGED broken
    /\ phase' = "ab" /\ g' = g + 1 /\ pc' = "group"
    /\ UNCHANGED <<planVars, outVars, p, pairVars, i, todo, stop, gbroken,
                   recordVars, endVars>>

\* Every group is through: the sidecar.
WritePair ==
    /\ pc = "group" /\ g > Len(Groups)
    /\ written' = [written EXCEPT ![p] = TRUE]
    /\ skipped' = IF broken /\ \A n \in DOMAIN entries : ~ entries[n].ran
                  THEN [skipped EXCEPT ![p] = "cluster"] ELSE skipped
    /\ pc' = "endpair"
    /\ UNCHANGED <<planVars, outVars, p, tried, valid, walkVars, stopVars,
                   recordVars, slot, hostVars, endVars>>

\* The sides the deferred teardown takes down.
EndDown == IF keep THEN {} ELSE Up

\* The teardown, and the session's record of the pair.  What only the pair
\* needed is put back, so that pairs that ended alike are one state.
EndPair ==
    /\ pc = "endpair"
    /\ \E F \in SUBSET EndDown : Destroy(EndDown, F)
    /\ slot' = [s \in Names |-> None]
    /\ reason' = IF stop # "" THEN stop ELSE reason
    /\ UNCHANGED <<skipped, valid>>
    /\ WriteDoc("incomplete")
    /\ p' = p + 1 /\ pc' = "pairs"
    /\ Cleared
    /\ UNCHANGED <<planVars, outVars, tried, written, code>>

\* pairRan
PairsRan == {q \in Pair : written[q] /\ skipped[q] = ""}

\* sessionExit and finish.
Finish ==
    /\ pc = "pairs" /\ p > NPairs
    /\ reason' = IF reason = "done" /\ signalled THEN "signal" ELSE reason
    /\ UNCHANGED <<skipped, valid>>
    /\ IF reason' \in {"signal", "lease"}
       THEN WriteDoc("incomplete") /\ code' = 3
       ELSE /\ WriteDoc("complete")
            /\ code' = IF reason' # "budget" /\ tried # {} /\ PairsRan = {}
                       THEN 3 ELSE 0
    /\ pc' = "done"
    /\ UNCHANGED <<planVars, outVars, p, tried, written, walkVars, stopVars,
                   recordVars, slot, hostVars>>

-----------------------------------------------------------------------------
InitWith(k, skips, left) ==
    /\ keep = k
    /\ signalled = FALSE /\ lease = TRUE
    /\ pc = "host" /\ p = 1 /\ reason = "done"
    /\ tried = {}
    /\ skipped = skips
    /\ valid = [q \in Pair |-> FALSE] /\ written = [q \in Pair |-> FALSE]
    /\ phase = "canary" /\ g = 1 /\ i = 1 /\ todo = <<>>
    /\ stop = "" /\ broken = FALSE /\ gbroken = FALSE
    /\ canaries = <<>> /\ entries = <<>> /\ oentries = <<>>
    /\ slot = [s \in Names |-> None]
    /\ cluster = [s \in Names |-> IF s \in left THEN Stale ELSE None]
    /\ guard = {} /\ noted = {}
    /\ doc = [state |-> "none", valid |-> FALSE] /\ code = -1

\* A pair may be skipped at the plan; cleanupStale leaves what it cannot purge.
Init ==
    \E k \in Keeps, skips \in [Pair -> {"", "plan"}], left \in Leftovers :
        InitWith(k, skips, left)

\* The session's own steps.
Session ==
    \/ Host \/ PassPair \/ StartPair
    \/ StandUp \/ StuckSide \/ FailSide
    \/ SkipCase \/ BeginCase \/ SwitchFails \/ EndCase
    \/ EndCanaries \/ Gate \/ PassGroup \/ StartGroup \/ EndAB \/ EndOverlap
    \/ CloseGroup \/ WritePair \/ EndPair \/ Finish

Next ==
    \/ Session
    \/ Signal \/ LoseLease \/ \E s \in Names : FailOver(s)

\* The session is one goroutine and every call it makes has a bound.
Spec == Init /\ [][Next]_vars /\ WF_vars(Session)

-----------------------------------------------------------------------------
(* Properties.                                                             *)

SideType ==
    [key : {Key[c] : c \in Cases}, running : SUBSET {FixtureOf[c] : c \in Cases},
     counted : BOOLEAN, frozen : BOOLEAN, lost : BOOLEAN]

ClusterType ==
    [key : {Key[c] : c \in Cases} \cup {""},
     build : {"target", "reference", "overlap", ""}, mine : BOOLEAN, used : BOOLEAN,
     home : BOOLEAN, up : SUBSET {FixtureOf[c] : c \in Cases}]

\* No side and no cluster are none of them.
ASSUME NoneAssumption == None \notin SideType \cup ClusterType

PerfTypeOK ==
    /\ p \in 1..NPairs + 1 /\ tried \subseteq Pair
    /\ skipped \in [Pair -> {"", "plan", "budget", "lease", "signal", "cluster"}]
    /\ valid \in [Pair -> BOOLEAN] /\ written \in [Pair -> BOOLEAN]
    /\ phase \in {"canary", "ab", "overlap"}
    /\ stop \in {"", "budget", "lease", "signal"} /\ broken \in BOOLEAN
    /\ \A s \in Up : slot[s] \in SideType
    /\ guard \subseteq Names /\ noted \subseteq Names

\* hostGuard: what it reads is there -- the cgroup of a cluster that is gone
\* would make every later reading unreadable, and no pass is contaminated by
\* an unreadable one -- and a side it was told of is read for as long as that
\* side has a slot, or its CPU time would be taken for a stranger's.
GuardCounts ==
    /\ PerfTypeOK
    /\ \A s \in guard : cluster[s] # None
    /\ \A s \in Up : slot[s].counted /\ s \notin noted => s \in guard

\* A case is measured on two clusters that are what the comparison says they
\* are, whatever failed before: this session's, of the conf group, the target
\* build against the reference's (or the reference against itself), not the
\* ones the canaries wrote to, n1 the master, thawed, with the case's fixture
\* alone served as far as the session knows; and only in a pair whose every
\* canary was run and within the tolerance.
RightSides ==
    pc = "measuring" =>
      /\ \A s \in Measured :
            /\ cluster[s] # None /\ slot[s] # None
            /\ cluster[s].mine /\ cluster[s].key = Key[Case]
            /\ cluster[s].build = Build(s)
            /\ phase # "canary" => ~ cluster[s].used
            /\ cluster[s].home /\ ~ slot[s].lost
            /\ slot[s].running = {FixtureOf[Case]}
      /\ ~ Frozen
      /\ phase # "canary" => /\ Len(canaries) = Len(Canaries)
                             /\ \A n \in DOMAIN canaries : canaries[n]

Once(record, cs) ==
    /\ Len(record) = Len(cs)
    /\ ToSet(cs) = {record[n].id : n \in DOMAIN record}

\* A pair that was started has each of its cases on record once, run or
\* skipped, however it ended; so has its overlap when the cases were reached.
CasesOnRecord ==
    pc = "endpair" =>
      /\ Once(entries, Selected[p])
      /\ valid[p] /\ p \in Overlaps => Once(oentries, Selected[p])
      /\ valid[p] /\ p \notin Overlaps => oentries = <<>>

\* A session that ended has no cluster of its own standing that its notes do
\* not name, unless it was asked to keep them.
NothingLeft ==
    pc = "done" /\ ~ keep =>
      \A s \in Names : cluster[s] # None /\ cluster[s].mine => s \in noted

\* session.json at any time: valid says that every pair that was not skipped
\* ran on passed canaries and has its sidecar, not that those so far did; and
\* the session that is complete or exits 0 was stopped by no signal and no
\* other run's lease.
DocTruthful ==
    /\ doc.valid => \A q \in Pair : skipped[q] # "" \/ (valid[q] /\ written[q])
    /\ doc.state = "complete" => pc = "done" /\ code # -1
    /\ code = 0 => doc.state = "complete" /\ reason \notin {"signal", "lease"}

-----------------------------------------------------------------------------
(* What a comment or a document says and the code does not have.           *)

\* "only the current fixture's server up on each side"
\* (docs/category/extensions/E11-perf-runner/requirements.md:112).  A start
\* that was given up and took effect is not in Side.running, and stopOthers
\* goes by it.
OnlyItsServer ==
    pc = "measuring" => \A s \in Measured : cluster[s].up = {FixtureOf[Case]}
=============================================================================
