---------------------------------- MODULE Lanes ----------------------------------
(***************************************************************************)
(* Which directories of the shell corpus go to disk and which to memory,   *)
(* and how the slots are divided (shellsuite/lanes.go).                    *)
(* Durations are seconds, footprints megabytes.                            *)
(***************************************************************************)
EXTENDS Integers, FiniteSets, Sequences, SequencesExt, FiniteSetsExt

CONSTANTS
    DirOf,      \* [case |-> the directory it is in]
    Unit        \* a rate is held in Unit-ths of a megabyte a second; every duration divides it

\* No split: the run has one pool of slots.
NoLanes == [slow |-> {}, fast |-> {}, slowSlots |-> 0, fastSlots |-> 0]

\* Only a directory that took some time has a longest case.
Measured(took, d) == {c \in DOMAIN took : DirOf[c] = d}
worst(took, d) == Max({took[c] : c \in Measured(took, d)})
dirsOf(took) == {d \in {DirOf[c] : c \in DOMAIN took} : worst(took, d) > 0}
total(took, D) == MapThenSumSet(LAMBDA c : took[c], {c \in DOMAIN took : DirOf[c] \in D})
heldOf(held, d) == IF d \in DOMAIN held THEN held[d] ELSE 0
rate(took, held, d) == (heldOf(held, d) * Unit) \div worst(took, d)

\* What the rate budget takes, spent longest first; what does not fit is passed
\* over.  The sort is not stable and the map's order is anybody's: ties are taken
\* in any order, here by the order of the set.
byRate(took, held, mbps) ==
    LET dirs  == {d \in dirsOf(took) : heldOf(held, d) > 0}
        order == SetToSortSeq(dirs, LAMBDA a, b : worst(took, a) > worst(took, b))
        take(acc, d) == IF rate(took, held, d) > acc.budget THEN acc
                        ELSE [budget |-> acc.budget - rate(took, held, d), in |-> acc.in \union {d}]
    IN  IF mbps <= 0 THEN {} ELSE FoldLeft(take, [budget |-> mbps * Unit, in |-> {}], order).in

\* Both halves of what a threshold needs were measured, and there are two slots.
\* Otherwise the run stops and says what is missing.
LanesRefused(took, held, secs, mb, mbps, slots) ==
    \/ secs > 0 /\ DOMAIN took = {}
    \/ mb > 0 /\ DOMAIN held = {}
    \/ mbps > 0 /\ (DOMAIN held = {} \/ DOMAIN took = {})
    \/ slots < 2

slowDirs(took, held, secs, mb, mbps) ==
    {d \in dirsOf(took) :
        \/ secs > 0 /\ worst(took, d) >= secs
        \/ mb > 0 /\ heldOf(held, d) >= mb
        \/ d \in byRate(took, held, mbps)}

\* slots * slow / work, rounded half up, and a slot at least to each lane.
slowShare_F(slots, slow, work) == (2 * slots * slow + work) \div (2 * work)
slowShare(slots, slow, work) == Max({1, Min({slots - 1, (2 * slots * slow + work) \div (2 * work)})})

planLanes(took, held, secs, mb, mbps, slots) ==
    LET slow == slowDirs(took, held, secs, mb, mbps)
        fast == dirsOf(took) \ slow
        work == total(took, slow \union fast)
        n    == slowShare(slots, total(took, slow), work)
    IN  IF slow = {} \/ work <= 0 THEN NoLanes
        ELSE [slow |-> slow, fast |-> fast, slowSlots |-> n, fastSlots |-> slots - n]

on(split) == split.slow \union split.fast # {} /\ split.slowSlots > 0

\* A slot's lane, and a case's: a directory the plan did not mention is fast.
laneOf(split, i) == IF ~on(split) THEN "any" ELSE IF i <= split.fastSlots THEN "fast" ELSE "slow"
caseLane(split, c) == IF ~on(split) THEN "any" ELSE IF DirOf[c] \in split.slow THEN "slow" ELSE "fast"
====
