--------------------------------- MODULE Board --------------------------------
(***************************************************************************)
(* The board behind the status page (internal/status): what the workers    *)
(* report and what a snapshot of it shows.  A board is a value here, and   *)
(* each method a function from one board to the next: every one of them    *)
(* holds the board's lock from its first line to its last.                 *)
(*                                                                         *)
(* Times are ticks of one clock.  A case is its number, 0 is no case, and  *)
(* Family says which family its path is in.  A family, a slot and a lane   *)
(* are never called the same by any caller, so their tallies are one       *)
(* function.                                                               *)
(***************************************************************************)
EXTENDS Integers, Sequences, SequencesExt, FiniteSetsExt

CONSTANTS
    Slot,        \* the slots that may report
    Case,        \* the cases, as numbers from 1
    LaneOf,      \* [Slot -> lane]: the lane each slot is registered in
    Family,      \* [Case -> family]
    histEdges,   \* upper bounds of the duration buckets
    bucketSpan, bucketMax, recentMax, failedMax

Lanes == {LaneOf[s] : s \in Slot}
Keys == Slot \cup Lanes \cup {Family[c] : c \in Case}
Idle == [case |-> 0, since |-> 0]
NoTally == [done |-> 0, ok |-> 0, secs |-> 0, max |-> 0]
NoHist == [i \in 1..Len(histEdges) + 1 |-> 0]

New(total, now) ==
    [started |-> now, total |-> total, running |-> [s \in Slot |-> Idle],
     done |-> 0, ok |-> 0, recent |-> <<>>, failed |-> <<>>,
     buckets |-> <<>>, bucket0 |-> -1, hist |-> NoHist, histSecs |-> NoHist,
     tally |-> [k \in Keys |-> NoTally],
     planned |-> [c \in {} |-> 0], typical |-> 0, workLeft |-> 0, slots |-> 0,
     tookSum |-> 0]

\* What an emptied board forgets.  What the finished cases took in all, and
\* what is left of the plan, stay as they were.
reset(b, now) ==
    [b EXCEPT !.running = [s \in Slot |-> Idle], !.done = 0, !.ok = 0,
              !.recent = <<>>, !.failed = <<>>, !.buckets = <<>>, !.bucket0 = -1,
              !.hist = NoHist, !.histSecs = NoHist,
              !.tally = [k \in Keys |-> NoTally], !.started = now]

median(known) ==
    LET s == SortSeq(known, <)
        m == Len(s) \div 2
    IN  IF Len(s) % 2 = 0 THEN (s[m] + s[m + 1]) \div 2 ELSE s[m + 1]

\* The plan of an earlier run: a case it does not know counts as its median.
Expect(b, cases, planned, slots) ==
    IF slots < 1 \/ DOMAIN planned = {} THEN b
    ELSE LET typical == median([i \in 1..Cardinality(DOMAIN planned) |->
                                   planned[SetToSeq(DOMAIN planned)[i]]])
             cost(c) == IF c \in DOMAIN planned THEN planned[c] ELSE typical
         IN  [b EXCEPT !.planned = planned, !.typical = typical, !.slots = slots,
                       !.workLeft = MapThenSumSet(cost, cases)]

Begin(b, slot, name, now) ==
    [b EXCEPT !.running[slot] = [case |-> name, since |-> now]]

bucketOf(secs) ==
    Min({i \in 1..Len(histEdges) : secs < histEdges[i]} \cup {Len(histEdges) + 1})

\* One completion in its bucket, the empty ones between filled in; the oldest
\* go past bucketMax, and the start of the series moves with them.
count_F(b, at) ==
    LET zero == IF b.bucket0 < 0 THEN b.started ELSE b.bucket0
        want == (at - zero) \div bucketSpan + 1
        full == b.buckets \o [i \in 1..Max({0, want - Len(b.buckets)}) |-> 0]
        more == [full EXCEPT ![want] = @ + 1]
        drop == Max({0, Len(more) - bucketMax})
    IN  [b EXCEPT !.buckets = SubSeq(more, drop + 1, Len(more)), !.bucket0 = zero]
count(b, at) ==
    LET zero == IF b.bucket0 < 0 THEN b.started ELSE b.bucket0
        want == (at - zero) \div bucketSpan + 1
        full == b.buckets \o [i \in 1..Max({0, want - Len(b.buckets)}) |-> 0]
        more == [full EXCEPT ![want] = @ + 1]
        drop == Max({0, Len(more) - bucketMax})
    IN  [b EXCEPT !.buckets = SubSeq(more, drop + 1, Len(more)),
                  !.bucket0 = zero + drop * bucketSpan]

newest(s, n) == SubSeq(s, Max({1, Len(s) - n + 1}), Len(s))

end(b, slot, name, ok, took, at) ==
    LET expect == IF name \in DOMAIN b.planned THEN b.planned[name] ELSE b.typical
        won == IF ok THEN 1 ELSE 0
        this == [slot |-> slot, case |-> name, ok |-> ok, took |-> took]
        bin == bucketOf(took)
        groups == {Family[name], slot, LaneOf[slot]}
        add(t) == [done |-> t.done + 1, ok |-> t.ok + won, secs |-> t.secs + took,
                   max |-> Max({t.max, took})]
        left == IF b.slots > 0 THEN Max({0, b.workLeft - expect}) ELSE b.workLeft
    IN  count([b EXCEPT
                 !.workLeft = left, !.running[slot] = Idle,
                 !.done = @ + 1, !.tookSum = @ + took, !.ok = @ + won,
                 !.recent = newest(Append(@, this), recentMax),
                 !.failed = IF ok THEN @ ELSE newest(Append(@, this), failedMax),
                 !.hist[bin] = @ + 1, !.histSecs[bin] = @ + took,
                 !.tally = [k \in Keys |-> IF k \in groups THEN add(@[k]) ELSE @[k]]],
              at)

\* End times the case from its Begin; Record and the replay bring the time.
End(b, slot, name, ok, now) ==
    LET in == b.running[slot]
    IN  end(b, slot, name, ok, IF in.case = 0 THEN 0 ELSE now - in.since, now)
endWith(b, slot, name, ok, took, now) == end(b, slot, name, ok, took, now)

\* What is left of the run before the cases in flight are taken off it, and
\* what one of them is taken to cost.
owed(b) ==
    IF b.slots > 0 /\ b.workLeft > 0 THEN [per |-> b.typical, left |-> b.workLeft]
    ELSE IF b.done > 0 /\ b.total > b.done
         THEN LET per == b.tookSum \div b.done
              IN  [per |-> per, left |-> per * (b.total - b.done)]
         ELSE [per |-> 0, left |-> 0]

\* One case in flight has paid part of its bill.  The estimate it is held to
\* stays in force for the next one the loop comes to.
paid_F(b, now, acc, slot) ==
    LET in == b.running[slot]
    IN  [acc EXCEPT !.left = @ + (now - in.since)]
paid(b, now, acc, slot) ==
    LET in == b.running[slot]
        known == in.case \in DOMAIN b.planned
        per == IF known /\ b.planned[in.case] > 0 THEN b.planned[in.case] ELSE acc.per
        spent == IF per > 0 THEN Min({per, now - in.since}) ELSE now - in.since
    IN  [per |-> per, left |-> Max({0, acc.left - spent})]

\* Every Remain a snapshot may show: the cases in flight come in the order
\* the map is walked in, which is another each time.
Remains(b, now) ==
    LET busy == {s \in Slot : b.running[s].case # 0}
        take(acc, slot) == paid(b, now, acc, slot)
        left(order) == FoldLeft(take, owed(b), order).left
    IN  {left(order) \div Max({1, b.slots}) : order \in SetToSeqs(busy)}

Finished(b) == b.done >= b.total /\ \A s \in Slot : b.running[s].case = 0

\* A snapshot brings the rate up to now: an empty count.
snapshot(b, now) ==
    LET c == count(b, now)
    IN  [c EXCEPT !.buckets[Len(c.buckets)] = @ - 1]
=============================================================================
