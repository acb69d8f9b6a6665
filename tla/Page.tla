--------------------------------- MODULE Page ---------------------------------
(***************************************************************************)
(* A run on the status page, and the same run played back from its         *)
(* feedback.log (internal/status: status.go, replay.go).                   *)
(*                                                                         *)
(* While the run is live its workers report to the board and the page      *)
(* polls it; every case that ends puts a block in the log, which carries   *)
(* its verdict and, if the case lived to write it, the hour it ended at.   *)
(* The log is read back afterwards, and the playback moves by itself and   *)
(* by the page's knobs.  A seek holds the replayer's lock and takes the    *)
(* board's once per moment, so a poll may fall inside one.                 *)
(***************************************************************************)
EXTENDS Board

CONSTANTS
    Plans,      \* the plans a run may have been given
    Verdicts,   \* [Case -> SUBSET BOOLEAN]: how each case may end
    Stamped,    \* [Case -> SUBSET BOOLEAN]: whether it writes its hour
    Day,        \* ticks in a day; a quarter of it is six hours
    Dawn,       \* the hour the run starts at
    Horizon,    \* the last tick of the live run
    Speeds, Controls

VARIABLES
    now,
    board,
    run,     \* the run itself: cases to come, and what really happened
    log,     \* feedback.log
    shown,   \* the last Remain polled, the one before it, and whether quiet
    r        \* the replayer

vars == <<now, board, run, log, shown, r>>

NoReplay == [on |-> FALSE, at |-> 0, speed |-> 1, paused |-> FALSE, applied |-> 0,
             to |-> -1, sought |-> FALSE, left |-> Controls]

Init ==
    /\ now = Dawn
    /\ \E plan \in Plans :
          board = Expect(New(Cardinality(Case), Dawn), Case, plan, Cardinality(Slot))
    /\ run = [todo |-> Case, ended |-> <<>>, moments |-> <<>>, truth |-> {}, live |-> {}]
    /\ log = <<>>
    /\ shown = [remain |-> 0, was |-> 0, quiet |-> FALSE]
    /\ r = NoReplay

-----------------------------------------------------------------------------
(* The live run. *)

\* A worker takes the next case of the queue.
Take(s) ==
    /\ ~ r.on /\ board.running[s].case = 0 /\ run.todo # {}
    /\ LET c == Min(run.todo)
       IN  /\ board' = Begin(board, s, c, now)
           /\ run' = [run EXCEPT !.todo = @ \ {c}]
    /\ UNCHANGED <<now, log, shown, r>>

\* A case ends, and its block goes to the log in one piece.
Stop(s) ==
    LET in == board.running[s]
        verdict(ok) == [kind |-> "verdict", slot |-> s, case |-> in.case, ok |-> ok,
                        took |-> now - in.since]
        stamp == [kind |-> "stamp", case |-> in.case, hour |-> now % Day]
    IN  /\ ~ r.on /\ in.case # 0
        /\ \E ok \in Verdicts[in.case], hour \in Stamped[in.case] :
              /\ board' = End(board, s, in.case, ok, now)
              /\ log' = log \o <<verdict(ok)>> \o (IF hour THEN <<stamp>> ELSE <<>>)
              /\ run' = [run EXCEPT !.ended = Append(@,
                           [slot |-> s, case |-> in.case, ok |-> ok, start |-> in.since,
                            took |-> now - in.since, hour |-> hour])]
        /\ shown' = [shown EXCEPT !.quiet = FALSE]
        /\ UNCHANGED <<now, r>>

\* A worker takes its next case at once, so no time passes before it has.
Tick ==
    /\ ~ r.on /\ now < Horizon
    /\ run.todo # {} => \A s \in Slot : board.running[s].case # 0
    /\ now' = now + 1
    /\ UNCHANGED <<board, run, log, shown, r>>

\* The page asks for the board.
Poll ==
    /\ ~ r.on
    /\ \E left \in Remains(board, now) :
          shown' = [remain |-> left, quiet |-> TRUE,
                    was |-> IF shown.quiet THEN shown.remain ELSE left]
    /\ board' = snapshot(board, now)
    /\ UNCHANGED <<now, run, log, r>>

-----------------------------------------------------------------------------
(* Reading the log back. *)

\* A stamp has no date: one that falls more than a quarter of a day behind
\* the last is the next day's.
hourOf(acc, hour) ==
    LET at == hour + acc.day * Day
    IN  IF acc.last >= 0 /\ at < acc.last - Day \div 4 THEN at + Day ELSE at

\* A stamp belongs to the first verdict waiting that is of its directory.
pair(acc, line) ==
    IF line.kind = "verdict" THEN [acc EXCEPT !.wait = Append(@, line)]
    ELSE LET at == hourOf(acc, line.hour)
             of == {i \in DOMAIN acc.wait : acc.wait[i].case = line.case}
             i == Min(of)
             p == acc.wait[i]
         IN  [out |-> IF of = {} THEN acc.out
                      ELSE Append(acc.out, [slot |-> p.slot, case |-> p.case, ok |-> p.ok,
                                            start |-> at - p.took, took |-> p.took]),
              wait |-> IF of = {} THEN acc.wait ELSE RemoveAt(acc.wait, i),
              last |-> at, day |-> at \div Day]

before(e, f) == e.start < f.start \/ (e.start = f.start /\ e.case < f.case)

ParseFeedback(lines) ==
    SortSeq(FoldLeft(pair, [out |-> <<>>, wait |-> <<>>, last |-> -1, day |-> 0],
                     lines).out, before)

\* A stable sort by time of every begin and end, a begin ahead of its end.
Moments(events) ==
    LET origin == events[1].start
        all == FlattenSeq([i \in DOMAIN events |->
                 <<[at |-> events[i].start - origin, begin |-> TRUE, ev |-> events[i]],
                   [at |-> events[i].start + events[i].took - origin, begin |-> FALSE,
                    ev |-> events[i]]>>])
        placed == [i \in DOMAIN all |-> [m |-> all[i], i |-> i]]
        ahead(a, b) == a.m.at < b.m.at \/ (a.m.at = b.m.at /\ a.i < b.i)
        sorted == SortSeq(placed, ahead)
    IN  [i \in DOMAIN sorted |-> sorted[i].m]

\* What a live page ends with, and what a replay of it should end with too.
Counts(b) == <<b.done, b.ok, b.hist, b.histSecs, b.tally>>

\* The page of a run that is over, by a process of its own: a log with no case
\* in it has none.  What really happened is kept to compare with, its times
\* from the first case's start.
ReplayFrom ==
    LET events == ParseFeedback(log)
        told == SelectSeq(run.ended, LAMBDA e : e.hour)
        origin == Min({told[i].start : i \in DOMAIN told})
    IN  /\ ~ r.on /\ Finished(board) /\ run.todo = {} /\ events # <<>>
        /\ run' = [todo |-> {}, ended |-> <<>>, moments |-> Moments(events),
                   truth |-> {<<e.slot, e.case, e.ok, e.took, e.start - origin>> :
                                 e \in {told[i] : i \in DOMAIN told}},
                   live |-> IF Len(told) < Len(run.ended) THEN {} ELSE {Counts(board)}]
        /\ now' = Dawn /\ board' = New(Len(events), Dawn)
        /\ r' = [r EXCEPT !.on = TRUE]
        /\ shown' = [remain |-> 0, was |-> 0, quiet |-> FALSE]
        /\ log' = <<>>

moments == run.moments
span == moments[Len(moments)].at
positionOf(i) == IF i <= 0 THEN 0 ELSE moments[i].at
free == r.on /\ r.to < 0

\* A seek starts by starting over, if it goes back past what is folded in.
seekLocked_F(rr, to) ==
    /\ r' = [rr EXCEPT !.to = Max({0, Min({to, span})})]
    /\ UNCHANGED board
seekLocked(rr, to) ==
    LET t == Max({0, Min({to, span})})
        back == t < positionOf(rr.applied)
    IN  /\ r' = [rr EXCEPT !.to = t, !.applied = IF back THEN 0 ELSE @]
        /\ board' = IF back THEN reset(board, now) ELSE board

\* The next moment that is due, or the lock given back.
Fold ==
    /\ r.on /\ r.to >= 0
    /\ \/ /\ r.applied < Len(moments) /\ moments[r.applied + 1].at <= r.to
          /\ LET m == moments[r.applied + 1]
             IN  board' = IF m.begin THEN Begin(board, m.ev.slot, m.ev.case, now)
                          ELSE endWith(board, m.ev.slot, m.ev.case, m.ev.ok, m.ev.took, now)
          /\ r' = [r EXCEPT !.applied = @ + 1]
       \/ /\ \/ r.applied = Len(moments)
             \/ r.applied < Len(moments) /\ moments[r.applied + 1].at > r.to
          /\ r' = [r EXCEPT !.at = r.to, !.to = -1, !.sought = TRUE]
          /\ UNCHANGED board
    /\ UNCHANGED <<now, run, log, shown>>

\* The ticker moves the position by itself.
play_F ==
    /\ free /\ ~ r.paused /\ r.at < span
    /\ seekLocked(r, r.at + r.speed \div 2)
    /\ UNCHANGED <<now, run, log, shown>>
play ==
    /\ free /\ ~ r.paused /\ r.at < span
    /\ seekLocked(r, r.at + r.speed)
    /\ UNCHANGED <<now, run, log, shown>>

\* The knobs: how fast, whether at all, and where.
control ==
    /\ free /\ r.left > 0
    /\ LET rr == [r EXCEPT !.left = @ - 1]
       IN  \/ \E f \in Speeds : f > 0 /\ r' = [rr EXCEPT !.speed = f] /\ UNCHANGED board
           \/ r' = [rr EXCEPT !.paused = ~ @] /\ UNCHANGED board
           \/ \E to \in -1..span + 1 : seekLocked(rr, to)
           \/ \E d \in {-1, 1} : seekLocked(rr, r.at + d)
    /\ UNCHANGED <<now, run, log, shown>>

\* A reader who asks for the board in the middle of anything.
Look ==
    /\ r.on
    /\ board' = snapshot(board, now)
    /\ UNCHANGED <<now, run, log, shown, r>>

Work == (\E s \in Slot : Take(s) \/ Stop(s)) \/ Tick \/ ReplayFrom
Replay == play \/ Fold
PageNext == Work \/ Poll \/ Replay \/ control \/ Look
PageSpec == Init /\ [][PageNext]_vars /\ WF_vars(play) /\ WF_vars(Fold)

-----------------------------------------------------------------------------
(* What must hold. *)

\* What a board says of the cases that ended, apart from when it was told.
Picture(b) ==
    [total |-> b.total, done |-> b.done, ok |-> b.ok, recent |-> b.recent,
     failed |-> b.failed, hist |-> b.hist, histSecs |-> b.histSecs, tally |-> b.tally,
     running |-> [s \in Slot |-> b.running[s].case]]

SumSeq(s) == FoldLeft(+, 0, s)
ended == run.ended

\* However the workers' reports interleave with the polls, the board adds up:
\* the slots, the lanes, the families and the histogram each hold every ended
\* case once, the failures are all there and in order, and a run shows as
\* finished only when every case has ended.
AddsUp ==
    ~ r.on =>
      /\ board.done = Len(ended)
      /\ board.ok = Len(SelectSeq(ended, LAMBDA e : e.ok))
      /\ \A g \in {Slot, Lanes, {Family[c] : c \in Case}} :
            LET in(k) == board.tally[k].done
                secs(k) == board.tally[k].secs
            IN  /\ MapThenSumSet(in, g) = Len(ended)
                /\ MapThenSumSet(secs, g) = SumSeq(board.histSecs)
      /\ SumSeq(board.hist) = Len(ended)
      /\ LET bad == SelectSeq(ended, LAMBDA e : ~ e.ok)
         IN  [i \in DOMAIN board.failed |-> board.failed[i].case]
             = [i \in DOMAIN newest(bad, failedMax) |-> newest(bad, failedMax)[i].case]
      /\ Finished(board) => run.todo = {} /\ Len(ended) = Cardinality(Case)

\* The rate the page draws is the run's: each bucket holds the cases that
\* ended inside it, stalls included, and after the oldest have been dropped.
RateTrue ==
    ~ r.on /\ board.bucket0 >= 0 =>
      \A i \in DOMAIN board.buckets :
         board.buckets[i] =
           Cardinality({k \in DOMAIN ended :
                          (ended[k].start + ended[k].took - board.bucket0) \div bucketSpan = i - 1})

\* What is left of a run never rises between two polls while no case ends
\* ("the one thing a countdown must never do", status.go:694).
CountdownFalls == shown.remain <= shown.was

\* A replay is of the run that happened: every case that wrote its hour is
\* played, on its slot, with its verdict and its time, at the distance from
\* the others that it really had, midnight or not; and played to the end it
\* leaves the counts the live page ended with.
ReplayTrue ==
    r.on =>
      /\ run.truth = {<<m.ev.slot, m.ev.case, m.ev.ok, m.ev.took, m.at>> :
                        m \in {moments[i] : i \in {j \in DOMAIN moments : moments[j].begin}}}
      /\ free /\ r.applied = Len(moments) => \A c \in run.live : Counts(board) = c

\* Wherever the knobs have been turned to, and however the position got there,
\* the board shows what the run looked like at that moment: the moments up to
\* it folded into an empty board, and none after it.
SeekTrue ==
    free /\ r.sought =>
      LET upTo == SelectSeq(moments, LAMBDA m : m.at <= r.at)
          put(b, m) == IF m.begin THEN Begin(b, m.ev.slot, m.ev.case, now)
                       ELSE endWith(b, m.ev.slot, m.ev.case, m.ev.ok, m.ev.took, now)
      IN  /\ r.applied = Len(upTo)
          /\ Picture(board) = Picture(FoldLeft(put, New(board.total, now), upTo))

\* Left alone the playback gets to the end of the run, or stays where it was
\* paused.
PlayEnds == r.on ~> (r.on /\ (r.paused \/ r.at = span))
=============================================================================
