----------------------------- MODULE PerfWaits ------------------------------
(***************************************************************************)
(* The two waits before a measured window (internal/perf/fixture.go): for  *)
(* vacuum to be idle (waitVacuum) and for a checkpoint asked for to have   *)
(* ended (checkpointWait.run).  Both read counters that the engine adds to *)
(* only while a statdump watcher is registered.                            *)
(*                                                                         *)
(* Between two reads the engine does what it likes, one thing at a time;   *)
(* the clock is the number of reads left before the bound.                 *)
(***************************************************************************)
EXTENDS Integers, Sequences, SequencesExt

CONSTANTS
    Reads,       \* reads before the bound
    Running,     \* reads a checkpoint that was running at the baseline is given
    Unreadable,  \* unreadable reads in a row that end the checkpoint wait
    MaxPushes,   \* maxVacuumPushes
    Events       \* what the engine does of its own accord in one wait

VARIABLES
    wait,        \* "vacuum" or "checkpoint"
    at,          \* where the wait is, "done" when it has returned
    left,        \* reads left
    events,      \* of Events, those to come
    engine,      \* the server: what has happened, and what was counted
    watcher,     \* a statdump watcher is registered
    reads,       \* waitVacuum: the reads since the watcher was last armed
    pusher,      \* vacuumPusher
    ckpt,        \* checkpointWait: its baseline and the offset of the server
    notes        \* something was said

waitVars == <<wait, at, left, events, engine, watcher, reads, pusher, ckpt, notes>>

-----------------------------------------------------------------------------
(* The engine.  A name that ends in _F is a seeded fault.                  *)

\* to, vac: log pages handed to vacuum and finished; held: vacuum leaves the
\* last block alone until the log has moved on; s, e: checkpoints started and
\* ended (a failed one never ends); on: one is running; seen: of those that
\* ended, the last to have started; cTo to cE: what was counted of the four.

\* An engine on which n checkpoints were started, k of them counted.
NewEngine(on, n, k) ==
    [to |-> 0, vac |-> 0, held |-> FALSE, s |-> n, e |-> 0, on |-> on, seen |-> 0,
     cTo |-> 0, cVac |-> 0, cS |-> k, cE |-> 0]

Count(n) == IF watcher THEN n + 1 ELSE n

\* One thing the engine does.
HandOver(x) ==
    {[x EXCEPT !.held = h, !.to = @ + 1, !.cTo = Count(@)] : h \in BOOLEAN}
Vacuums(x) ==
    IF x.vac < x.to /\ ~ x.held
    THEN {[x EXCEPT !.vac = @ + 1, !.cVac = Count(@)]}
    ELSE {}
Starts(x) ==
    IF x.on THEN {}
    ELSE {[x EXCEPT !.on = TRUE, !.s = @ + 1, !.cS = Count(@)]}
Ends(x) ==
    IF x.on THEN {[x EXCEPT !.on = FALSE, !.seen = x.s, !.e = @ + 1,
                            !.cE = Count(@)]}
    ELSE {}
Fails(x) == IF x.on THEN {[x EXCEPT !.on = FALSE]} ELSE {}

Steps(x) == IF wait = "vacuum" THEN HandOver(x) \cup Vacuums(x)
                               ELSE Starts(x) \cup Ends(x) \cup Fails(x)

\* Before the next read: the engine goes on, or the watcher dies.
Engine ==
    /\ at \notin {"done", "new"} /\ events > 0
    /\ events' = events - 1
    /\ \/ engine' \in Steps(engine) /\ UNCHANGED watcher
       \/ watcher /\ watcher' = FALSE /\ UNCHANGED engine
    /\ UNCHANGED <<wait, at, left, reads, pusher, ckpt, notes>>

-----------------------------------------------------------------------------
(* Reading.                                                                *)

\* statCounts: both statistics, or the read is not one.
Readable == [ok : {TRUE}, a : {IF wait = "vacuum" THEN engine.cTo ELSE engine.cS},
             b : {IF wait = "vacuum" THEN engine.cVac ELSE engine.cE}]
NoRead == [ok |-> FALSE, a |-> 0, b |-> 0]
ReadNow == Readable \cup IF events > 0 THEN {NoRead} ELSE {}

Return(how) == at' = "done" /\ notes' = (notes \/ how = "note")
Goes(next) == at' = next /\ UNCHANGED notes

-----------------------------------------------------------------------------
(* waitVacuum.                                                             *)

Backlog(r) == r.a - r.b

Idle_F(rs) ==
    LET n == Len(rs) IN
    n >= 2 /\ Backlog(rs[n]) <= 0 /\ rs[n - 1].b = rs[n].b

\* vacuumIdle: over two reads when the backlog reads 0, three when it reads
\* below, every one readable and vacuumed not moving.
Idle(rs) ==
    LET n == Len(rs) need == IF Backlog(rs[n]) < 0 THEN 3 ELSE 2 IN
    /\ n >= 2 /\ n >= need
    /\ \A k \in (n - need + 1)..n :
          rs[k].ok /\ Backlog(rs[k]) <= 0 /\ rs[k].b = rs[n].b

\* vacuumStalled
Stalled(rs) ==
    LET n == Len(rs) IN
    n >= 2 /\ rs[n].ok /\ rs[n - 1] = rs[n] /\ Backlog(rs[n]) > 0

\* vacuumPusher.want: its account of a move, and its answer.
Noticed(r) ==
    IF r.ok THEN [pusher EXCEPT !.moved = @ \/ (pusher.last.ok /\ r # pusher.last),
                                !.last = r] ELSE pusher

Want(p, rs) ==
    /\ p.pushes < MaxPushes
    /\ p.pushes = 0 \/ p.moved
    /\ left > 2
    /\ Stalled(rs)

\* vacuumPush: log with no MVCC record; the block that was held is taken.
Push == engine' = [engine EXCEPT !.held = FALSE]

\* A read that finds the watcher down re-arms it and forgets what was read.
Rearm ==
    /\ wait = "vacuum" /\ at = "read" /\ left > 0 /\ ~ watcher
    /\ \/ watcher' = TRUE /\ reads' = <<>> /\ notes' = TRUE /\ UNCHANGED at
       \/ Return("note") /\ UNCHANGED <<watcher, reads>>
    /\ left' = left - 1
    /\ UNCHANGED <<wait, events, engine, pusher, ckpt>>

ReadVacuum ==
    /\ wait = "vacuum" /\ at = "read" /\ left > 0 /\ watcher
    /\ \E r \in ReadNow :
          LET rs == Append(reads, r) p == Noticed(r) IN
          /\ reads' = IF Len(rs) > 3 THEN Tail(rs) ELSE rs
          /\ events' = IF r.ok THEN events ELSE events - 1
          /\ IF Idle(rs) THEN Return("") /\ UNCHANGED <<engine, pusher>>
             ELSE IF Want(p, rs)
             THEN /\ Push \/ UNCHANGED engine
                  /\ pusher' = [p EXCEPT !.pushes = @ + 1, !.moved = FALSE]
                  /\ notes' = TRUE /\ UNCHANGED at
             ELSE pusher' = p /\ UNCHANGED <<engine, at, notes>>
    /\ left' = left - 1
    /\ UNCHANGED <<wait, watcher, ckpt>>

\* The bound: the note says what was left.
Bound ==
    /\ at \in {"read", "poll"} /\ left = 0
    /\ Return("note")
    /\ UNCHANGED <<wait, left, events, engine, watcher, reads, pusher, ckpt>>

-----------------------------------------------------------------------------
(* checkpointWait.run.                                                     *)

\* next: what it read, with the watcher up again if it was not and could be.
NextRead(r, rearmed, said) ==
    /\ IF watcher THEN r \in ReadNow /\ ~ rearmed /\ ~ said /\ UNCHANGED watcher
       ELSE /\ said
            /\ \/ r = NoRead /\ ~ rearmed /\ UNCHANGED watcher
               \/ rearmed /\ watcher' = TRUE /\ r \in ReadNow
    /\ events' = IF watcher /\ ~ r.ok THEN events - 1 ELSE events

\* ask: it only wakes the checkpoint daemon, and is dropped while that is busy.
Ask == IF engine.on THEN UNCHANGED engine ELSE engine' \in Starts(engine)

Shrink(off, r) == IF r.ok /\ Backlog(r) < off THEN Backlog(r) ELSE off

\* The baseline.  One that cannot be read is asked for and not waited for; with
\* a checkpoint running, past the offset, it is waited for first.
Baseline ==
    /\ wait = "checkpoint" /\ at = "new"
    /\ \E r \in ReadNow \cup {NoRead}, rearmed, said \in BOOLEAN :
          /\ NextRead(r, rearmed, said)
          /\ IF ~ r.ok THEN Ask /\ at' = "done" /\ notes' = TRUE /\ UNCHANGED ckpt
             ELSE LET off == Shrink(ckpt.offset, r) IN
                  /\ ckpt' = [ckpt EXCEPT !.base = r, !.offset = off,
                                !.from = engine.s,
                                !.hidden = engine.on /\ Backlog(r) <= off]
                  /\ notes' = (notes \/ said \/ ckpt.offset # 0)
                  /\ at' = IF Backlog(r) > off THEN "running" ELSE "ask"
                  /\ UNCHANGED engine
    /\ UNCHANGED <<wait, left, reads, pusher>>

\* Waiting for the one that was running; one that does not end is an offset.
AwaitRunning ==
    /\ wait = "checkpoint" /\ at = "running"
    /\ \E r \in ReadNow \cup {NoRead}, rearmed, said \in BOOLEAN :
          LET base == IF r.ok THEN r ELSE ckpt.base
              ahead == Backlog(base) > ckpt.offset
              given == ckpt.given - 1 IN
          /\ NextRead(r, rearmed, said)
          /\ ckpt' = [ckpt EXCEPT !.base = base, !.given = given,
                        !.from = IF r.ok THEN engine.s ELSE @,
                        !.offset = IF ahead /\ given = 0 THEN Backlog(base) ELSE @]
          /\ at' = IF ahead /\ given > 0 THEN "running" ELSE "ask"
          /\ notes' = (notes \/ said \/ (ahead /\ given = 0))
    /\ UNCHANGED <<wait, left, engine, reads, pusher>>

AskFirst ==
    /\ wait = "checkpoint" /\ at = "ask"
    /\ Ask /\ Goes("poll")
    /\ UNCHANGED <<wait, left, events, watcher, reads, pusher, ckpt>>

\* checkpointDone: one started since the baseline, and as many ended as started.
Done(base, r) == r.a > base.a /\ r.b - base.b >= r.a - base.a

\* The loop.  A watcher re-armed has the baseline and the request taken again;
\* a request that started nothing is made again, but not in the last poll.
Poll ==
    /\ wait = "checkpoint" /\ at = "poll" /\ left > 0
    /\ \E r \in ReadNow \cup {NoRead}, rearmed, said \in BOOLEAN :
          LET off == IF rearmed THEN ckpt.offset ELSE Shrink(ckpt.offset, r)
              base == IF \/ rearmed /\ r.ok
                         \/ r.ok /\ r.a = ckpt.base.a /\ r.b > ckpt.base.b
                      THEN r ELSE ckpt.base
              misses == IF r.ok THEN 0 ELSE ckpt.misses + 1 IN
          /\ NextRead(r, rearmed, said)
          /\ ckpt' = [ckpt EXCEPT !.offset = off, !.base = base, !.misses = misses,
                        !.from = IF base # ckpt.base THEN engine.s ELSE @]
          /\ \/ rearmed /\ r.ok /\ Ask /\ at' = "poll" /\ notes' = TRUE
             \/ /\ ~ r.ok
                /\ IF misses >= Unreadable THEN Return("note")
                   ELSE UNCHANGED at /\ notes' = (notes \/ said)
                /\ UNCHANGED engine
             \/ /\ r.ok /\ ~ rearmed /\ Done(base, r)
                /\ Return("") /\ UNCHANGED engine
             \/ /\ r.ok /\ ~ rearmed /\ ~ Done(base, r)
                /\ \/ r.a = base.a /\ left > 1 /\ Ask
                   \/ UNCHANGED engine
                /\ UNCHANGED <<at, notes>>
    /\ left' = left - 1
    /\ UNCHANGED <<wait, reads, pusher>>

-----------------------------------------------------------------------------
\* A wait begins on a server with a checkpoint running or not, counted or not,
\* and with an offset that an earlier wait on it stored, or none.
WaitInit(w, on, seen, off) ==
    /\ wait = w /\ at = IF w = "vacuum" THEN "read" ELSE "new"
    /\ left = Reads /\ events = Events
    /\ engine = NewEngine(on, IF on THEN 1 ELSE 0, IF on /\ seen THEN 1 ELSE 0)
    /\ watcher = TRUE
    /\ reads = <<>> /\ pusher = [pushes |-> 0, moved |-> FALSE, last |-> NoRead]
    /\ ckpt = [base |-> NoRead, offset |-> off, misses |-> 0, given |-> Running,
               from |-> 0, hidden |-> FALSE]
    /\ notes = FALSE

Waits == Rearm \/ ReadVacuum \/ Bound \/ Baseline \/ AwaitRunning \/ AskFirst \/ Poll

WaitNext == Waits \/ Engine

-----------------------------------------------------------------------------
(* Properties.                                                             *)

\* waitVacuum: a wait that ended with nothing to say left no log page that was
\* handed to vacuum unfinished, as long as every one was counted -- whatever
\* read failed, however the watcher came and went.
VacuumDone ==
    wait = "vacuum" /\ at = "done" /\ ~ notes /\ engine.to = engine.cTo
      => engine.vac = engine.to

\* checkpointWait: a wait that ended with nothing to say saw a checkpoint that
\* began after its baseline to its end, and left none running, unless one was
\* running at the baseline that the counters did not show.
CheckpointOver ==
    wait = "checkpoint" /\ at = "done" /\ ~ notes /\ ~ ckpt.hidden
      => engine.seen > ckpt.from /\ engine.seen = engine.s
=============================================================================
