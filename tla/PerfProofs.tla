----------------------------- MODULE PerfProofs ------------------------------
(***************************************************************************)
(* What holds of the performance runner for every schedule, every case and *)
(* every bound: what its waits, its settles, its passes and its session    *)
(* promise.                                                                *)
(***************************************************************************)
EXTENDS PerfParts, FiniteSetTheorems, WellFoundedInduction, TLAPS

-----------------------------------------------------------------------------
(* The wait for vacuum.                                                    *)

Engines ==
    [to : Nat, vac : Nat, held : BOOLEAN, s : Nat, e : Nat, on : BOOLEAN,
     seen : Nat, cTo : Nat, cVac : Nat, cS : Nat, cE : Nat]

ReadOf == [ok : BOOLEAN, a : Nat, b : Nat]

Counters ==
    [base : ReadOf, offset : Int, misses : Nat, given : Int, from : Nat,
     hidden : BOOLEAN]

EngineType ==
    /\ engine \in Engines /\ watcher \in BOOLEAN
    /\ wait \in {"vacuum", "checkpoint"}
    /\ reads \in Seq(ReadOf) /\ ckpt \in Counters

\* No more is counted than was done, no more is finished than was handed over;
\* and a wait that returned without a word had counted all of it finished.
VacuumInv ==
    wait = "vacuum" =>
      /\ engine.cVac <= engine.vac /\ engine.vac <= engine.to
      /\ wAt \in {"read", "done"}
      /\ wAt = "done" /\ ~ notes => engine.cTo <= engine.cVac

\* The baseline b of a checkpoint that was asked for with none behind.
Even(b) == b.ok /\ b.a = b.b

\* While nothing was said the counters are the engine's: one that starts is
\* behind until it ends, and one that fails is behind for good; a baseline to
\* poll from has none behind, and what began at it is what has begun since.
CheckpointInv ==
    wait = "checkpoint" =>
      /\ wAt \in {"new", "running", "ask", "poll", "done"}
      /\ engine.e <= engine.s /\ (engine.on => engine.e < engine.s)
      /\ engine.e = engine.s => engine.seen = engine.s
      /\ wAt \in {"new", "running"} => ckpt.given > 0
      /\ wAt = "new" => watcher /\ engine.cE = engine.e
      /\ wAt = "new" /\ ~ engine.on =>
             engine.cS = engine.s /\ engine.s = 0 /\ engine.seen = 0 /\ engine.e = 0
      /\ wAt = "new" /\ engine.on => engine.cS \in {0, 1} /\ engine.s = 1 /\ engine.e = 0
      /\ wAt # "new" /\ ~ notes /\ ~ ckpt.hidden =>
             /\ ckpt.offset = 0 /\ ckpt.from <= engine.s
             /\ wAt # "done" /\ watcher => engine.cS = engine.s /\ engine.cE = engine.e
             /\ wAt = "running" => ckpt.base.ok /\ ckpt.base.a > ckpt.base.b
             /\ wAt \in {"ask", "poll"} => Even(ckpt.base) /\ ckpt.base.a = ckpt.from
             /\ wAt = "done" => engine.seen > ckpt.from /\ engine.seen = engine.s

\* The pair: the runner has n1 for the master from the check on, and what the
\* check finds stays.
SettleInv ==
    /\ role \in [H!Nodes -> {"active", "standby", "to_be_active", "starting", "down"}]
    /\ goal \in {"check", "restored"} => n1 = "n1"
    /\ goal = "restored" => role["n1"] = "active" /\ role["n2"] = "standby"
    /\ ~ cut

WaitInv == EngineType /\ VacuumInv /\ CheckpointInv

LEMMA CountIs ==
    ASSUME EngineType, NEW n \in Nat
    PROVE  W!Count(n) \in Nat /\ n <= W!Count(n) /\ W!Count(n) <= n + 1
                             /\ (watcher => W!Count(n) = n + 1)
  BY DEF EngineType, W!Count

LEMMA WaitStarts ==
    ASSUME NEW w \in {"vacuum", "checkpoint"}, NEW on \in BOOLEAN, NEW seen \in BOOLEAN,
           NEW off \in Int, W!WaitInit(w, on, seen, off)
    PROVE  WaitInv
<1>1. EngineType
  <2>1. engine \in Engines
    BY DEF Engines, W!WaitInit, W!NewEngine
  <2>2. reads \in Seq(ReadOf) /\ watcher \in BOOLEAN /\ wait \in {"vacuum", "checkpoint"}
    BY DEF W!WaitInit
  <2>3. ckpt \in Counters
    BY PerfPartsAssumption DEF Counters, ReadOf, W!WaitInit, W!NoRead
  <2> QED BY <2>1, <2>2, <2>3 DEF EngineType
<1>2. VacuumInv
  BY DEF VacuumInv, W!WaitInit, W!NewEngine
<1>3. CheckpointInv
  <2>1. /\ wait = "checkpoint" => wAt = "new"
        /\ watcher = TRUE /\ ckpt.offset = off /\ ckpt.from = 0 /\ ckpt.hidden = FALSE
        /\ ckpt.base = [ok |-> FALSE, a |-> 0, b |-> 0] /\ ckpt.given > 0
    BY PerfPartsAssumption DEF W!WaitInit, W!NoRead
  <2>2. /\ engine.e = 0 /\ engine.seen = 0 /\ engine.cE = 0 /\ engine.on = on
        /\ engine.s = (IF on THEN 1 ELSE 0)
        /\ engine.cS = (IF on /\ seen THEN 1 ELSE 0)
    BY DEF W!WaitInit, W!NewEngine
  <2>3. CASE on
    BY <2>1, <2>2, <2>3 DEF CheckpointInv
  <2>4. CASE ~ on
    BY <2>1, <2>2, <2>4 DEF CheckpointInv
  <2> QED BY <2>3, <2>4
<1> QED BY <1>1, <1>2, <1>3 DEF WaitInv

\* What a thing the engine does makes of it.
LEMMA MakesHandOver ==
    ASSUME EngineType, NEW x \in W!HandOver(engine)
    PROVE  x \in Engines /\ \E h \in BOOLEAN :
               x = [to |-> engine.to + 1, vac |-> engine.vac, held |-> h, s |->
                    engine.s, e |-> engine.e, on |-> engine.on, seen |->
                    engine.seen, cTo |-> W!Count(engine.cTo), cVac |->
                    engine.cVac, cS |-> engine.cS, cE |-> engine.cE]
<1>1. PICK h \in BOOLEAN :
          x = [to |-> engine.to + 1, vac |-> engine.vac, held |-> h, s |->
               engine.s, e |-> engine.e, on |-> engine.on, seen |-> engine.seen,
               cTo |-> W!Count(engine.cTo), cVac |-> engine.cVac, cS |->
               engine.cS, cE |-> engine.cE]
  BY DEF W!HandOver, EngineType, Engines, W!Count
<1>2. x \in Engines
  <2>1. engine \in Engines
    BY DEF EngineType
  <2> QED BY <1>1, <2>1, CountIs DEF Engines
<1> QED BY <1>1, <1>2

LEMMA MakesVacuums ==
    ASSUME EngineType, NEW x \in W!Vacuums(engine)
    PROVE  /\ x \in Engines /\ ~ engine.held /\ engine.vac < engine.to
           /\ x = [to |-> engine.to, vac |-> engine.vac + 1, held |-> engine.held,
                   s |-> engine.s, e |-> engine.e, on |-> engine.on, seen |->
                   engine.seen, cTo |-> engine.cTo, cVac |-> W!Count(engine.cVac),
                   cS |-> engine.cS, cE |-> engine.cE]
<1>1. /\ ~ engine.held /\ engine.vac < engine.to
      /\ x = [to |-> engine.to, vac |-> engine.vac + 1, held |-> engine.held, s
              |-> engine.s, e |-> engine.e, on |-> engine.on, seen |->
              engine.seen, cTo |-> engine.cTo, cVac |-> W!Count(engine.cVac), cS
              |-> engine.cS, cE |-> engine.cE]
  BY DEF W!Vacuums, EngineType, Engines, W!Count
<1>2. x \in Engines
  <2>1. engine \in Engines
    BY DEF EngineType
  <2> QED BY <1>1, <2>1, CountIs DEF Engines
<1> QED BY <1>1, <1>2

LEMMA MakesStarts ==
    ASSUME EngineType, NEW x \in W!Starts(engine)
    PROVE  /\ x \in Engines /\ ~ engine.on
           /\ x = [to |-> engine.to, vac |-> engine.vac, held |-> engine.held, s
                   |-> engine.s + 1, e |-> engine.e, on |-> TRUE, seen |->
                   engine.seen, cTo |-> engine.cTo, cVac |-> engine.cVac, cS |->
                   W!Count(engine.cS), cE |-> engine.cE]
<1>1. /\ ~ engine.on
      /\ x = [to |-> engine.to, vac |-> engine.vac, held |-> engine.held, s |->
              engine.s + 1, e |-> engine.e, on |-> TRUE, seen |-> engine.seen, cTo
              |-> engine.cTo, cVac |-> engine.cVac, cS |-> W!Count(engine.cS), cE
              |-> engine.cE]
  BY DEF W!Starts, EngineType, Engines, W!Count
<1>2. x \in Engines
  <2>1. engine \in Engines
    BY DEF EngineType
  <2> QED BY <1>1, <2>1, CountIs DEF Engines
<1> QED BY <1>1, <1>2

LEMMA MakesEnds ==
    ASSUME EngineType, NEW x \in W!Ends(engine)
    PROVE  /\ x \in Engines /\ engine.on
           /\ x = [to |-> engine.to, vac |-> engine.vac, held |-> engine.held, s
                   |-> engine.s, e |-> engine.e + 1, on |-> FALSE, seen |->
                   engine.s, cTo |-> engine.cTo, cVac |-> engine.cVac, cS |->
                   engine.cS, cE |-> W!Count(engine.cE)]
<1>1. /\ engine.on
      /\ x = [to |-> engine.to, vac |-> engine.vac, held |-> engine.held, s |->
              engine.s, e |-> engine.e + 1, on |-> FALSE, seen |-> engine.s, cTo
              |-> engine.cTo, cVac |-> engine.cVac, cS |-> engine.cS, cE |->
              W!Count(engine.cE)]
  BY DEF W!Ends, EngineType, Engines, W!Count
<1>2. x \in Engines
  <2>1. engine \in Engines
    BY DEF EngineType
  <2> QED BY <1>1, <2>1, CountIs DEF Engines
<1> QED BY <1>1, <1>2

LEMMA MakesFails ==
    ASSUME EngineType, NEW x \in W!Fails(engine)
    PROVE  /\ x \in Engines /\ engine.on
           /\ x = [to |-> engine.to, vac |-> engine.vac, held |-> engine.held, s
                   |-> engine.s, e |-> engine.e, on |-> FALSE, seen |->
                   engine.seen, cTo |-> engine.cTo, cVac |-> engine.cVac, cS |->
                   engine.cS, cE |-> engine.cE]
<1>1. /\ engine.on
      /\ x = [to |-> engine.to, vac |-> engine.vac, held |-> engine.held, s |->
              engine.s, e |-> engine.e, on |-> FALSE, seen |-> engine.seen, cTo
              |-> engine.cTo, cVac |-> engine.cVac, cS |-> engine.cS, cE |->
              engine.cE]
  BY DEF W!Fails, EngineType, Engines, W!Count
<1>2. x \in Engines
  <2>1. engine \in Engines
    BY DEF EngineType
  <2> QED BY <1>1, <2>1, CountIs DEF Engines
<1> QED BY <1>1, <1>2

\* A read has the counters, or nothing.
LEMMA ReadIs ==
    ASSUME EngineType, NEW r \in W!ReadNow \cup {W!NoRead}
    PROVE  /\ r \in ReadOf
           /\ r.ok => r = [ok |-> TRUE,
                           a |-> IF wait = "vacuum" THEN engine.cTo ELSE engine.cS,
                           b |-> IF wait = "vacuum" THEN engine.cVac ELSE engine.cE]
<1>1. W!NoRead \in ReadOf /\ ~ W!NoRead.ok
  BY DEF W!NoRead, ReadOf
<1>2. CASE r = W!NoRead
  BY <1>1, <1>2
<1>3. CASE r # W!NoRead
  <2>1. r \in W!Readable
    BY <1>3 DEF W!ReadNow
  <2>2. r = [ok |-> TRUE,
             a |-> IF wait = "vacuum" THEN engine.cTo ELSE engine.cS,
             b |-> IF wait = "vacuum" THEN engine.cVac ELSE engine.cE]
    BY <2>1 DEF W!Readable
  <2>3. engine.cTo \in Nat /\ engine.cS \in Nat /\ engine.cVac \in Nat /\ engine.cE \in Nat
    BY DEF EngineType, Engines
  <2> QED BY <2>2, <2>3 DEF ReadOf
<1> QED BY <1>2, <1>3

\* What an engine that goes on, or loses its watcher, keeps.
LEMMA EngineKeeps == ASSUME WaitInv, W!Engine PROVE WaitInv'
<1> USE DEF WaitInv
<1>1. EngineType'
  <2>1. engine' \in Engines
    BY MakesHandOver, MakesVacuums, MakesStarts, MakesEnds, MakesFails
       DEF W!Engine, W!Steps, EngineType
  <2> QED BY <2>1 DEF W!Engine, EngineType
<1>2. VacuumInv'
  <2> SUFFICES ASSUME wait = "vacuum" PROVE VacuumInv'
    BY DEF VacuumInv, W!Engine
  <2>1. wAt' = "read" /\ UNCHANGED <<wait, wAt>>
    BY DEF VacuumInv, W!Engine
  <2>2. engine'.cVac <= engine'.vac /\ engine'.vac <= engine'.to
    <3>0. /\ engine.to \in Nat /\ engine.vac \in Nat /\ engine.cVac \in Nat
          /\ engine.cVac <= engine.vac /\ engine.vac <= engine.to
      BY DEF EngineType, Engines, VacuumInv
    <3>1. CASE engine' \in W!HandOver(engine)
      BY <3>0, <3>1, MakesHandOver
    <3>2. CASE engine' \in W!Vacuums(engine)
      BY <3>0, <3>2, MakesVacuums, CountIs
    <3>3. CASE engine' = engine
      BY <3>0, <3>3
    <3> QED BY <3>1, <3>2, <3>3 DEF W!Engine, W!Steps
  <2> QED BY <2>1, <2>2 DEF VacuumInv
<1>3. CheckpointInv'
  <2> SUFFICES ASSUME wait = "checkpoint" PROVE CheckpointInv'
    BY DEF CheckpointInv, W!Engine
  <2>1. /\ wAt \in {"running", "ask", "poll"}
        /\ UNCHANGED <<wait, wAt, ckpt, notes>>
    BY DEF CheckpointInv, W!Engine
  <2>2. /\ engine.s \in Nat /\ engine.e \in Nat /\ engine.cS \in Nat /\ engine.cE \in Nat
        /\ ckpt.from \in Nat
    BY DEF EngineType, Engines, Counters
  <2>3. CASE engine' \in W!Starts(engine) /\ watcher' = watcher
    BY <2>1, <2>2, <2>3, MakesStarts, CountIs DEF CheckpointInv
  <2>4. CASE engine' \in W!Ends(engine) /\ watcher' = watcher
    BY <2>1, <2>2, <2>4, MakesEnds, CountIs DEF CheckpointInv
  <2>5. CASE engine' \in W!Fails(engine) /\ watcher' = watcher
    BY <2>1, <2>2, <2>5, MakesFails DEF CheckpointInv
  <2>6. CASE watcher' = FALSE /\ engine' = engine
    BY <2>1, <2>2, <2>6 DEF CheckpointInv
  <2> QED BY <2>3, <2>4, <2>5, <2>6 DEF W!Engine, W!Steps
<1> QED BY <1>1, <1>2, <1>3

\* waitVacuum: the watcher armed again says so.
LEMMA RearmKeeps == ASSUME WaitInv, W!Rearm PROVE WaitInv'
<1> USE DEF WaitInv
<1>1. EngineType'
  <2>1. /\ UNCHANGED <<wait, engine, ckpt>> /\ watcher' \in {TRUE, watcher}
        /\ reads' \in {<<>>, reads}
    BY DEF W!Rearm
  <2>2. <<>> \in Seq(ReadOf)
    OBVIOUS
  <2> QED BY <2>1, <2>2 DEF EngineType
<1>2. VacuumInv'
  BY DEF W!Rearm, VacuumInv, W!Return
<1>3. CheckpointInv'
  BY DEF W!Rearm, CheckpointInv
<1> QED BY <1>1, <1>2, <1>3

\* The last of the reads that are idle was readable and had none behind.
LEMMA IdleIs ==
    ASSUME NEW rs \in Seq(ReadOf), W!Idle(rs)
    PROVE  Len(rs) >= 2 /\ rs[Len(rs)].ok /\ rs[Len(rs)].a <= rs[Len(rs)].b
<1>1. Len(rs) \in Nat /\ Len(rs) >= 2 /\ rs[Len(rs)] \in ReadOf
  BY DEF W!Idle
<1>2. PICK need \in {2, 3} :
        \A k \in (Len(rs) - need + 1)..Len(rs) :
          rs[k].ok /\ W!Backlog(rs[k]) <= 0 /\ rs[k].b = rs[Len(rs)].b
  BY DEF W!Idle
<1>3. Len(rs) \in (Len(rs) - need + 1)..Len(rs)
  BY <1>1
<1>4. rs[Len(rs)].ok /\ rs[Len(rs)].a - rs[Len(rs)].b <= 0
  BY <1>2, <1>3 DEF W!Backlog
<1>5. rs[Len(rs)].a \in Nat /\ rs[Len(rs)].b \in Nat
  BY <1>1 DEF ReadOf
<1> QED BY <1>1, <1>4, <1>5

LEMMA ReadVacuumKeeps == ASSUME WaitInv, W!ReadVacuum PROVE WaitInv'
<1> USE DEF WaitInv
<1>1. /\ wait = "vacuum" /\ wAt = "read"
      /\ UNCHANGED <<wait, watcher, ckpt>>
  BY DEF W!ReadVacuum
<1>2. PICK r \in W!ReadNow :
        LET rs == Append(reads, r) pr == W!Noticed(r) IN
        /\ reads' = IF Len(rs) > 3 THEN Tail(rs) ELSE rs
        /\ IF W!Idle(rs) THEN W!Return("") /\ UNCHANGED <<engine, pusher>>
           ELSE IF W!Want(pr, rs)
           THEN /\ W!Push \/ UNCHANGED engine
                /\ notes' = TRUE /\ UNCHANGED wAt
           ELSE UNCHANGED <<engine, wAt, notes>>
  BY DEF W!ReadVacuum
<1> DEFINE rs == Append(reads, r)
<1>3. r \in ReadOf /\ (r.ok => r.a = engine.cTo /\ r.b = engine.cVac)
  BY <1>1, ReadIs
<1>4. /\ rs \in Seq(ReadOf) /\ Len(rs) \in Nat /\ rs # <<>> /\ rs[Len(rs)] = r
      /\ Tail(rs) \in Seq(ReadOf)
  BY <1>3 DEF EngineType
<1>5. reads' \in Seq(ReadOf)
  BY <1>2, <1>4
<1>6. engine' = engine \/ engine' = [engine EXCEPT !.held = FALSE]
  BY <1>2 DEF W!Push
<1>7. engine \in Engines
  BY DEF EngineType
<1>8. /\ engine' \in Engines /\ engine'.cVac = engine.cVac /\ engine'.vac = engine.vac
      /\ engine'.to = engine.to /\ engine'.cTo = engine.cTo
  BY <1>6, <1>7 DEF Engines
<1>9. EngineType'
  BY <1>1, <1>5, <1>8 DEF EngineType
<1>10. CASE W!Idle(rs)
  <2>1. wAt' = "done" /\ engine.cTo <= engine.cVac
    BY <1>2, <1>3, <1>4, <1>10, IdleIs DEF W!Return
  <2>2. VacuumInv'
    BY <1>1, <1>8, <2>1 DEF VacuumInv
  <2> QED BY <1>1, <1>9, <2>2 DEF CheckpointInv
<1>11. CASE ~ W!Idle(rs)
  <2>1. wAt' = "read"
    BY <1>1, <1>2, <1>11
  <2>2. VacuumInv'
    BY <1>1, <1>8, <2>1 DEF VacuumInv
  <2> QED BY <1>1, <1>9, <2>2 DEF CheckpointInv
<1> QED BY <1>10, <1>11

LEMMA BoundKeeps == ASSUME WaitInv, W!Bound PROVE WaitInv'
<1> USE DEF WaitInv
<1>1. /\ wAt' = "done" /\ notes' = TRUE /\ wAt \in {"read", "poll"}
      /\ UNCHANGED <<wait, engine, watcher, reads, ckpt>>
  BY DEF W!Bound, W!Return
<1>2. EngineType'
  BY <1>1 DEF EngineType
<1>3. VacuumInv'
  BY <1>1 DEF VacuumInv
<1>4. CheckpointInv'
  BY <1>1 DEF CheckpointInv
<1> QED BY <1>2, <1>3, <1>4

\* checkpointWait: a read through a watcher that was down says so.
LEMMA NextReadIs ==
    ASSUME EngineType, NEW r \in W!ReadNow \cup {W!NoRead},
           NEW rearmed \in BOOLEAN, NEW said \in BOOLEAN,
           W!NextRead(r, rearmed, said)
    PROVE  /\ watcher' \in BOOLEAN /\ (rearmed => said /\ watcher')
           /\ ~ said => watcher /\ watcher' = watcher /\ ~ rearmed
           /\ r.ok /\ ~ said => watcher
           /\ r.ok /\ ~ rearmed => watcher /\ ~ said
           /\ watcher => ~ said /\ watcher' = watcher
           /\ watcher' => watcher \/ rearmed
<1>1. watcher \in BOOLEAN /\ ~ W!NoRead.ok
  BY DEF EngineType, W!NoRead
<1>2. CASE watcher
  <2>1. ~ rearmed /\ ~ said /\ watcher' = watcher
    BY <1>2 DEF W!NextRead
  <2> QED BY <1>1, <1>2, <2>1
<1>3. CASE ~ watcher
  <2>1. /\ said
        /\ \/ r = W!NoRead /\ ~ rearmed /\ watcher' = watcher
           \/ rearmed /\ watcher' = TRUE
    BY <1>3 DEF W!NextRead
  <2>2. CASE r = W!NoRead /\ ~ rearmed /\ watcher' = watcher
    BY <1>1, <1>3, <2>1, <2>2
  <2>3. CASE rearmed /\ watcher' = TRUE
    BY <1>1, <1>3, <2>1, <2>3
  <2> QED BY <2>1, <2>2, <2>3
<1> QED BY <1>2, <1>3

\* ask: at most one is started.
LEMMA AskIs ==
    ASSUME WaitInv, wait = "checkpoint", W!Ask
    PROVE  /\ engine' \in Engines
           /\ \/ engine' = engine
              \/ /\ ~ engine.on /\ engine'.on /\ engine'.s = engine.s + 1
                 /\ engine'.e = engine.e /\ engine'.seen = engine.seen
                 /\ engine'.cE = engine.cE /\ engine'.cS = W!Count(engine.cS)
<1> USE DEF WaitInv
<1>1. CASE engine' = engine
  BY <1>1 DEF EngineType
<1>2. CASE engine' # engine
  <2>1. engine' \in W!Starts(engine)
    BY <1>2 DEF W!Ask
  <2> QED BY <2>1, MakesStarts
<1> QED BY <1>1, <1>2

\* What is so of the engine's checkpoints whatever was counted.
Checkpoints ==
    /\ engine.e <= engine.s /\ (engine.on => engine.e < engine.s)
    /\ engine.e = engine.s => engine.seen = engine.s

LEMMA AskKeeps ==
    ASSUME WaitInv, wait = "checkpoint", W!Ask
    PROVE  /\ Checkpoints' /\ engine.s <= engine'.s
           /\ watcher /\ engine.cS = engine.s /\ engine.cE = engine.e =>
                 engine'.cS = engine'.s /\ engine'.cE = engine'.e
<1> USE DEF WaitInv
<1>1. /\ engine.s \in Nat /\ engine.e \in Nat /\ engine.cS \in Nat /\ engine.cE \in Nat
  BY DEF EngineType, Engines
<1>2. Checkpoints
  BY DEF CheckpointInv, Checkpoints
<1>3. CASE engine' = engine
  BY <1>1, <1>2, <1>3 DEF Checkpoints
<1>4. CASE engine' # engine
  BY <1>1, <1>2, <1>4, AskIs, CountIs DEF Checkpoints
<1> QED BY <1>3, <1>4

LEMMA BaselineKeeps == ASSUME WaitInv, W!Baseline PROVE WaitInv'
<1> USE DEF WaitInv
<1>1. wait = "checkpoint" /\ wAt = "new" /\ UNCHANGED <<wait, reads>>
  BY DEF W!Baseline
<1>2. PICK r \in W!ReadNow \cup {W!NoRead}, rearmed \in BOOLEAN, said \in BOOLEAN :
          /\ W!NextRead(r, rearmed, said)
          /\ IF ~ r.ok THEN W!Ask /\ wAt' = "done" /\ notes' = TRUE /\ UNCHANGED ckpt
             ELSE LET off == W!Shrink(ckpt.offset, r) IN
                  /\ ckpt' = [ckpt EXCEPT !.base = r, !.offset = off,
                                !.from = engine.s,
                                !.hidden = engine.on /\ W!Backlog(r) <= off]
                  /\ notes' = (notes \/ said \/ ckpt.offset # 0)
                  /\ wAt' = IF W!Backlog(r) > off THEN "running" ELSE "ask"
                  /\ UNCHANGED engine
  BY DEF W!Baseline
<1>3. watcher' = watcher /\ watcher = TRUE
  <2>1. watcher /\ watcher \in BOOLEAN
    BY <1>1 DEF CheckpointInv, EngineType
  <2> QED BY <1>2, <2>1, NextReadIs
<1>4. VacuumInv'
  BY <1>1 DEF VacuumInv
<1>5. CASE ~ r.ok
  <2>1. W!Ask /\ wAt' = "done" /\ notes' = TRUE /\ UNCHANGED ckpt
    BY <1>2, <1>5
  <2>2. EngineType'
    BY <1>1, <1>3, <2>1, AskIs DEF EngineType
  <2>3. Checkpoints'
    BY <1>1, <2>1, AskKeeps
  <2>4. CheckpointInv'
    BY <1>1, <2>1, <2>3 DEF CheckpointInv, Checkpoints
  <2> QED BY <1>4, <2>2, <2>4
<1>6. CASE r.ok
  <2> DEFINE off == W!Shrink(ckpt.offset, r)
  <2>1. /\ ckpt' = [ckpt EXCEPT !.base = r, !.offset = off, !.from = engine.s,
                      !.hidden = engine.on /\ W!Backlog(r) <= off]
        /\ notes' = (notes \/ said \/ ckpt.offset # 0)
        /\ wAt' = IF W!Backlog(r) > off THEN "running" ELSE "ask"
        /\ UNCHANGED engine
    BY <1>2, <1>6
  <2>2. r.a = engine.cS /\ r.b = engine.cE
    BY <1>1, <1>6, ReadIs
  <2>3. /\ engine.s \in Nat /\ engine.e \in Nat /\ engine.cS \in Nat /\ engine.cE \in Nat
        /\ ckpt \in Counters /\ ckpt.offset \in Int /\ r \in ReadOf
    BY <1>1, ReadIs DEF EngineType, Engines, Counters
  <2>4. W!Backlog(r) = engine.cS - engine.cE /\ off \in Int
        /\ (ckpt.offset = 0 => off = (IF engine.cS - engine.cE < 0
                                      THEN engine.cS - engine.cE ELSE 0))
    BY <1>6, <2>2, <2>3 DEF W!Backlog, W!Shrink
  <2> DEFINE hid == engine.on /\ W!Backlog(r) <= off
  <2>5. hid \in BOOLEAN
    OBVIOUS
  <2> HIDE DEF off, hid
  <2>6. ckpt' = [ckpt EXCEPT !.base = r, !.offset = off, !.from = engine.s, !.hidden = hid]
    BY <2>1 DEF hid
  <2>7. /\ ckpt' \in Counters /\ ckpt'.base = r /\ ckpt'.offset = off
        /\ ckpt'.from = engine.s /\ ckpt'.hidden = hid
        /\ ckpt'.given = ckpt.given /\ ckpt.given > 0
    BY <1>1, <2>3, <2>4, <2>5, <2>6 DEF Counters, CheckpointInv
  <2>8. ~ notes' => ckpt.offset = 0
    BY <2>1, Zenon
  <2>9. EngineType'
    BY <1>1, <1>3, <2>1, <2>7 DEF EngineType
  <2>10. Checkpoints'
    BY <1>1, <2>1 DEF CheckpointInv, Checkpoints
  <2>11. CheckpointInv'
    <3>1. wAt' \in {"running", "ask"} /\ wAt' = (IF engine.cS - engine.cE > off
                                                THEN "running" ELSE "ask")
      BY <2>1, <2>4
    <3>2. CASE engine.on
      <4>1. engine.cS \in {0, 1} /\ engine.s = 1 /\ engine.cE = 0 /\ engine.e = 0
        BY <1>1, <3>2 DEF CheckpointInv
      <4>2. ~ notes' => off = 0
        BY <2>4, <2>8, <4>1
      <4>3. hid <=> engine.cS - engine.cE <= off
        BY <2>4, <3>2 DEF hid
      <4>4. ~ notes' /\ ~ ckpt'.hidden => engine.cS = 1 /\ wAt' = "running"
        BY <2>7, <3>1, <4>1, <4>2, <4>3
      <4> QED BY <1>1, <1>6, <2>1, <2>2, <2>3, <2>7, <2>10, <3>1, <4>1, <4>2, <4>4
              DEF CheckpointInv, Checkpoints
    <3>3. CASE ~ engine.on
      <4>1. engine.cS = 0 /\ engine.s = 0 /\ engine.cE = 0 /\ engine.e = 0
        BY <1>1, <3>3 DEF CheckpointInv
      <4>2. ~ notes' => off = 0 /\ wAt' = "ask"
        BY <2>4, <2>8, <3>1, <4>1
      <4> QED BY <1>1, <1>6, <2>1, <2>2, <2>3, <2>7, <2>10, <3>1, <4>1, <4>2
              DEF CheckpointInv, Checkpoints, Even
    <3> QED BY <3>2, <3>3
  <2> QED BY <1>4, <2>9, <2>11
<1> QED BY <1>5, <1>6

LEMMA AwaitRunningKeeps == ASSUME WaitInv, W!AwaitRunning PROVE WaitInv'
<1> USE DEF WaitInv
<1>1. wait = "checkpoint" /\ wAt = "running" /\ UNCHANGED <<wait, reads, engine>>
  BY DEF W!AwaitRunning
<1>2. PICK r \in W!ReadNow \cup {W!NoRead}, rearmed \in BOOLEAN, said \in BOOLEAN :
          LET base == IF r.ok THEN r ELSE ckpt.base
              ahead == W!Backlog(base) > ckpt.offset
              given == ckpt.given - 1 IN
          /\ W!NextRead(r, rearmed, said)
          /\ ckpt' = [ckpt EXCEPT !.base = base, !.given = given,
                        !.from = IF r.ok THEN engine.s ELSE @,
                        !.offset = IF ahead /\ given = 0 THEN W!Backlog(base) ELSE @]
          /\ wAt' = IF ahead /\ given > 0 THEN "running" ELSE "ask"
          /\ notes' = (notes \/ said \/ (ahead /\ given = 0))
  BY DEF W!AwaitRunning
<1> DEFINE base == IF r.ok THEN r ELSE ckpt.base
           ahead == W!Backlog(base) > ckpt.offset
           given == ckpt.given - 1
           from == IF r.ok THEN engine.s ELSE ckpt.from
           off == IF ahead /\ given = 0 THEN W!Backlog(base) ELSE ckpt.offset
<1>3. /\ ckpt' = [ckpt EXCEPT !.base = base, !.given = given, !.from = from, !.offset = off]
      /\ wAt' = (IF ahead /\ given > 0 THEN "running" ELSE "ask")
      /\ notes' = (notes \/ said \/ (ahead /\ given = 0))
  BY <1>2
<1>4. /\ r \in ReadOf /\ ckpt \in Counters /\ ckpt.offset \in Int /\ ckpt.given \in Int
      /\ ckpt.base \in ReadOf /\ ckpt.from \in Nat /\ ckpt.given > 0
      /\ engine.s \in Nat /\ engine.e \in Nat /\ engine.cS \in Nat /\ engine.cE \in Nat
  BY <1>1, ReadIs DEF EngineType, Engines, Counters, CheckpointInv
<1>5. base \in ReadOf /\ W!Backlog(base) = base.a - base.b /\ base.a \in Nat /\ base.b \in Nat
  BY <1>4 DEF ReadOf, W!Backlog
<1>6. given \in Nat /\ from \in Nat /\ off \in Int
  BY <1>4, <1>5
<1>7. r.ok => base = r /\ r.a = engine.cS /\ r.b = engine.cE
  BY <1>1, ReadIs
<1>8. ~ r.ok => base = ckpt.base /\ from = ckpt.from
  OBVIOUS
<1>9. r.ok => from = engine.s
  OBVIOUS
<1>10. ahead <=> base.a - base.b > ckpt.offset
  BY <1>5
<1>11. ~ (ahead /\ given = 0) => off = ckpt.offset
  OBVIOUS
<1>12. ~ notes' => ~ notes /\ ~ said /\ ~ (ahead /\ given = 0)
  BY <1>3, Zenon
<1> HIDE DEF base, ahead, given, from, off
<1>13. /\ ckpt' \in Counters /\ ckpt'.base = base /\ ckpt'.given = given
       /\ ckpt'.from = from /\ ckpt'.offset = off /\ ckpt'.hidden = ckpt.hidden
  <2>1. ckpt' = [base |-> base, offset |-> off, misses |-> ckpt.misses, given |-> given,
                 from |-> from, hidden |-> ckpt.hidden]
    BY <1>3, <1>4 DEF Counters
  <2>2. ckpt.misses \in Nat /\ ckpt.hidden \in BOOLEAN
    BY <1>4 DEF Counters
  <2> QED BY <1>5, <1>6, <2>1, <2>2 DEF Counters
<1>14. watcher' \in BOOLEAN /\ (~ said => watcher /\ watcher' = watcher)
  BY <1>2, NextReadIs
<1>15. EngineType'
  BY <1>1, <1>13, <1>14 DEF EngineType
<1>16. VacuumInv'
  BY <1>1 DEF VacuumInv
<1>17. Checkpoints'
  BY <1>1 DEF CheckpointInv, Checkpoints
<1>18. CheckpointInv'
  <2>1. wAt' \in {"running", "ask"} /\ (wAt' = "running" => ahead /\ given > 0)
        /\ (wAt' = "ask" => ~ (ahead /\ given > 0))
    BY <1>3
  <2>2. ASSUME ~ notes', ~ ckpt'.hidden
        PROVE  /\ ckpt.offset = 0 /\ off = 0 /\ engine.cS = engine.s /\ engine.cE = engine.e
               /\ ckpt.from <= engine.s /\ ckpt.base.ok /\ ckpt.base.a > ckpt.base.b
    BY <1>1, <1>11, <1>12, <1>13, <1>14, <2>2 DEF CheckpointInv
  <2>3. ASSUME ~ notes', ~ ckpt'.hidden, r.ok
        PROVE  /\ ckpt'.offset = 0 /\ ckpt'.from <= engine.s
               /\ wAt' = "running" => ckpt'.base.ok /\ ckpt'.base.a > ckpt'.base.b
               /\ wAt' = "ask" => Even(ckpt'.base) /\ ckpt'.base.a = ckpt'.from
    <3>1. engine.e <= engine.s /\ base = r /\ from = engine.s
      BY <1>1, <1>7, <1>9, <2>3 DEF CheckpointInv
    <3>2. wAt' = "ask" => ~ ahead
      BY <1>6, <1>12, <2>1, <2>3
    <3> QED BY <1>4, <1>7, <1>10, <1>13, <2>1, <2>2, <2>3, <3>1, <3>2 DEF Even
  <2>4. ASSUME ~ notes', ~ ckpt'.hidden, ~ r.ok
        PROVE  /\ ckpt'.offset = 0 /\ ckpt'.from <= engine.s /\ wAt' = "running"
               /\ ckpt'.base.ok /\ ckpt'.base.a > ckpt'.base.b
    <3>1. ahead
      BY <1>4, <1>5, <1>8, <1>10, <2>2, <2>4
    <3> QED BY <1>6, <1>8, <1>12, <1>13, <2>1, <2>2, <2>4, <3>1
  <2> QED BY <1>1, <1>6, <1>13, <1>17, <2>1, <2>2, <2>3, <2>4
          DEF CheckpointInv, Checkpoints
<1> QED BY <1>15, <1>16, <1>18

LEMMA AskFirstKeeps == ASSUME WaitInv, W!AskFirst PROVE WaitInv'
<1> USE DEF WaitInv
<1>1. /\ wait = "checkpoint" /\ wAt = "ask" /\ wAt' = "poll" /\ W!Ask
      /\ UNCHANGED <<wait, watcher, reads, ckpt, notes>>
  BY DEF W!AskFirst, W!Goes
<1>2. /\ engine.s \in Nat /\ engine'.s \in Nat /\ ckpt.from \in Nat /\ engine' \in Engines
  BY <1>1, AskIs DEF EngineType, Engines, Counters
<1>3. EngineType'
  BY <1>1, <1>2 DEF EngineType
<1>4. VacuumInv'
  BY <1>1 DEF VacuumInv
<1>5. Checkpoints' /\ engine.s <= engine'.s
      /\ (watcher /\ engine.cS = engine.s /\ engine.cE = engine.e =>
              engine'.cS = engine'.s /\ engine'.cE = engine'.e)
  BY <1>1, AskKeeps
<1>6. CheckpointInv'
  BY <1>1, <1>2, <1>5 DEF CheckpointInv, Checkpoints
<1> QED BY <1>3, <1>4, <1>6

LEMMA PollKeeps == ASSUME WaitInv, W!Poll PROVE WaitInv'
<1> USE DEF WaitInv
<1>1. wait = "checkpoint" /\ wAt = "poll" /\ UNCHANGED <<wait, reads>>
  BY DEF W!Poll
<1>2. PICK r \in W!ReadNow \cup {W!NoRead}, rearmed \in BOOLEAN, said \in BOOLEAN :
          LET off == IF rearmed THEN ckpt.offset ELSE W!Shrink(ckpt.offset, r)
              base == IF \/ rearmed /\ r.ok
                         \/ r.ok /\ r.a = ckpt.base.a /\ r.b > ckpt.base.b
                      THEN r ELSE ckpt.base
              misses == IF r.ok THEN 0 ELSE ckpt.misses + 1 IN
          /\ W!NextRead(r, rearmed, said)
          /\ ckpt' = [ckpt EXCEPT !.offset = off, !.base = base, !.misses = misses,
                        !.from = IF base # ckpt.base THEN engine.s ELSE @]
          /\ \/ rearmed /\ r.ok /\ W!Ask /\ wAt' = "poll" /\ notes' = TRUE
             \/ /\ ~ r.ok
                /\ IF misses >= OfWait.unreadable THEN W!Return("note")
                   ELSE UNCHANGED wAt /\ notes' = (notes \/ said)
                /\ UNCHANGED engine
             \/ /\ r.ok /\ ~ rearmed /\ W!Done(base, r)
                /\ W!Return("") /\ UNCHANGED engine
             \/ /\ r.ok /\ ~ rearmed /\ ~ W!Done(base, r)
                /\ \/ r.a = base.a /\ left > 1 /\ W!Ask
                   \/ UNCHANGED engine
                /\ UNCHANGED <<wAt, notes>>
  BY DEF W!Poll
<1> DEFINE off == IF rearmed THEN ckpt.offset ELSE W!Shrink(ckpt.offset, r)
           base == IF \/ rearmed /\ r.ok
                      \/ r.ok /\ r.a = ckpt.base.a /\ r.b > ckpt.base.b
                   THEN r ELSE ckpt.base
           misses == IF r.ok THEN 0 ELSE ckpt.misses + 1
           from == IF base # ckpt.base THEN engine.s ELSE ckpt.from
<1>3. ckpt' = [ckpt EXCEPT !.offset = off, !.base = base, !.misses = misses, !.from = from]
  BY <1>2
<1>4. /\ r \in ReadOf /\ ckpt \in Counters /\ ckpt.offset \in Int /\ ckpt.given \in Int
      /\ ckpt.base \in ReadOf /\ ckpt.from \in Nat /\ ckpt.misses \in Nat
      /\ ckpt.hidden \in BOOLEAN
      /\ engine.s \in Nat /\ engine.e \in Nat /\ engine.cS \in Nat /\ engine.cE \in Nat
      /\ engine.seen \in Nat
  BY <1>1, ReadIs DEF EngineType, Engines, Counters, CheckpointInv
<1>5. W!Backlog(r) = r.a - r.b /\ r.a \in Nat /\ r.b \in Nat
      /\ ckpt.base.a \in Nat /\ ckpt.base.b \in Nat
  BY <1>4 DEF ReadOf, W!Backlog
<1>6. off \in Int /\ base \in ReadOf /\ misses \in Nat /\ from \in Nat
  BY <1>4, <1>5 DEF W!Shrink
<1>7. r.ok => r.a = engine.cS /\ r.b = engine.cE
  BY <1>1, ReadIs
<1>8. base = ckpt.base => from = ckpt.from
  OBVIOUS
<1>9. ~ r.ok => base = ckpt.base
  OBVIOUS
<1>10. r.ok /\ ~ rearmed /\ ~ (r.a = ckpt.base.a /\ r.b > ckpt.base.b) => base = ckpt.base
  OBVIOUS
<1>11. ckpt.offset = 0 /\ ~ rearmed /\ (r.ok => r.b <= r.a) => off = 0
  BY <1>5 DEF W!Shrink
<1> HIDE DEF off, base, misses, from
<1>12. /\ ckpt' \in Counters /\ ckpt'.base = base /\ ckpt'.given = ckpt.given
       /\ ckpt'.from = from /\ ckpt'.offset = off /\ ckpt'.hidden = ckpt.hidden
  <2>1. ckpt' = [base |-> base, offset |-> off, misses |-> misses, given |-> ckpt.given,
                 from |-> from, hidden |-> ckpt.hidden]
    BY <1>3, <1>4 DEF Counters
  <2> QED BY <1>4, <1>6, <2>1 DEF Counters
<1>13. /\ watcher' \in BOOLEAN /\ (~ said => watcher /\ watcher' = watcher /\ ~ rearmed)
       /\ (r.ok /\ ~ rearmed => watcher /\ watcher' = watcher)
  BY <1>2, NextReadIs
<1>14. VacuumInv'
  BY <1>1 DEF VacuumInv
\* While nothing was said the baseline is the one it was.
<1>15. ASSUME ~ notes, ~ ckpt.hidden, watcher, ~ rearmed
       PROVE  /\ off = 0 /\ base = ckpt.base /\ from = ckpt.from
              /\ engine.cS = engine.s /\ engine.cE = engine.e /\ engine.e <= engine.s
              /\ Even(ckpt.base) /\ ckpt.base.a = ckpt.from /\ ckpt.from <= engine.s
  <2>1. /\ engine.cS = engine.s /\ engine.cE = engine.e /\ engine.e <= engine.s
        /\ Even(ckpt.base) /\ ckpt.base.a = ckpt.from /\ ckpt.from <= engine.s
        /\ ckpt.offset = 0
    BY <1>1, <1>15 DEF CheckpointInv
  <2>2. off = 0
    BY <1>4, <1>7, <1>11, <1>15, <2>1
  <2>3. base = ckpt.base
    BY <1>4, <1>5, <1>7, <1>9, <1>10, <1>15, <2>1 DEF Even
  <2> QED BY <1>8, <2>1, <2>2, <2>3
<1>16. CASE rearmed /\ r.ok /\ W!Ask /\ wAt' = "poll" /\ notes' = TRUE
  <2>1. EngineType'
    BY <1>1, <1>12, <1>13, <1>16, AskIs DEF EngineType
  <2>2. Checkpoints'
    BY <1>1, <1>16, AskKeeps
  <2>3. CheckpointInv'
    BY <1>1, <1>16, <2>2 DEF CheckpointInv, Checkpoints
  <2> QED BY <1>14, <2>1, <2>3
<1>17. CASE /\ ~ r.ok
            /\ IF misses >= OfWait.unreadable THEN W!Return("note")
               ELSE UNCHANGED wAt /\ notes' = (notes \/ said)
            /\ UNCHANGED engine
  <2>1. \/ wAt' = "done" /\ notes'
        \/ wAt' = "poll" /\ (~ notes' => ~ notes /\ ~ said)
    BY <1>1, <1>17 DEF W!Return
  <2>2. EngineType'
    BY <1>1, <1>12, <1>13, <1>17 DEF EngineType
  <2>3. Checkpoints'
    BY <1>1, <1>17 DEF CheckpointInv, Checkpoints
  <2>4. CASE notes'
    <3>1. wAt' \in {"done", "poll"}
      BY <2>1
    <3>2. CheckpointInv'
      BY <1>1, <2>3, <2>4, <3>1 DEF CheckpointInv, Checkpoints
    <3> QED BY <1>14, <2>2, <3>2
  <2>5. CASE ~ notes'
    <3>1. wAt' = "poll" /\ ~ notes /\ ~ said /\ watcher /\ watcher' /\ ~ rearmed
      BY <1>13, <2>1, <2>5
    <3>2. ckpt'.hidden \/ CheckpointInv'
      BY <1>1, <1>12, <1>15, <1>17, <2>3, <3>1 DEF CheckpointInv, Checkpoints
    <3>3. ckpt'.hidden => CheckpointInv'
      BY <1>1, <2>3, <3>1 DEF CheckpointInv, Checkpoints
    <3> QED BY <3>2, <3>3, <1>14, <2>2
  <2> QED BY <1>14, <2>2, <2>4, <2>5
<1>18. CASE r.ok /\ ~ rearmed /\ W!Done(base, r) /\ W!Return("") /\ UNCHANGED engine
  <2>1. wAt' = "done" /\ (~ notes' => ~ notes)
    BY <1>18 DEF W!Return
  <2>2. EngineType'
    BY <1>1, <1>12, <1>13, <1>18 DEF EngineType
  <2>3. Checkpoints /\ Checkpoints'
    BY <1>1, <1>18 DEF CheckpointInv, Checkpoints
  <2>4. ASSUME ~ notes', ~ ckpt'.hidden
        PROVE  /\ ckpt'.offset = 0 /\ ckpt'.from <= engine.s
               /\ engine.seen > ckpt'.from /\ engine.seen = engine.s
    <3>1. ~ notes /\ ~ ckpt.hidden /\ watcher
      BY <1>12, <1>13, <1>18, <2>1, <2>4
    <3>2. /\ base = ckpt.base /\ engine.cS = engine.s /\ engine.cE = engine.e
          /\ engine.e <= engine.s /\ ckpt.base.a = ckpt.base.b /\ ckpt.base.a = ckpt.from
      BY <1>15, <1>18, <3>1 DEF Even
    <3>3. engine.s > ckpt.base.a /\ engine.e - ckpt.base.b >= engine.s - ckpt.base.a
      BY <1>7, <1>18, <3>2 DEF W!Done
    <3>4. engine.e = engine.s /\ engine.s > ckpt.from
      BY <1>4, <1>5, <3>2, <3>3
    <3> QED BY <1>12, <1>15, <1>18, <2>3, <3>1, <3>4 DEF Checkpoints
  <2>5. CheckpointInv'
    BY <1>1, <1>18, <2>1, <2>3, <2>4 DEF CheckpointInv, Checkpoints
  <2> QED BY <1>14, <2>2, <2>5
<1>19. CASE /\ r.ok /\ ~ rearmed
            /\ W!Ask \/ UNCHANGED engine
            /\ UNCHANGED <<wAt, notes>>
  <2>1. EngineType' /\ engine' \in Engines
    BY <1>1, <1>12, <1>13, <1>19, AskIs DEF EngineType
  <2>2. Checkpoints' /\ engine.s <= engine'.s
        /\ (watcher /\ engine.cS = engine.s /\ engine.cE = engine.e =>
                engine'.cS = engine'.s /\ engine'.cE = engine'.e)
    <3>1. CASE W!Ask
      BY <1>1, <3>1, AskKeeps
    <3>2. CASE UNCHANGED engine
      BY <1>1, <1>4, <3>2 DEF CheckpointInv, Checkpoints
    <3> QED BY <1>19, <3>1, <3>2
  <2>3. engine'.s \in Nat
    BY <2>1 DEF Engines
  <2>4. CheckpointInv'
    <3>1. CASE notes \/ ckpt'.hidden
      BY <1>1, <1>12, <1>19, <2>2, <3>1 DEF CheckpointInv, Checkpoints
    <3>2. CASE ~ notes /\ ~ ckpt'.hidden
      BY <1>1, <1>4, <1>12, <1>13, <1>15, <1>19, <2>2, <2>3, <3>2
         DEF CheckpointInv, Checkpoints
    <3> QED BY <3>1, <3>2
  <2> QED BY <1>14, <2>1, <2>4
<1>20. \/ rearmed /\ r.ok /\ W!Ask /\ wAt' = "poll" /\ notes' = TRUE
       \/ /\ ~ r.ok
          /\ IF misses >= OfWait.unreadable THEN W!Return("note")
             ELSE UNCHANGED wAt /\ notes' = (notes \/ said)
          /\ UNCHANGED engine
       \/ r.ok /\ ~ rearmed /\ W!Done(base, r) /\ W!Return("") /\ UNCHANGED engine
       \/ /\ r.ok /\ ~ rearmed
          /\ W!Ask \/ UNCHANGED engine
          /\ UNCHANGED <<wAt, notes>>
  BY <1>2 DEF base, misses
<1> QED BY <1>16, <1>17, <1>18, <1>19, <1>20

LEMMA WaitKeeps == ASSUME WaitInv, W!Waits \/ W!Engine PROVE WaitInv'
  BY RearmKeeps, ReadVacuumKeeps, BoundKeeps, BaselineKeeps, AwaitRunningKeeps,
     AskFirstKeeps, PollKeeps, EngineKeeps DEF W!Waits

\* A wait with nothing to say has seen what it waited for.
LEMMA WaitPromises == WaitInv => W!VacuumDone /\ W!CheckpointOver
<1> SUFFICES ASSUME WaitInv PROVE W!VacuumDone /\ W!CheckpointOver
  OBVIOUS
<1> USE DEF WaitInv
<1>1. /\ engine.to \in Nat /\ engine.vac \in Nat /\ engine.cTo \in Nat /\ engine.cVac \in Nat
  BY DEF EngineType, Engines
<1>2. W!VacuumDone
  BY <1>1 DEF VacuumInv, W!VacuumDone
<1>3. W!CheckpointOver
  BY DEF CheckpointInv, W!CheckpointOver
<1> QED BY <1>2, <1>3

-----------------------------------------------------------------------------
(* The settle.                                                             *)

LEMMA PeerIs == H!Peer("n1") = "n2" /\ H!Peer("n2") = "n1"
<1>1. \E m \in H!Nodes : m # "n1"
  BY DEF H!Nodes
<1>2. \E m \in H!Nodes : m # "n2"
  BY DEF H!Nodes
<1> QED BY <1>1, <1>2 DEF H!Peer, H!Nodes

LEMMA HCardinality == \A T : H!Cardinality(T) = Cardinality(T)
  BY DEF H!Cardinality, Cardinality

LEMMA SettleStarts ==
    ASSUME NEW m \in H!Nodes, H!SettleInit(m) PROVE SettleInv
  BY DEF H!SettleInit, SettleInv, H!Nodes

LEMMA SettleKeeps ==
    ASSUME SettleInv, H!Settles \/ H!Heartbeat \/ H!ServerDies PROVE SettleInv'
<1> USE DEF SettleInv
<1>1. CASE H!Heartbeat
  BY <1>1, PeerIs DEF H!Heartbeat, H!Nodes
<1>2. CASE H!ServerDies
  BY <1>2, PeerIs DEF H!ServerDies, H!Nodes
<1>3. CASE H!Reading
  <2>1. PICK Q \in H!Unknowns :
          LET act == H!Seen("active", Q) stb == H!Seen("standby", Q)
              down == H!SeenDown(Q)
              S == {n \in down : H!Startable(n, act)} IN
          \/ H!Fail /\ UNCHANGED <<role, n1, cut>>
          \/ /\ \E m \in act : H!SwapRoles(m) /\ H!AfterSettle(m)
             /\ UNCHANGED <<role, cut>>
          \/ H!NodeStart(S) /\ UNCHANGED <<goal, n1>>
    BY <1>3 DEF H!Reading
  <2> DEFINE act == H!Seen("active", Q)
             S == {n \in H!SeenDown(Q) : H!Startable(n, act)}
  <2>2. goal \in {"settle", "settle again"}
    BY <1>3 DEF H!Reading
  <2>3. CASE H!Fail /\ UNCHANGED <<role, n1, cut>>
    BY <2>3 DEF H!Fail
  <2>4. CASE (\E m \in act : H!SwapRoles(m) /\ H!AfterSettle(m)) /\ UNCHANGED <<role, cut>>
    BY <2>2, <2>4 DEF H!SwapRoles, H!AfterSettle
  <2>5. CASE H!NodeStart(S) /\ UNCHANGED <<goal, n1>>
    <3>1. ASSUME NEW n \in S, role[n] = "active"
          PROVE  role[H!Peer(n)] = "active"
      <4>0. n \in H!SeenDown(Q) /\ H!Startable(n, act)
        OBVIOUS
      <4> HIDE DEF act, S
      <4>1. n \in H!SeenDown(Q) /\ Cardinality(act) = 1
        BY <4>0, HCardinality DEF H!Startable
      <4>2. n \in Q
        BY <3>1, <4>1 DEF H!SeenDown
      <4>3. act # {}
        BY <4>1, FS_EmptySet
      <4>4. PICK m \in act : TRUE
        BY <4>3
      <4>5. m \in H!Nodes /\ m \notin Q /\ role[m] = "active"
        BY <4>4 DEF H!Seen, act
      <4>6. n \in H!Nodes
        BY <4>2 DEF H!Unknowns, H!Nodes
      <4> QED BY <4>2, <4>5, <4>6, PeerIs DEF H!Nodes
    <3>2. ~ cut'
      BY <2>5, <3>1 DEF H!NodeStart
    <3>3. role' = [n \in H!Nodes |-> IF n \in S THEN "starting" ELSE role[n]]
      BY <2>5 DEF H!NodeStart
    <3> HIDE DEF S
    <3>4. role' \in [H!Nodes -> {"active", "standby", "to_be_active", "starting", "down"}]
      BY <3>3
    <3> QED BY <2>2, <2>5, <3>2, <3>4
  <2> QED BY <2>1, <2>3, <2>4, <2>5
<1>4. CASE H!CallFails
  BY <1>4 DEF H!CallFails, H!Fail
<1>5. CASE H!GiveUp
  BY <1>5 DEF H!GiveUp, H!Fail
<1>6. CASE H!Failback
  BY <1>6 DEF H!Failback, H!Nodes
<1>7. CASE H!Check
  BY <1>7, PeerIs DEF H!Check, H!Nodes
<1> QED BY <1>1, <1>2, <1>3, <1>4, <1>5, <1>6, <1>7 DEF H!Settles

LEMMA SettlePromises == SettleInv => H!MasterKept /\ H!RestoredTrue
  BY DEF SettleInv, H!MasterKept, H!RestoredTrue

-----------------------------------------------------------------------------
(* The case.                                                               *)

Nodes == {"n1", "n2"}
Hosts ==
    [paused : BOOLEAN, frozen : BOOLEAN, up : BOOLEAN, running : BOOLEAN,
     watcher : BOOLEAN, data : {"clean", "dirty", "partial"}, cached : BOOLEAN,
     master : Nodes, n1 : Nodes, dead : BOOLEAN, lost : BOOLEAN]
PassDone ==
    [side : P!Sides, rep : Nat, value : SUBSET Int, null : BOOLEAN,
     perop : SUBSET Nat, fit : BOOLEAN, blind : BOOLEAN]
PassNow ==
    [said : SUBSET {"unpaused", "watcher"}, missing : SUBSET {"l0", "statdump"},
     watched : BOOLEAN, null : BOOLEAN, time : SUBSET Int, warm : {0, 2}, fit : BOOLEAN]

Between == {"begin", "next", "restore", "done"}
AtWork == {"pause", "settle", "reset", "slave", "cold", "watch", "pre", "client",
           "after", "unpause", "record"}
LastPass == 2 * (OfPass.warmup + OfPass.repeats + OfPass.remeasure)

PassType ==
    /\ kind \in OfPass.kinds
    /\ pAt \in 1..LastPass /\ step \in Between \cup AtWork
    /\ side \in [P!Sides -> Hosts] /\ cur \in PassNow
    /\ passes \in Seq(PassDone)

\* A cluster that is paused where it need not be is marked.
PauseInv ==
    /\ step \in Between \cup {"record"} => \A s \in P!Sides : side[s].paused => side[s].frozen
    /\ step \in AtWork \ {"record"} => ~ side[P!Now].paused

\* What each step on the way to the client has seen to: the other side paused,
\* the data reset, the roles settled, the cache dropped, the watcher up.
ReadyInv ==
    LET x == side[P!Now] IN
    /\ step \in Between => cur.time = {}
    /\ step \notin {"after", "unpause", "record"} => cur.time = {}
    /\ step \in {"settle", "reset", "slave", "cold", "watch", "pre", "client"} =>
           side[P!Other(P!Now)].paused \/ "unpaused" \in cur.said
    /\ step \in {"slave", "cold", "watch", "pre", "client"} =>
           (kind.reset # "none" => x.data = "clean")
    /\ step \in {"cold", "watch", "pre", "client"} =>
           (kind.ha => x.n1 = x.master /\ ~ x.dead)
    /\ step \in {"watch", "pre", "client"} => (kind.cold => ~ x.cached)
    /\ step = "pre" /\ P!Pass.phase = "measure" => x.watcher \/ "watcher" \in cur.said
    /\ step \in {"client", "after"} \/ cur.time # {} =>
           (P!Pass.phase = "measure" => cur.watched \/ "watcher" \in cur.said)
    /\ cur.time # {} /\ ~ cur.null => cur.fit
    /\ step \in {"unpause", "record"} /\ cur.time # {} /\ ~ cur.null =>
           (kind.ha => x.n1 = x.master)

\* How many of the passes up to n are measured.
MeasuredBy(n) == IF n > 2 * OfPass.warmup THEN n - 2 * OfPass.warmup ELSE 0

\* The record is in order; a value on it is of the hosts it claims, and a
\* watched pass has counted an operation as one.
RecordInv ==
    /\ Len(passes) = MeasuredBy(IF step \in {"next", "restore", "done"} THEN pAt ELSE pAt - 1)
    /\ \A n \in DOMAIN passes :
         /\ passes[n].rep = P!Measure(n).rep /\ passes[n].side = P!Measure(n).side
         /\ passes[n].value # {} => passes[n].fit
         /\ \A q \in passes[n].perop : passes[n].blind \/ q = 1

\* A case is judged at the end of a round, on the record as it stays.
JudgedInv ==
    /\ step \in {"restore", "done"} => pAt \in P!RoundEnds
    /\ verdict # "" => step \in {"restore", "done"}
    /\ P!FlagEarned

PassInv == PassType /\ PauseInv /\ ReadyInv /\ RecordInv /\ JudgedInv

LEMMA PassGiven ==
    /\ OfPass.warmup \in Nat /\ OfPass.repeats \in Nat \ {0}
    /\ OfPass.remeasure \in Nat \ {0}
    /\ \A s \in P!Sides : OfPass.times[s] \subseteq Int
  BY PerfPartsAssumption

LEMMA OtherIs == P!Other("target") = "reference" /\ P!Other("reference") = "target"
<1>1. \E o \in P!Sides : o # "target"
  BY DEF P!Sides
<1>2. \E o \in P!Sides : o # "reference"
  BY DEF P!Sides
<1> QED BY <1>1, <1>2 DEF P!Other, P!Sides

LEMMA TurnIs ==
    ASSUME NEW n \in Nat, NEW s \in P!Sides
    PROVE  P!Turn(n, s) = (IF n % 2 = 1 THEN s ELSE P!Other(s)) /\ P!Turn(n, s) \in P!Sides
  BY OtherIs DEF P!Turn, P!Sides

LEMMA MeasureIs ==
    ASSUME NEW n \in Nat
    PROVE  /\ P!Measure(n).phase = "measure" /\ P!Measure(n).side \in P!Sides
           /\ P!Measure(n).rep = (n + 1) \div 2 /\ P!Measure(n).rep \in Nat
<1>1. (n + 1) \div 2 \in Nat
  OBVIOUS
<1> QED BY <1>1, TurnIs DEF P!Measure, P!Rep, P!Sides

\* The pass that is made, and the side it is made on.
LEMMA NowIs ==
    ASSUME PassType
    PROVE  /\ P!Now \in P!Sides /\ P!Other(P!Now) \in P!Sides /\ P!Other(P!Now) # P!Now
           /\ \A s \in P!Sides : s = P!Now \/ s = P!Other(P!Now)
           /\ P!Pass.phase = "measure" <=> pAt > 2 * OfPass.warmup
           /\ pAt > 2 * OfPass.warmup =>
                 P!Now = P!Measure(pAt - 2 * OfPass.warmup).side
                 /\ P!Pass.rep = P!Measure(pAt - 2 * OfPass.warmup).rep
<1>1. pAt \in Nat /\ pAt \in 1..LastPass
  BY PassGiven DEF PassType, LastPass
<1>2. P!Pass = IF pAt <= 2 * OfPass.warmup THEN P!Warmup(pAt)
               ELSE P!Measure(pAt - 2 * OfPass.warmup)
  BY <1>1 DEF P!Pass, P!Order, LastPass
<1>3. CASE pAt <= 2 * OfPass.warmup
  <2>1. P!Pass.phase = "warmup" /\ P!Now = P!Turn(pAt, "target")
    BY <1>2, <1>3 DEF P!Now, P!Warmup
  <2>2. P!Now \in P!Sides
    BY <1>1, <2>1, TurnIs DEF P!Sides
  <2> QED BY <1>1, <1>3, <2>1, <2>2, PassGiven, OtherIs DEF P!Sides
<1>4. CASE ~ (pAt <= 2 * OfPass.warmup)
  <2>1. pAt - 2 * OfPass.warmup \in Nat
    BY <1>1, <1>4, PassGiven
  <2>2. P!Pass = P!Measure(pAt - 2 * OfPass.warmup)
    BY <1>2, <1>4
  <2>3. P!Now \in P!Sides /\ P!Pass.phase = "measure"
    BY <2>1, <2>2, MeasureIs DEF P!Now
  <2> QED BY <1>1, <1>4, <2>2, <2>3, PassGiven, OtherIs DEF P!Sides, P!Now
<1> QED BY <1>3, <1>4

LEMMA NowStays ==
    ASSUME UNCHANGED pAt
    PROVE  UNCHANGED P!Now /\ UNCHANGED P!Pass /\ UNCHANGED P!Other(P!Now)
  BY DEF P!Now, P!Pass

\* A step of the pass leaves the record and the case's verdict as they are.
LEMMA Within ==
    ASSUME PassInv, UNCHANGED <<kind, pAt, passes, verdict>>,
           step \in AtWork \cup {"begin"}, step' \in AtWork \cup {"begin"}
    PROVE  RecordInv' /\ JudgedInv'
<1>1. verdict' = "" /\ step \notin {"next", "restore", "done"}
      /\ step' \notin {"next", "restore", "done"}
  BY DEF PassInv, JudgedInv, AtWork
<1>2. RecordInv'
  BY <1>1 DEF PassInv, RecordInv
<1>3. JudgedInv'
  BY <1>1 DEF JudgedInv, P!FlagEarned
<1> QED BY <1>2, <1>3

\* One side of the two is another.
LEMMA SideIs ==
    ASSUME PassType, NEW s \in P!Sides, NEW y \in Hosts, side' = [side EXCEPT ![s] = y]
    PROVE  /\ side' \in [P!Sides -> Hosts] /\ side'[s] = y
           /\ \A q \in P!Sides : q # s => side'[q] = side[q]
  BY DEF PassType

\* What most steps of a pass do: to the side measured, and to the pass.
LEMMA Stepped ==
    ASSUME PassInv, UNCHANGED <<kind, pAt, passes, verdict>>,
           step \in AtWork \cup {"begin"}, step' \in AtWork, cur' \in PassNow,
           NEW y \in Hosts, side' = [side EXCEPT ![P!Now] = y]
    PROVE  /\ PassType' /\ RecordInv' /\ JudgedInv'
           /\ side'[P!Now] = y /\ side'[P!Other(P!Now)] = side[P!Other(P!Now)]
           /\ step' # "record" /\ ~ y.paused => PauseInv'
           /\ UNCHANGED P!Now /\ UNCHANGED P!Pass /\ UNCHANGED P!Other(P!Now)
<1>1. PassType
  BY DEF PassInv
<1>2. /\ side' \in [P!Sides -> Hosts] /\ side'[P!Now] = y
      /\ side'[P!Other(P!Now)] = side[P!Other(P!Now)]
  BY <1>1, NowIs, SideIs
<1>3. UNCHANGED P!Now /\ UNCHANGED P!Pass /\ UNCHANGED P!Other(P!Now)
  BY NowStays
<1>4. PassType'
  BY <1>1, <1>2 DEF PassType
<1>5. step' # "record" /\ ~ y.paused => PauseInv'
  BY <1>2, <1>3 DEF PauseInv, AtWork, Between
<1> QED BY <1>2, <1>3, <1>4, <1>5, Within

\* What the steps make of a host.
LEMMA HostIs ==
    ASSUME NEW x \in Hosts
    PROVE  /\ P!Stopped(x) \in Hosts /\ P!Started(P!Stopped(x)) \in Hosts
           /\ P!Settled(x) \in Hosts /\ P!CacheRefused(x) \in Hosts
           /\ P!Stopped(x).paused = x.paused
           /\ P!Started(P!Stopped(x)).paused = x.paused
           /\ P!CacheRefused(x).paused = x.paused
<1>1. P!Stopped(x) \in Hosts /\ P!Stopped(x).paused = x.paused
  BY DEF P!Stopped, Hosts
<1>2. \A z \in Hosts : P!Started(z) \in Hosts /\ P!Started(z).paused = z.paused
  BY DEF P!Started, Hosts
<1>3. P!Settled(x) \in Hosts
  BY DEF P!Settled, Hosts, Nodes
<1> QED BY <1>1, <1>2, <1>3 DEF P!CacheRefused

\* A step that fails before the client: the pass has no value.
LEMMA Failed ==
    ASSUME PassInv, UNCHANGED <<kind, pAt, passes, verdict>>,
           step \in AtWork \ {"after", "unpause", "record"}, P!NullPass,
           NEW y \in Hosts, y.paused = side[P!Now].paused,
           side' = [side EXCEPT ![P!Now] = y]
    PROVE  PassInv'
<1>1. cur' \in PassNow /\ cur'.time = {} /\ step' = "unpause"
  BY DEF PassInv, PassType, PassNow, ReadyInv, P!NullPass
<1>2. ~ y.paused
  BY DEF PassInv, PauseInv
<1>3. PassType' /\ RecordInv' /\ JudgedInv' /\ PauseInv'
  BY <1>1, <1>2, Stepped DEF AtWork
<1>4. ReadyInv'
  BY <1>1 DEF ReadyInv, Between
<1> QED BY <1>3, <1>4 DEF PassInv

LEMMA PausedUp ==
    ASSUME PassInv, step \in AtWork \ {"record"}
    PROVE  side[P!Now] \in Hosts /\ ~ side[P!Now].paused
  BY NowIs DEF PassInv, PassType, PauseInv

\* A side that is not touched.
LEMMA Untouched ==
    ASSUME PassType, UNCHANGED side
    PROVE  side[P!Now] \in Hosts /\ side' = [side EXCEPT ![P!Now] = side[P!Now]]
  BY NowIs DEF PassType

LEMMA KeepsThaw == ASSUME PassInv, P!Thaw PROVE PassInv'
<1> DEFINE y == [side[P!Now] EXCEPT !.paused = FALSE, !.frozen = FALSE]
<1>1. PassType /\ step = "begin" /\ step' = "pause" /\ UNCHANGED <<kind, pAt, passes, verdict>>
  BY DEF PassInv, P!Thaw, P!Go
<1>2. side[P!Now] \in Hosts
  BY <1>1, NowIs DEF PassType
<1>3. y \in Hosts /\ ~ y.paused
  BY <1>2 DEF Hosts
<1>4. side' = [side EXCEPT ![P!Now] = y]
  BY <1>1, NowIs DEF P!Thaw, PassType
<1>5. cur' = P!NoPass /\ cur' \in PassNow /\ cur'.time = {}
  BY DEF P!Thaw, P!NoPass, PassNow
<1> HIDE DEF y
<1>6. PassType' /\ RecordInv' /\ JudgedInv' /\ PauseInv'
  BY <1>1, <1>3, <1>4, <1>5, Stepped DEF AtWork
<1>7. ReadyInv'
  BY <1>1, <1>5 DEF ReadyInv, Between
<1> QED BY <1>6, <1>7 DEF PassInv

LEMMA KeepsThawFails == ASSUME PassInv, P!ThawFails PROVE PassInv'
<1> DEFINE y == [side[P!Now] EXCEPT !.frozen = TRUE]
<1>1. PassType /\ step = "begin" /\ step' = "record" /\ UNCHANGED <<kind, pAt, passes, verdict>>
  BY DEF PassInv, P!ThawFails, P!Go
<1>2. side[P!Now] \in Hosts
  BY <1>1, NowIs DEF PassType
<1>3. y \in Hosts /\ y.frozen
  BY <1>2 DEF Hosts
<1>4. side' = [side EXCEPT ![P!Now] = y]
  BY <1>1, NowIs DEF P!ThawFails, PassType
<1>5. cur' \in PassNow /\ cur'.time = {}
  BY DEF P!ThawFails, P!NoPass, PassNow
<1> HIDE DEF y
<1>6. /\ PassType' /\ RecordInv' /\ JudgedInv'
      /\ side'[P!Now] = y /\ side'[P!Other(P!Now)] = side[P!Other(P!Now)]
  BY <1>1, <1>3, <1>4, <1>5, Stepped DEF AtWork
<1>7. PauseInv'
  <2>1. \A s \in P!Sides : side'[s].paused => side'[s].frozen
    <3>1. \A s \in P!Sides : side[s].paused => side[s].frozen
      BY <1>1 DEF PassInv, PauseInv, Between
    <3>2. \A s \in P!Sides : s = P!Now \/ s = P!Other(P!Now)
      BY <1>1, NowIs
    <3> QED BY <1>3, <1>6, <3>1, <3>2
  <2> QED BY <1>1, <2>1 DEF PauseInv
<1>8. ReadyInv'
  BY <1>1, <1>5 DEF ReadyInv, Between
<1> QED BY <1>6, <1>7, <1>8 DEF PassInv

LEMMA KeepsPause == ASSUME PassInv, P!PauseIdle PROVE PassInv'
<1> DEFINE o == P!Other(P!Now)
<1>1. /\ PassType /\ step = "pause" /\ step' \in {"settle", "reset"}
      /\ UNCHANGED <<kind, pAt, passes, verdict>>
  BY DEF PassInv, P!PauseIdle, P!Go
<1>2. P!Now \in P!Sides /\ o \in P!Sides /\ o # P!Now
      /\ (P!Now)' = P!Now /\ (P!Other(P!Now))' = o
  BY <1>1, NowIs, NowStays
<1>3. RecordInv' /\ JudgedInv'
  BY <1>1, Within DEF AtWork
<1>4. cur.time = {}
  BY <1>1 DEF PassInv, ReadyInv
<1>5. CASE side' = [side EXCEPT ![o].paused = TRUE] /\ UNCHANGED cur
  <2>1. side' \in [P!Sides -> Hosts] /\ side'[o].paused /\ side'[P!Now] = side[P!Now]
    <3>1. side[o] \in Hosts
      BY <1>1, <1>2 DEF PassType
    <3>2. [side[o] EXCEPT !.paused = TRUE] \in Hosts
      BY <3>1 DEF Hosts
    <3>3. side' = [side EXCEPT ![o] = [side[o] EXCEPT !.paused = TRUE]]
      BY <1>1, <1>2, <1>5 DEF PassType
    <3>4. [side[o] EXCEPT !.paused = TRUE].paused
      BY <3>1 DEF Hosts
    <3> QED BY <1>1, <1>2, <3>2, <3>3, <3>4, SideIs
  <2>2. PassType'
    BY <1>1, <1>5, <2>1 DEF PassType, AtWork
  <2>3. PauseInv'
    BY <1>1, <1>2, <2>1, PausedUp DEF PauseInv, Between, AtWork
  <2>4. ReadyInv'
    BY <1>1, <1>2, <1>4, <1>5, <2>1 DEF ReadyInv, Between
  <2> QED BY <1>3, <2>2, <2>3, <2>4 DEF PassInv
<1>6. CASE P!Say("unpaused") /\ UNCHANGED side
  <2>1. cur' \in PassNow /\ cur'.time = {} /\ "unpaused" \in cur'.said
    BY <1>1, <1>4, <1>6 DEF PassType, PassNow, P!Say
  <2>2. PassType'
    BY <1>1, <1>6, <2>1 DEF PassType, AtWork
  <2>3. PauseInv'
    BY <1>1, <1>2, <1>6, PausedUp DEF PauseInv, Between, AtWork
  <2>4. ReadyInv'
    BY <1>1, <2>1 DEF ReadyInv, Between
  <2> QED BY <1>3, <2>2, <2>3, <2>4 DEF PassInv
<1> QED BY <1>5, <1>6 DEF P!PauseIdle

LEMMA KeepsUnpause == ASSUME PassInv, P!UnpauseIdle PROVE PassInv'
<1> DEFINE o == P!Other(P!Now)
<1>1. /\ PassType /\ step = "unpause" /\ step' = "record"
      /\ UNCHANGED <<kind, pAt, cur, passes, verdict>>
  BY DEF PassInv, P!UnpauseIdle, P!Go
<1>2. /\ P!Now \in P!Sides /\ o \in P!Sides /\ o # P!Now
      /\ \A s \in P!Sides : s = P!Now \/ s = o
      /\ (P!Now)' = P!Now /\ (P!Other(P!Now))' = o /\ (P!Pass)' = P!Pass
  BY <1>1, NowIs, NowStays
<1>3. RecordInv' /\ JudgedInv'
  BY <1>1, Within DEF AtWork
<1>4. side[o] \in Hosts
  BY <1>1, <1>2 DEF PassType
<1>5. /\ side' \in [P!Sides -> Hosts] /\ side'[P!Now] = side[P!Now]
      /\ side'[o].paused => side'[o].frozen
  <2>1. CASE side' = [side EXCEPT ![o].paused = FALSE]
    <3>1. [side[o] EXCEPT !.paused = FALSE] \in Hosts /\ ~ [side[o] EXCEPT !.paused = FALSE].paused
      BY <1>4 DEF Hosts
    <3>2. side' = [side EXCEPT ![o] = [side[o] EXCEPT !.paused = FALSE]]
      BY <1>1, <1>2, <2>1 DEF PassType
    <3> QED BY <1>1, <1>2, <3>1, <3>2, SideIs
  <2>2. CASE side' = [side EXCEPT ![o].frozen = TRUE]
    <3>1. [side[o] EXCEPT !.frozen = TRUE] \in Hosts /\ [side[o] EXCEPT !.frozen = TRUE].frozen
      BY <1>4 DEF Hosts
    <3>2. side' = [side EXCEPT ![o] = [side[o] EXCEPT !.frozen = TRUE]]
      BY <1>1, <1>2, <2>2 DEF PassType
    <3> QED BY <1>1, <1>2, <3>1, <3>2, SideIs
  <2> QED BY <2>1, <2>2 DEF P!UnpauseIdle
<1>6. PassType'
  BY <1>1, <1>5 DEF PassType, AtWork
<1>7. PauseInv'
  BY <1>1, <1>2, <1>5, PausedUp DEF PauseInv, Between, AtWork
<1>8. ReadyInv'
  <2>1. ReadyInv
    BY DEF PassInv
  <2> QED BY <1>1, <1>2, <1>5, <2>1 DEF ReadyInv, Between
<1> QED BY <1>3, <1>6, <1>7, <1>8 DEF PassInv

LEMMA KeepsSettle == ASSUME PassInv, P!Settle PROVE PassInv'
<1> DEFINE x == side[P!Now]
<1>1. PassType /\ step = "settle" /\ UNCHANGED <<kind, pAt, passes, verdict>>
  BY DEF PassInv, P!Settle
<1>2. x \in Hosts /\ ~ x.paused
  BY <1>1, PausedUp DEF AtWork
<1>3. CASE /\ side' = [side EXCEPT ![P!Now] = P!Settled(side[P!Now])]
           /\ step' = "reset" /\ UNCHANGED cur
  <2>1. P!Settled(x) \in Hosts /\ ~ P!Settled(x).paused
    BY <1>2, HostIs DEF P!Settled, Hosts
  <2>2. cur' \in PassNow /\ cur.time = {}
    BY <1>1, <1>3 DEF PassInv, PassType, ReadyInv
  <2>3. /\ PassType' /\ RecordInv' /\ JudgedInv' /\ PauseInv'
        /\ side'[P!Other(P!Now)] = side[P!Other(P!Now)]
        /\ UNCHANGED P!Now /\ UNCHANGED P!Other(P!Now)
    BY <1>1, <1>3, <2>1, <2>2, Stepped DEF AtWork
  <2>4. ReadyInv'
    <3>1. side[P!Other(P!Now)].paused \/ "unpaused" \in cur.said
      BY <1>1 DEF PassInv, ReadyInv
    <3>2. side'[P!Other(P!Now)'].paused \/ "unpaused" \in cur'.said
      BY <1>3, <2>3, <3>1
    <3> QED BY <1>3, <2>2, <3>2 DEF ReadyInv, Between
  <2> QED BY <2>3, <2>4 DEF PassInv
<1>4. CASE P!NullPass /\ UNCHANGED side
  BY <1>1, <1>2, <1>4, Failed, Untouched DEF AtWork
<1> QED BY <1>3, <1>4 DEF P!Settle, P!Go

LEMMA KeepsReset == ASSUME PassInv, P!Reset PROVE PassInv'
<1> DEFINE x == side[P!Now]
<1>1. PassType /\ step = "reset" /\ UNCHANGED <<kind, pAt, passes, verdict>>
  BY DEF PassInv, P!Reset
<1>2. x \in Hosts /\ ~ x.paused
  BY <1>1, PausedUp DEF AtWork
<1>3. cur \in PassNow /\ cur.time = {}
      /\ (side[P!Other(P!Now)].paused \/ "unpaused" \in cur.said)
  BY <1>1 DEF PassInv, PassType, ReadyInv
<1>4. ASSUME NEW y \in Hosts, ~ y.paused, kind.reset # "none" => y.data = "clean",
             side' = [side EXCEPT ![P!Now] = y], step' = "slave", UNCHANGED cur
      PROVE  PassInv'
  <2>1. /\ PassType' /\ RecordInv' /\ JudgedInv' /\ PauseInv' /\ side'[P!Now] = y
        /\ side'[P!Other(P!Now)] = side[P!Other(P!Now)]
        /\ UNCHANGED P!Now /\ UNCHANGED P!Other(P!Now)
    BY <1>1, <1>3, <1>4, Stepped DEF AtWork
  <2>2. ReadyInv'
    BY <1>1, <1>3, <1>4, <2>1 DEF ReadyInv, Between
  <2> QED BY <2>1, <2>2 DEF PassInv
<1>5. ASSUME NEW y \in Hosts, ~ y.paused, side' = [side EXCEPT ![P!Now] = y], P!NullPass
      PROVE  PassInv'
  <2>1. y.paused = x.paused
    BY <1>2, <1>5 DEF Hosts
  <2> QED BY <1>1, <1>5, <2>1, Failed DEF AtWork
<1>6. CASE kind.reset = "none" /\ step' = "slave" /\ UNCHANGED <<side, cur>>
  BY <1>1, <1>2, <1>4, <1>6, Untouched
<1>7. CASE /\ side' = [side EXCEPT ![P!Now].data = "clean"] /\ step' = "slave"
           /\ UNCHANGED cur
  <2>1. [x EXCEPT !.data = "clean"] \in Hosts /\ ~ [x EXCEPT !.data = "clean"].paused
        /\ [x EXCEPT !.data = "clean"].data = "clean"
    BY <1>2 DEF Hosts
  <2>2. side' = [side EXCEPT ![P!Now] = [x EXCEPT !.data = "clean"]]
    BY <1>1, <1>7, NowIs DEF PassType
  <2> QED BY <1>4, <1>7, <2>1, <2>2
<1>8. CASE P!NullPass /\ UNCHANGED side
  BY <1>1, <1>2, <1>5, <1>8, Untouched
<1>9. CASE /\ side' = [side EXCEPT ![P!Now] =
                        [P!Started(P!Stopped(x)) EXCEPT !.data = "clean", !.watcher = TRUE]]
           /\ step' = "slave" /\ UNCHANGED cur
  <2> DEFINE y == [P!Started(P!Stopped(x)) EXCEPT !.data = "clean", !.watcher = TRUE]
  <2>1. y \in Hosts /\ ~ y.paused /\ y.data = "clean"
    <3>1. P!Started(P!Stopped(x)) \in Hosts /\ ~ P!Started(P!Stopped(x)).paused
      BY <1>2, HostIs
    <3> QED BY <3>1 DEF Hosts
  <2> QED BY <1>4, <1>9, <2>1
<1>10. CASE /\ \E y \in {x, P!Stopped(x), [P!Stopped(x) EXCEPT !.data = "partial"],
                         [P!Stopped(x) EXCEPT !.data = "clean"],
                         [P!Stopped(x) EXCEPT !.data = "clean", !.up = TRUE],
                         [P!Started(P!Stopped(x)) EXCEPT !.data = "clean"]} :
                  side' = [side EXCEPT ![P!Now] = y]
            /\ P!NullPass
  <2>1. PICK y \in {x, P!Stopped(x), [P!Stopped(x) EXCEPT !.data = "partial"],
                    [P!Stopped(x) EXCEPT !.data = "clean"],
                    [P!Stopped(x) EXCEPT !.data = "clean", !.up = TRUE],
                    [P!Started(P!Stopped(x)) EXCEPT !.data = "clean"]} :
               side' = [side EXCEPT ![P!Now] = y]
    BY <1>10
  <2>2. \A z \in Hosts : ~ z.paused =>
          /\ [z EXCEPT !.data = "partial"] \in Hosts /\ ~ [z EXCEPT !.data = "partial"].paused
          /\ [z EXCEPT !.data = "clean"] \in Hosts /\ ~ [z EXCEPT !.data = "clean"].paused
          /\ [z EXCEPT !.data = "clean", !.up = TRUE] \in Hosts
          /\ ~ [z EXCEPT !.data = "clean", !.up = TRUE].paused
    BY DEF Hosts
  <2>3. y \in Hosts /\ ~ y.paused
    <3>1. /\ P!Stopped(x) \in Hosts /\ ~ P!Stopped(x).paused
          /\ P!Started(P!Stopped(x)) \in Hosts /\ ~ P!Started(P!Stopped(x)).paused
      BY <1>2, HostIs
    <3> HIDE DEF x
    <3> QED BY <1>2, <2>1, <2>2, <3>1
  <2> QED BY <1>5, <1>10, <2>1, <2>3
<1> QED BY <1>6, <1>7, <1>8, <1>9, <1>10 DEF P!Reset, P!Go

LEMMA KeepsSlave == ASSUME PassInv, P!Slave PROVE PassInv'
<1>1. PassType /\ step = "slave" /\ UNCHANGED <<kind, pAt, passes, verdict, side>>
  BY DEF PassInv, P!Slave
<1>2. side[P!Now] \in Hosts /\ ~ side[P!Now].paused
      /\ side' = [side EXCEPT ![P!Now] = side[P!Now]]
  BY <1>1, PausedUp, Untouched DEF AtWork
<1>3. CASE /\ kind.ha => side[P!Now].n1 = side[P!Now].master /\ ~ side[P!Now].dead
           /\ step' = IF kind.cold THEN "cold" ELSE "watch"
           /\ UNCHANGED cur
  <2>1. cur \in PassNow /\ cur.time = {} /\ ReadyInv
    BY <1>1 DEF PassInv, PassType, ReadyInv
  <2>2. /\ PassType' /\ RecordInv' /\ JudgedInv' /\ PauseInv'
        /\ UNCHANGED P!Now /\ UNCHANGED P!Other(P!Now) /\ UNCHANGED P!Pass
    BY <1>1, <1>2, <1>3, <2>1, Stepped DEF AtWork
  <2>3. ReadyInv'
    BY <1>1, <1>3, <2>1, <2>2 DEF ReadyInv, Between
  <2> QED BY <2>2, <2>3 DEF PassInv
<1>4. CASE P!NullPass
  BY <1>1, <1>2, <1>4, Failed DEF AtWork
<1> QED BY <1>3, <1>4 DEF P!Slave, P!Go

LEMMA KeepsCold == ASSUME PassInv, P!ColdStart PROVE PassInv'
<1> DEFINE x == side[P!Now]
<1>1. PassType /\ step = "cold" /\ UNCHANGED <<kind, pAt, passes, verdict>>
  BY DEF PassInv, P!ColdStart
<1>2. x \in Hosts /\ ~ x.paused
  BY <1>1, PausedUp DEF AtWork
<1>3. /\ P!Stopped(x) \in Hosts /\ ~ P!Stopped(x).paused
      /\ P!Started(P!Stopped(x)) \in Hosts /\ ~ P!Started(P!Stopped(x)).paused
      /\ P!CacheRefused(x) \in Hosts /\ ~ P!CacheRefused(x).paused
  BY <1>2, HostIs
<1>4. CASE /\ side' = [side EXCEPT ![P!Now] = [P!Started(P!Stopped(x)) EXCEPT
                         !.watcher = TRUE, !.cached = FALSE]]
           /\ step' = "watch" /\ UNCHANGED cur
  <2> DEFINE y == [P!Started(P!Stopped(x)) EXCEPT !.watcher = TRUE, !.cached = FALSE]
  <2>1. y \in Hosts /\ ~ y.paused /\ ~ y.cached
    BY <1>3 DEF Hosts
  <2>2. y.data = x.data /\ y.n1 = x.n1 /\ y.master = x.master /\ y.dead = x.dead
    BY <1>2 DEF P!Started, P!Stopped, Hosts
  <2>3. cur \in PassNow /\ cur.time = {} /\ ReadyInv
    BY <1>1 DEF PassInv, PassType, ReadyInv
  <2> HIDE DEF y
  <2>4. /\ PassType' /\ RecordInv' /\ JudgedInv' /\ PauseInv' /\ side'[P!Now] = y
        /\ side'[P!Other(P!Now)] = side[P!Other(P!Now)]
        /\ UNCHANGED P!Now /\ UNCHANGED P!Other(P!Now) /\ UNCHANGED P!Pass
    BY <1>1, <1>4, <2>1, <2>3, Stepped DEF AtWork, y
  <2>5. ReadyInv'
    BY <1>1, <1>4, <2>1, <2>2, <2>3, <2>4 DEF ReadyInv, Between
  <2> QED BY <2>4, <2>5 DEF PassInv
<1>5. CASE /\ \E y \in {x, P!CacheRefused(x), P!Stopped(x),
                        [P!Stopped(x) EXCEPT !.cached = FALSE],
                        [P!Stopped(x) EXCEPT !.cached = FALSE, !.up = TRUE],
                        [P!Started(P!Stopped(x)) EXCEPT !.cached = FALSE]} :
                 side' = [side EXCEPT ![P!Now] = y]
           /\ P!NullPass
  <2>1. PICK y \in {x, P!CacheRefused(x), P!Stopped(x),
                    [P!Stopped(x) EXCEPT !.cached = FALSE],
                    [P!Stopped(x) EXCEPT !.cached = FALSE, !.up = TRUE],
                    [P!Started(P!Stopped(x)) EXCEPT !.cached = FALSE]} :
               side' = [side EXCEPT ![P!Now] = y]
    BY <1>5
  <2>2. \A z \in Hosts : ~ z.paused =>
          /\ [z EXCEPT !.cached = FALSE] \in Hosts /\ ~ [z EXCEPT !.cached = FALSE].paused
          /\ [z EXCEPT !.cached = FALSE, !.up = TRUE] \in Hosts
          /\ ~ [z EXCEPT !.cached = FALSE, !.up = TRUE].paused
    BY DEF Hosts
  <2> HIDE DEF x
  <2>3. y \in Hosts /\ ~ y.paused
    BY <1>2, <1>3, <2>1, <2>2
  <2>4. y.paused = x.paused
    BY <1>2, <2>3 DEF Hosts
  <2> QED BY <1>1, <1>5, <2>1, <2>3, <2>4, Failed DEF AtWork, x
<1> QED BY <1>4, <1>5 DEF P!ColdStart, P!Go

LEMMA KeepsWatch == ASSUME PassInv, P!Watch PROVE PassInv'
<1> DEFINE x == side[P!Now]
<1>1. PassType /\ step = "watch" /\ step' = "pre" /\ UNCHANGED <<kind, pAt, passes, verdict>>
  BY DEF PassInv, P!Watch, P!Go
<1>2. x \in Hosts /\ ~ x.paused
  BY <1>1, PausedUp DEF AtWork
<1>3. cur \in PassNow /\ cur.time = {} /\ ReadyInv
  BY <1>1 DEF PassInv, PassType, ReadyInv
<1>4. PICK y \in {x, [x EXCEPT !.watcher = TRUE]} :
        /\ side' = [side EXCEPT ![P!Now] = y]
        /\ UNCHANGED cur \/ P!Say("watcher")
        /\ P!Pass.phase = "measure" => y.watcher \/ P!Say("watcher")
  <2>1. CASE side' = [side EXCEPT ![P!Now].watcher = TRUE] /\ UNCHANGED cur
    <3>1. side' = [side EXCEPT ![P!Now] = [x EXCEPT !.watcher = TRUE]]
      BY <1>1, <2>1, NowIs DEF PassType
    <3>2. [x EXCEPT !.watcher = TRUE].watcher
      BY <1>2 DEF Hosts
    <3> HIDE DEF x
    <3> QED BY <2>1, <3>1, <3>2
  <2>2. CASE P!Say("watcher") /\ UNCHANGED side
    BY <1>1, <2>2, Untouched
  <2>3. CASE P!Pass.phase # "measure" /\ UNCHANGED <<side, cur>>
    BY <1>1, <2>3, Untouched
  <2> QED BY <2>1, <2>2, <2>3 DEF P!Watch
<1>5. /\ y \in Hosts /\ ~ y.paused /\ y.data = x.data /\ y.n1 = x.n1
      /\ y.master = x.master /\ y.dead = x.dead /\ y.cached = x.cached
  BY <1>2, <1>4 DEF Hosts
<1>6. cur' \in PassNow /\ cur'.time = {} /\ cur.said \subseteq cur'.said
      /\ (P!Say("watcher") => "watcher" \in cur'.said)
  BY <1>3, <1>4 DEF P!Say, PassNow
<1> HIDE DEF x
<1>7. /\ PassType' /\ RecordInv' /\ JudgedInv' /\ PauseInv' /\ side'[P!Now] = y
      /\ side'[P!Other(P!Now)] = side[P!Other(P!Now)]
      /\ UNCHANGED P!Now /\ UNCHANGED P!Other(P!Now) /\ UNCHANGED P!Pass
  BY <1>1, <1>4, <1>5, <1>6, Stepped DEF AtWork
<1>8. ReadyInv'
  BY <1>1, <1>3, <1>4, <1>5, <1>6, <1>7 DEF ReadyInv, Between, x
<1> QED BY <1>7, <1>8 DEF PassInv

LEMMA KeepsPre == ASSUME PassInv, P!Pre PROVE PassInv'
<1> DEFINE x == side[P!Now]
<1>1. PassType /\ step = "pre" /\ UNCHANGED <<kind, pAt, passes, verdict, side>>
  BY DEF PassInv, P!Pre
<1>2. x \in Hosts /\ ~ x.paused /\ side' = [side EXCEPT ![P!Now] = x]
  BY <1>1, PausedUp, Untouched DEF AtWork
<1>3. CASE P!NullPass
  BY <1>1, <1>2, <1>3, Failed DEF AtWork
<1>4. CASE ~ P!NullPass
  <2>1. PICK miss \in SUBSET {"l0", "statdump"} :
          /\ cur' = [cur EXCEPT !.missing = miss \cup
                        IF kind.failover THEN {"l0"} ELSE {}, !.watched = x.watcher]
          /\ step' = "client"
    <3>1. PICK miss \in SUBSET ((IF kind.failover THEN {} ELSE {"l0"})
                                  \cup (IF kind.statdump THEN {"statdump"} ELSE {})) :
            /\ cur' = [cur EXCEPT !.missing = miss \cup
                          IF kind.failover THEN {"l0"} ELSE {}, !.watched = x.watcher]
            /\ step' = "client"
      BY <1>4 DEF P!Pre, P!Go
    <3>2. miss \in SUBSET {"l0", "statdump"}
      OBVIOUS
    <3> QED BY <3>1, <3>2
  <2>2. cur \in PassNow /\ cur.time = {} /\ ReadyInv
    BY <1>1 DEF PassInv, PassType, ReadyInv
  <2>3. /\ cur' \in PassNow /\ cur'.time = {} /\ cur'.watched = x.watcher
        /\ cur'.said = cur.said
    <3> DEFINE m == miss \cup IF kind.failover THEN {"l0"} ELSE {}
    <3>1. m \in SUBSET {"l0", "statdump"}
      BY <2>1
    <3>2. cur' = [cur EXCEPT !.missing = m, !.watched = x.watcher]
      BY <2>1
    <3>3. x.watcher \in BOOLEAN
      BY <1>2 DEF Hosts
    <3> HIDE DEF m, x
    <3> QED BY <2>2, <3>1, <3>2, <3>3 DEF PassNow
  <2>4. /\ PassType' /\ RecordInv' /\ JudgedInv' /\ PauseInv' /\ side'[P!Now] = x
        /\ UNCHANGED P!Now /\ UNCHANGED P!Other(P!Now) /\ UNCHANGED P!Pass
    BY <1>1, <1>2, <2>1, <2>3, Stepped DEF AtWork
  <2>5. ReadyInv'
    BY <1>1, <2>1, <2>2, <2>3, <2>4 DEF ReadyInv, Between
  <2> QED BY <2>4, <2>5 DEF PassInv
<1> QED BY <1>3, <1>4

\* Where the client's time is a value, the hosts are what it says they are.
LEMMA ClientFit ==
    ASSUME PassInv, step = "client", side[P!Now].up,
           kind.ha => side[P!Now].n1 = side[P!Now].master
    PROVE  P!FitHosts
<1>1. ReadyInv /\ ~ side[P!Now].paused
  BY PausedUp DEF PassInv, AtWork
<1> QED BY <1>1 DEF ReadyInv, P!FitHosts

LEMMA AfterClientIs ==
    ASSUME NEW x \in Hosts
    PROVE  P!AfterClient(x) \in Hosts /\ P!AfterClient(x).paused = x.paused
<1> DEFINE d == IF x.data = "clean" THEN "dirty" ELSE x.data
           m == IF kind.failover THEN IF x.master = "n1" THEN "n2" ELSE "n1" ELSE x.master
           e == x.dead \/ kind.failover
<1>1. d \in {"clean", "dirty", "partial"} /\ m \in Nodes /\ e \in BOOLEAN
  BY DEF Hosts, Nodes
<1>2. P!AfterClient(x) = [x EXCEPT !.data = d, !.cached = TRUE, !.master = m, !.dead = e]
  BY DEF P!AfterClient
<1> HIDE DEF d, m, e
<1> QED BY <1>1, <1>2 DEF Hosts

LEMMA KeepsClient == ASSUME PassInv, P!Client PROVE PassInv'
<1> DEFINE x == side[P!Now]
           y == P!AfterClient(x)
<1>1. PassType /\ step = "client" /\ UNCHANGED <<kind, pAt, passes, verdict>>
  BY DEF PassInv, P!Client
<1>2. x \in Hosts /\ ~ x.paused
  BY <1>1, PausedUp DEF AtWork
<1>3. side' = [side EXCEPT ![P!Now] = y] /\ y \in Hosts /\ y.paused = x.paused
  BY <1>2, AfterClientIs DEF P!Client
<1>4. cur \in PassNow /\ cur.time = {} /\ ReadyInv
  BY <1>1 DEF PassInv, PassType, ReadyInv
<1>5. CASE P!NullPass
  BY <1>1, <1>3, <1>5, Failed DEF AtWork
<1>6. ASSUME cur' \in PassNow, step' = "after",
             cur'.watched = cur.watched, cur'.said = cur.said,
             cur'.time # {} /\ ~ cur'.null => cur'.fit
      PROVE  PassInv'
  <2>1. /\ PassType' /\ RecordInv' /\ JudgedInv' /\ PauseInv'
        /\ UNCHANGED P!Now /\ UNCHANGED P!Pass
    BY <1>1, <1>2, <1>3, <1>6, Stepped DEF AtWork
  <2>2. ReadyInv'
    BY <1>1, <1>4, <1>6, <2>1 DEF ReadyInv, Between
  <2> QED BY <2>1, <2>2 DEF PassInv
<1>7. CASE /\ cur' = [cur EXCEPT !.null = TRUE, !.fit = P!FitHosts] /\ step' = "after"
  <2>1. P!FitHosts \in BOOLEAN
    BY DEF P!FitHosts
  <2>2. /\ cur' \in PassNow /\ cur'.time = {}
        /\ cur'.watched = cur.watched /\ cur'.said = cur.said
    BY <1>4, <1>7, <2>1 DEF PassNow
  <2> QED BY <1>6, <1>7, <2>2
<1>8. CASE /\ x.up /\ (kind.ha => x.n1 = x.master) /\ step' = "after"
           /\ \E t \in IF P!Pass.phase = "measure" THEN OfPass.times[P!Now] ELSE {0},
                 w \in IF kind.statdump /\ P!Pass.phase = "measure" THEN {0, 2} ELSE {0},
                 host \in {"quiet", "swapped", "unreadable"} :
                   cur' = [cur EXCEPT !.time = {t}, !.warm = w, !.fit = P!FitHosts,
                                      !.null = P!Contaminated(host)]
  <2>1. PICK t \in IF P!Pass.phase = "measure" THEN OfPass.times[P!Now] ELSE {0},
             w \in IF kind.statdump /\ P!Pass.phase = "measure" THEN {0, 2} ELSE {0},
             host \in {"quiet", "swapped", "unreadable"} :
               cur' = [cur EXCEPT !.time = {t}, !.warm = w, !.fit = P!FitHosts,
                                  !.null = P!Contaminated(host)]
    BY <1>8
  <2>2. P!FitHosts
    BY <1>1, <1>8, ClientFit
  <2>3. t \in Int /\ w \in {0, 2} /\ P!Contaminated(host) \in BOOLEAN
    BY <1>1, NowIs, PassGiven DEF P!Contaminated
  <2>4. /\ cur' \in PassNow /\ cur'.fit = P!FitHosts
        /\ cur'.watched = cur.watched /\ cur'.said = cur.said
    <3>1. P!FitHosts = TRUE
      BY <2>2
    <3> QED BY <1>4, <2>1, <2>3, <3>1 DEF PassNow
  <2> QED BY <1>6, <1>8, <2>2, <2>4
<1>9. P!NullPass
      \/ /\ cur' = [cur EXCEPT !.null = TRUE, !.fit = P!FitHosts]
         /\ step' = "after"
      \/ /\ x.up /\ (kind.ha => x.n1 = x.master) /\ step' = "after"
         /\ \E t \in IF P!Pass.phase = "measure" THEN OfPass.times[P!Now] ELSE {0},
               w \in IF kind.statdump /\ P!Pass.phase = "measure" THEN {0, 2} ELSE {0},
               host \in {"quiet", "swapped", "unreadable"} :
                 cur' = [cur EXCEPT !.time = {t}, !.warm = w, !.fit = P!FitHosts,
                                    !.null = P!Contaminated(host)]
  BY DEF P!Client, P!Go
<1> QED BY <1>5, <1>7, <1>8, <1>9

LEMMA KeepsAfter == ASSUME PassInv, P!After PROVE PassInv'
<1> DEFINE x == side[P!Now]
<1>1. PassType /\ step = "after" /\ step' = "unpause" /\ UNCHANGED <<kind, pAt, passes, verdict>>
  BY DEF PassInv, P!After, P!Go
<1>2. x \in Hosts /\ ~ x.paused
  BY <1>1, PausedUp DEF AtWork
<1>3. cur \in PassNow /\ ReadyInv
  BY <1>1 DEF PassInv, PassType
<1>4. ASSUME NEW y \in Hosts, ~ y.paused, side' = [side EXCEPT ![P!Now] = y],
             cur' \in PassNow, cur'.time = cur.time, cur'.watched = cur.watched,
             cur'.said = cur.said, cur'.fit = cur.fit, cur.null => cur'.null,
             kind.ha => cur'.null \/ y.n1 = y.master
      PROVE  PassInv'
  <2>1. /\ PassType' /\ RecordInv' /\ JudgedInv' /\ PauseInv' /\ side'[P!Now] = y
        /\ UNCHANGED P!Now /\ UNCHANGED P!Pass
    BY <1>1, <1>4, Stepped DEF AtWork
  <2>2. ReadyInv'
    BY <1>1, <1>3, <1>4, <2>1 DEF ReadyInv, Between
  <2> QED BY <2>1, <2>2 DEF PassInv
<1>5. CASE /\ \/ ~ kind.ha /\ UNCHANGED side
              \/ kind.failover /\ side' = [side EXCEPT ![P!Now] = P!Settled(side[P!Now])]
              \/ kind.ha /\ ~ kind.failover /\ x.n1 = x.master /\ UNCHANGED side
           /\ \/ UNCHANGED cur
              \/ \E m \in {"l0", "statdump"} :
                    cur' = [cur EXCEPT !.missing = cur.missing \cup {m}]
  <2>1. /\ cur' \in PassNow /\ cur'.time = cur.time /\ cur'.watched = cur.watched
        /\ cur'.said = cur.said /\ cur'.fit = cur.fit /\ (cur.null => cur'.null)
    <3>1. CASE UNCHANGED cur
      BY <1>3, <3>1
    <3>2. ASSUME NEW m \in {"l0", "statdump"},
                 cur' = [cur EXCEPT !.missing = cur.missing \cup {m}]
          PROVE  /\ cur' \in PassNow /\ cur'.time = cur.time /\ cur'.watched = cur.watched
                 /\ cur'.said = cur.said /\ cur'.fit = cur.fit /\ cur'.null = cur.null
      <4>1. cur.missing \cup {m} \in SUBSET {"l0", "statdump"}
        BY <1>3 DEF PassNow
      <4> QED BY <1>3, <3>2, <4>1 DEF PassNow
    <3> QED BY <1>5, <3>1, <3>2
  <2>2. P!Settled(x) \in Hosts /\ ~ P!Settled(x).paused /\ P!Settled(x).n1 = P!Settled(x).master
    BY <1>2, HostIs DEF P!Settled, Hosts
  <2>3. CASE (~ kind.ha \/ x.n1 = x.master) /\ UNCHANGED side
    BY <1>1, <1>2, <1>4, <2>1, <2>3, Untouched
  <2>4. CASE side' = [side EXCEPT ![P!Now] = P!Settled(x)]
    BY <1>4, <2>1, <2>2, <2>4
  <2> QED BY <1>5, <2>3, <2>4
<1>6. CASE cur' = [cur EXCEPT !.null = TRUE] /\ UNCHANGED side
  <2>1. /\ cur' \in PassNow /\ cur'.time = cur.time /\ cur'.watched = cur.watched
        /\ cur'.said = cur.said /\ cur'.fit = cur.fit /\ cur'.null
    BY <1>3, <1>6 DEF PassNow
  <2> QED BY <1>1, <1>2, <1>4, <1>6, <2>1, Untouched
<1> QED BY <1>5, <1>6 DEF P!After

-----------------------------------------------------------------------------
(* The record.                                                             *)

LEMMA FlagStays ==
    ASSUME UNCHANGED <<kind, passes, verdict>>
    PROVE  P!FlagEarned' <=> P!FlagEarned
  BY DEF P!FlagEarned, P!Valued, P!MetricValue

LEMMA AtIs ==
    ASSUME PassType
    PROVE  pAt \in Nat /\ pAt >= 1 /\ pAt <= LastPass /\ OfPass.warmup \in Nat
           /\ LastPass = 2 * OfPass.warmup + 2 * OfPass.repeats + 2 * OfPass.remeasure
  BY PassGiven DEF PassType, LastPass

\* What is on record of a pass is of that pass.
LEMMA PassOf ==
    ASSUME PassType, P!Pass.phase = "measure"
    PROVE  /\ pAt - 2 * OfPass.warmup \in Nat /\ pAt > 2 * OfPass.warmup
           /\ P!Now \in P!Sides /\ P!Pass.rep \in Nat
<1>1. pAt > 2 * OfPass.warmup /\ P!Now \in P!Sides
  BY NowIs
<1>2. pAt - 2 * OfPass.warmup \in Nat
  BY <1>1, AtIs
<1>3. P!Pass.rep = P!Measure(pAt - 2 * OfPass.warmup).rep
  BY <1>1, NowIs
<1> QED BY <1>1, <1>2, <1>3, MeasureIs

\* A pass joins the record.
LEMMA Recorded ==
    ASSUME PassInv, UNCHANGED <<kind, pAt, side, verdict>>, cur' \in PassNow, cur'.time = {},
           step \in {"begin", "record"}, step' = "next", P!Pass.phase = "measure",
           NEW e \in PassDone, passes' = Append(passes, e),
           e.side = P!Now, e.rep = P!Pass.rep, e.value # {} => e.fit,
           \A q \in e.perop : e.blind \/ q = 1
    PROVE  PassInv'
<1>1. PassType /\ RecordInv /\ verdict = ""
  BY DEF PassInv, JudgedInv
<1>2. pAt \in Nat /\ pAt > 2 * OfPass.warmup /\ OfPass.warmup \in Nat
  BY <1>1, AtIs, PassOf
<1>3. passes \in Seq(PassDone) /\ Len(passes) = pAt - 1 - 2 * OfPass.warmup
  <2>1. passes \in Seq(PassDone) /\ Len(passes) = MeasuredBy(pAt - 1)
    BY <1>1 DEF RecordInv, PassType
  <2>2. MeasuredBy(pAt - 1) = pAt - 1 - 2 * OfPass.warmup
    BY <1>2 DEF MeasuredBy
  <2> QED BY <2>1, <2>2
<1>4. /\ passes' \in Seq(PassDone) /\ Len(passes') = pAt - 2 * OfPass.warmup
      /\ DOMAIN passes' = 1..Len(passes) + 1 /\ passes'[Len(passes) + 1] = e
      /\ DOMAIN passes = 1..Len(passes)
      /\ \A n \in DOMAIN passes : passes'[n] = passes[n]
  <2>1. /\ passes' \in Seq(PassDone) /\ Len(passes') = Len(passes) + 1
        /\ DOMAIN passes' = 1..Len(passes) + 1 /\ passes'[Len(passes) + 1] = e
        /\ DOMAIN passes = 1..Len(passes)
        /\ \A n \in DOMAIN passes : passes'[n] = passes[n]
    BY <1>3
  <2>2. Len(passes) + 1 = pAt - 2 * OfPass.warmup
    BY <1>2, <1>3
  <2> QED BY <2>1, <2>2
<1>5. RecordInv'
  <2>1. Len(passes') = MeasuredBy(pAt')
    BY <1>2, <1>4 DEF MeasuredBy
  <2>2. ASSUME NEW n \in DOMAIN passes'
        PROVE  /\ passes'[n].rep = P!Measure(n).rep /\ passes'[n].side = P!Measure(n).side
               /\ passes'[n].value # {} => passes'[n].fit
               /\ \A q \in passes'[n].perop : passes'[n].blind \/ q = 1
    <3>1. CASE n \in DOMAIN passes
      BY <1>1, <1>4, <3>1 DEF RecordInv
    <3>2. CASE n = Len(passes) + 1
      <4>1. n = pAt - 2 * OfPass.warmup
        BY <1>2, <1>3, <3>2
      <4>2. e.rep = P!Measure(n).rep /\ e.side = P!Measure(n).side
        BY <1>1, <1>2, <4>1, NowIs
      <4> QED BY <1>4, <3>2, <4>2
    <3> QED BY <1>3, <1>4, <2>2, <3>1, <3>2
  <2> QED BY <2>1, <2>2 DEF RecordInv
<1>6. PassType'
  BY <1>1, <1>4 DEF PassType, Between
<1>7. PauseInv'
  BY NowStays DEF PassInv, PauseInv, Between, AtWork
<1>8. ReadyInv'
  BY NowStays DEF PassInv, ReadyInv, Between
<1>9. JudgedInv'
  BY <1>1 DEF JudgedInv, P!FlagEarned
<1> QED BY <1>5, <1>6, <1>7, <1>8, <1>9 DEF PassInv

LEMMA KeepsSignalPass == ASSUME PassInv, P!SignalPass PROVE PassInv'
<1> DEFINE e == [side |-> P!Now, rep |-> P!Pass.rep, value |-> {}, null |-> TRUE,
                 perop |-> {}, fit |-> TRUE, blind |-> FALSE]
<1>1. PassType /\ cur \in PassNow /\ cur.time = {}
  BY DEF PassInv, PassType, ReadyInv, P!SignalPass, Between
<1>2. P!Now \in P!Sides /\ P!Pass.rep \in Nat
  BY <1>1, PassOf DEF P!SignalPass
<1>3. e \in PassDone
  BY <1>2 DEF PassDone
<1> QED BY <1>1, <1>3, Recorded DEF P!SignalPass

\* What the pass has counted per operation is one, or no watcher counted it.
LEMMA CountedOne ==
    ASSUME PassInv, step = "record", P!Pass.phase = "measure", cur.time # {}
    PROVE  /\ P!PerOp(P!Raw, cur.warm) \in Nat
           /\ "watcher" \in cur.said \/ P!PerOp(P!Raw, cur.warm) = 1
<1>1. cur.warm \in {0, 2} /\ (cur.watched \/ "watcher" \in cur.said)
  BY DEF PassInv, PassType, PassNow, ReadyInv
<1>2. CASE cur.warm = 0
  BY <1>1, <1>2 DEF P!PerOp, P!Raw, P!Ops
<1>3. CASE cur.warm = 2
  BY <1>1, <1>3 DEF P!PerOp, P!Raw, P!Ops
<1> QED BY <1>1, <1>2, <1>3

LEMMA KeepsRecord == ASSUME PassInv, P!RecordPass PROVE PassInv'
<1>1. /\ PassType /\ step = "record" /\ step' = "next"
      /\ UNCHANGED <<kind, pAt, side, verdict>> /\ cur \in PassNow
  BY DEF PassInv, PassType, P!RecordPass, P!Go
<1>2. cur' \in PassNow /\ cur'.time = {}
  BY DEF P!RecordPass, P!NoPass, PassNow
<1>3. CASE P!Pass.phase # "measure"
  <2>1. passes' = passes /\ verdict = ""
    BY <1>1, <1>3 DEF P!RecordPass, PassInv, JudgedInv
  <2>2. pAt \in Nat /\ ~ (pAt > 2 * OfPass.warmup) /\ OfPass.warmup \in Nat
    BY <1>1, <1>3, NowIs, PassGiven DEF PassType, LastPass
  <2>3. RecordInv'
    <3>1. MeasuredBy(pAt) = MeasuredBy(pAt - 1)
      BY <2>2 DEF MeasuredBy
    <3> QED BY <1>1, <2>1, <3>1 DEF PassInv, RecordInv
  <2>4. PassType' /\ JudgedInv'
    BY <1>1, <1>2, <2>1 DEF PassType, Between, JudgedInv, P!FlagEarned
  <2>5. PauseInv' /\ ReadyInv'
    BY <1>1, <1>2, NowStays DEF PassInv, PauseInv, ReadyInv, Between, AtWork
  <2> QED BY <2>3, <2>4, <2>5 DEF PassInv
<1>4. CASE P!Pass.phase = "measure"
  <2> DEFINE f == cur.fit /\ (kind.ha => side[P!Now].n1 = side[P!Now].master)
             v == IF cur.null THEN {} ELSE {P!MetricValue(t) : t \in cur.time}
             po == IF \/ "statdump" \in cur.missing \/ ~ kind.statdump \/ cur.time = {}
                   THEN {} ELSE {P!PerOp(P!Raw, cur.warm)}
             b == "watcher" \in cur.said
             e == [side |-> P!Now, rep |-> P!Pass.rep, null |-> cur.null,
                   fit |-> f, blind |-> b, value |-> v, perop |-> po]
  <2>1. P!Now \in P!Sides /\ P!Pass.rep \in Nat
    BY <1>1, <1>4, PassOf
  <2>2. v \in SUBSET Int
    BY <1>1 DEF P!MetricValue, PassNow
  <2>3. po \in SUBSET Nat /\ \A q \in po : b \/ q = 1
    BY <1>1, <1>4, CountedOne
  <2>4. v # {} => f
    BY <1>1 DEF PassInv, ReadyInv
  <2>5. f \in BOOLEAN /\ b \in BOOLEAN /\ cur.null \in BOOLEAN
    BY <1>1 DEF PassNow
  <2>6. passes' = Append(passes, e)
    BY <1>4 DEF P!RecordPass
  <2> HIDE DEF f, v, po, b
  <2>7. e \in PassDone
    BY <2>1, <2>2, <2>3, <2>5 DEF PassDone
  <2>8. e.side = P!Now /\ e.rep = P!Pass.rep /\ (e.value # {} => e.fit)
        /\ \A q \in e.perop : e.blind \/ q = 1
    BY <2>3, <2>4
  <2> HIDE DEF e
  <2> QED BY <1>1, <1>2, <1>4, <2>6, <2>7, <2>8, Recorded
<1> QED BY <1>3, <1>4

LEMMA KeepsNext == ASSUME PassInv, P!NextPass PROVE PassInv'
<1>1. /\ PassType /\ step = "next" /\ step' = "begin" /\ pAt' = pAt + 1
      /\ UNCHANGED <<kind, side, cur, passes, verdict>> /\ pAt \notin P!RoundEnds
  BY DEF PassInv, P!NextPass, P!Go
<1>2. pAt' \in 1..LastPass /\ pAt' - 1 = pAt
  <2>1. pAt # LastPass /\ LastPass \in Int
    BY <1>1, PassGiven DEF P!RoundEnds, LastPass
  <2> QED BY <1>1, <2>1, AtIs
<1>3. PassType' /\ RecordInv'
  BY <1>1, <1>2 DEF PassInv, PassType, RecordInv, Between
<1>4. PauseInv' /\ ReadyInv'
  BY <1>1 DEF PassInv, PauseInv, ReadyInv, Between, AtWork
<1>5. JudgedInv'
  BY <1>1 DEF PassInv, JudgedInv, P!FlagEarned
<1> QED BY <1>3, <1>4, <1>5 DEF PassInv

\* A step between the passes that touches neither the record nor what the
\* runner knows of a pause.
LEMMA Idles ==
    ASSUME PassInv, UNCHANGED <<kind, pAt, cur, passes, verdict>>,
           side' \in [P!Sides -> Hosts],
           \A s \in P!Sides : side'[s].paused = side[s].paused
                              /\ side'[s].frozen = side[s].frozen,
           \/ UNCHANGED step /\ step \in {"begin", "after"}
           \/ step = "restore" /\ step' = "done"
    PROVE  PassInv'
<1>1. PassType /\ P!Now \in P!Sides
  BY NowIs DEF PassInv
<1>2. PassType'
  BY <1>1 DEF PassType, Between
<1>3. UNCHANGED P!Now /\ UNCHANGED P!Pass
  BY NowStays
<1>4. PauseInv'
  BY <1>1, <1>3 DEF PassInv, PauseInv, Between, AtWork
<1>5. ReadyInv'
  BY <1>3 DEF PassInv, ReadyInv, Between
<1>6. RecordInv'
  BY DEF PassInv, RecordInv
<1>7. JudgedInv'
  <2>1. (pAt \in P!RoundEnds)' <=> pAt \in P!RoundEnds
    BY DEF P!RoundEnds
  <2> QED BY <2>1, FlagStays DEF PassInv, JudgedInv
<1> QED BY <1>2, <1>4, <1>5, <1>6, <1>7 DEF PassInv

LEMMA KeepsSignal == ASSUME PassInv, P!Signal PROVE PassInv'
<1>1. UNCHANGED <<kind, pAt, step, side, cur, passes, verdict>>
  BY DEF P!Signal
<1>2. UNCHANGED P!Now /\ UNCHANGED P!Pass
  BY <1>1, NowStays
<1>3. PassType' /\ PauseInv' /\ RecordInv'
  BY <1>1, <1>2 DEF PassInv, PassType, PauseInv, RecordInv
<1>4. ReadyInv'
  BY <1>1, <1>2, NowStays DEF PassInv, ReadyInv
<1>5. JudgedInv'
  BY <1>1, FlagStays DEF PassInv, JudgedInv, P!RoundEnds
<1> QED BY <1>3, <1>4, <1>5 DEF PassInv

LEMMA KeepsDrift == ASSUME PassInv, P!Drift PROVE PassInv'
<1>1. /\ PassType /\ UNCHANGED <<kind, pAt, step, cur, passes, verdict>>
      /\ step \in {"begin", "after"}
  BY DEF PassInv, P!Drift
<1>2. PICK s \in P!Sides : \/ side' = [side EXCEPT ![s].watcher = FALSE]
                           \/ side' = [side EXCEPT ![s].master = "n2"]
  BY DEF P!Drift
<1>3. side[s] \in Hosts
  BY <1>1 DEF PassType
<1>4. PICK y \in Hosts : /\ side' = [side EXCEPT ![s] = y]
                         /\ y.paused = side[s].paused /\ y.frozen = side[s].frozen
  <2>1. CASE side' = [side EXCEPT ![s].watcher = FALSE]
    <3> DEFINE y == [side[s] EXCEPT !.watcher = FALSE]
    <3>1. y \in Hosts /\ y.paused = side[s].paused /\ y.frozen = side[s].frozen
      BY <1>3 DEF Hosts
    <3>2. side' = [side EXCEPT ![s] = y]
      BY <1>1, <2>1 DEF PassType
    <3> HIDE DEF y
    <3> QED BY <3>1, <3>2
  <2>2. CASE side' = [side EXCEPT ![s].master = "n2"]
    <3> DEFINE y == [side[s] EXCEPT !.master = "n2"]
    <3>1. y \in Hosts /\ y.paused = side[s].paused /\ y.frozen = side[s].frozen
      BY <1>3 DEF Hosts, Nodes
    <3>2. side' = [side EXCEPT ![s] = y]
      BY <1>1, <2>2 DEF PassType
    <3> HIDE DEF y
    <3> QED BY <3>1, <3>2
  <2> QED BY <1>2, <2>1, <2>2
<1>5. /\ side' \in [P!Sides -> Hosts]
      /\ \A q \in P!Sides : side'[q].paused = side[q].paused
                            /\ side'[q].frozen = side[q].frozen
  BY <1>1, <1>4, SideIs
<1> QED BY <1>1, <1>5, Idles

LEMMA KeepsRestore == ASSUME PassInv, P!Restore PROVE PassInv'
<1>1. PassType /\ UNCHANGED <<kind, pAt, cur, passes, verdict>> /\ step = "restore" /\ step' = "done"
  BY DEF PassInv, P!Restore, P!Go
<1>2. side \in [P!Sides -> Hosts]
  BY <1>1 DEF PassType
<1>3. \A x \in Hosts :
         LET y == [x EXCEPT !.master = "n1", !.n1 = "n1", !.dead = FALSE]
             z == [x EXCEPT !.lost = TRUE] IN
         /\ y \in Hosts /\ y.paused = x.paused /\ y.frozen = x.frozen
         /\ z \in Hosts /\ z.paused = x.paused /\ z.frozen = x.frozen
  BY DEF Hosts, Nodes
<1>4. /\ side' \in [P!Sides -> Hosts]
      /\ \A q \in P!Sides : side'[q].paused = side[q].paused
                            /\ side'[q].frozen = side[q].frozen
  <2>1. CASE side' = [s \in P!Sides |-> [side[s] EXCEPT !.master = "n1", !.n1 = "n1",
                                                        !.dead = FALSE]]
    BY <1>2, <1>3, <2>1
  <2>2. CASE \E s \in P!Sides :
               side' = [side EXCEPT ![s].lost = TRUE,
                          ![P!Other(s)].master = "n1", ![P!Other(s)].n1 = "n1",
                          ![P!Other(s)].dead = FALSE]
    <3>1. PICK s \in P!Sides :
               side' = [side EXCEPT ![s].lost = TRUE,
                          ![P!Other(s)].master = "n1", ![P!Other(s)].n1 = "n1",
                          ![P!Other(s)].dead = FALSE]
      BY <2>2
    <3>2. P!Other(s) \in P!Sides /\ P!Other(s) # s
          /\ \A q \in P!Sides : q = s \/ q = P!Other(s)
      BY OtherIs DEF P!Sides
    <3>3. side' = [side EXCEPT ![s] = [side[s] EXCEPT !.lost = TRUE],
                     ![P!Other(s)] = [side[P!Other(s)] EXCEPT !.master = "n1",
                                        !.n1 = "n1", !.dead = FALSE]]
      BY <1>2, <3>1, <3>2
    <3> QED BY <1>2, <1>3, <3>2, <3>3
  <2> QED BY <2>1, <2>2 DEF P!Restore
<1> QED BY <1>1, <1>4, Idles

-----------------------------------------------------------------------------
(* The judge.                                                              *)

LEMMA PCardinality == \A T : P!Cardinality(T) = Cardinality(T)
  BY DEF P!Cardinality, Cardinality

\* A finite set of numbers has a least: take a smallest set without one.
LEMMA LeastIs ==
    ASSUME NEW T \in SUBSET Int, IsFiniteSet(T), T # {}
    PROVE  \E m \in T : \A y \in T : m <= y
<1> DEFINE Bad(X) == X # {} /\ \A x \in X : \E y \in X : y < x
           Sizes == {Cardinality(X) : X \in {Y \in SUBSET T : Bad(Y)}}
<1>1. \A X \in SUBSET T : IsFiniteSet(X) /\ Cardinality(X) \in Nat
  BY FS_Subset, FS_CardinalityType
<1>2. Sizes \subseteq Nat
  BY <1>1
<1>3. ASSUME Bad(T) PROVE FALSE
  <2>1. Sizes # {}
    BY <1>3
  <2> DEFINE Below == OpToRel(<, Nat)
  <2>2. IsWellFoundedOn(Below, Nat)
    BY NatLessThanWellFounded
  <2>3. \A a, b \in Nat : a < b => <<a, b>> \in Below
    BY DEF OpToRel
  <2> HIDE DEF Below, Sizes
  <2>4. PICK m \in Sizes : \A y \in Sizes : <<y, m>> \notin Below
    BY <1>2, <2>1, <2>2, WFMin
  <2>5. PICK X \in SUBSET T : Bad(X) /\ m = Cardinality(X)
    BY <2>4 DEF Sizes
  <2>6. PICK x \in X : TRUE
    BY <2>5
  <2>7. Bad(X \ {x})
    <3>1. PICK y \in X : y < x
      BY <2>5, <2>6
    <3>2. ASSUME NEW z \in X \ {x} PROVE \E w \in X \ {x} : w < z
      <4>1. PICK w \in X : w < z
        BY <2>5
      <4>2. y < z \/ w # x
        BY <3>1, <4>1
      <4>3. y \in X \ {x}
        BY <3>1
      <4> QED BY <4>1, <4>2, <4>3
    <3> QED BY <3>1, <3>2
  <2>8. Cardinality(X \ {x}) = m - 1 /\ m \in Nat /\ m - 1 \in Nat
    BY <1>1, <2>5, <2>6, FS_RemoveElement
  <2>9. Cardinality(X \ {x}) \in Sizes
    BY <2>7 DEF Sizes
  <2>10. m - 1 < m
    BY <2>8
  <2>11. <<m - 1, m>> \in Below
    BY <2>3, <2>8, <2>10, Zenon
  <2> QED BY <2>4, <2>8, <2>9, <2>11, Zenon
<1> QED BY <1>3

\* And a greatest.
LEMMA MostIs ==
    ASSUME NEW T \in SUBSET Int, IsFiniteSet(T), T # {}
    PROVE  \E m \in T : \A y \in T : y <= m
<1> DEFINE N == {0 - x : x \in T}
           f == [x \in T |-> 0 - x]
<1>1. IsFiniteSet(N)
  <2>1. f \in Surjection(T, N)
    BY DEF Surjection
  <2> QED BY <2>1, FS_Surjection
<1>2. N \in SUBSET Int /\ N # {}
  <2>1. \A x \in T : 0 - x \in Int /\ 0 - x \in N
    OBVIOUS
  <2> QED BY <2>1
<1>3. PICK m \in N : \A y \in N : m <= y
  BY <1>1, <1>2, LeastIs
<1>4. PICK x \in T : m = 0 - x
  BY <1>3
<1>5. ASSUME NEW y \in T PROVE y <= x
  <2>1. 0 - x <= 0 - y
    BY <1>3, <1>4
  <2> QED BY <2>1
<1> QED BY <1>4, <1>5

\* The h-th of the values is one of them.
LEMMA NthIs ==
    ASSUME NEW D, IsFiniteSet(D), D # {}, NEW R \in [D -> Int],
           NEW h \in Nat, h <= Cardinality(D)
    PROVE  \E k \in D : P!Nth(R, h) = R[k]
<1> DEFINE UpTo(j) == {e \in D : R[e] <= R[j]}
           J == {j \in D : Cardinality(UpTo(j)) >= h}
           V == {R[k] : k \in J}
           A == {R[k] : k \in D}
           f == [k \in D |-> R[k]]
<1>1. IsFiniteSet(A) /\ A \in SUBSET Int /\ A # {}
  <2>1. f \in Surjection(D, A)
    BY DEF Surjection
  <2>2. A # {}
    OBVIOUS
  <2> QED BY <2>1, <2>2, FS_Surjection
<1>2. V \in SUBSET A /\ IsFiniteSet(V) /\ V \in SUBSET Int
  <2>1. V \in SUBSET A
    OBVIOUS
  <2> HIDE DEF V, A
  <2> QED BY <1>1, <2>1, FS_Subset
<1>3. V # {}
  <2>1. PICK m \in A : \A y \in A : y <= m
    <3> HIDE DEF A
    <3> QED BY <1>1, MostIs
  <2>2. PICK j \in D : m = R[j]
    BY <2>1
  <2>3. UpTo(j) = D
    BY <2>1, <2>2
  <2>4. j \in J
    BY <2>3
  <2> QED BY <2>4
<1>4. P!Nth(R, h) = (CHOOSE x \in V : \A y \in V : x <= y)
  <2>1. DOMAIN R = D
    OBVIOUS
  <2> QED BY <2>1, PCardinality DEF P!Nth, P!Min
<1>5. P!Nth(R, h) \in V
  <2> HIDE DEF V
  <2>1. \E m \in V : \A y \in V : m <= y
    BY <1>2, <1>3, LeastIs
  <2> QED BY <1>4, <2>1
<1> QED BY <1>5

\* A median has the sign that all of the values have.
LEMMA MedianSign ==
    ASSUME NEW D, IsFiniteSet(D), D # {}, NEW R \in [D -> Int]
    PROVE  /\ P!Median2(R) \in Int
           /\ (\A k \in D : R[k] > 0) => P!Median2(R) > 0
           /\ (\A k \in D : R[k] < 0) => P!Median2(R) < 0
<1> DEFINE n == Cardinality(D)
<1>1. n \in Nat /\ n # 0 /\ DOMAIN R = D /\ P!Cardinality(DOMAIN R) = n
  BY FS_CardinalityType, FS_EmptySet, PCardinality
<1> HIDE DEF n
<1>2. CASE n % 2 = 1
  <2>1. (n + 1) \div 2 \in Nat /\ (n + 1) \div 2 <= n
    BY <1>1, <1>2
  <2>2. PICK k \in D : P!Nth(R, (n + 1) \div 2) = R[k]
    BY <2>1, NthIs DEF n
  <2>3. P!Median2(R) = 2 * R[k] /\ R[k] \in Int
    BY <1>1, <1>2, <2>2 DEF P!Median2
  <2> QED BY <2>3
<1>3. CASE n % 2 # 1
  <2>1. n \div 2 \in Nat /\ n \div 2 <= n /\ n \div 2 + 1 \in Nat /\ n \div 2 + 1 <= n
    BY <1>1, <1>3
  <2>2. PICK k \in D : P!Nth(R, n \div 2) = R[k]
    BY <2>1, NthIs DEF n
  <2>3. PICK j \in D : P!Nth(R, n \div 2 + 1) = R[j]
    BY <2>1, NthIs DEF n
  <2>4. P!Median2(R) = R[k] + R[j] /\ R[k] \in Int /\ R[j] \in Int
    BY <1>1, <1>3, <2>2, <2>3 DEF P!Median2
  <2> QED BY <2>4
<1> QED BY <1>2, <1>3

\* A repetition of a pair has a value on each side.
LEMMA RepOf ==
    ASSUME PassType, NEW k \in P!Both, NEW s \in P!Sides
    PROVE  P!ByRep(s)[k] = P!The(passes[CHOOSE n \in P!Valued(s) : passes[n].rep = k].value)
           /\ P!ByRep(s)[k] \in Int
<1> DEFINE n == CHOOSE m \in P!Valued(s) : passes[m].rep = k
<1>1. n \in P!Valued(s)
  BY DEF P!Both
<1>2. passes[n].value # {} /\ passes[n] \in PassDone
  <2>1. n \in DOMAIN passes /\ passes[n].value # {}
    BY <1>1 DEF P!Valued
  <2>2. passes \in Seq(PassDone)
    BY DEF PassType
  <2> HIDE DEF n
  <2> QED BY <2>1, <2>2
<1>3. P!The(passes[n].value) \in Int
  BY <1>2 DEF P!The, PassDone
<1> QED BY <1>3 DEF P!ByRep

LEMMA RatiosAre ==
    ASSUME PassType
    PROVE  /\ IsFiniteSet(P!Both) /\ P!PairRatios \in [P!Both -> Int]
           /\ \A k \in P!Both :
                /\ P!PairRatios[k] > 0 =>
                     P!MetricValue(P!ByRep("target")[k]) > P!MetricValue(P!ByRep("reference")[k])
                /\ P!PairRatios[k] < 0 =>
                     P!MetricValue(P!ByRep("target")[k]) < P!MetricValue(P!ByRep("reference")[k])
<1>1. IsFiniteSet(P!Both)
  <2>1. IsFiniteSet(1..OfPass.repeats + OfPass.remeasure)
    BY PassGiven, FS_Interval
  <2>2. P!Both \in SUBSET (1..OfPass.repeats + OfPass.remeasure)
    BY DEF P!Both
  <2> QED BY <2>1, <2>2, FS_Subset
<1>2. ASSUME NEW k \in P!Both
      PROVE  /\ P!Orient(P!ByRep("target")[k], P!ByRep("reference")[k]) \in Int
             /\ P!PairRatios[k] = P!Orient(P!ByRep("target")[k], P!ByRep("reference")[k])
             /\ P!PairRatios[k] > 0 =>
                  P!MetricValue(P!ByRep("target")[k]) > P!MetricValue(P!ByRep("reference")[k])
             /\ P!PairRatios[k] < 0 =>
                  P!MetricValue(P!ByRep("target")[k]) < P!MetricValue(P!ByRep("reference")[k])
  <2>1. P!ByRep("target")[k] \in Int /\ P!ByRep("reference")[k] \in Int
    BY RepOf DEF P!Sides
  <2> QED BY <2>1 DEF P!PairRatios, P!Orient, P!MetricValue
<1> QED BY <1>1, <1>2 DEF P!PairRatios

\* Where every pass had its watcher both builds are seen to do one unit of work.
LEMMA WorkSame ==
    ASSUME PassType, RecordInv, \A n \in DOMAIN passes : ~ passes[n].blind
    PROVE  ~ P!Moved
<1>1. ASSUME NEW s \in P!Sides
      PROVE  /\ P!SumPerOp(s) = Cardinality(P!PerOps(s))
             /\ Cardinality(P!PerOps(s)) \in Nat
  <2> DEFINE S == P!PerOps(s)
             E == {e \in S \X (1..P!Ops) : e[2] <= P!The(passes[e[1]].perop)}
             f == [n \in S |-> <<n, 1>>]
  <2>1. S \in SUBSET DOMAIN passes /\ IsFiniteSet(S)
    <3>1. DOMAIN passes = 1..Len(passes) /\ Len(passes) \in Nat
      BY DEF PassType
    <3>2. S \in SUBSET DOMAIN passes
      BY DEF P!PerOps
    <3>3. IsFiniteSet(1..Len(passes))
      BY <3>1, FS_Interval
    <3> HIDE DEF S
    <3> QED BY <3>1, <3>2, <3>3, FS_Subset
  <2>2. ASSUME NEW n \in S PROVE P!The(passes[n].perop) = 1
    <3>1. passes[n].perop # {} /\ n \in DOMAIN passes
      BY <2>2 DEF P!PerOps
    <3>2. P!The(passes[n].perop) \in passes[n].perop
      BY <3>1 DEF P!The
    <3> QED BY <3>1, <3>2 DEF RecordInv
  <2>3. E = {<<n, 1>> : n \in S}
    BY <2>2 DEF P!Ops
  <2>4. f \in Bijection(S, E)
    <3> HIDE DEF S, E
    <3> QED BY <2>3 DEF Bijection, Injection, IsInjective, Surjection
  <2>5. Cardinality(E) = Cardinality(S)
    <3> HIDE DEF S, E, f
    <3> QED BY <2>1, <2>4, FS_Bijection DEF ExistsBijection
  <2>6. P!SumPerOp(s) = Cardinality(E)
    BY PCardinality DEF P!SumPerOp
  <2> QED BY <2>1, <2>5, <2>6, FS_CardinalityType
<1> DEFINE t == Cardinality(P!PerOps("target"))
           r == Cardinality(P!PerOps("reference"))
<1>2. /\ P!SumPerOp("target") = t /\ P!SumPerOp("reference") = r
      /\ P!Cardinality(P!PerOps("target")) = t /\ P!Cardinality(P!PerOps("reference")) = r
      /\ t \in Nat /\ r \in Nat
  BY <1>1, PCardinality DEF P!Sides
<1> HIDE DEF t, r
<1>3. t * r = r * t /\ t * r \in Nat
  BY <1>2
<1> QED BY <1>2, <1>3 DEF P!Moved

LEMMA JudgeEarns ==
    ASSUME PassType, RecordInv, UNCHANGED <<kind, passes>>, NEW n,
           verdict' = P!Judge(n)
    PROVE  P!FlagEarned'
<1> DEFINE R == P!PairRatios
           B == P!Both
           Time(s, k) == P!MetricValue(P!ByRep(s)[k])
<1>1. /\ IsFiniteSet(B) /\ R \in [B -> Int]
      /\ \A k \in B : /\ R[k] > 0 => Time("target", k) > Time("reference", k)
                      /\ R[k] < 0 => Time("target", k) < Time("reference", k)
  BY RatiosAre
<1>2. ASSUME P!Agreed(R), B # {}
      PROVE  /\ P!Cardinality(B) >= OfPass.pairs
             /\ P!Median2(R) > 0 => \A k \in B : R[k] > 0
             /\ ~ (P!Median2(R) > 0) => \A k \in B : R[k] < 0
  <2>1. P!Cardinality(B) >= OfPass.pairs
        /\ ((\A k \in B : R[k] > 0) \/ \A k \in B : R[k] < 0)
    BY <1>1, <1>2 DEF P!Agreed
  <2>2. /\ P!Median2(R) \in Int
        /\ (\A k \in B : R[k] > 0) => P!Median2(R) > 0
        /\ (\A k \in B : R[k] < 0) => P!Median2(R) < 0
    BY <1>1, <1>2, MedianSign
  <2>3. ~ (P!Median2(R) > 0 /\ P!Median2(R) < 0)
    BY <2>2
  <2> QED BY <2>1, <2>2, <2>3
<1>3. /\ verdict' = "regression" => P!Agreed(R) /\ B # {} /\ P!Median2(R) > 0
      /\ verdict' = "improvement" => P!Agreed(R) /\ B # {} /\ ~ (P!Median2(R) > 0)
      /\ verdict' = "workload_change" => P!Moved
  <2>1. DOMAIN R = B
    BY <1>1
  <2> QED BY <2>1 DEF P!Judge
<1>4. verdict' = "workload_change" => \E m \in DOMAIN passes : passes[m].blind
  BY <1>3, WorkSame
<1>5. /\ verdict' = "regression" =>
           P!Cardinality(B) >= OfPass.pairs
           /\ \A k \in B : Time("target", k) > Time("reference", k)
      /\ verdict' = "improvement" =>
           P!Cardinality(B) >= OfPass.pairs
           /\ \A k \in B : Time("target", k) < Time("reference", k)
  <2> HIDE DEF R, B, Time
  <2> QED BY <1>1, <1>2, <1>3
<1>6. \A k \in B, s \in {"target", "reference"} :
        Time(s, k) = P!MetricValue(P!The(passes[CHOOSE m \in P!Valued(s) :
                                                  passes[m].rep = k].value))
  BY DEF P!ByRep
<1> QED BY <1>4, <1>5, <1>6 DEF P!FlagEarned, P!Both, P!Valued, P!MetricValue

LEMMA KeepsJudges == ASSUME PassInv, P!Judges PROVE PassInv'
<1>1. /\ PassType /\ RecordInv /\ step = "next" /\ pAt \in P!RoundEnds /\ verdict = ""
      /\ UNCHANGED <<kind, side, cur, passes>>
  BY DEF PassInv, JudgedInv, P!Judges
<1>2. CASE /\ P!Repeats = OfPass.repeats /\ pAt' = pAt + 1 /\ step' = "begin"
           /\ UNCHANGED verdict
  <2>1. pAt # LastPass
    <3>1. CASE pAt = 2 * (OfPass.warmup + OfPass.repeats)
      BY <3>1, PassGiven DEF LastPass
    <3>2. CASE pAt # 2 * (OfPass.warmup + OfPass.repeats)
      BY <1>2, <3>2, PassGiven DEF P!Repeats
    <3> QED BY <3>1, <3>2
  <2>2. pAt' \in 1..LastPass /\ pAt' - 1 = pAt
    <3>1. pAt \in Nat /\ pAt >= 1 /\ pAt <= LastPass
      BY <1>1, AtIs
    <3>2. LastPass \in Int
      BY PassGiven DEF LastPass
    <3> QED BY <1>2, <2>1, <3>1, <3>2
  <2>3. PassType' /\ RecordInv'
    BY <1>1, <1>2, <2>2 DEF PassInv, PassType, RecordInv, Between
  <2>4. PauseInv' /\ ReadyInv'
    BY <1>1, <1>2 DEF PassInv, PauseInv, ReadyInv, Between, AtWork
  <2>5. JudgedInv'
    BY <1>1, <1>2 DEF JudgedInv, P!FlagEarned
  <2> QED BY <2>3, <2>4, <2>5 DEF PassInv
<1>3. CASE /\ verdict' = P!Judge(P!Repeats) /\ step' \in {"restore", "done"}
           /\ UNCHANGED pAt
  <2>1. PassType' /\ RecordInv'
    BY <1>1, <1>3 DEF PassInv, PassType, RecordInv, Between
  <2>2. PauseInv' /\ ReadyInv'
    BY <1>1, <1>3, NowStays DEF PassInv, PauseInv, ReadyInv, Between, AtWork
  <2>3. JudgedInv'
    <3>1. (pAt \in P!RoundEnds)'
      BY <1>1, <1>3 DEF P!RoundEnds
    <3>2. P!FlagEarned'
      BY <1>1, <1>3, JudgeEarns
    <3> QED BY <1>3, <3>1, <3>2 DEF JudgedInv
  <2> QED BY <2>1, <2>2, <2>3 DEF PassInv
<1> QED BY <1>2, <1>3 DEF P!Judges, P!Go

-----------------------------------------------------------------------------
\* The passes of a repetition are the two that come one after the other.
LEMMA PairOf ==
    ASSUME NEW k \in Nat \ {0}
    PROVE  /\ \A n \in Nat : P!Measure(n).rep = k => n = 2 * k - 1 \/ n = 2 * k
           /\ P!Measure(2 * k - 1).rep = k /\ P!Measure(2 * k).rep = k
           /\ P!Measure(2 * k).side = P!Other(P!Measure(2 * k - 1).side)
           /\ P!Measure(2 * k - 1).side \in P!Sides
<1>1. \A n \in Nat : (n + 1) \div 2 = k => n = 2 * k - 1 \/ n = 2 * k
  OBVIOUS
<1>2. 2 * k - 1 \in Nat /\ 2 * k \in Nat
  OBVIOUS
<1>3. (2 * k - 1 + 1) \div 2 = k /\ (2 * k + 1) \div 2 = k
  OBVIOUS
<1>4. (2 * k - 1) % 2 = 1 /\ (2 * k) % 2 = 0
  OBVIOUS
<1>5. P!Rep(2 * k - 1) = k /\ P!Rep(2 * k) = k
  BY <1>3 DEF P!Rep
<1>6. P!Measure(2 * k).side = P!Other(P!Measure(2 * k - 1).side)
  BY <1>4, <1>5 DEF P!Measure, P!Turn
<1> QED BY <1>1, <1>2, <1>3, <1>6, MeasureIs

LEMMA PassPromises ==
    ASSUME PassInv
    PROVE  PassesSound
<1>1. P!ValuesSound
  BY DEF PassInv, RecordInv, P!ValuesSound
<1>2. P!PauseKnown
  BY DEF PassInv, PauseInv, Between, P!PauseKnown
<1>3. P!FlagEarned
  BY DEF PassInv, JudgedInv
<1>4. P!RepsOnRecord
  <2>1. SUFFICES ASSUME verdict # "", NEW s \in P!Sides, NEW k \in 1..P!Repeats
                 PROVE  P!Cardinality({n \in DOMAIN passes :
                                         passes[n].side = s /\ passes[n].rep = k}) = 1
    BY DEF P!RepsOnRecord
  <2>2. /\ PassType /\ RecordInv /\ pAt \in P!RoundEnds
        /\ Len(passes) = MeasuredBy(pAt)
    BY <2>1 DEF PassInv, JudgedInv, RecordInv
  <2>3. MeasuredBy(pAt) = 2 * P!Repeats /\ P!Repeats \in Nat
    <3>1. CASE pAt = 2 * (OfPass.warmup + OfPass.repeats)
      BY <3>1, PassGiven DEF P!Repeats, MeasuredBy
    <3>2. CASE pAt # 2 * (OfPass.warmup + OfPass.repeats)
      <4> DEFINE w == OfPass.warmup
                 q == OfPass.repeats
                 m == OfPass.remeasure
      <4>1. w \in Nat /\ q \in Nat \ {0} /\ m \in Nat \ {0}
        BY PassGiven
      <4>2. pAt = 2 * (w + q + m) /\ P!Repeats = q + m
        BY <2>2, <3>2 DEF P!RoundEnds, P!Repeats
      <4>3. MeasuredBy(pAt) = IF pAt > 2 * w THEN pAt - 2 * w ELSE 0
        BY DEF MeasuredBy
      <4> HIDE DEF w, q, m
      <4> QED BY <4>1, <4>2, <4>3
    <3> QED BY <3>1, <3>2
  <2>4. DOMAIN passes = 1..2 * P!Repeats
    BY <2>2, <2>3 DEF PassType
  <2>5. k \in Nat \ {0} /\ 2 * k - 1 \in DOMAIN passes /\ 2 * k \in DOMAIN passes
        /\ \A n \in DOMAIN passes : n \in Nat
    BY <2>3, <2>4
  <2> DEFINE a == 2 * k - 1
             b == 2 * k
             S == {n \in DOMAIN passes : passes[n].side = s /\ passes[n].rep = k}
  <2>6. a # b
    BY <2>5
  <2>7. \A n \in DOMAIN passes : passes[n].rep = k <=> n \in {a, b}
    <3>1. \A n \in DOMAIN passes : passes[n].rep = P!Measure(n).rep
      BY <2>2 DEF RecordInv
    <3>2. \A n \in Nat : P!Measure(n).rep = k <=> n \in {a, b}
      BY <2>5, PairOf
    <3> HIDE DEF a, b
    <3> QED BY <2>5, <3>1, <3>2
  <2>8. /\ passes[b].side = P!Other(passes[a].side) /\ passes[a].side \in P!Sides
    <3>1. \A n \in DOMAIN passes : passes[n].side = P!Measure(n).side
      BY <2>2 DEF RecordInv
    <3>2. P!Measure(b).side = P!Other(P!Measure(a).side) /\ P!Measure(a).side \in P!Sides
      BY <2>5, PairOf
    <3>3. a \in DOMAIN passes /\ b \in DOMAIN passes
      BY <2>5
    <3> HIDE DEF a, b
    <3> QED BY <3>1, <3>2, <3>3
  <2>9. S = {a} \/ S = {b}
    <3>1. (passes[a].side = s) <=> (passes[b].side # s)
      BY <2>8, OtherIs DEF P!Sides
    <3> HIDE DEF a, b
    <3> QED BY <2>5, <2>7, <3>1 DEF a, b
  <2>10. Cardinality(S) = 1
    <3> HIDE DEF S, a, b
    <3> QED BY <2>9, FS_Singleton
  <2> QED BY <2>10, PCardinality
<1> QED BY <1>1, <1>2, <1>3, <1>4 DEF PassesSound

LEMMA PassStarts ==
    ASSUME NEW k \in OfPass.kinds, P!PassInit(k)
    PROVE  PassInv
<1>1. P!FreshSide \in Hosts /\ ~ P!FreshSide.paused
  BY DEF P!FreshSide, Hosts, Nodes
<1>2. P!NoPass \in PassNow /\ P!NoPass.time = {}
  BY DEF P!NoPass, PassNow
<1>3. /\ kind = k /\ pAt = 1 /\ step = "begin" /\ side = [s \in P!Sides |-> P!FreshSide]
      /\ cur = P!NoPass /\ passes = <<>> /\ verdict = ""
  BY DEF P!PassInit
<1>4. 1 \in 1..LastPass
  BY PassGiven DEF LastPass
<1>5. PassType
  <2>1. side \in [P!Sides -> Hosts]
    BY <1>1, <1>3
  <2>2. pAt \in 1..LastPass /\ kind \in OfPass.kinds /\ step \in Between
    BY <1>3, <1>4, Zenon DEF Between
  <2>3. cur \in PassNow
    BY <1>2, <1>3, Zenon
  <2>4. passes \in Seq(PassDone)
    <3>1. passes = <<>>
      BY <1>3, Zenon
    <3> QED BY <3>1
  <2> QED BY <2>1, <2>2, <2>3, <2>4 DEF PassType
<1>6. PauseInv /\ ReadyInv /\ JudgedInv
  BY <1>1, <1>2, <1>3 DEF PauseInv, ReadyInv, JudgedInv, Between, AtWork, P!FlagEarned
<1>7. RecordInv
  <2>1. pAt = 1 /\ passes = <<>> /\ step = "begin"
    BY <1>3
  <2>2. MeasuredBy(pAt - 1) = 0
    BY <2>1, PassGiven DEF MeasuredBy
  <2>3. DOMAIN passes = {} /\ Len(passes) = 0
    BY <2>1
  <2> QED BY <2>1, <2>2, <2>3 DEF RecordInv
<1> QED BY <1>5, <1>6, <1>7 DEF PassInv

LEMMA PassKeeps ==
    ASSUME PassInv, P!Run \/ P!Signal \/ P!Drift
    PROVE  PassInv'
<1>1. CASE P!Run
  BY <1>1, KeepsSignalPass, KeepsThaw, KeepsThawFails, KeepsPause, KeepsUnpause,
     KeepsSettle, KeepsReset, KeepsSlave, KeepsCold, KeepsWatch, KeepsPre,
     KeepsClient, KeepsAfter, KeepsRecord, KeepsNext, KeepsJudges, KeepsRestore DEF P!Run
<1> QED BY <1>1, KeepsSignal, KeepsDrift

-----------------------------------------------------------------------------
(* The conf groups of a list of cases.                                     *)

UpTo(S, n) == {m \in S : m <= n}

\* No two of a set of numbers have the same number of it up to them.
LEMMA RankOnce ==
    ASSUME NEW S \in SUBSET Int, IsFiniteSet(S), NEW a \in S, NEW b \in S,
           Cardinality(UpTo(S, a)) = Cardinality(UpTo(S, b))
    PROVE  a = b
<1>1. \A n \in S : IsFiniteSet(UpTo(S, n)) /\ n \in UpTo(S, n)
  <2>1. SUFFICES ASSUME NEW n \in S PROVE IsFiniteSet(UpTo(S, n)) /\ n \in UpTo(S, n)
    OBVIOUS
  <2>2. UpTo(S, n) \in SUBSET S
    BY DEF UpTo
  <2> QED BY <2>2, FS_Subset DEF UpTo
<1>2. ASSUME NEW x \in S, NEW y \in S, x < y,
             Cardinality(UpTo(S, x)) = Cardinality(UpTo(S, y))
      PROVE  FALSE
  <2>1. x \in Int /\ y \in Int
    OBVIOUS
  <2>2. \A m \in Int : m <= x => m <= y
    BY <1>2, <2>1
  <2>3. UpTo(S, x) \in SUBSET UpTo(S, y)
    BY <2>2 DEF UpTo
  <2>4. y \in UpTo(S, y) /\ y \notin UpTo(S, x)
    BY <1>2, <2>1 DEF UpTo
  <2> QED BY <1>1, <1>2, <2>3, <2>4, FS_Subset
<1> QED BY <1>2

\* The k-th of a finite set of numbers is there.
LEMMA RankIs ==
    ASSUME NEW S \in SUBSET Int, IsFiniteSet(S), NEW k \in 1..Cardinality(S)
    PROVE  \E n \in S : Cardinality(UpTo(S, n)) = k
<1> DEFINE C == Cardinality(S)
           Bad == {b \in 1..C : \A n \in S : Cardinality(UpTo(S, n)) # b}
<1>1. SUFFICES ASSUME Bad # {} PROVE FALSE
  OBVIOUS
<1>2. C \in Nat
  BY FS_CardinalityType
<1>3. PICK b \in Bad : \A y \in Bad : b <= y
  <2>1. Bad \in SUBSET (1..C) /\ IsFiniteSet(1..C)
    BY <1>2, FS_Interval
  <2>2. IsFiniteSet(Bad) /\ Bad \in SUBSET Int
    <3>1. 1..C \in SUBSET Int
      BY <1>2
    <3> HIDE DEF Bad, C
    <3>2. IsFiniteSet(Bad)
      BY <2>1, FS_Subset
    <3> QED BY <2>1, <3>1, <3>2
  <2> QED BY <1>1, <2>2, LeastIs
<1>4. b \in 1..C
  OBVIOUS
<1>5. PICK U \in SUBSET S : /\ Cardinality(U) = b - 1
                            /\ \A m \in U, n \in S : n <= m => n \in U
  <2>1. CASE b = 1
    BY <2>1, FS_EmptySet
  <2>2. CASE b # 1
    <3>1. b - 1 \in 1..C /\ b - 1 \notin Bad
      BY <1>2, <1>3, <1>4, <2>2
    <3>2. PICK n \in S : Cardinality(UpTo(S, n)) = b - 1
      BY <3>1
    <3> QED BY <3>2 DEF UpTo
  <2> QED BY <2>1, <2>2
<1>6. IsFiniteSet(U) /\ IsFiniteSet(S \ U) /\ S \ U # {} /\ S \ U \in SUBSET Int
  <2>1. IsFiniteSet(U) /\ IsFiniteSet(S \ U)
    BY <1>5, FS_Subset, FS_Difference
  <2>2. U # S
    BY <1>2, <1>4, <1>5
  <2> QED BY <2>1, <2>2
<1>7. PICK l \in S \ U : \A y \in S \ U : l <= y
  BY <1>6, LeastIs
<1>8. UpTo(S, l) = U \cup {l}
  <2>1. ASSUME NEW m \in S, m <= l PROVE m \in U \cup {l}
    BY <1>7, <2>1
  <2>2. ASSUME NEW m \in U PROVE m <= l
    <3>1. ~ (l <= m)
      BY <1>5, <1>7
    <3> QED BY <3>1
  <2>3. l \in S /\ l <= l /\ \A m \in U : m \in S
    OBVIOUS
  <2> QED BY <2>1, <2>2, <2>3 DEF UpTo
<1>9. Cardinality(UpTo(S, l)) = b
  <2>1. Cardinality(U \cup {l}) = Cardinality(U) + 1
    BY <1>6, <1>7, FS_AddElement
  <2> QED BY <1>2, <1>4, <1>5, <1>8, <2>1
<1> QED BY <1>7, <1>9

\* In their order they are each there once.
LEMMA InOrderIs ==
    ASSUME NEW S \in SUBSET Int, IsFiniteSet(S)
    PROVE  /\ InOrder(S) \in [1..Cardinality(S) -> S] /\ Cardinality(S) \in Nat
           /\ \A j, k \in 1..Cardinality(S) : InOrder(S)[j] = InOrder(S)[k] => j = k
           /\ \A n \in S : \E k \in 1..Cardinality(S) : InOrder(S)[k] = n
<1> DEFINE C == Cardinality(S)
<1>1. C \in Nat
  BY FS_CardinalityType
<1>2. ASSUME NEW k \in 1..C
      PROVE  InOrder(S)[k] \in S /\ Cardinality(UpTo(S, InOrder(S)[k])) = k
  <2>1. InOrder(S)[k] = CHOOSE n \in S : Cardinality(UpTo(S, n)) = k
    BY DEF InOrder, UpTo
  <2> QED BY <2>1, RankIs
<1>3. ASSUME NEW n \in S PROVE \E k \in 1..C : InOrder(S)[k] = n
  <2> DEFINE k == Cardinality(UpTo(S, n))
  <2>1. UpTo(S, n) \in SUBSET S /\ n \in UpTo(S, n)
    BY DEF UpTo
  <2>2. IsFiniteSet(UpTo(S, n)) /\ k \in Nat /\ k <= C /\ k # 0
    BY <2>1, FS_Subset, FS_CardinalityType, FS_EmptySet
  <2>3. k \in 1..C
    BY <1>1, <2>2
  <2>4. InOrder(S)[k] \in S /\ Cardinality(UpTo(S, InOrder(S)[k])) = Cardinality(UpTo(S, n))
    BY <1>2, <2>3
  <2>5. InOrder(S)[k] = n
    <3> DEFINE a == InOrder(S)[k]
    <3>1. a \in S /\ Cardinality(UpTo(S, a)) = Cardinality(UpTo(S, n))
      BY <2>4
    <3> HIDE DEF a, k
    <3>2. a = n
      BY <3>1, RankOnce
    <3> QED BY <3>2 DEF a
  <2> QED BY <2>3, <2>5
<1>4. InOrder(S) \in [1..C -> S]
  BY <1>2 DEF InOrder
<1> QED BY <1>1, <1>2, <1>3, <1>4

\* The places of the cases of the first n - 1 groups.
Before(cs, n) == {m \in DOMAIN cs : \E j \in 1..n - 1 :
                    Key[cs[m]] = Key[cs[InOrder(Firsts(cs))[j]]]}

LEMMA GroupIs ==
    ASSUME NEW cs \in Seq(Cases), NEW n \in DOMAIN cs
    PROVE  /\ ConfGroup(cs, n) \in Seq(Cases) /\ ConfGroup(cs, n) # <<>>
           /\ Len(ConfGroup(cs, n)) = Cardinality(Alike(cs, n))
           /\ IsFiniteSet(Alike(cs, n)) /\ Alike(cs, n) \in SUBSET DOMAIN cs
           /\ \A k \in 1..Len(ConfGroup(cs, n)) : Key[ConfGroup(cs, n)[k]] = Key[cs[n]]
           /\ {cs[m] : m \in Alike(cs, n)} = {ConfGroup(cs, n)[k] : k \in 1..Len(ConfGroup(cs, n))}
<1> DEFINE A == Alike(cs, n)
           C == Cardinality(A)
           f == InOrder(A)
<1>1. A \in SUBSET DOMAIN cs /\ n \in A /\ DOMAIN cs = 1..Len(cs) /\ Len(cs) \in Nat
  BY DEF Alike
<1>2. IsFiniteSet(A) /\ A \in SUBSET Int
  <2>1. IsFiniteSet(1..Len(cs))
    BY <1>1, FS_Interval
  <2> QED BY <1>1, <2>1, FS_Subset
<1>3. /\ f \in [1..C -> A] /\ C \in Nat /\ C # 0
      /\ \A m \in A : \E k \in 1..C : f[k] = m
  BY <1>1, <1>2, InOrderIs, FS_EmptySet
<1>4. ConfGroup(cs, n) = [k \in 1..C |-> cs[f[k]]]
  BY <1>3 DEF ConfGroup
<1>5. \A k \in 1..C : cs[f[k]] \in Cases /\ Key[cs[f[k]]] = Key[cs[n]]
  BY <1>1, <1>3 DEF Alike
<1> HIDE DEF f, C
<1>6. ConfGroup(cs, n) \in Seq(Cases) /\ Len(ConfGroup(cs, n)) = C
  <2> DEFINE h(k) == cs[f[k]]
             grp == ConfGroup(cs, n)
  <2>1. grp = [k \in 1..C |-> h(k)] /\ C \in Nat
    BY <1>3, <1>4
  <2>2. \A k \in 1..C : h(k) \in Cases
    BY <1>5
  <2> HIDE DEF h, grp
  <2>3. grp \in [1..C -> Cases]
    BY <2>1, <2>2
  <2>4. grp \in Seq(Cases) /\ Len(grp) = C
    BY <2>1, <2>3
  <2> QED BY <2>4 DEF grp
<1>7. ConfGroup(cs, n) # <<>>
  BY <1>3, <1>6
<1>8. {cs[m] : m \in A} = {ConfGroup(cs, n)[k] : k \in 1..C}
  <2> HIDE DEF A
  <2> QED BY <1>3, <1>4
<1>9. \A k \in 1..C : Key[ConfGroup(cs, n)[k]] = Key[cs[n]]
  BY <1>4, <1>5
<1>10. Len(ConfGroup(cs, n)) = Cardinality(A)
  BY <1>6 DEF C
<1> HIDE DEF A
<1>11. /\ \A k \in 1..Len(ConfGroup(cs, n)) : Key[ConfGroup(cs, n)[k]] = Key[cs[n]]
       /\ {cs[m] : m \in A} = {ConfGroup(cs, n)[k] : k \in 1..Len(ConfGroup(cs, n))}
  BY <1>6, <1>8, <1>9
<1> QED BY <1>1, <1>2, <1>6, <1>7, <1>10, <1>11 DEF A

\* The groups: each is of one key, no two of the same, and they are of the
\* cases of the list, each in one of them.
LEMMA GroupsAre ==
    ASSUME NEW cs \in Seq(Cases)
    PROVE  LET G == ConfGroups(cs) IN
           /\ G \in Seq(Seq(Cases))
           /\ \A n \in 1..Len(G) :
                /\ G[n] # <<>>
                /\ \A k \in 1..Len(G[n]) : Key[G[n][k]] = Key[G[n][1]]
                /\ \A m \in 1..Len(G) : Key[G[m][1]] = Key[G[n][1]] => m = n
                /\ Cardinality(Before(cs, n + 1)) = Cardinality(Before(cs, n)) + Len(G[n])
                /\ {cs[m] : m \in Before(cs, n + 1)} =
                       {cs[m] : m \in Before(cs, n)} \cup {G[n][k] : k \in 1..Len(G[n])}
           /\ Before(cs, 1) = {} /\ Before(cs, Len(G) + 1) = DOMAIN cs
           /\ \A n \in Nat : Cardinality(Before(cs, n)) \in Nat
           /\ cs # <<>> => G # <<>>
<1> DEFINE F == InOrder(Firsts(cs))
           N == Cardinality(Firsts(cs))
           G == ConfGroups(cs)
<1>1. /\ Firsts(cs) \in SUBSET DOMAIN cs /\ DOMAIN cs = 1..Len(cs) /\ Len(cs) \in Nat
      /\ IsFiniteSet(DOMAIN cs)
  <2>1. DOMAIN cs = 1..Len(cs) /\ Len(cs) \in Nat
    OBVIOUS
  <2>2. IsFiniteSet(1..Len(cs))
    BY <2>1, FS_Interval
  <2> QED BY <2>1, <2>2 DEF Firsts
<1>2. IsFiniteSet(Firsts(cs)) /\ Firsts(cs) \in SUBSET Int
  BY <1>1, FS_Subset
<1>3. /\ F \in [1..N -> Firsts(cs)] /\ N \in Nat
      /\ \A j, k \in 1..N : F[j] = F[k] => j = k
      /\ \A n \in Firsts(cs) : \E k \in 1..N : F[k] = n
  BY <1>2, InOrderIs
<1>4. G = [h \in 1..N |-> ConfGroup(cs, F[h])]
  BY <1>3 DEF ConfGroups
<1>5. \A h \in 1..N : F[h] \in DOMAIN cs /\ F[h] \in Firsts(cs)
  BY <1>1, <1>3
<1>6. ASSUME NEW a \in Firsts(cs), NEW b \in Firsts(cs), Key[cs[a]] = Key[cs[b]]
      PROVE  a = b
  <2>1. a \in Alike(cs, b) /\ b \in Alike(cs, a) /\ a \in Int /\ b \in Int
    BY <1>1, <1>6 DEF Alike
  <2>2. a <= b /\ b <= a
    BY <2>1 DEF Firsts
  <2> QED BY <2>1, <2>2
<1>7. ASSUME NEW m \in DOMAIN cs PROVE \E j \in 1..N : Key[cs[F[j]]] = Key[cs[m]]
  <2>1. Alike(cs, m) \in SUBSET DOMAIN cs /\ m \in Alike(cs, m)
    BY DEF Alike
  <2>2. IsFiniteSet(Alike(cs, m)) /\ Alike(cs, m) \in SUBSET Int
    BY <1>1, <2>1, FS_Subset
  <2>3. PICK l \in Alike(cs, m) : \A y \in Alike(cs, m) : l <= y
    BY <2>1, <2>2, LeastIs
  <2>4. l \in DOMAIN cs /\ Key[cs[l]] = Key[cs[m]]
    BY DEF Alike
  <2>5. Alike(cs, l) = Alike(cs, m)
    BY <2>4 DEF Alike
  <2>6. l \in Firsts(cs)
    BY <2>3, <2>4, <2>5 DEF Firsts
  <2> QED BY <1>3, <2>4, <2>6
<1>8. \A n \in Nat : Before(cs, n) \in SUBSET DOMAIN cs /\ IsFiniteSet(Before(cs, n))
                     /\ Cardinality(Before(cs, n)) \in Nat
  <2>1. \A n \in Nat : Before(cs, n) \in SUBSET DOMAIN cs
    BY DEF Before
  <2> QED BY <1>1, <2>1, FS_Subset, FS_CardinalityType
<1> HIDE DEF F, N, G
<1>9. G \in Seq(Seq(Cases)) /\ Len(G) = N /\ \A h \in 1..N : G[h] = ConfGroup(cs, F[h])
  <2>1. \A h \in 1..N : ConfGroup(cs, F[h]) \in Seq(Cases)
    BY <1>5, GroupIs
  <2> QED BY <1>3, <1>4, <2>1
<1>10. ASSUME NEW n \in 1..N
       PROVE  /\ G[n] \in Seq(Cases) /\ G[n] # <<>> /\ Key[G[n][1]] = Key[cs[F[n]]]
              /\ \A k \in 1..Len(G[n]) : Key[G[n][k]] = Key[G[n][1]]
  <2>1. /\ G[n] \in Seq(Cases) /\ G[n] # <<>>
        /\ \A k \in 1..Len(G[n]) : Key[G[n][k]] = Key[cs[F[n]]]
    BY <1>5, <1>9, GroupIs
  <2>2. 1 \in 1..Len(G[n])
    BY <2>1
  <2> QED BY <2>1, <2>2
<1>11. ASSUME NEW n \in 1..N
       PROVE  /\ Cardinality(Before(cs, n + 1)) = Cardinality(Before(cs, n)) + Len(G[n])
              /\ {cs[m] : m \in Before(cs, n + 1)} =
                     {cs[m] : m \in Before(cs, n)} \cup {G[n][k] : k \in 1..Len(G[n])}
  <2> DEFINE A == Alike(cs, F[n])
  <2>1. /\ IsFiniteSet(A) /\ A \in SUBSET DOMAIN cs /\ Len(G[n]) = Cardinality(A)
        /\ {cs[m] : m \in A} = {G[n][k] : k \in 1..Len(G[n])}
    <3>1. F[n] \in DOMAIN cs /\ G[n] = ConfGroup(cs, F[n])
      BY <1>5, <1>9
    <3>2. /\ IsFiniteSet(A) /\ A \in SUBSET DOMAIN cs
          /\ Len(ConfGroup(cs, F[n])) = Cardinality(A)
      BY <3>1, GroupIs
    <3>3. {cs[m] : m \in A} =
              {ConfGroup(cs, F[n])[k] : k \in 1..Len(ConfGroup(cs, F[n]))}
      BY <3>1, GroupIs
    <3> HIDE DEF A
    <3> QED BY <3>1, <3>2, <3>3
  <2>2. n \in Nat /\ n + 1 \in Nat /\ 1..(n + 1) - 1 = (1..n - 1) \cup {n}
    BY <1>3
  <2>3. Before(cs, n + 1) = Before(cs, n) \cup A
    BY <2>2 DEF Before, Alike, F
  <2>4. Before(cs, n) \cap A = {}
    <3>1. SUFFICES ASSUME NEW m \in Before(cs, n), m \in A PROVE FALSE
      OBVIOUS
    <3>2. PICK j \in 1..n - 1 : Key[cs[m]] = Key[cs[F[j]]]
      BY DEF Before, F
    <3>3. j \in 1..N /\ j # n /\ Key[cs[m]] = Key[cs[F[n]]]
      BY <1>3, <3>1 DEF Alike
    <3> QED BY <1>3, <1>5, <1>6, <3>2, <3>3
  <2>5. IsFiniteSet(Before(cs, n))
    BY <1>8, <2>2
  <2> HIDE DEF A
  <2>6. Cardinality(Before(cs, n) \cup A) =
            Cardinality(Before(cs, n)) + Cardinality(A) - Cardinality(Before(cs, n) \cap A)
    BY <2>1, <2>5, FS_Union
  <2>7. Cardinality(Before(cs, n) \cap A) = 0
    BY <2>4, FS_EmptySet
  <2>8. Cardinality(Before(cs, n)) \in Nat /\ Cardinality(A) \in Nat
    BY <2>1, <2>5, FS_CardinalityType
  <2>9. Cardinality(Before(cs, n + 1)) = Cardinality(Before(cs, n)) + Len(G[n])
    <3>1. Cardinality(Before(cs, n) \cup A) = Cardinality(Before(cs, n)) + Cardinality(A)
      BY <2>6, <2>7, <2>8
    <3> QED BY <2>1, <2>3, <3>1
  <2>10. {cs[m] : m \in Before(cs, n + 1)} =
             {cs[m] : m \in Before(cs, n)} \cup {cs[m] : m \in A}
    BY <2>3
  <2> QED BY <2>1, <2>9, <2>10
<1>12. Before(cs, 1) = {}
  BY DEF Before
<1>13. Before(cs, N + 1) = DOMAIN cs
  <2>1. 1..(N + 1) - 1 = 1..N
    BY <1>3
  <2>2. Before(cs, N + 1) = {m \in DOMAIN cs : \E j \in 1..N : Key[cs[m]] = Key[cs[F[j]]]}
    <3>1. Before(cs, N + 1) =
              {m \in DOMAIN cs : \E j \in 1..(N + 1) - 1 : Key[cs[m]] = Key[cs[F[j]]]}
      BY Zenon DEF Before, F
    <3> QED BY <2>1, <3>1, Zenon
  <2>3. \A m \in DOMAIN cs : \E j \in 1..N : Key[cs[m]] = Key[cs[F[j]]]
    <3>1. SUFFICES ASSUME NEW m \in DOMAIN cs
                   PROVE  \E j \in 1..N : Key[cs[m]] = Key[cs[F[j]]]
      OBVIOUS
    <3>2. PICK j \in 1..N : Key[cs[F[j]]] = Key[cs[m]]
      BY <1>7
    <3> QED BY <3>2
  <2> QED BY <2>2, <2>3
<1>14. cs # <<>> => G # <<>>
  <2>1. SUFFICES ASSUME cs # <<>> PROVE N # 0
    BY <1>9
  <2>2. 1 \in DOMAIN cs
    BY <1>1, <2>1
  <2> QED BY <1>3, <1>7, <2>2
<1>15. ASSUME NEW n \in 1..N, NEW m \in 1..N, Key[G[m][1]] = Key[G[n][1]] PROVE m = n
  <2>1. Key[cs[F[m]]] = Key[cs[F[n]]]
    BY <1>10, <1>15
  <2> QED BY <1>3, <1>5, <1>6, <2>1
<1> QED BY <1>8, <1>9, <1>10, <1>11, <1>12, <1>13, <1>14, <1>15 DEF G

-----------------------------------------------------------------------------
(* The session.                                                            *)

Entry == [id : Cases, ran : BOOLEAN]

\* Where a pair is once its canaries have passed, and where a group has sides.
InGroup == {"ensure", "cases", "measuring", "close"}
Stopped == {"host", "pairs", "done"}

WalkType ==
    /\ p \in 1..NPairs + 1 /\ tried \subseteq Pair
    /\ skipped \in [Pair -> {"", "plan", "budget", "lease", "signal", "cluster"}]
    /\ valid \in [Pair -> BOOLEAN] /\ written \in [Pair -> BOOLEAN]
    /\ phase \in {"canary", "ab", "overlap"}
    /\ stop \in {"", "budget", "lease", "signal"} /\ broken \in BOOLEAN
    /\ pc \in InGroup \cup Stopped \cup {"gate", "group", "endpair"}
    /\ reason \in {"done", "budget", "lease", "signal"}
    /\ g \in Nat \ {0} /\ i \in Nat \ {0}

RecordType == entries \in Seq(Entry) /\ oentries \in Seq(Entry)

HostType ==
    /\ slot \in [Names -> SideType \cup {None}]
    /\ cluster \in [Names -> ClusterType \cup {None}]
    /\ guard \subseteq Names /\ noted \subseteq Names

\* The sides a group has stood up, in the order of todo, and those to come.
Stood == IF phase = "canary" THEN {"r", "t"}
         ELSE {"t", "r"} \cup IF p \in Overlaps THEN {"o"} ELSE {}
ToCome == {todo[k] : k \in 1..Len(todo)}
Todos ==
    IF phase = "canary" THEN {<<"r", "t">>, <<"t">>}
    ELSE IF p \in Overlaps THEN {<<"t", "r", "o">>, <<"r", "o">>, <<"o">>}
    ELSE {<<"t", "r">>, <<"r">>}

\* Where the walk through the groups is.
WalkInv ==
    /\ pc \notin Stopped => p \in Pair
    /\ pc \in Stopped \cup {"gate"} => phase = "canary"
    /\ pc \in Stopped => g = 1 /\ stop = "" /\ \A s \in Names : slot[s] = None
    /\ pc = "ensure" => phase # "overlap" /\ todo \in Todos
    /\ pc \in InGroup => g \in 1..Len(Groups)
    /\ pc = "group" => phase = "ab" /\ g \in 1..Len(Groups) + 1
    /\ pc = "close" => phase # "canary"
    /\ phase = "overlap" => p \in Overlaps
    /\ pc = "cases" => i \in 1..Len(Group) + 1
    /\ pc = "measuring" => i \in 1..Len(Group)

\* The guard reads what is there, counts what it was told of, and a cluster
\* that no slot names is one the notes name.
GuardInv ==
    /\ \A s \in guard : cluster[s] # None
    /\ \A s \in Up : slot[s].counted /\ s \notin noted => s \in guard
    /\ \A s \in Up : s \in guard => slot[s].counted
    /\ \A s \in Names : ~ keep /\ slot[s] = None /\ cluster[s] # None /\ cluster[s].mine
                           => s \in noted

\* A side that is up for the group is the session's, of the group's key and
\* build, and was not the canaries'.
Ready(s) ==
    /\ slot[s] # None /\ cluster[s] # None
    /\ cluster[s].mine /\ cluster[s].key = GroupKey /\ cluster[s].build = Build(s)
    /\ phase # "canary" => ~ cluster[s].used
    /\ HA => slot[s].running = {FixtureOf[Group[1]]}
    /\ ~ HA => cluster[s].home

\* A slot has the key of a group that was begun.
Begun(gs, n) == {Key[gs[h][1]] : h \in 1..n}

SidesInv ==
    /\ pc = "ensure" => \A s \in Stood \ ToCome : Ready(s)
    /\ pc \in {"cases", "measuring"} => \A s \in Stood : Ready(s)
    /\ pc = "ensure" => \A s \in ToCome : slot[s] # None => slot[s].key \in Begun(Groups, g - 1)
    /\ pc \in InGroup => \A s \in Up : slot[s].key \in Begun(Groups, g)
    /\ pc = "group" => \A s \in Up : slot[s].key \in Begun(Groups, g - 1)
    /\ pc \in {"ensure", "measuring"} => ~ Frozen
    /\ pc = "cases" /\ Frozen => stop # "" \/ gbroken
    /\ pc = "group" /\ Frozen => stop # "" \/ broken
    /\ pc = "measuring" => \A s \in Measured :
          cluster[s].home /\ ~ slot[s].lost /\ slot[s].running = {Fixture}
    /\ phase # "canary" => Judged

\* The record has the cases of the groups before the n-th, and k of its own.
Upto(rec, cs, n, k) ==
    /\ Len(rec) = Cardinality(Before(cs, n)) + k
    /\ {rec[m].id : m \in DOMAIN rec} =
           {cs[m] : m \in Before(cs, n)} \cup {ConfGroups(cs)[n][j] : j \in 1..k}

Over(n, k) == IF p \in Overlaps THEN Upto(oentries, Selected[p], n, k) ELSE oentries = <<>>

EntriesInv ==
    LET cs == Selected[p] IN
    /\ pc \in {"group", "ensure"} /\ phase = "ab" => Upto(entries, cs, g, 0) /\ Over(g, 0)
    /\ pc \in {"cases", "measuring"} /\ phase = "ab" =>
          Upto(entries, cs, g, i - 1) /\ Over(g, 0)
    /\ pc \in {"cases", "measuring"} /\ phase = "overlap" =>
          Upto(entries, cs, g + 1, 0) /\ Upto(oentries, cs, g, i - 1)
    /\ pc = "close" => Upto(entries, cs, g + 1, 0) /\ Over(g + 1, 0)
    /\ phase = "canary" /\ pc # "endpair" => entries = <<>> /\ oentries = <<>>
    /\ CasesOnRecord

\* A pair that is valid has its sidecar once it is over, and session.json was
\* not written since.
DocInv ==
    /\ \A q \in Pair : valid[q] =>
          \/ written[q] /\ (q < p \/ (q = p /\ pc = "endpair"))
          \/ q = p /\ phase # "canary" /\ pc \in InGroup \cup {"group"}
    /\ pc = "host" => reason = "done" /\ p = 1
    /\ pc # "done" => code = -1
    /\ DocTruthful

SessionInv == WalkType /\ RecordType /\ HostType /\ WalkInv /\ GuardInv /\ SidesInv /\ EntriesInv /\ DocInv

FixtureSet == {FixtureOf[c] : c \in Cases}

LEMMA NoneIs ==
    /\ \A x \in SideType : x # None
    /\ \A x \in ClusterType : x # None
  BY NoneAssumption

LEMMA GroupsOf ==
    ASSUME phase = "canary" \/ p \in Pair
    PROVE  /\ Groups \in Seq(Seq(Cases))
           /\ \A n \in 1..Len(Groups) :
                /\ Groups[n] \in Seq(Cases) /\ Groups[n] # <<>>
                /\ \A k \in 1..Len(Groups[n]) : Key[Groups[n][k]] = Key[Groups[n][1]]
                /\ \A m \in 1..Len(Groups) : Key[Groups[m][1]] = Key[Groups[n][1]] => m = n
<1> DEFINE cs == IF phase = "canary" THEN Canaries ELSE Selected[p]
           G == ConfGroups(cs)
<1>1. cs \in Seq(Cases)
  BY PerfAssumption
<1>2. Groups = G
  BY DEF Groups, CanaryGroups, PairGroups
<1> HIDE DEF cs
<1>3. /\ G \in Seq(Seq(Cases))
      /\ \A n \in 1..Len(G) :
                /\ G[n] # <<>>
                /\ \A k \in 1..Len(G[n]) : Key[G[n][k]] = Key[G[n][1]]
                /\ \A m \in 1..Len(G) : Key[G[m][1]] = Key[G[n][1]] => m = n
  BY <1>1, GroupsAre
<1> HIDE DEF G
<1>4. \A n \in 1..Len(G) : G[n] \in Seq(Cases)
  BY <1>3
<1> QED BY <1>2, <1>3, <1>4, Zenon

\* The group that is being run.
LEMMA GroupOf ==
    ASSUME phase = "canary" \/ p \in Pair, g \in 1..Len(Groups)
    PROVE  /\ Group \in Seq(Cases) /\ Group # <<>> /\ Len(Group) \in Nat \ {0}
           /\ Group[1] \in Cases /\ GroupKey \in {Key[c] : c \in Cases}
           /\ FixtureOf[Group[1]] \in FixtureSet
           /\ \A k \in 1..Len(Group) :
                /\ Group[k] \in Cases /\ Key[Group[k]] = GroupKey
                /\ FixtureOf[Group[k]] \in FixtureSet
                /\ HA => FixtureOf[Group[k]] = FixtureOf[Group[1]]
                /\ Group[k] \in Failovers => HA
<1>1. /\ Group \in Seq(Cases) /\ Group # <<>>
      /\ \A k \in 1..Len(Group) : Key[Group[k]] = Key[Group[1]]
  BY GroupsOf DEF Group
<1>2. Len(Group) \in Nat \ {0} /\ \A k \in 1..Len(Group) : Group[k] \in Cases
  BY <1>1
<1>3. 1 \in 1..Len(Group)
  BY <1>2
<1>4. /\ \A c, d \in Cases :
           Key[c] = Key[d] /\ Key[c] \in HAKeys => FixtureOf[c] = FixtureOf[d]
      /\ \A c \in Failovers : Key[c] \in HAKeys
  BY PerfAssumption
<1> QED BY <1>1, <1>2, <1>3, <1>4 DEF GroupKey, HA, FixtureSet

\* What stands a side up gives.
LEMMA FreshIs ==
    ASSUME phase = "canary" \/ p \in Pair, g \in 1..Len(Groups), NEW s \in Names
    PROVE  /\ Fresh(s) \in ClusterType /\ Fresh(s) # None
           /\ Fresh(s).key = GroupKey /\ Fresh(s).build = Build(s) /\ Fresh(s).mine
           /\ ~ Fresh(s).used /\ Fresh(s).home
           /\ HA => Fresh(s).up = {FixtureOf[Group[1]]}
           /\ \A b \in BOOLEAN :
                /\ Side(GroupKey, Fresh(s).up, b) \in SideType
                /\ Side(GroupKey, Fresh(s).up, b) # None
                /\ Side(GroupKey, Fresh(s).up, b).key = GroupKey
                /\ Side(GroupKey, Fresh(s).up, b).running = Fresh(s).up
                /\ Side(GroupKey, Fresh(s).up, b).counted = b
                /\ ~ Side(GroupKey, Fresh(s).up, b).frozen
<1>1. GroupKey \in {Key[c] : c \in Cases} /\ FixtureOf[Group[1]] \in FixtureSet
  BY GroupOf
<1> DEFINE up == IF HA THEN {FixtureOf[Group[1]]} ELSE {}
<1>2. up \in SUBSET FixtureSet
  BY <1>1
<1>3. Build(s) \in {"target", "reference", "overlap", ""}
  BY DEF Build, Names
<1>4. Fresh(s) = [key |-> GroupKey, build |-> Build(s), mine |-> TRUE, used |-> FALSE,
                  home |-> TRUE, up |-> up]
  BY DEF Fresh
<1> HIDE DEF up
<1>5. Fresh(s) \in ClusterType
  <2> DEFINE k == GroupKey
             w == Build(s)
  <2>1. k \in {Key[c] : c \in Cases} \cup {""} /\ w \in {"target", "reference", "overlap", ""}
    BY <1>1, <1>3
  <2> HIDE DEF k, w
  <2>2. [key |-> k, build |-> w, mine |-> TRUE, used |-> FALSE, home |-> TRUE, up |-> up]
            \in ClusterType
    BY <1>2, <2>1 DEF ClusterType, FixtureSet
  <2> QED BY <1>4, <2>2 DEF k, w
<1>6. /\ Fresh(s).up = up /\ Fresh(s).key = GroupKey /\ Fresh(s).build = Build(s)
      /\ Fresh(s).mine /\ ~ Fresh(s).used /\ Fresh(s).home
  BY <1>4
<1>7. ASSUME NEW b \in BOOLEAN
      PROVE  /\ Side(GroupKey, up, b) \in SideType
             /\ Side(GroupKey, up, b).key = GroupKey
             /\ Side(GroupKey, up, b).running = up
             /\ Side(GroupKey, up, b).counted = b
             /\ ~ Side(GroupKey, up, b).frozen
  BY <1>1, <1>2 DEF Side, SideType, FixtureSet
<1>8. HA => up = {FixtureOf[Group[1]]}
  BY DEF up
<1>9. \A b \in BOOLEAN : Side(GroupKey, up, b) # None
  BY <1>7, NoneIs
<1>10. Fresh(s) # None
  BY <1>5, NoneIs
<1> QED BY <1>5, <1>6, <1>7, <1>8, <1>9, <1>10, Zenon

LEMMA InGroupIs ==
    ASSUME WalkInv, pc \in InGroup
    PROVE  (phase = "canary" \/ p \in Pair) /\ p \in Pair /\ g \in 1..Len(Groups)
  BY DEF WalkInv, InGroup, Stopped

\* The sides that are to come, one by one.
LEMMA TodoIs ==
    ASSUME WalkInv, pc = "ensure"
    PROVE  /\ todo[1] \in Names /\ todo[1] \in ToCome /\ ToCome \subseteq Stood
           /\ Stood \subseteq Names /\ Len(todo) \in Nat \ {0}
           /\ {Tail(todo)[k] : k \in 1..Len(Tail(todo))} = ToCome \ {todo[1]}
           /\ Len(todo) = 1 => ToCome = {todo[1]}
           /\ Len(todo) # 1 => Tail(todo) \in Todos
<1>1. todo \in Todos
  BY DEF WalkInv
<1>2. \/ phase = "canary" /\ todo \in {<<"r", "t">>, <<"t">>} /\ Stood = {"r", "t"}
      \/ /\ phase # "canary" /\ p \in Overlaps /\ Stood = {"t", "r", "o"}
         /\ todo \in {<<"t", "r", "o">>, <<"r", "o">>, <<"o">>}
      \/ /\ phase # "canary" /\ p \notin Overlaps /\ Stood = {"t", "r"}
         /\ todo \in {<<"t", "r">>, <<"r">>}
  BY <1>1 DEF Todos, Stood
<1> DEFINE Shown == /\ todo[1] \in Names /\ todo[1] \in ToCome /\ ToCome \subseteq Stood
                    /\ Len(todo) \in Nat \ {0}
                    /\ {Tail(todo)[k] : k \in 1..Len(Tail(todo))} = ToCome \ {todo[1]}
                    /\ Len(todo) = 1 => ToCome = {todo[1]}
                    /\ Len(todo) # 1 => Tail(todo) \in Todos
<1>3. ASSUME todo = <<"r", "t">>, phase = "canary", Stood = {"r", "t"} PROVE Shown
  <2>1. Len(todo) = 2 /\ 1..Len(todo) = {1, 2} /\ todo[1] = "r" /\ todo[2] = "t"
    BY <1>3
  <2>2. ToCome = {"r", "t"}
    BY <2>1 DEF ToCome
  <2>3. Tail(todo) = <<"t">> /\ Len(Tail(todo)) = 1 /\ Tail(todo)[1] = "t"
    BY <1>3
  <2>4. 1..Len(Tail(todo)) = {1}
    BY <2>3
  <2>5. {Tail(todo)[k] : k \in 1..Len(Tail(todo))} = {"t"}
    BY <2>3, <2>4
  <2>6. Tail(todo) \in Todos
    BY <1>3, <2>3 DEF Todos
  <2> QED BY <1>3, <2>1, <2>2, <2>5, <2>6 DEF Names
<1>4. ASSUME todo = <<"t">>, phase = "canary", Stood = {"r", "t"} PROVE Shown
  <2>1. Len(todo) = 1 /\ 1..Len(todo) = {1} /\ todo[1] = "t"
    BY <1>4
  <2>2. ToCome = {"t"}
    BY <2>1 DEF ToCome
  <2>3. Len(Tail(todo)) = 0 /\ 1..Len(Tail(todo)) = {}
    BY <1>4
  <2> QED BY <1>4, <2>1, <2>2, <2>3 DEF Names
<1>5. ASSUME todo = <<"t", "r", "o">>, phase # "canary", p \in Overlaps, Stood = {"t", "r", "o"} PROVE Shown
  <2>1. Len(todo) = 3 /\ 1..Len(todo) = {1, 2, 3} /\ todo[1] = "t" /\ todo[2] = "r" /\ todo[3] = "o"
    BY <1>5
  <2>2. ToCome = {"t", "r", "o"}
    BY <2>1 DEF ToCome
  <2>3. Tail(todo) = <<"r", "o">> /\ Len(Tail(todo)) = 2 /\ Tail(todo)[1] = "r" /\ Tail(todo)[2] = "o"
    BY <1>5
  <2>4. 1..Len(Tail(todo)) = {1, 2}
    BY <2>3
  <2>5. {Tail(todo)[k] : k \in 1..Len(Tail(todo))} = {"r", "o"}
    BY <2>3, <2>4
  <2>6. Tail(todo) \in Todos
    BY <1>5, <2>3 DEF Todos
  <2> QED BY <1>5, <2>1, <2>2, <2>5, <2>6 DEF Names
<1>6. ASSUME todo = <<"r", "o">>, phase # "canary", p \in Overlaps, Stood = {"t", "r", "o"} PROVE Shown
  <2>1. Len(todo) = 2 /\ 1..Len(todo) = {1, 2} /\ todo[1] = "r" /\ todo[2] = "o"
    BY <1>6
  <2>2. ToCome = {"r", "o"}
    BY <2>1 DEF ToCome
  <2>3. Tail(todo) = <<"o">> /\ Len(Tail(todo)) = 1 /\ Tail(todo)[1] = "o"
    BY <1>6
  <2>4. 1..Len(Tail(todo)) = {1}
    BY <2>3
  <2>5. {Tail(todo)[k] : k \in 1..Len(Tail(todo))} = {"o"}
    BY <2>3, <2>4
  <2>6. Tail(todo) \in Todos
    BY <1>6, <2>3 DEF Todos
  <2> QED BY <1>6, <2>1, <2>2, <2>5, <2>6 DEF Names
<1>7. ASSUME todo = <<"o">>, phase # "canary", p \in Overlaps, Stood = {"t", "r", "o"} PROVE Shown
  <2>1. Len(todo) = 1 /\ 1..Len(todo) = {1} /\ todo[1] = "o"
    BY <1>7
  <2>2. ToCome = {"o"}
    BY <2>1 DEF ToCome
  <2>3. Len(Tail(todo)) = 0 /\ 1..Len(Tail(todo)) = {}
    BY <1>7
  <2> QED BY <1>7, <2>1, <2>2, <2>3 DEF Names
<1>8. ASSUME todo = <<"t", "r">>, phase # "canary", p \notin Overlaps, Stood = {"t", "r"} PROVE Shown
  <2>1. Len(todo) = 2 /\ 1..Len(todo) = {1, 2} /\ todo[1] = "t" /\ todo[2] = "r"
    BY <1>8
  <2>2. ToCome = {"t", "r"}
    BY <2>1 DEF ToCome
  <2>3. Tail(todo) = <<"r">> /\ Len(Tail(todo)) = 1 /\ Tail(todo)[1] = "r"
    BY <1>8
  <2>4. 1..Len(Tail(todo)) = {1}
    BY <2>3
  <2>5. {Tail(todo)[k] : k \in 1..Len(Tail(todo))} = {"r"}
    BY <2>3, <2>4
  <2>6. Tail(todo) \in Todos
    BY <1>8, <2>3 DEF Todos
  <2> QED BY <1>8, <2>1, <2>2, <2>5, <2>6 DEF Names
<1>9. ASSUME todo = <<"r">>, phase # "canary", p \notin Overlaps, Stood = {"t", "r"} PROVE Shown
  <2>1. Len(todo) = 1 /\ 1..Len(todo) = {1} /\ todo[1] = "r"
    BY <1>9
  <2>2. ToCome = {"r"}
    BY <2>1 DEF ToCome
  <2>3. Len(Tail(todo)) = 0 /\ 1..Len(Tail(todo)) = {}
    BY <1>9
  <2> QED BY <1>9, <2>1, <2>2, <2>3 DEF Names
<1>10. Stood \subseteq Names
  BY DEF Stood, Names
<1> HIDE DEF Shown
<1>11. Shown
  BY <1>2, <1>3, <1>4, <1>5, <1>6, <1>7, <1>8, <1>9
<1> QED BY <1>10, <1>11 DEF Shown

\* No side that is to come is of this group's key.
LEMMA NotKept ==
    ASSUME WalkInv, SidesInv, pc = "ensure", NEW s \in ToCome
    PROVE  ~ Kept(s)
<1>1. /\ g \in 1..Len(Groups) /\ Len(Groups) \in Nat
      /\ slot[s] # None => slot[s].key \in Begun(Groups, g - 1)
      /\ \A n, m \in 1..Len(Groups) : Key[Groups[m][1]] = Key[Groups[n][1]] => m = n
  BY InGroupIs, GroupsOf DEF SidesInv, InGroup
<1>2. \A n \in 1..g - 1 : n \in 1..Len(Groups) /\ n # g
  BY <1>1
<1>3. GroupKey \notin Begun(Groups, g - 1)
  BY <1>1, <1>2 DEF Begun, GroupKey, Group
<1> QED BY <1>1, <1>3 DEF Kept

LEMMA TypeIs == WalkType /\ HostType => PerfTypeOK
  BY DEF WalkType, HostType, PerfTypeOK, Up

LEMMA SkippedIs ==
    ASSUME NEW cs \in Seq(Cases)
    PROVE  /\ SkippedAll(cs) \in Seq(Entry) /\ Len(SkippedAll(cs)) = Len(cs)
           /\ \A n \in 1..Len(cs) : SkippedAll(cs)[n] = [id |-> cs[n], ran |-> FALSE]
<1>1. DOMAIN cs = 1..Len(cs) /\ Len(cs) \in Nat /\ \A n \in 1..Len(cs) : cs[n] \in Cases
  OBVIOUS
<1>2. \A n \in 1..Len(cs) : [id |-> cs[n], ran |-> FALSE] \in Entry
  BY <1>1 DEF Entry
<1>3. SkippedAll(cs) = [n \in 1..Len(cs) |-> [id |-> cs[n], ran |-> FALSE]]
  BY <1>1 DEF SkippedAll
<1> QED BY <1>1, <1>2, <1>3

LEMMA SkipType ==
    ASSUME RecordType, p \in Pair, g \in 1..Len(Groups), SkipGroup
    PROVE  RecordType'
<1>1. SkippedAll(Group) \in Seq(Entry)
  BY GroupOf, SkippedIs
<1>2. entries \o SkippedAll(Group) \in Seq(Entry) /\ oentries \o SkippedAll(Group) \in Seq(Entry)
  BY <1>1 DEF RecordType
<1>3. /\ entries' = entries \o SkippedAll(Group)
      /\ oentries' = oentries \o SkippedAll(Group) \/ oentries' = oentries
  BY DEF SkipGroup, OverlapSkipped
<1> QED BY <1>2, <1>3, Zenon DEF RecordType

LEMMA RecordIs ==
    ASSUME RecordType, p \in Pair, g \in 1..Len(Groups),
           i \in 1..Len(Group), NEW ran \in BOOLEAN, NEW ok, Record(ran, ok)
    PROVE  RecordType'
<1> DEFINE e == [id |-> Case, ran |-> ran]
<1>1. e \in Entry
  BY GroupOf DEF Case, Entry
<1>2. /\ entries' = entries \/ entries' = Append(entries, e)
      /\ oentries' = oentries \/ oentries' = Append(oentries, e)
  BY DEF Record
<1> HIDE DEF e
<1>3. Append(entries, e) \in Seq(Entry) /\ Append(oentries, e) \in Seq(Entry)
  BY <1>1 DEF RecordType
<1> QED BY <1>2, <1>3, Zenon DEF RecordType

LEMMA NotUpType ==
    ASSUME WalkType, p \in Pair, NEW copyMode \in BOOLEAN, NotUp(copyMode)
    PROVE  /\ g' \in {g, g + 1}
           /\ stop' \in {"", "signal"} /\ broken' \in BOOLEAN
           /\ skipped' \in [Pair -> {"", "plan", "budget", "lease", "signal", "cluster"}]
           /\ pc' \in {"gate", "group"}
<1>1. CASE phase = "canary"
  BY <1>1 DEF NotUp, WalkType, CtxStop
<1>2. CASE phase # "canary"
  BY <1>2 DEF NotUp, WalkType, CtxStop, SkipGroup
<1> QED BY <1>1, <1>2

Pcs == {"host", "pairs", "done", "gate", "group", "endpair", "ensure", "cases",
        "measuring", "close"}

LEMMA PcsAre == InGroup \cup Stopped \cup {"gate", "group", "endpair"} = Pcs
  BY DEF InGroup, Stopped, Pcs

\* What is said of the session's steps has a step for each of them.
LEMMA WalkTypeKeeps ==
    ASSUME WalkType, WalkInv, [Next]_vars
    PROVE  WalkType'
<1> USE DEF planVars, outVars, pairVars, walkVars, stopVars, recordVars, hostVars, endVars
<1> DEFINE Whys == {"", "plan", "budget", "lease", "signal", "cluster"}
           Till == 1..NPairs + 1
           Pos == Nat \ {0}
<1>n. (\A n \in Pos : n + 1 \in Pos) /\ 1 \in Pos /\ \A q \in Pair : q + 1 \in Till
  BY PerfAssumption DEF Pair
<1>t. /\ p \in Till /\ tried \subseteq Pair /\ skipped \in [Pair -> Whys]
      /\ valid \in [Pair -> BOOLEAN] /\ written \in [Pair -> BOOLEAN]
      /\ phase \in {"canary", "ab", "overlap"}
      /\ stop \in {"", "budget", "lease", "signal"} /\ broken \in BOOLEAN
      /\ pc \in Pcs /\ reason \in {"done", "budget", "lease", "signal"}
      /\ g \in Pos /\ i \in Pos
  BY PcsAre DEF WalkType
<1>w. pc \notin {"host", "pairs", "done"} => p \in Pair
  BY DEF WalkInv, Stopped
<1>s. SUFFICES
         /\ p' \in Till /\ tried' \subseteq Pair /\ skipped' \in [Pair -> Whys]
         /\ valid' \in [Pair -> BOOLEAN] /\ written' \in [Pair -> BOOLEAN]
         /\ phase' \in {"canary", "ab", "overlap"}
         /\ stop' \in {"", "budget", "lease", "signal"} /\ broken' \in BOOLEAN
         /\ pc' \in Pcs /\ reason' \in {"done", "budget", "lease", "signal"}
         /\ g' \in Pos /\ i' \in Pos
  BY PcsAre DEF WalkType
<1> HIDE DEF Whys, Till, Pos
<1> USE DEF Pcs
<1>1. CASE Host
  BY <1>1, <1>t DEF Host
<1>2. CASE PassPair
  <2>1. p \in Pair /\ p' = p + 1 /\ p' \in Till
    BY <1>2, <1>n DEF PassPair
  <2>2. skipped' \in [Pair -> Whys]
    BY <1>2, <1>t, <2>1 DEF PassPair, Whys
  <2> QED BY <1>2, <1>t, <2>1, <2>2 DEF PassPair
<1>3. CASE StartPair
  BY <1>3, <1>t DEF StartPair
<1>4. CASE StandUp
  <2>1. /\ NextSide /\ pc = "ensure"
        /\ UNCHANGED <<planVars, outVars, p, pairVars, phase, g, stop, broken, endVars>>
    BY <1>4 DEF StandUp
  <2> QED BY <1>n, <1>t, <2>1 DEF NextSide
<1>5. CASE StuckSide
  <2>1. NotUp(FALSE) /\ pc = "ensure"
    BY <1>5 DEF StuckSide
  <2>2. UNCHANGED <<p, tried, valid, written, phase, i, endVars>>
    BY <1>5 DEF StuckSide
  <2> QED BY <1>n, <1>t, <1>w, <2>1, <2>2, NotUpType DEF Whys
<1>6. CASE FailSide
  <2>1. PICK copyMode \in BOOLEAN : NotUp(copyMode)
    BY <1>6 DEF FailSide
  <2>2. pc = "ensure" /\ UNCHANGED <<p, tried, valid, written, phase, i, endVars>>
    BY <1>6 DEF FailSide
  <2> QED BY <1>n, <1>t, <1>w, <2>1, <2>2, NotUpType DEF Whys
<1>7. CASE SkipCase
  <2>1. /\ i' = i + 1 /\ stop' \in {"", "budget", "lease", "signal"}
        /\ UNCHANGED <<pc, p, pairVars, phase, g, broken, endVars>>
    BY <1>7, <1>t DEF SkipCase, Record
  <2> QED BY <1>n, <1>t, <2>1
<1>8. CASE BeginCase
  <2>1. pc' = "measuring" /\ UNCHANGED <<p, pairVars, walkVars, stopVars, endVars>>
    BY <1>8 DEF BeginCase
  <2> QED BY <1>n, <1>t, <2>1
<1>9. CASE SwitchFails
  <2>1. /\ i' = i + 1 /\ stop' \in {"", "signal"}
        /\ UNCHANGED <<p, pairVars, phase, g, broken, pc, endVars>>
    BY <1>9 DEF SwitchFails, Record, CtxStop
  <2> QED BY <1>n, <1>t, <2>1
<1>10. CASE EndCase
  <2>1. /\ i' = i + 1 /\ pc' = "cases"
        /\ UNCHANGED <<p, pairVars, phase, g, stop, broken, endVars>>
    BY <1>10 DEF EndCase, Record
  <2> QED BY <1>n, <1>t, <2>1
<1>11. CASE EndCanaries
  <2>1. skipped' \in [Pair -> Whys]
    BY <1>11, <1>t DEF EndCanaries, Whys
  <2>2. pc' \in {"ensure", "gate"} /\ g' \in {g, g + 1}
    BY <1>11 DEF EndCanaries
  <2>3. UNCHANGED <<p, tried, valid, written, phase, i, stopVars, endVars>>
    BY <1>11 DEF EndCanaries
  <2> QED BY <1>n, <1>t, <2>1, <2>2, <2>3
<1>12. CASE Gate
  <2>1. Judged \in BOOLEAN
    BY DEF Judged
  <2>2. valid' \in [Pair -> BOOLEAN] /\ skipped' \in [Pair -> Whys]
    BY <1>12, <1>t, <2>1 DEF Gate, Whys
  <2>3. written' \in [Pair -> BOOLEAN]
    BY <1>12, <1>t DEF Gate
  <2>4. /\ pc' \in {"group", "endpair"} /\ phase' \in {phase, "ab"} /\ g' \in {g, 1}
        /\ UNCHANGED <<p, tried, i, stopVars, endVars>>
    BY <1>12 DEF Gate
  <2> QED BY <1>n, <1>t, <2>2, <2>3, <2>4
<1>13. CASE PassGroup
  <2>1. /\ g' = g + 1 /\ pc' = "group" /\ stop' \in {stop, "budget"}
        /\ UNCHANGED <<p, pairVars, phase, i, broken, endVars>>
    BY <1>13 DEF PassGroup, SkipGroup
  <2> QED BY <1>n, <1>t, <2>1
<1>14. CASE StartGroup
  BY <1>14, <1>t DEF StartGroup
<1>15. CASE EndAB
  <2>1. /\ phase' \in {phase, "overlap"} /\ i' \in {i, 1} /\ pc' \in {pc, "close"}
        /\ UNCHANGED <<p, pairVars, g, stop, broken, endVars>>
    BY <1>15 DEF EndAB
  <2> QED BY <1>n, <1>t, <2>1
<1>16. CASE EndOverlap
  BY <1>16, <1>t DEF EndOverlap
<1>17. CASE CloseGroup
  <2>1. /\ broken' \in {broken, TRUE, FALSE} /\ phase' = "ab" /\ g' = g + 1 /\ pc' = "group"
        /\ UNCHANGED <<p, pairVars, i, stop, endVars>>
    BY <1>17 DEF CloseGroup
  <2> QED BY <1>n, <1>t, <2>1
<1>18. CASE WritePair
  <2>1. skipped' \in [Pair -> Whys] /\ written' \in [Pair -> BOOLEAN] /\ pc' = "endpair"
    BY <1>18, <1>t DEF WritePair, Whys
  <2>2. UNCHANGED <<p, tried, valid, walkVars, stopVars, endVars>>
    BY <1>18 DEF WritePair
  <2> QED BY <1>n, <1>t, <2>1, <2>2
<1>19. CASE EndPair
  <2>1. p \in Pair /\ p' = p + 1 /\ p' \in Till
    BY <1>19, <1>n, <1>w DEF EndPair
  <2>2. Cleared /\ pc' = "pairs" /\ reason' \in {stop, reason} /\ (stop = "" => reason' = reason)
    BY <1>19 DEF EndPair
  <2>3. UNCHANGED <<skipped, valid, tried, written>>
    BY <1>19 DEF EndPair
  <2> QED BY <1>n, <1>t, <2>1, <2>2, <2>3 DEF Cleared
<1>20. CASE Finish
  <2>1. reason' \in {"signal", reason} /\ pc' = "done"
    BY <1>20 DEF Finish
  <2>2. UNCHANGED <<skipped, valid, p, tried, written, walkVars, stopVars>>
    BY <1>20 DEF Finish
  <2> QED BY <1>n, <1>t, <2>1, <2>2
<1>21. CASE Signal \/ LoseLease \/ (\E s \in Names : FailOver(s)) \/ UNCHANGED vars
  <2>1. UNCHANGED <<p, tried, skipped, valid, written, phase, stop, broken, pc, reason, g, i>>
    BY <1>21 DEF Signal, LoseLease, FailOver, vars
  <2> QED BY <1>t, <2>1
<1> QED BY <1>1, <1>2, <1>3, <1>4, <1>5, <1>6, <1>7, <1>8, <1>9, <1>10, <1>11, <1>12,
           <1>13, <1>14, <1>15, <1>16, <1>17, <1>18, <1>19, <1>20, <1>21 DEF Next, Session

LEMMA RecordTypeKeeps ==
    ASSUME RecordType, WalkType, WalkInv, [Next]_vars
    PROVE  RecordType'
<1> USE DEF planVars, outVars, pairVars, walkVars, stopVars, recordVars, hostVars, endVars
<1>g. pc \in {"ensure", "cases", "measuring"} => p \in Pair /\ g \in 1..Len(Groups)
  BY InGroupIs DEF InGroup
<1>i. pc = "cases" /\ i <= Len(Group) => i \in 1..Len(Group)
  <2>1. pc = "cases" => Len(Group) \in Nat
    BY <1>g, GroupOf
  <2>2. i \in Nat /\ i # 0
    BY DEF WalkType
  <2> QED BY <2>1, <2>2
<1>u. CASE UNCHANGED <<entries, oentries>>
  BY <1>u DEF RecordType
<1>1. CASE Host \/ PassPair \/ StartPair \/ StandUp \/ BeginCase \/ EndCanaries
  BY <1>u, <1>1 DEF Host, PassPair, StartPair, StandUp, BeginCase, EndCanaries
<1>2. CASE StartGroup \/ EndOverlap \/ CloseGroup \/ WritePair \/ Finish
  BY <1>u, <1>2 DEF StartGroup, EndOverlap, CloseGroup, WritePair, Finish
<1>3. CASE Signal \/ LoseLease \/ (\E s \in Names : FailOver(s)) \/ UNCHANGED vars
  BY <1>u, <1>3 DEF Signal, LoseLease, FailOver, vars
<1>4. CASE StuckSide \/ FailSide
  <2>1. pc = "ensure" /\ (UNCHANGED <<entries, oentries>> \/ SkipGroup)
    BY <1>4 DEF StuckSide, FailSide, NotUp
  <2> QED BY <1>g, <1>u, <2>1, SkipType
<1>5. CASE SkipCase \/ SwitchFails
  <2>1. Record(FALSE, FALSE) /\ pc = "cases" /\ i <= Len(Group)
    BY <1>5 DEF SkipCase, SwitchFails
  <2> QED BY <1>g, <1>i, <2>1, RecordIs
<1>6. CASE EndCase
  <2>1. PICK ok \in BOOLEAN : Record(TRUE, ok)
    BY <1>6 DEF EndCase
  <2>2. pc = "measuring"
    BY <1>6 DEF EndCase
  <2>3. i \in 1..Len(Group)
    BY <2>2 DEF WalkInv
  <2> QED BY <1>g, <2>1, <2>2, <2>3, RecordIs
<1>7. CASE Gate
  <2>1. p \in Pair
    BY <1>7 DEF WalkInv, Gate, Stopped
  <2>2. SkippedAll(Selected[p]) \in Seq(Entry)
    BY <2>1, PerfAssumption, SkippedIs
  <2>3. oentries' = oentries /\ (entries' = entries \/ entries' = SkippedAll(Selected[p]))
    BY <1>7 DEF Gate
  <2> QED BY <2>2, <2>3 DEF RecordType
<1>8. CASE PassGroup
  <2>1. SkipGroup /\ p \in Pair /\ g \in 1..Len(Groups)
    <3>1. SkipGroup /\ pc = "group" /\ g <= Len(Groups)
      BY <1>8 DEF PassGroup
    <3>2. Groups \in Seq(Seq(Cases)) /\ p \in Pair
      BY <3>1, GroupsOf DEF WalkInv, Stopped
    <3>3. Len(Groups) \in Nat
      BY <3>2
    <3>4. g \in Nat /\ g # 0
      BY DEF WalkType
    <3> QED BY <3>1, <3>2, <3>3, <3>4
  <2> QED BY <2>1, SkipType
<1>9. CASE EndAB
  <2>1. SkippedAll(Group) \in Seq(Entry)
    BY <1>9, <1>g, GroupOf, SkippedIs DEF EndAB
  <2>2. entries' = entries /\ (oentries' = oentries \/ oentries' = oentries \o SkippedAll(Group))
    BY <1>9 DEF EndAB, OverlapSkipped
  <2>3. oentries \o SkippedAll(Group) \in Seq(Entry)
    BY <2>1 DEF RecordType
  <2> QED BY <2>2, <2>3, Zenon DEF RecordType
<1>10. CASE EndPair
  <2>1. entries' = <<>> /\ oentries' = <<>>
    BY <1>10 DEF EndPair, Cleared
  <2> QED BY <2>1 DEF RecordType
<1> QED BY <1>1, <1>2, <1>3, <1>4, <1>5, <1>6, <1>7, <1>8, <1>9, <1>10 DEF Next, Session

-----------------------------------------------------------------------------
(* What the session's steps do to its sides and their clusters.            *)

SameSide(s) ==
    /\ (slot'[s] = None) <=> (slot[s] = None)
    /\ slot[s] # None => slot'[s].key = slot[s].key /\ slot'[s].counted = slot[s].counted
SameState(s) ==
    slot[s] # None => slot'[s].frozen = slot[s].frozen /\ slot'[s].lost = slot[s].lost
SameCluster(s) ==
    /\ (cluster'[s] = None) <=> (cluster[s] = None)
    /\ cluster[s] # None => /\ cluster'[s].key = cluster[s].key
                            /\ cluster'[s].build = cluster[s].build
                            /\ cluster'[s].mine = cluster[s].mine
SameUse(s) == cluster[s] # None => (cluster'[s].used <=> cluster[s].used)
SameHome(s) == cluster[s] # None => cluster'[s].home = cluster[s].home
SameServers(s) == slot[s] # None => slot'[s].running = slot[s].running

SlotType == slot \in [Names -> SideType \cup {None}]
ClustersType == cluster \in [Names -> ClusterType \cup {None}]

LEMMA SideOf ==
    ASSUME HostType, NEW s \in Names
    PROVE  /\ slot[s] # None => slot[s] \in SideType /\ slot[s].running \in SUBSET FixtureSet
                                /\ slot[s].frozen \in BOOLEAN /\ slot[s].lost \in BOOLEAN
           /\ cluster[s] # None => cluster[s] \in ClusterType
                                   /\ cluster[s].up \in SUBSET FixtureSet
                                   /\ cluster[s].used \in BOOLEAN
                                   /\ cluster[s].home \in BOOLEAN
<1>1. slot[s] # None => slot[s] \in SideType
  BY DEF HostType
<1>2. cluster[s] # None => cluster[s] \in ClusterType
  BY DEF HostType
<1>3. \A x \in SideType : x.running \in SUBSET FixtureSet /\ x.frozen \in BOOLEAN
                          /\ x.lost \in BOOLEAN
  BY DEF SideType, FixtureSet
<1>4. \A x \in ClusterType : x.up \in SUBSET FixtureSet /\ x.used \in BOOLEAN
                             /\ x.home \in BOOLEAN
  BY DEF ClusterType, FixtureSet
<1> QED BY <1>1, <1>2, <1>3, <1>4

\* A switch of the sides D changes the servers that run on them, and no other side.
LEMMA SwitchIs ==
    ASSUME HostType, NEW D \in SUBSET Names, NEW f, DOMAIN f = D, SwitchTo(f),
           \A s \in D : /\ slot[s] # None /\ cluster[s] # None
                        /\ f[s][1] \in SUBSET FixtureSet /\ f[s][2] \in SUBSET FixtureSet
    PROVE  /\ SlotType' /\ ClustersType'
           /\ \A s \in Names : SameSide(s) /\ SameState(s) /\ SameCluster(s) /\ SameUse(s)
                               /\ SameHome(s)
           /\ \A s \in Names \ D : SameServers(s)
           /\ \A s \in D : slot'[s].running = f[s][1]
<1>1. ASSUME NEW s \in D
      PROVE  /\ slot'[s] = [slot[s] EXCEPT !.running = f[s][1]]
             /\ cluster'[s] = [cluster[s] EXCEPT !.up = f[s][2]]
  BY DEF SwitchTo
<1>2. ASSUME NEW s \in Names \ D
      PROVE  slot'[s] = slot[s] /\ cluster'[s] = cluster[s]
  BY DEF SwitchTo
<1>3. ASSUME NEW s \in D
      PROVE  /\ slot'[s] \in SideType /\ cluster'[s] \in ClusterType
             /\ slot'[s] # None /\ cluster'[s] # None /\ slot'[s].running = f[s][1]
             /\ slot'[s].key = slot[s].key /\ slot'[s].counted = slot[s].counted
             /\ slot'[s].frozen = slot[s].frozen /\ slot'[s].lost = slot[s].lost
             /\ cluster'[s].key = cluster[s].key /\ cluster'[s].build = cluster[s].build
             /\ cluster'[s].mine = cluster[s].mine /\ cluster'[s].used = cluster[s].used
             /\ cluster'[s].home = cluster[s].home
  <2>1. slot[s] \in SideType /\ cluster[s] \in ClusterType
    BY SideOf
  <2>2. /\ slot'[s] \in SideType /\ slot'[s].running = f[s][1]
        /\ slot'[s].key = slot[s].key /\ slot'[s].counted = slot[s].counted
        /\ slot'[s].frozen = slot[s].frozen /\ slot'[s].lost = slot[s].lost
    <3> DEFINE x == slot[s]
               run == f[s][1]
               y == slot'[s]
    <3>1. x \in SideType /\ run \in SUBSET FixtureSet /\ y = [x EXCEPT !.running = run]
      BY <1>1, <2>1
    <3> HIDE DEF x, run, y
    <3>2. /\ y \in SideType /\ y.key = x.key /\ y.counted = x.counted
          /\ y.running = run /\ y.frozen = x.frozen /\ y.lost = x.lost
      BY <3>1 DEF SideType, FixtureSet
    <3> QED BY <3>2 DEF x, run, y
  <2>3. /\ cluster'[s] \in ClusterType
        /\ cluster'[s].key = cluster[s].key /\ cluster'[s].build = cluster[s].build
        /\ cluster'[s].mine = cluster[s].mine /\ cluster'[s].used = cluster[s].used
        /\ cluster'[s].home = cluster[s].home
    <3> DEFINE x == cluster[s]
               up == f[s][2]
               y == cluster'[s]
    <3>1. x \in ClusterType /\ up \in SUBSET FixtureSet /\ y = [x EXCEPT !.up = up]
      BY <1>1, <2>1
    <3> HIDE DEF x, up, y
    <3>2. /\ y \in ClusterType /\ y.key = x.key /\ y.build = x.build /\ y.mine = x.mine
          /\ y.used = x.used /\ y.home = x.home
      BY <3>1 DEF ClusterType, FixtureSet
    <3> QED BY <3>2 DEF x, up, y
  <2> QED BY <2>2, <2>3, NoneIs
<1>4. /\ slot' = [s \in Names |-> slot'[s]]
      /\ cluster' = [s \in Names |-> cluster'[s]]
  BY DEF SwitchTo
<1>5. \A s \in Names : /\ slot'[s] \in SideType \cup {None}
                       /\ cluster'[s] \in ClusterType \cup {None}
  <2>1. \A s \in Names \ D : /\ slot[s] \in SideType \cup {None}
                             /\ cluster[s] \in ClusterType \cup {None}
    BY DEF HostType
  <2> QED BY <1>2, <1>3, <2>1
<1>6. SlotType' /\ ClustersType'
  BY <1>4, <1>5 DEF SlotType, ClustersType
<1>7. \A s \in Names : SameSide(s) /\ SameState(s) /\ SameCluster(s) /\ SameUse(s)
                       /\ SameHome(s)
  BY <1>2, <1>3 DEF SameSide, SameState, SameCluster, SameUse, SameHome
<1>8. \A s \in Names \ D : SameServers(s)
  BY <1>2 DEF SameServers
<1> QED BY <1>3, <1>6, <1>7, <1>8

\* What is on the sides that are up is known to be fixtures.
LEMMA SwitchedIs ==
    ASSUME HostType, p \in Pair, g \in 1..Len(Groups), i \in 1..Len(Group),
           NEW s \in Names, slot[s] # None, cluster[s] # None
    PROVE  /\ Switched(s)[1] \in SUBSET FixtureSet /\ Switched(s)[2] \in SUBSET FixtureSet
           /\ HA => Switched(s)[1] = slot[s].running
           /\ ~ HA => Switched(s)[1] = {Fixture}
           /\ \A h \in HalfSwitched(s) : /\ h[1] \in SUBSET FixtureSet
                                         /\ h[2] \in SUBSET FixtureSet
                                         /\ HA => h[1] = slot[s].running
<1>1. Fixture \in FixtureSet
  BY GroupOf DEF Fixture, Case
<1>2. slot[s].running \in SUBSET FixtureSet /\ cluster[s].up \in SUBSET FixtureSet
  BY SideOf
<1>3. CASE HA
  <2>1. Switched(s) = <<slot[s].running, cluster[s].up>>
    BY <1>3 DEF Switched
  <2>2. HalfSwitched(s) = {<<slot[s].running, cluster[s].up>>}
    BY <1>3 DEF HalfSwitched
  <2> QED BY <1>2, <1>3, <2>1, <2>2
<1>4. CASE ~ HA
  <2> DEFINE run == slot[s].running
             up == cluster[s].up
             then == (up \cup IF Fixture \in run THEN {} ELSE {Fixture}) \ (run \ {Fixture})
  <2>1. Switched(s) = <<{Fixture}, then>>
    BY <1>4 DEF Switched
  <2>2. HalfSwitched(s) = {<<run, up>>, <<run, up \cup {Fixture}>>,
            <<run \cup {Fixture}, up \cup {Fixture}>>, <<run \cup {Fixture}, then>>}
    BY <1>4, <2>1 DEF HalfSwitched
  <2>3. /\ run \cup {Fixture} \in SUBSET FixtureSet /\ up \cup {Fixture} \in SUBSET FixtureSet
        /\ then \in SUBSET FixtureSet /\ {Fixture} \in SUBSET FixtureSet
    BY <1>1, <1>2
  <2> HIDE DEF run, up, then
  <2>4. run \in SUBSET FixtureSet /\ up \in SUBSET FixtureSet
    BY <1>2 DEF run, up
  <2>5. Switched(s)[1] = {Fixture} /\ Switched(s)[2] = then
    BY <2>1
  <2>6. \A h \in HalfSwitched(s) : /\ h[1] \in SUBSET FixtureSet
                                   /\ h[2] \in SUBSET FixtureSet
    BY <2>2, <2>3, <2>4
  <2> QED BY <1>4, <2>3, <2>5, <2>6
<1> QED BY <1>3, <1>4

\* A switch, whole or half, of sides that are up; no HA side's servers change.
LEMMA Switches ==
    ASSUME HostType, WalkType, WalkInv, SidesInv, pc = "cases",
           BeginCase \/ SwitchFails \/ (EndAB /\ p \in Overlaps /\ ~ OverlapSkips)
    PROVE  /\ SlotType' /\ ClustersType'
           /\ \A s \in Names : SameSide(s) /\ SameState(s) /\ SameCluster(s) /\ SameUse(s)
                               /\ SameHome(s)
           /\ HA => \A s \in Names : SameServers(s)
           /\ BeginCase /\ ~ HA => \A s \in Measured : slot'[s].running = {Fixture}
<1>1. p \in Pair /\ g \in 1..Len(Groups)
  BY InGroupIs DEF InGroup
<1>2. \A s \in Stood : slot[s] # None /\ cluster[s] # None
  BY DEF SidesInv, Ready
<1>3. Measured \subseteq Stood /\ Stood \subseteq Names /\ "t" \in Measured /\ Ref \in Measured
      /\ Ref # "t" /\ "t" \in Names /\ Measured = {"t", Ref}
  BY DEF Measured, Ref, Stood, Names, WalkInv, WalkType
<1>4. i <= Len(Group) => i \in 1..Len(Group)
  <2>1. Len(Group) \in Nat
    BY <1>1, GroupOf
  <2>2. i \in Nat /\ i # 0
    BY DEF WalkType
  <2> QED BY <2>1, <2>2
<1>5. CASE BeginCase
  <2>1. i <= Len(Group) /\ SwitchTo([s \in Measured |-> Switched(s)])
    BY <1>5 DEF BeginCase
  <2> DEFINE f == [s \in Measured |-> Switched(s)]
  <2>2. DOMAIN f = Measured /\ \A s \in Measured : f[s] = Switched(s)
    OBVIOUS
  <2>3. SwitchTo(f)
    BY <2>1
  <2> HIDE DEF f
  <2>4. \A s \in Measured :
           /\ slot[s] # None /\ cluster[s] # None
           /\ f[s][1] \in SUBSET FixtureSet /\ f[s][2] \in SUBSET FixtureSet
           /\ HA => f[s][1] = slot[s].running
           /\ ~ HA => f[s][1] = {Fixture}
    BY <1>1, <1>2, <1>3, <1>4, <2>1, <2>2, SwitchedIs
  <2>5. Measured \in SUBSET Names
    BY <1>3
  <2>6. /\ SlotType' /\ ClustersType'
        /\ \A s \in Names : SameSide(s) /\ SameState(s) /\ SameCluster(s) /\ SameUse(s)
                            /\ SameHome(s)
        /\ \A s \in Names \ Measured : SameServers(s)
        /\ \A s \in Measured : slot'[s].running = f[s][1]
    BY <2>2, <2>3, <2>4, <2>5, SwitchIs
  <2> QED BY <2>4, <2>6 DEF SameServers
<1>6. CASE SwitchFails
  <2>1. ASSUME NEW h \in HalfSwitched("t"), i <= Len(Group), SwitchTo([s \in {"t"} |-> h])
        PROVE  /\ SlotType' /\ ClustersType'
               /\ \A s \in Names : SameSide(s) /\ SameState(s) /\ SameCluster(s)
                                   /\ SameUse(s) /\ SameHome(s)
               /\ HA => \A s \in Names : SameServers(s)
    <3> DEFINE f == [s \in {"t"} |-> h]
    <3>1. DOMAIN f = {"t"} /\ f["t"] = h
      OBVIOUS
    <3>2. SwitchTo(f)
      BY <2>1
    <3> HIDE DEF f
    <3>3. \A s \in {"t"} :
           /\ slot[s] # None /\ cluster[s] # None
           /\ f[s][1] \in SUBSET FixtureSet /\ f[s][2] \in SUBSET FixtureSet
           /\ HA => f[s][1] = slot[s].running
      BY <1>1, <1>2, <1>3, <1>4, <2>1, <3>1, SwitchedIs
    <3>4. {"t"} \in SUBSET Names
      BY <1>3
    <3>5. /\ SlotType' /\ ClustersType'
          /\ \A s \in Names : SameSide(s) /\ SameState(s) /\ SameCluster(s) /\ SameUse(s)
                              /\ SameHome(s)
          /\ \A s \in Names \ {"t"} : SameServers(s)
          /\ \A s \in {"t"} : slot'[s].running = f[s][1]
      BY <3>1, <3>2, <3>3, <3>4, SwitchIs
    <3> QED BY <3>3, <3>5 DEF SameServers
  <2>2. ASSUME NEW h \in HalfSwitched(Ref), i <= Len(Group),
               SwitchTo([s \in Measured |-> IF s = Ref THEN h ELSE Switched(s)])
        PROVE  /\ SlotType' /\ ClustersType'
               /\ \A s \in Names : SameSide(s) /\ SameState(s) /\ SameCluster(s)
                                   /\ SameUse(s) /\ SameHome(s)
               /\ HA => \A s \in Names : SameServers(s)
    <3> DEFINE f == [s \in Measured |-> IF s = Ref THEN h ELSE Switched(s)]
    <3>1. DOMAIN f = Measured /\ f["t"] = Switched("t") /\ f[Ref] = h
      BY <1>3
    <3>2. SwitchTo(f)
      BY <2>2
    <3> HIDE DEF f
    <3>3. \A s \in Measured :
           /\ slot[s] # None /\ cluster[s] # None
           /\ f[s][1] \in SUBSET FixtureSet /\ f[s][2] \in SUBSET FixtureSet
           /\ HA => f[s][1] = slot[s].running
      BY <1>1, <1>2, <1>3, <1>4, <2>2, <3>1, SwitchedIs
    <3>4. Measured \in SUBSET Names
      BY <1>3
    <3>5. /\ SlotType' /\ ClustersType'
          /\ \A s \in Names : SameSide(s) /\ SameState(s) /\ SameCluster(s) /\ SameUse(s)
                              /\ SameHome(s)
          /\ \A s \in Names \ Measured : SameServers(s)
          /\ \A s \in Measured : slot'[s].running = f[s][1]
      BY <3>1, <3>2, <3>3, <3>4, SwitchIs
    <3> QED BY <3>3, <3>5 DEF SameServers
  <2>3. pc' = "cases"
    BY <1>6 DEF SwitchFails
  <2> QED BY <1>6, <2>1, <2>2, <2>3 DEF SwitchFails, BeginCase
<1>7. CASE EndAB /\ p \in Overlaps /\ ~ OverlapSkips
  <2>1. PICK D \in IF HA THEN {{}} ELSE SUBSET slot["r"].running :
            SwitchTo([s \in {"r"} |-> <<slot[s].running \ D, cluster[s].up \ D>>])
    BY <1>7 DEF EndAB
  <2> DEFINE f == [s \in {"r"} |-> <<slot[s].running \ D, cluster[s].up \ D>>]
  <2>2. /\ DOMAIN f = {"r"} /\ f["r"][1] = slot["r"].running \ D
        /\ f["r"][2] = cluster["r"].up \ D
    OBVIOUS
  <2>3. SwitchTo(f)
    BY <2>1
  <2> HIDE DEF f
  <2>4. "r" \in Names /\ slot["r"] # None /\ cluster["r"] # None
    BY <1>2, <1>3, <1>7 DEF Stood, EndAB
  <2>5. slot["r"].running \in SUBSET FixtureSet /\ cluster["r"].up \in SUBSET FixtureSet
    BY <2>4, SideOf
  <2>6. \A s \in {"r"} :
           /\ slot[s] # None /\ cluster[s] # None
           /\ f[s][1] \in SUBSET FixtureSet /\ f[s][2] \in SUBSET FixtureSet
           /\ HA => f[s][1] = slot[s].running
    BY <2>1, <2>2, <2>4, <2>5
  <2>7. {"r"} \in SUBSET Names
    BY <2>4
  <2>8. /\ SlotType' /\ ClustersType'
        /\ \A s \in Names : SameSide(s) /\ SameState(s) /\ SameCluster(s) /\ SameUse(s)
                            /\ SameHome(s)
        /\ \A s \in Names \ {"r"} : SameServers(s)
        /\ \A s \in {"r"} : slot'[s].running = f[s][1]
    BY <2>2, <2>3, <2>6, <2>7, SwitchIs
  <2>9. pc' = pc
    BY <1>7 DEF EndAB, OverlapSkips
  <2> QED BY <2>6, <2>8, <2>9 DEF SameServers, BeginCase
<1> QED BY <1>5, <1>6, <1>7

\* The end of a case leaves every side and cluster what it was, the clusters
\* of the cases unused by the canaries, and stops the group if a side is frozen.
LEMMA EndCaseIs ==
    ASSUME HostType, WalkType, WalkInv, SidesInv, EndCase
    PROVE  /\ SlotType' /\ ClustersType'
           /\ \A s \in Names : SameSide(s) /\ SameCluster(s)
           /\ phase # "canary" => \A s \in Names : SameUse(s)
           /\ HA => \A s \in Names : SameServers(s)
           /\ ~ HA => \A s \in Names : SameHome(s) \/ cluster'[s].home
           /\ Frozen' => gbroken'
<1>1. pc = "measuring" /\ p \in Pair /\ g \in 1..Len(Groups)
  BY InGroupIs DEF EndCase, InGroup
<1>2. Case \in Cases /\ Fixture \in FixtureSet /\ (~ HA => Case \notin Failovers)
  <2>1. i \in 1..Len(Group)
    BY <1>1 DEF WalkInv
  <2> QED BY <1>1, <2>1, GroupOf DEF Case, Fixture
<1>3. /\ Measured \subseteq Stood /\ Stood \subseteq Names /\ ~ Frozen
      /\ \A s \in Stood : slot[s] # None /\ cluster[s] # None
  BY <1>1 DEF Measured, Ref, Stood, Names, WalkInv, WalkType, SidesInv, Ready
<1>4. PICK frozen \in AtMostOne(Measured \cup Idle),
           lost \in SUBSET (IF Case \in Failovers THEN Measured ELSE {}),
           down \in AtMostOne(IF HA THEN {} ELSE Measured),
           h \in {<<{}, {}>>, <<{}, {Fixture}>>, <<{Fixture}, {}>>} :
          /\ slot' = [s \in Names |->
                IF s \in Measured
                THEN [slot[s] EXCEPT !.frozen = s \in frozen, !.lost = s \in lost,
                         !.running = IF s \in down THEN h[1] ELSE @]
                ELSE IF s \in frozen THEN [slot[s] EXCEPT !.frozen = TRUE]
                ELSE slot[s]]
          /\ cluster' = [s \in Names |->
                IF s \in Measured
                THEN [cluster[s] EXCEPT !.used = @ \/ phase = "canary",
                         !.home = s \notin lost,
                         !.up = IF s \in down THEN (@ \ {Fixture}) \cup h[2] ELSE @]
                ELSE cluster[s]]
          /\ gbroken' = (frozen # {})
  BY DEF EndCase
<1>5. h[1] \in SUBSET FixtureSet /\ h[2] \in SUBSET FixtureSet
  BY <1>2
<1>6. frozen \subseteq Measured \cup Idle /\ (HA => down = {}) /\ (~ HA => lost = {})
  BY <1>2 DEF AtMostOne
<1> DEFINE run(s) == IF s \in down THEN h[1] ELSE slot[s].running
           up(s) == IF s \in down THEN (cluster[s].up \ {Fixture}) \cup h[2]
                                  ELSE cluster[s].up
           worn(s) == cluster[s].used \/ phase = "canary"
<1>7. ASSUME NEW s \in Measured
      PROVE  /\ slot'[s] \in SideType /\ slot'[s] # None /\ slot[s] # None
             /\ slot'[s].key = slot[s].key /\ slot'[s].counted = slot[s].counted
             /\ HA => slot'[s].running = slot[s].running
             /\ slot'[s].frozen => s \in frozen
  <2>1. slot[s] \in SideType /\ slot[s].running \in SUBSET FixtureSet /\ slot[s] # None
    BY <1>3, SideOf
  <2>2. slot'[s] = [slot[s] EXCEPT !.frozen = s \in frozen, !.lost = s \in lost,
                                   !.running = IF s \in down THEN h[1] ELSE @]
    BY <1>3, <1>4
  <2> DEFINE x == slot[s]
             a == s \in frozen
             b == s \in lost
             r == run(s)
             y == slot'[s]
  <2>3. y = [x EXCEPT !.frozen = a, !.lost = b, !.running = r]
    <3>1. x = [key |-> x.key, running |-> x.running, counted |-> x.counted,
               frozen |-> x.frozen, lost |-> x.lost]
      BY <2>1 DEF SideType
    <3> QED BY <2>2, <3>1
  <2>4. r \in SUBSET FixtureSet /\ a \in BOOLEAN /\ b \in BOOLEAN /\ x \in SideType
    BY <1>5, <2>1
  <2>5. HA => r = x.running
    BY <1>6
  <2> HIDE DEF x, a, b, r, y
  <2>6. /\ y \in SideType /\ y.key = x.key /\ y.counted = x.counted /\ y.running = r
        /\ y.frozen = a
    BY <2>3, <2>4 DEF SideType, FixtureSet
  <2>7. y # None
    BY <2>6, NoneIs
  <2> QED BY <2>1, <2>5, <2>6, <2>7 DEF x, a, y
<1>8. ASSUME NEW s \in Measured
      PROVE  /\ cluster'[s] \in ClusterType /\ cluster'[s] # None /\ cluster[s] # None
             /\ cluster'[s].key = cluster[s].key /\ cluster'[s].build = cluster[s].build
             /\ cluster'[s].mine = cluster[s].mine
             /\ phase # "canary" => (cluster'[s].used <=> cluster[s].used)
             /\ ~ HA => cluster'[s].home
  <2>1. cluster[s] \in ClusterType /\ cluster[s].up \in SUBSET FixtureSet /\ cluster[s] # None
        /\ cluster[s].used \in BOOLEAN
    BY <1>3, SideOf
  <2>2. cluster'[s] = [cluster[s] EXCEPT !.used = @ \/ phase = "canary",
                         !.home = s \notin lost,
                         !.up = IF s \in down THEN (@ \ {Fixture}) \cup h[2] ELSE @]
    BY <1>3, <1>4
  <2> DEFINE x == cluster[s]
             a == worn(s)
             b == s \notin lost
             r == up(s)
             y == cluster'[s]
  <2>3. y = [x EXCEPT !.used = a, !.home = b, !.up = r]
    <3>1. x = [key |-> x.key, build |-> x.build, mine |-> x.mine, used |-> x.used,
               home |-> x.home, up |-> x.up]
      BY <2>1 DEF ClusterType
    <3> QED BY <2>2, <3>1
  <2>4. r \in SUBSET FixtureSet /\ a \in BOOLEAN /\ b \in BOOLEAN /\ x \in ClusterType
    BY <1>2, <1>5, <2>1
  <2>5. (phase # "canary" => (a <=> x.used)) /\ (~ HA => b)
    <3>1. phase # "canary" => (a <=> x.used)
      OBVIOUS
    <3> QED BY <1>6, <3>1
  <2> HIDE DEF x, a, b, r, y
  <2>6. /\ y \in ClusterType /\ y.key = x.key /\ y.build = x.build /\ y.mine = x.mine
        /\ y.used = a /\ y.home = b
    BY <2>3, <2>4 DEF ClusterType, FixtureSet
  <2>7. y # None
    BY <2>6, NoneIs
  <2> QED BY <2>1, <2>5, <2>6, <2>7 DEF x, y
<1>9. ASSUME NEW s \in Names \ Measured
      PROVE  /\ cluster'[s] = cluster[s] /\ slot'[s] \in SideType \cup {None}
             /\ (slot'[s] = None) <=> (slot[s] = None)
             /\ slot[s] # None => /\ slot'[s].key = slot[s].key
                                  /\ slot'[s].counted = slot[s].counted
                                  /\ slot'[s].running = slot[s].running
                                  /\ slot'[s].frozen => s \in frozen
  <2>1. cluster'[s] = cluster[s]
    BY <1>4
  <2>2. CASE s \in frozen
    <3>1. slot[s] # None /\ slot[s] \in SideType
      BY <1>6, <2>2, SideOf DEF Idle
    <3> DEFINE x == slot[s]
               y == slot'[s]
    <3>2. y = [x EXCEPT !.frozen = TRUE] /\ x \in SideType
      BY <1>4, <2>2, <3>1
    <3> HIDE DEF x, y
    <3>3. /\ y \in SideType /\ y.key = x.key /\ y.counted = x.counted
          /\ y.running = x.running
      BY <3>2 DEF SideType
    <3> QED BY <2>1, <2>2, <3>1, <3>3, NoneIs DEF x, y
  <2>3. CASE s \notin frozen
    <3>1. slot'[s] = slot[s] /\ slot[s] \in SideType \cup {None}
      BY <1>4, <2>3 DEF HostType
    <3>2. slot[s] # None => ~ slot[s].frozen
      BY <1>3 DEF Frozen
    <3> QED BY <2>1, <3>1, <3>2
  <2> QED BY <2>2, <2>3
<1>10. SlotType' /\ ClustersType'
  <2>1. /\ slot' = [s \in Names |-> slot'[s]] /\ cluster' = [s \in Names |-> cluster'[s]]
    BY <1>4
  <2>2. \A s \in Names : slot'[s] \in SideType \cup {None}
    BY <1>7, <1>9
  <2>3. \A s \in Names : cluster'[s] \in ClusterType \cup {None}
    <3>1. \A s \in Names \ Measured : cluster'[s] \in ClusterType \cup {None}
      BY <1>9 DEF HostType
    <3> QED BY <1>8, <3>1
  <2> QED BY <2>1, <2>2, <2>3 DEF SlotType, ClustersType
<1>11. Frozen' => frozen # {}
  <2>1. SUFFICES ASSUME NEW s \in Names, slot'[s] # None, slot'[s].frozen
                 PROVE  frozen # {}
    BY DEF Frozen
  <2> QED BY <1>7, <1>9, <2>1
<1>12. \A s \in Names : SameSide(s) /\ SameCluster(s)
  BY <1>7, <1>8, <1>9 DEF SameSide, SameCluster
<1>13. phase # "canary" => \A s \in Names : SameUse(s)
  BY <1>8, <1>9 DEF SameUse
<1>14. HA => \A s \in Names : SameServers(s)
  BY <1>7, <1>9 DEF SameServers
<1>15. ~ HA => \A s \in Names : SameHome(s) \/ cluster'[s].home
  BY <1>8, <1>9 DEF SameHome
<1> QED BY <1>4, <1>10, <1>11, <1>12, <1>13, <1>14, <1>15

LEMMA DestroyIs ==
    ASSUME HostType, NEW D \in SUBSET Names, NEW F, Destroy(D, F)
    PROVE  /\ ClustersType' /\ guard' \subseteq Names /\ noted' \subseteq Names
           /\ guard' \subseteq guard /\ F \subseteq D
           /\ \A s \in Names \ D : /\ cluster'[s] = cluster[s]
                                   /\ s \in guard' <=> s \in guard
                                   /\ s \in noted' <=> s \in noted
           /\ \A s \in D : s \in guard' => ~ slot[s].counted
           /\ \A s \in D \ F : cluster'[s] = None /\ s \notin noted'
           /\ \A s \in F : cluster'[s] = cluster[s] /\ s \in noted'
<1>1. /\ F \subseteq D
      /\ cluster' = [s \in Names |-> IF s \in D \ F THEN None ELSE cluster[s]]
      /\ guard' = guard \ {s \in D : slot[s].counted}
      /\ noted' = (noted \ D) \cup F
  BY DEF Destroy, Uncounted
<1>2. ClustersType'
  BY <1>1 DEF HostType, ClustersType
<1>3. guard \subseteq Names /\ noted \subseteq Names
  BY DEF HostType
<1> QED BY <1>1, <1>2, <1>3

\* A side of the group stood up, or left in its slot by one that failed to be.
PutUp(s) ==
    /\ SlotType' /\ ClustersType' /\ guard' \subseteq Names /\ noted' = noted \ {s}
    /\ \A x \in Names \ {s} : /\ slot'[x] = slot[x] /\ cluster'[x] = cluster[x]
                              /\ (x \in guard') <=> (x \in guard)
    /\ slot'[s] # None /\ slot'[s].key = GroupKey /\ ~ slot'[s].frozen
    /\ slot'[s].counted <=> s \in guard'
    /\ s \in guard' => cluster'[s] # None

LEMMA StandUpIs ==
    ASSUME HostType, WalkType, WalkInv, SidesInv, StandUp
    PROVE  /\ todo[1] \in Names /\ PutUp(todo[1])
           /\ slot'[todo[1]].running = Fresh(todo[1]).up
           /\ cluster'[todo[1]] = Fresh(todo[1])
<1> DEFINE s == todo[1]
<1>1. pc = "ensure" /\ p \in Pair /\ g \in 1..Len(Groups) /\ s \in Names /\ ~ Kept(s)
  BY InGroupIs, TodoIs, NotKept DEF StandUp, InGroup
<1>2. /\ guard' \in {guard \cup {s}} \cup IF s \in Unreadable THEN {guard \ {s}} ELSE {}
      /\ slot' = [slot EXCEPT ![s] = Side(GroupKey, Fresh(s).up, s \in guard')]
      /\ cluster' = [cluster EXCEPT ![s] = Fresh(s)]
      /\ noted' = noted \ {s}
  BY <1>1 DEF StandUp
<1> HIDE DEF s
<1> DEFINE b == s \in guard'
           new == Side(GroupKey, Fresh(s).up, b)
<1>3. /\ Fresh(s) \in ClusterType /\ Fresh(s) # None /\ new \in SideType /\ new # None
      /\ new.key = GroupKey /\ new.running = Fresh(s).up /\ new.counted = b /\ ~ new.frozen
  <2>1. b \in BOOLEAN
    OBVIOUS
  <2> HIDE DEF b
  <2> QED BY <1>1, <2>1, FreshIs
<1>4. /\ slot \in [Names -> SideType \cup {None}] /\ cluster \in [Names -> ClusterType \cup {None}]
      /\ guard \subseteq Names
  BY DEF HostType
<1>5. slot' = [slot EXCEPT ![s] = new]
  BY <1>2
<1>6. new.counted <=> s \in guard'
  BY <1>3
<1> HIDE DEF new, b
<1>7. /\ slot'[s] = new /\ cluster'[s] = Fresh(s)
      /\ \A x \in Names \ {s} : slot'[x] = slot[x] /\ cluster'[x] = cluster[x]
  BY <1>1, <1>2, <1>4, <1>5
<1>8. SlotType' /\ ClustersType'
  BY <1>1, <1>2, <1>3, <1>4, <1>5 DEF SlotType, ClustersType
<1>9. guard' \subseteq Names /\ \A x \in Names \ {s} : (x \in guard') <=> (x \in guard)
  BY <1>1, <1>2, <1>4
<1>10. PutUp(s)
  BY <1>2, <1>3, <1>6, <1>7, <1>8, <1>9 DEF PutUp
<1> QED BY <1>1, <1>3, <1>7, <1>10 DEF s

LEMMA FailSideIs ==
    ASSUME HostType, WalkType, WalkInv, SidesInv, FailSide
    PROVE  todo[1] \in Names /\ PutUp(todo[1])
<1> DEFINE s == todo[1]
<1>1. pc = "ensure" /\ p \in Pair /\ g \in 1..Len(Groups) /\ s \in Names
  BY InGroupIs, TodoIs DEF FailSide, InGroup
<1>2. PICK stays \in {None, Fresh(s)} \cup IF slot[s] = None THEN {cluster[s]} ELSE {} :
          cluster' = [cluster EXCEPT ![s] = stays]
  BY DEF FailSide
<1>3. /\ guard' \in {guard \ {s}} \cup IF cluster'[s] = Fresh(s) THEN {guard \cup {s}} ELSE {}
      /\ slot' = [slot EXCEPT ![s] = Side(GroupKey, Fresh(s).up, s \in guard')]
      /\ noted' = noted \ {s}
  BY DEF FailSide
<1> HIDE DEF s
<1> DEFINE b == s \in guard'
           new == Side(GroupKey, Fresh(s).up, b)
<1>4. /\ Fresh(s) \in ClusterType /\ Fresh(s) # None /\ new \in SideType /\ new # None
      /\ new.key = GroupKey /\ new.counted = b /\ ~ new.frozen
  <2>1. b \in BOOLEAN
    OBVIOUS
  <2> HIDE DEF b
  <2> QED BY <1>1, <2>1, FreshIs
<1>5. /\ slot \in [Names -> SideType \cup {None}] /\ cluster \in [Names -> ClusterType \cup {None}]
      /\ guard \subseteq Names
  BY DEF HostType
<1>6. slot' = [slot EXCEPT ![s] = new]
  BY <1>3
<1>7. new.counted <=> s \in guard'
  BY <1>4
<1> HIDE DEF new, b
<1>8. stays \in ClusterType \cup {None}
  BY <1>1, <1>2, <1>4, <1>5
<1>9. /\ slot'[s] = new /\ cluster'[s] = stays
      /\ \A x \in Names \ {s} : slot'[x] = slot[x] /\ cluster'[x] = cluster[x]
  BY <1>1, <1>2, <1>5, <1>6
<1>10. SlotType' /\ ClustersType'
  BY <1>1, <1>2, <1>4, <1>5, <1>6, <1>8 DEF SlotType, ClustersType
<1>11. guard' \subseteq Names /\ \A x \in Names \ {s} : (x \in guard') <=> (x \in guard)
  BY <1>1, <1>3, <1>5
<1>12. s \in guard' => cluster'[s] # None
  BY <1>3, <1>4
<1>13. PutUp(s)
  BY <1>3, <1>4, <1>7, <1>9, <1>10, <1>11, <1>12 DEF PutUp
<1> QED BY <1>1, <1>13 DEF s

\* What a step does on the host.
Kept1 == UNCHANGED <<slot, cluster, guard, noted>>
Kept2 == /\ SlotType' /\ ClustersType' /\ UNCHANGED <<guard, noted>>
         /\ \A s \in Names : SameSide(s) /\ SameCluster(s)
Stuck == \E s \in Names : Destroy({s}, {s}) /\ UNCHANGED slot
Down == \E D \in SUBSET Up, F \in SUBSET Names :
           /\ Destroy(D, F)
           /\ \/ slot' = [s \in Names |-> IF s \in D THEN None ELSE slot[s]]
              \/ slot' = [s \in Names |-> None] /\ (keep \/ D = Up)

LEMMA HostSteps ==
    ASSUME HostType, WalkType, WalkInv, SidesInv, [Next]_vars
    PROVE  /\ keep' = keep
           /\ Kept1 \/ Kept2 \/ (\E s \in Names : PutUp(s)) \/ Stuck \/ Down
<1> USE DEF planVars, outVars, pairVars, walkVars, stopVars, recordVars, hostVars, endVars
<1>1. CASE Host \/ PassPair \/ StartPair \/ SkipCase \/ EndCanaries
  BY <1>1 DEF Kept1, Host, PassPair, StartPair, SkipCase, EndCanaries
<1>2. CASE PassGroup \/ StartGroup \/ EndOverlap \/ WritePair \/ Finish
  BY <1>2 DEF Kept1, PassGroup, StartGroup, EndOverlap, WritePair, Finish
<1>3. CASE Signal \/ LoseLease \/ UNCHANGED vars
  BY <1>3 DEF Kept1, Signal, LoseLease, vars
<1>4. CASE StandUp
  <2>1. keep' = keep
    BY <1>4 DEF StandUp
  <2> QED BY <1>4, <2>1, StandUpIs
<1>5. CASE FailSide
  <2>1. keep' = keep
    BY <1>5 DEF FailSide
  <2> QED BY <1>5, <2>1, FailSideIs
<1>6. CASE StuckSide
  <2>1. pc = "ensure" /\ keep' = keep /\ Destroy({todo[1]}, {todo[1]}) /\ slot' = slot
    BY <1>6 DEF StuckSide
  <2>2. todo[1] \in Names
    BY <2>1, TodoIs
  <2> QED BY <2>1, <2>2 DEF Stuck
<1>7. CASE BeginCase \/ SwitchFails
  <2>1. pc = "cases" /\ keep' = keep /\ UNCHANGED <<guard, noted>>
    BY <1>7 DEF BeginCase, SwitchFails
  <2> QED BY <1>7, <2>1, Switches DEF Kept2
<1>8. CASE EndAB
  <2>1. pc = "cases" /\ keep' = keep /\ UNCHANGED <<guard, noted>>
    BY <1>8 DEF EndAB
  <2>2. CASE p \in Overlaps /\ ~ OverlapSkips
    BY <1>8, <2>1, <2>2, Switches DEF Kept2
  <2>3. CASE ~ (p \in Overlaps /\ ~ OverlapSkips)
    <3>1. UNCHANGED <<slot, cluster>>
      BY <1>8, <2>3 DEF EndAB
    <3> QED BY <2>1, <3>1 DEF Kept1
  <2> QED BY <2>2, <2>3
<1>9. CASE EndCase
  <2>1. keep' = keep /\ UNCHANGED <<guard, noted>>
    BY <1>9 DEF EndCase
  <2> QED BY <1>9, <2>1, EndCaseIs DEF Kept2
<1>10. CASE Gate
  <2>1. PICK F \in SUBSET GateDown : Destroy(GateDown, F)
    BY <1>10 DEF Gate
  <2>2. /\ keep' = keep /\ slot' = [s \in Names |-> IF s \in GateDown THEN None ELSE slot[s]]
        /\ GateDown \in SUBSET Up
    BY <1>10 DEF Gate, GateDown
  <2>3. F \in SUBSET Names
    BY <2>2 DEF Up
  <2> QED BY <2>1, <2>2, <2>3 DEF Down
<1>11. CASE CloseGroup
  <2>1. keep' = keep
    BY <1>11 DEF CloseGroup
  <2>2. CASE stop # "" \/ Frozen
    BY <1>11, <2>1, <2>2 DEF CloseGroup, Kept1
  <2>3. CASE ~ (stop # "" \/ Frozen)
    <3>1. PICK F \in SUBSET Dropped : Destroy(Dropped, F)
      BY <1>11, <2>3 DEF CloseGroup
    <3>2. /\ slot' = [s \in Names |-> IF s \in Dropped THEN None ELSE slot[s]]
          /\ Dropped \in SUBSET Up
      BY <1>11, <2>3 DEF CloseGroup, Dropped, Lost, Up
    <3>3. F \in SUBSET Names
      BY <3>2 DEF Up
    <3> QED BY <2>1, <3>1, <3>2, <3>3 DEF Down
  <2> QED BY <2>2, <2>3
<1>12. CASE EndPair
  <2>1. PICK F \in SUBSET EndDown : Destroy(EndDown, F)
    BY <1>12 DEF EndPair
  <2>2. /\ keep' = keep /\ slot' = [s \in Names |-> None] /\ EndDown \in SUBSET Up
        /\ keep \/ EndDown = Up
    BY <1>12 DEF EndPair, EndDown
  <2>3. F \in SUBSET Names
    BY <2>2 DEF Up
  <2> QED BY <2>1, <2>2, <2>3 DEF Down
<1>13. CASE \E s \in Names : FailOver(s)
  <2>1. PICK s \in Names : FailOver(s)
    BY <1>13
  <2>2. /\ cluster[s] # None /\ cluster' = [cluster EXCEPT ![s].home = FALSE]
        /\ keep' = keep /\ UNCHANGED <<slot, guard, noted>>
    BY <2>1 DEF FailOver
  <2>3. cluster[s] \in ClusterType
    BY <2>2, SideOf
  <2> DEFINE x == cluster[s]
             y == [x EXCEPT !.home = FALSE]
  <2>4. /\ y \in ClusterType /\ y.key = x.key /\ y.build = x.build /\ y.mine = x.mine
    <3> HIDE DEF x
    <3> QED BY <2>3 DEF ClusterType, x
  <2>5. cluster \in [Names -> ClusterType \cup {None}] /\ slot \in [Names -> SideType \cup {None}]
    BY DEF HostType
  <2>6. cluster' = [cluster EXCEPT ![s] = y]
    BY <2>2, <2>5
  <2> HIDE DEF x, y
  <2>7. ClustersType' /\ SlotType'
    BY <2>2, <2>4, <2>5, <2>6 DEF ClustersType, SlotType
  <2>8. cluster'[s] = y /\ \A n \in Names \ {s} : cluster'[n] = cluster[n]
    BY <2>5, <2>6
  <2>9. \A n \in Names : SameSide(n) /\ SameCluster(n)
    BY <2>2, <2>4, <2>8, NoneIs DEF SameSide, SameCluster, x
  <2> QED BY <2>2, <2>7, <2>9 DEF Kept2
<1> QED BY <1>1, <1>2, <1>3, <1>4, <1>5, <1>6, <1>7, <1>8, <1>9, <1>10, <1>11, <1>12,
           <1>13 DEF Next, Session

LEMMA HostKeeps ==
    ASSUME HostType, WalkType, WalkInv, SidesInv, GuardInv, [Next]_vars
    PROVE  HostType' /\ GuardInv'
<1>1. /\ keep' = keep
      /\ Kept1 \/ Kept2 \/ (\E s \in Names : PutUp(s)) \/ Stuck \/ Down
  BY HostSteps
<1>2. guard \subseteq Names /\ noted \subseteq Names /\ SlotType /\ ClustersType
  BY DEF HostType, SlotType, ClustersType
<1>h. SUFFICES /\ SlotType' /\ ClustersType' /\ guard' \subseteq Names /\ noted' \subseteq Names
               /\ GuardInv'
  BY DEF HostType, SlotType, ClustersType
<1>3. CASE Kept1
  BY <1>1, <1>2, <1>3 DEF Kept1, SlotType, ClustersType, GuardInv, Up
<1>4. CASE Kept2
  <2>1. \A s \in Names : SameSide(s) /\ SameCluster(s)
    BY <1>4 DEF Kept2
  <2>2. GuardInv'
    BY <1>1, <1>2, <1>4, <2>1 DEF Kept2, GuardInv, Up, SameSide, SameCluster
  <2> QED BY <1>2, <1>4, <2>2 DEF Kept2
<1>5. ASSUME NEW s \in Names, PutUp(s)
      PROVE  /\ SlotType' /\ ClustersType' /\ guard' \subseteq Names /\ noted' \subseteq Names
             /\ GuardInv'
  <2>1. GuardInv'
    BY <1>1, <1>2, <1>5 DEF PutUp, GuardInv, Up
  <2> QED BY <1>2, <1>5, <2>1 DEF PutUp
<1>6. CASE Stuck
  <2>1. PICK s \in Names : Destroy({s}, {s}) /\ slot' = slot
    BY <1>6 DEF Stuck
  <2>2. /\ ClustersType' /\ guard' \subseteq Names /\ noted' \subseteq Names
        /\ guard' \subseteq guard
        /\ \A n \in Names \ {s} : /\ cluster'[n] = cluster[n]
                                  /\ n \in guard' <=> n \in guard
                                  /\ n \in noted' <=> n \in noted
        /\ cluster'[s] = cluster[s] /\ s \in noted'
    BY <2>1, DestroyIs
  <2>3. \A n \in Names : cluster'[n] = cluster[n]
    BY <2>2
  <2>4. GuardInv'
    BY <1>1, <1>2, <2>1, <2>2, <2>3 DEF GuardInv, Up
  <2> QED BY <1>2, <2>1, <2>2, <2>4 DEF SlotType
<1>7. CASE Down
  <2>1. PICK D \in SUBSET Up, F \in SUBSET Names :
           /\ Destroy(D, F)
           /\ \/ slot' = [s \in Names |-> IF s \in D THEN None ELSE slot[s]]
              \/ slot' = [s \in Names |-> None] /\ (keep \/ D = Up)
    BY <1>7 DEF Down
  <2>2. D \in SUBSET Names
    BY DEF Up
  <2>3. /\ ClustersType' /\ guard' \subseteq Names /\ noted' \subseteq Names
        /\ guard' \subseteq guard /\ F \subseteq D
        /\ \A s \in Names \ D : /\ cluster'[s] = cluster[s]
                                /\ s \in guard' <=> s \in guard
                                /\ s \in noted' <=> s \in noted
        /\ \A s \in D : s \in guard' => ~ slot[s].counted
        /\ \A s \in D \ F : cluster'[s] = None /\ s \notin noted'
        /\ \A s \in F : cluster'[s] = cluster[s] /\ s \in noted'
    BY <2>1, <2>2, DestroyIs
  <2>4. SlotType' /\ \A s \in Names : /\ slot'[s] # None => slot'[s] = slot[s] /\ s \notin D
                                      /\ ~ keep /\ slot'[s] = None => slot[s] = None \/ s \in D
    BY <1>2, <2>1, <2>2 DEF SlotType, Up
  <2>5. \A s \in D : s \in guard => slot[s].counted
    BY <2>1 DEF GuardInv
  <2>6. GuardInv'
    <3>1. \A s \in guard' : cluster'[s] # None
      BY <1>2, <2>3, <2>5 DEF GuardInv
    <3>2. \A s \in Up' : /\ slot'[s].counted /\ s \notin noted' => s \in guard'
                         /\ s \in guard' => slot'[s].counted
      BY <2>3, <2>4 DEF GuardInv, Up
    <3>3. \A s \in Names : ~ keep' /\ slot'[s] = None /\ cluster'[s] # None /\ cluster'[s].mine
                           => s \in noted'
      BY <1>1, <2>3, <2>4 DEF GuardInv
    <3> QED BY <3>1, <3>2, <3>3 DEF GuardInv, Up
  <2> QED BY <2>3, <2>4, <2>6
<1> QED BY <1>1, <1>3, <1>4, <1>5, <1>6, <1>7

\* While a pair and its canaries, or its cases, last, so do its groups.
LEMMA GroupStays ==
    ASSUME p' = p, (phase' = "canary") <=> (phase = "canary")
    PROVE  /\ Groups' = Groups /\ Stood' = Stood /\ Todos' = Todos
           /\ \A s \in Names : Build(s)' = Build(s)
           /\ g' = g => Group' = Group /\ GroupKey' = GroupKey /\ (HA' <=> HA)
<1>1. Groups' = Groups
  BY DEF Groups, CanaryGroups, PairGroups
<1>2. Stood' = Stood
  BY DEF Stood
<1>3. Todos' = Todos
  BY DEF Todos
<1>5. \A s \in Names : Build(s)' = Build(s)
  BY DEF Build, Names
<1>6. g' = g => Group' = Group /\ GroupKey' = GroupKey /\ (HA' <=> HA)
  BY <1>1 DEF Group, GroupKey, HA
<1> QED BY <1>1, <1>2, <1>3, <1>5, <1>6

\* The group at hand has been begun; what was is so for good.
LEMMA BegunIs ==
    ASSUME phase = "canary" \/ p \in Pair
    PROVE  /\ \A n \in 1..Len(Groups) : Key[Groups[n][1]] \in Begun(Groups, n)
           /\ \A n \in Nat : Begun(Groups, n) \subseteq Begun(Groups, n + 1)
           /\ g \in 1..Len(Groups) => GroupKey \in Begun(Groups, g)
<1>1. Len(Groups) \in Nat
  BY GroupsOf
<1>2. \A n \in 1..Len(Groups) : n \in 1..n
  BY <1>1
<1>3. \A n \in 1..Len(Groups) : Key[Groups[n][1]] \in Begun(Groups, n)
  BY <1>2 DEF Begun
<1>4. ASSUME NEW n \in Nat PROVE Begun(Groups, n) \subseteq Begun(Groups, n + 1)
  <2>1. 1..n \subseteq 1..n + 1
    OBVIOUS
  <2> QED BY <2>1 DEF Begun
<1> QED BY <1>3, <1>4 DEF GroupKey, Group

\* A side that is ready stays so.
LEMMA ReadyStays ==
    ASSUME NEW s \in Names, Ready(s), SameSide(s), SameCluster(s), UNCHANGED <<p, g>>,
           (phase' = "canary") <=> (phase = "canary"),
           phase # "canary" => SameUse(s), HA => SameServers(s),
           ~ HA => SameHome(s) \/ cluster'[s].home
    PROVE  Ready(s)'
<1>1. Group' = Group /\ GroupKey' = GroupKey /\ (HA' <=> HA) /\ Build(s)' = Build(s)
  BY GroupStays
<1>2. /\ slot[s] # None /\ cluster[s] # None
      /\ cluster[s].mine /\ cluster[s].key = GroupKey /\ cluster[s].build = Build(s)
      /\ phase # "canary" => ~ cluster[s].used
      /\ HA => slot[s].running = {FixtureOf[Group[1]]}
      /\ ~ HA => cluster[s].home
  BY DEF Ready
<1>3. /\ slot'[s] # None /\ cluster'[s] # None /\ cluster'[s].mine = cluster[s].mine
      /\ cluster'[s].key = cluster[s].key /\ cluster'[s].build = cluster[s].build
  BY <1>2 DEF SameSide, SameCluster
<1>4. phase' # "canary" => ~ cluster'[s].used
  BY <1>2 DEF SameUse
<1>5. HA' => slot'[s].running = {FixtureOf[Group'[1]]}
  BY <1>1, <1>2 DEF SameServers
<1>6. ~ HA' => cluster'[s].home
  BY <1>1, <1>2 DEF SameHome
<1>7. cluster'[s].mine
  BY <1>2, <1>3
<1>8. cluster'[s].key = GroupKey' /\ cluster'[s].build = Build(s)'
  BY <1>1, <1>2, <1>3
<1> QED BY <1>3, <1>4, <1>5, <1>6, <1>7, <1>8 DEF Ready

LEMMA WalkKeeps ==
    ASSUME WalkType, WalkInv, [Next]_vars
    PROVE  WalkInv'
<1> USE DEF planVars, outVars, pairVars, walkVars, stopVars, recordVars, hostVars, endVars,
            InGroup, Stopped
<1>a. /\ pc \notin Stopped => p \in Pair
      /\ pc \in Stopped \cup {"gate"} => phase = "canary"
      /\ pc \in Stopped => g = 1 /\ stop = "" /\ \A s \in Names : slot[s] = None
      /\ pc = "ensure" => phase # "overlap" /\ todo \in Todos
      /\ pc \in InGroup => g \in 1..Len(Groups)
      /\ pc = "group" => phase = "ab" /\ g \in 1..Len(Groups) + 1
      /\ pc = "close" => phase # "canary"
      /\ phase = "overlap" => p \in Overlaps
      /\ pc = "cases" => i \in 1..Len(Group) + 1
      /\ pc = "measuring" => i \in 1..Len(Group)
  BY DEF WalkInv
<1>b. /\ phase \in {"canary", "ab", "overlap"} /\ g \in Nat \ {0} /\ i \in Nat \ {0}
  BY DEF WalkType
<1>n. /\ phase = "canary" \/ p \in Pair => Len(Groups) \in Nat
      /\ pc \in InGroup => Len(Group) \in Nat
  <2>1. phase = "canary" \/ p \in Pair => Len(Groups) \in Nat
    BY GroupsOf
  <2>2. pc \in InGroup => Len(Group) \in Nat
    BY <1>a, GroupOf
  <2> QED BY <2>1, <2>2
<1>s. p' = p /\ ((phase' = "canary") <=> (phase = "canary")) =>
          /\ Groups' = Groups /\ Todos' = Todos
          /\ g' = g => Group' = Group
  BY GroupStays
<1>1. CASE UNCHANGED <<pc, p, walkVars, stop, slot>>
  BY <1>1, <1>a, <1>s DEF WalkInv
<1>2. CASE Host
  <2>1. /\ pc \in Stopped /\ pc' \in Stopped /\ UNCHANGED <<p, walkVars, stopVars, slot>>
    BY <1>2 DEF Host
  <2> QED BY <1>a, <2>1 DEF WalkInv
<1>3. CASE PassPair
  <2>1. /\ pc \in Stopped /\ pc' = pc /\ UNCHANGED <<walkVars, stopVars, slot>>
    BY <1>3 DEF PassPair
  <2> QED BY <1>a, <2>1 DEF WalkInv
<1>4. CASE StartPair
  <2>1. /\ pc \in Stopped /\ p \in Pair /\ phase = "canary" /\ g = 1
        /\ UNCHANGED <<p, phase, g, i, stopVars, slot>>
    BY <1>4, <1>a DEF StartPair
  <2>2. CASE Canaries = <<>>
    <3>1. pc' = "gate"
      BY <1>4, <2>2 DEF StartPair
    <3> QED BY <2>1, <3>1 DEF WalkInv
  <2>3. CASE Canaries # <<>>
    <3>1. pc' = "ensure" /\ todo' = <<"r", "t">>
      BY <1>4, <2>3 DEF StartPair
    <3>2. Groups = ConfGroups(Canaries) /\ Canaries \in Seq(Cases)
      BY <2>1, PerfAssumption DEF Groups, CanaryGroups
    <3>3. ConfGroups(Canaries) # <<>>
      BY <2>3, <3>2, GroupsAre
    <3>4. Groups \in Seq(Seq(Cases)) /\ Groups # <<>>
      BY <2>1, <3>2, <3>3, GroupsOf
    <3>5. 1 \in 1..Len(Groups)
      BY <3>4
    <3>6. todo' \in Todos
      BY <2>1, <3>1 DEF Todos
    <3> QED BY <1>s, <2>1, <3>1, <3>5, <3>6 DEF WalkInv
  <2> QED BY <2>2, <2>3
<1>5. CASE StandUp
  <2>1. /\ pc = "ensure" /\ NextSide /\ UNCHANGED <<p, phase, g>>
    BY <1>5 DEF StandUp
  <2>2. CASE Len(todo) = 1
    <3>1. pc' = "cases" /\ i' = 1
      BY <2>1, <2>2 DEF NextSide
    <3>2. 1 \in 1..Len(Group) + 1
      BY <1>n, <2>1
    <3> QED BY <1>a, <1>s, <2>1, <3>1, <3>2 DEF WalkInv
  <2>3. CASE Len(todo) # 1
    <3>1. pc' = "ensure" /\ todo' = Tail(todo)
      BY <2>1, <2>3 DEF NextSide
    <3>2. todo' \in Todos
      BY <2>1, <2>3, <3>1, TodoIs
    <3> QED BY <1>a, <1>s, <2>1, <3>1, <3>2 DEF WalkInv
  <2> QED BY <2>2, <2>3
<1>6. CASE StuckSide \/ FailSide
  <2>1. pc = "ensure" /\ (\E copyMode : NotUp(copyMode)) /\ UNCHANGED <<p, phase, i, todo>>
    BY <1>6 DEF StuckSide, FailSide
  <2>2. CASE phase = "canary"
    <3>1. pc' = "gate" /\ g' = g
      BY <2>1, <2>2 DEF NotUp
    <3> QED BY <1>a, <2>1, <2>2, <3>1 DEF WalkInv
  <2>3. CASE phase # "canary"
    <3>1. pc' = "group" /\ g' = g + 1 /\ phase = "ab"
      BY <1>a, <1>b, <2>1, <2>3 DEF NotUp, SkipGroup
    <3>2. g + 1 \in 1..Len(Groups) + 1
      BY <1>a, <1>b, <1>n, <2>1
    <3> QED BY <1>a, <1>s, <2>1, <3>1, <3>2 DEF WalkInv
  <2> QED BY <2>2, <2>3
<1>7. CASE SkipCase \/ SwitchFails
  <2>1. /\ pc = "cases" /\ i <= Len(Group) /\ i' = i + 1
        /\ UNCHANGED <<pc, p, phase, g, todo>>
    BY <1>7 DEF SkipCase, SwitchFails, Record
  <2>2. i + 1 \in 1..Len(Group) + 1
    BY <1>b, <1>n, <2>1
  <2> QED BY <1>a, <1>s, <2>1, <2>2 DEF WalkInv
<1>8. CASE BeginCase
  <2>1. /\ pc = "cases" /\ i <= Len(Group) /\ pc' = "measuring" /\ UNCHANGED <<p, walkVars>>
    BY <1>8 DEF BeginCase
  <2>2. i \in 1..Len(Group)
    BY <1>b, <1>n, <2>1
  <2> QED BY <1>a, <1>s, <2>1, <2>2 DEF WalkInv
<1>9. CASE EndCase
  <2>1. /\ pc = "measuring" /\ i' = i + 1 /\ pc' = "cases" /\ UNCHANGED <<p, phase, g, todo>>
    BY <1>9 DEF EndCase, Record
  <2>2. i + 1 \in 1..Len(Group) + 1
    BY <1>a, <1>b, <1>n, <2>1
  <2> QED BY <1>a, <1>s, <2>1, <2>2 DEF WalkInv
<1>10. CASE EndCanaries
  <2>1. /\ pc = "cases" /\ phase = "canary" /\ UNCHANGED <<p, phase, i, stopVars>>
    BY <1>10 DEF EndCanaries
  <2>2. CASE stop = "" /\ ~ Frozen /\ g < Len(Groups)
    <3>1. pc' = "ensure" /\ g' = g + 1 /\ todo' = <<"r", "t">>
      BY <1>10, <2>2 DEF EndCanaries
    <3>2. g + 1 \in 1..Len(Groups)
      <4>1. Len(Groups) \in Nat
        BY <1>n, <2>1
      <4>2. g \in Nat /\ g # 0 /\ g < Len(Groups)
        BY <1>b, <2>2
      <4> QED BY <4>1, <4>2
    <3>3. todo' \in Todos
      BY <2>1, <3>1 DEF Todos
    <3> QED BY <1>a, <1>s, <2>1, <3>1, <3>2, <3>3 DEF WalkInv
  <2>3. CASE ~ (stop = "" /\ ~ Frozen /\ g < Len(Groups))
    <3>1. pc' = "gate"
      BY <1>10, <2>3 DEF EndCanaries
    <3> QED BY <1>a, <2>1, <3>1 DEF WalkInv
  <2> QED BY <2>2, <2>3
<1>11. CASE Gate
  <2>1. pc = "gate" /\ p \in Pair /\ phase = "canary" /\ p' = p
    BY <1>11, <1>a DEF Gate
  <2>2. CASE valid'[p]
    <3>1. pc' = "group" /\ phase' = "ab" /\ g' = 1
      BY <1>11, <2>2 DEF Gate
    <3>2. Groups' = ConfGroups(Selected[p]) /\ Selected[p] \in Seq(Cases)
      BY <2>1, <3>1, PerfAssumption DEF Groups, PairGroups
    <3>3. ConfGroups(Selected[p]) \in Seq(Seq(Cases))
      BY <3>2, GroupsAre
    <3>4. 1 \in 1..Len(ConfGroups(Selected[p])) + 1
      BY <3>3
    <3> QED BY <2>1, <3>1, <3>2, <3>4 DEF WalkInv
  <2>3. CASE ~ valid'[p]
    <3>1. pc' = "endpair" /\ phase' = phase
      BY <1>11, <2>3 DEF Gate
    <3> QED BY <2>1, <3>1 DEF WalkInv
  <2> QED BY <2>2, <2>3
<1>12. CASE PassGroup
  <2>1. /\ pc = "group" /\ g <= Len(Groups) /\ g' = g + 1 /\ pc' = "group"
        /\ UNCHANGED <<p, phase>>
    BY <1>12 DEF PassGroup, SkipGroup
  <2>2. g + 1 \in 1..Len(Groups) + 1
    BY <1>a, <1>b, <1>n, <2>1
  <2> QED BY <1>a, <1>s, <2>1, <2>2 DEF WalkInv
<1>13. CASE StartGroup
  <2>1. /\ pc = "group" /\ g <= Len(Groups) /\ pc' = "ensure" /\ UNCHANGED <<p, phase, g>>
        /\ todo' = IF p \in Overlaps THEN <<"t", "r", "o">> ELSE <<"t", "r">>
    BY <1>13 DEF StartGroup
  <2>2. g \in 1..Len(Groups)
    BY <1>a, <1>b, <1>n, <2>1
  <2>3. todo' \in Todos
    BY <1>a, <2>1 DEF Todos
  <2> QED BY <1>a, <1>s, <2>1, <2>2, <2>3 DEF WalkInv
<1>14. CASE EndAB
  <2>1. pc = "cases" /\ phase = "ab" /\ UNCHANGED <<p, g, todo>>
    BY <1>14 DEF EndAB
  <2>2. CASE pc' = "close" /\ phase' = phase
    BY <1>a, <1>s, <2>1, <2>2 DEF WalkInv
  <2>3. CASE p \in Overlaps /\ phase' = "overlap" /\ i' = 1 /\ pc' = pc
    <3>1. 1 \in 1..Len(Group) + 1
      BY <1>n, <2>1
    <3> QED BY <1>a, <1>s, <2>1, <2>3, <3>1 DEF WalkInv
  <2> QED BY <1>14, <2>2, <2>3 DEF EndAB
<1>15. CASE EndOverlap
  <2>1. pc = "cases" /\ phase = "overlap" /\ pc' = "close" /\ UNCHANGED <<p, walkVars>>
    BY <1>15 DEF EndOverlap
  <2> QED BY <1>a, <1>s, <2>1 DEF WalkInv
<1>16. CASE CloseGroup
  <2>1. /\ pc = "close" /\ phase' = "ab" /\ g' = g + 1 /\ pc' = "group" /\ p' = p
    BY <1>16 DEF CloseGroup
  <2>2. g + 1 \in 1..Len(Groups) + 1
    BY <1>a, <1>b, <1>n, <2>1
  <2> QED BY <1>a, <1>s, <2>1, <2>2 DEF WalkInv
<1>17. CASE WritePair
  <2>1. pc = "group" /\ pc' = "endpair" /\ UNCHANGED <<p, phase>>
    BY <1>17 DEF WritePair
  <2> QED BY <1>a, <2>1 DEF WalkInv
<1>18. CASE EndPair
  <2>1. /\ pc' = "pairs" /\ phase' = "canary" /\ g' = 1 /\ stop' = ""
        /\ slot' = [s \in Names |-> None]
    BY <1>18 DEF EndPair, Cleared
  <2> QED BY <2>1 DEF WalkInv
<1>19. CASE Finish
  <2>1. pc = "pairs" /\ pc' = "done" /\ UNCHANGED <<p, walkVars, stopVars, slot>>
    BY <1>19 DEF Finish
  <2> QED BY <1>a, <2>1 DEF WalkInv
<1>20. CASE Signal \/ LoseLease \/ (\E s \in Names : FailOver(s)) \/ UNCHANGED vars
  <2>1. UNCHANGED <<pc, p, walkVars, stop, slot>>
    BY <1>20 DEF Signal, LoseLease, FailOver, vars
  <2> QED BY <1>1, <2>1
<1> QED BY <1>2, <1>3, <1>4, <1>5, <1>6, <1>7, <1>8, <1>9, <1>10, <1>11, <1>12,
           <1>13, <1>14, <1>15, <1>16, <1>17, <1>18, <1>19, <1>20 DEF Next, Session

\* A side that stood up is ready.
LEMMA ReadyIs ==
    ASSUME HostType, WalkType, WalkInv, SidesInv, StandUp,
           NEW s \in Names, s = todo[1]
    PROVE  Ready(s)'
<1>1. pc = "ensure" /\ p \in Pair /\ g \in 1..Len(Groups) /\ UNCHANGED <<p, phase, g>>
  BY InGroupIs DEF StandUp, InGroup
<1>2. /\ s \in Names /\ PutUp(s) /\ slot'[s].running = Fresh(s).up
      /\ cluster'[s] = Fresh(s)
  BY StandUpIs
<1>3. /\ Fresh(s) # None /\ Fresh(s).key = GroupKey /\ Fresh(s).build = Build(s)
      /\ Fresh(s).mine /\ ~ Fresh(s).used /\ Fresh(s).home
      /\ HA => Fresh(s).up = {FixtureOf[Group[1]]}
  BY <1>1, <1>2, FreshIs
<1>4. Group' = Group /\ GroupKey' = GroupKey /\ (HA' <=> HA) /\ Build(s)' = Build(s)
  BY <1>1, <1>2, GroupStays
<1>5. slot'[s] # None
  BY <1>2 DEF PutUp
<1> QED BY <1>2, <1>3, <1>4, <1>5 DEF Ready

LEMMA SidesKeeps ==
    ASSUME HostType, WalkType, WalkInv, SidesInv, [Next]_vars
    PROVE  SidesInv'
<1> USE DEF planVars, outVars, pairVars, walkVars, stopVars, recordVars, hostVars, endVars,
            InGroup, Stopped
<1>a. /\ pc = "ensure" => \A s \in Stood \ ToCome : Ready(s)
      /\ pc \in {"cases", "measuring"} => \A s \in Stood : Ready(s)
      /\ pc = "ensure" => \A s \in ToCome : slot[s] # None => slot[s].key \in Begun(Groups, g - 1)
      /\ pc \in InGroup => \A s \in Up : slot[s].key \in Begun(Groups, g)
      /\ pc = "group" => \A s \in Up : slot[s].key \in Begun(Groups, g - 1)
      /\ pc \in {"ensure", "measuring"} => ~ Frozen
      /\ pc = "cases" /\ Frozen => stop # "" \/ gbroken
      /\ pc = "group" /\ Frozen => stop # "" \/ broken
      /\ phase # "canary" => Judged
  BY DEF SidesInv
<1>b. /\ pc \in InGroup => p \in Pair /\ g \in 1..Len(Groups) /\ GroupKey \in Begun(Groups, g)
      /\ g \in Nat \ {0} /\ phase \in {"canary", "ab", "overlap"}
      /\ pc \notin Stopped => p \in Pair
  BY InGroupIs, BegunIs DEF WalkType, WalkInv
<1>g. g - 1 \in Nat /\ (g - 1) + 1 = g /\ g \in Nat /\ (g + 1) - 1 = g
  BY <1>b
<1>m. pc \notin Stopped => Begun(Groups, g - 1) \subseteq Begun(Groups, g) /\ Begun(Groups, g) \subseteq Begun(Groups, g + 1)
  BY <1>b, <1>g, BegunIs
<1>s. p' = p /\ ((phase' = "canary") <=> (phase = "canary")) =>
          /\ Stood' = Stood /\ Groups' = Groups
  BY GroupStays
<1>n. Stood \subseteq Names
  BY DEF Stood, Names
<1>r. ASSUME UNCHANGED <<p, g, phase, slot, cluster>>, NEW s \in Names, Ready(s)
      PROVE  Ready(s)'
  <2>1. SameSide(s) /\ SameCluster(s) /\ SameUse(s) /\ SameServers(s) /\ SameHome(s)
    BY <1>r DEF SameSide, SameCluster, SameUse, SameServers, SameHome
  <2> QED BY <1>r, <2>1, ReadyStays
\* Nothing that is said of changes.
<1>1. ASSUME UNCHANGED <<pc, p, phase, g, i, todo, stop, broken, gbroken, canaries, slot,
                         cluster>>
      PROVE  SidesInv'
  <2>1. \A s \in Names : Ready(s) => Ready(s)'
    BY <1>1, <1>r
  <2>2. Stood' = Stood /\ Groups' = Groups
    BY <1>1, <1>s
  <2>3. ToCome' = ToCome /\ Up' = Up /\ (Frozen' <=> Frozen) /\ (Judged' <=> Judged)
        /\ Measured' = Measured /\ Fixture' = Fixture
    <3>1. Groups' = Groups
      BY <1>1, GroupStays
    <3> QED BY <1>1, <3>1 DEF ToCome, Up, Frozen, Judged, Measured, Ref, Fixture, Case, Group
  <2>4. pc' = "measuring" => \A s \in Measured' :
          cluster'[s].home /\ ~ slot'[s].lost /\ slot'[s].running = {Fixture'}
    BY <1>1, <2>3 DEF SidesInv
  <2> QED BY <1>1, <1>a, <1>n, <2>1, <2>2, <2>3, <2>4 DEF SidesInv
\* The pair is not in a group, and its canaries have not been judged.
<1>2. ASSUME pc' \in Stopped \cup {"gate", "endpair"}, phase' # "canary" => Judged'
      PROVE  SidesInv'
  BY <1>2 DEF SidesInv
<1>3. CASE Host \/ PassPair \/ Finish
  <2>1. pc \in Stopped /\ pc' \in Stopped /\ UNCHANGED walkVars
    BY <1>3 DEF Host, PassPair, Finish
  <2>2. phase' = "canary"
    BY <2>1 DEF WalkInv
  <2> QED BY <1>2, <2>1, <2>2
<1>4. CASE StartPair
  <2>1. /\ pc' \in {"gate", "ensure"} /\ todo' = <<"r", "t">> /\ phase' = "canary"
        /\ \A s \in Names : slot'[s] = None
    BY <1>4 DEF StartPair, WalkInv
  <2>2. CASE pc' = "gate"
    BY <1>2, <2>1, <2>2
  <2>3. CASE pc' = "ensure"
    <3>1. Stood' \subseteq ToCome' /\ ToCome' \subseteq Names
      <4>1. Len(todo') = 2 /\ 1..2 = {1, 2} /\ todo'[1] = "r" /\ todo'[2] = "t"
        BY <2>1
      <4> QED BY <2>1, <4>1 DEF Stood, ToCome, Names
    <3>2. ~ Frozen' /\ Up' = {}
      BY <2>1 DEF Frozen, Up
    <3> QED BY <2>1, <2>3, <3>1, <3>2 DEF SidesInv
  <2> QED BY <2>1, <2>2, <2>3
<1>5. CASE StandUp
  <2>0. PICK s \in Names : s = todo[1]
    BY <1>5, StandUpIs
  <2>1. /\ pc = "ensure" /\ NextSide /\ UNCHANGED <<p, phase, g, stop, canaries>>
    BY <1>5 DEF StandUp, recordVars
  <2>2. PutUp(s) /\ Ready(s)'
    BY <1>5, <2>0, StandUpIs, ReadyIs
  <2>3. /\ s \in ToCome /\ ToCome \subseteq Stood
        /\ {Tail(todo)[k] : k \in 1..Len(Tail(todo))} = ToCome \ {s}
        /\ Len(todo) = 1 => ToCome = {s}
    BY <2>0, <2>1, TodoIs
  <2>4. \A x \in Names \ {s} : slot'[x] = slot[x] /\ cluster'[x] = cluster[x]
    BY <2>2 DEF PutUp
  <2>5. ASSUME NEW x \in Stood \ ToCome PROVE Ready(x)'
    <3>1. Ready(x) /\ x \in Names /\ x # s
      BY <1>a, <1>n, <2>1, <2>3
    <3>2. SameSide(x) /\ SameCluster(x) /\ SameUse(x) /\ SameServers(x) /\ SameHome(x)
      BY <2>4, <3>1 DEF SameSide, SameCluster, SameUse, SameServers, SameHome
    <3> QED BY <2>1, <3>1, <3>2, ReadyStays
  <2>6. Stood' = Stood /\ Groups' = Groups
    BY <1>s, <2>1
  <2>7. ~ Frozen'
    BY <1>a, <2>1, <2>2, <2>4 DEF PutUp, Frozen
  <2>8. Judged' <=> Judged
    BY <2>1 DEF Judged
  <2>9. \A x \in Up' : slot'[x].key \in Begun(Groups, g)
    <3>1. slot'[s].key \in Begun(Groups, g)
      BY <1>b, <2>1, <2>2 DEF PutUp
    <3> QED BY <1>a, <2>1, <2>4, <3>1 DEF Up
  <2>10. CASE Len(todo) = 1
    <3>1. pc' = "cases"
      BY <2>1, <2>10 DEF NextSide
    <3>2. \A x \in Stood' : Ready(x)'
      BY <2>2, <2>3, <2>5, <2>6, <2>10
    <3> QED BY <1>a, <2>1, <2>6, <2>7, <2>8, <2>9, <3>1, <3>2 DEF SidesInv
  <2>11. CASE Len(todo) # 1
    <3>1. pc' = "ensure" /\ todo' = Tail(todo)
      BY <2>1, <2>11 DEF NextSide
    <3>2. ToCome' = ToCome \ {s}
      BY <2>3, <3>1 DEF ToCome
    <3>3. \A x \in Stood' \ ToCome' : Ready(x)'
      BY <2>2, <2>5, <2>6, <3>2
    <3>4. \A x \in ToCome' : slot'[x] # None => slot'[x].key \in Begun(Groups, g - 1)
      BY <1>a, <1>n, <2>1, <2>3, <2>4, <3>2
    <3> QED BY <1>a, <2>1, <2>6, <2>7, <2>8, <2>9, <3>1, <3>3, <3>4 DEF SidesInv
  <2> QED BY <2>10, <2>11
<1>6. CASE StuckSide \/ FailSide
  <2>1. /\ pc = "ensure" /\ (\E copyMode : NotUp(copyMode)) /\ UNCHANGED <<p, phase>>
    BY <1>6 DEF StuckSide, FailSide
  <2>2. canaries' = canaries
    BY <2>1 DEF NotUp, SkipGroup
  <2>3. Judged' <=> Judged
    BY <2>2 DEF Judged
  <2>4. CASE phase = "canary"
    <3>1. pc' = "gate"
      BY <2>1, <2>4 DEF NotUp
    <3> QED BY <1>2, <2>1, <2>4, <3>1
  <2>5. CASE phase # "canary"
    <3>1. pc' = "group" /\ g' = g + 1
      BY <2>1, <2>5 DEF NotUp, SkipGroup
    <3>2. ~ Frozen' /\ \A x \in Up' : slot'[x].key \in Begun(Groups, g)
      <4>1. CASE StuckSide
        <5>1. slot' = slot
          BY <4>1 DEF StuckSide
        <5> QED BY <1>a, <2>1, <5>1 DEF Frozen, Up
      <4>2. CASE FailSide
        <5> DEFINE s == todo[1]
        <5>1. s \in Names /\ PutUp(s)
          BY <4>2, FailSideIs
        <5> HIDE DEF s
        <5>2. \A x \in Names \ {s} : slot'[x] = slot[x]
          BY <5>1 DEF PutUp
        <5>3. ~ slot'[s].frozen /\ slot'[s].key \in Begun(Groups, g)
          BY <1>b, <2>1, <5>1 DEF PutUp
        <5> QED BY <1>a, <2>1, <5>2, <5>3 DEF Frozen, Up
      <4> QED BY <1>6, <4>1, <4>2
    <3>3. Begun(Groups', g' - 1) = Begun(Groups, g)
      BY <1>g, <1>s, <2>1, <3>1
    <3> QED BY <1>a, <2>1, <2>3, <3>1, <3>2, <3>3 DEF SidesInv
  <2> QED BY <2>4, <2>5
<1>7. CASE SkipCase
  <2>1. /\ pc = "cases" /\ pc' = "cases" /\ UNCHANGED <<p, phase, g, slot, cluster>>
    BY <1>7 DEF SkipCase
  <2>7. stop # "" \/ gbroken => stop' # "" \/ gbroken'
    <3>1. stop # "" \/ gbroken => ~ Open
      BY DEF Open
    <3>2. ~ Open => stop' = stop /\ gbroken' = gbroken
      BY <1>7 DEF SkipCase
    <3> QED BY <3>1, <3>2
  <2>2. phase # "canary" => canaries' = canaries
    BY <1>7 DEF SkipCase, Record
  <2>3. \A s \in Stood' : Ready(s)'
    BY <1>a, <1>n, <1>r, <1>s, <2>1
  <2>4. Frozen' <=> Frozen
    BY <2>1 DEF Frozen
  <2>5. phase' # "canary" => Judged'
    BY <1>a, <2>1, <2>2 DEF Judged
  <2>6. \A s \in Up' : slot'[s].key \in Begun(Groups', g')
    BY <1>a, <1>s, <2>1 DEF Up
  <2> QED BY <1>a, <2>1, <2>3, <2>4, <2>5, <2>6, <2>7 DEF SidesInv
<1>8. CASE BeginCase \/ SwitchFails \/ (EndAB /\ p \in Overlaps /\ ~ OverlapSkips)
  <2>1. pc = "cases" /\ UNCHANGED <<p, g>> /\ (BeginCase => pc' = "measuring")
    BY <1>8 DEF BeginCase, SwitchFails, EndAB
  <2>2. (phase' = "canary") <=> (phase = "canary")
    BY <1>8 DEF BeginCase, SwitchFails, EndAB
  <2>3. /\ \A s \in Names : SameSide(s) /\ SameState(s) /\ SameCluster(s) /\ SameUse(s)
                            /\ SameHome(s)
        /\ HA => \A s \in Names : SameServers(s)
        /\ BeginCase /\ ~ HA => \A s \in Measured : slot'[s].running = {Fixture}
    BY <1>8, <2>1, Switches
  <2>4. \A s \in Stood' : Ready(s)'
    BY <1>a, <1>n, <1>s, <2>1, <2>2, <2>3, ReadyStays
  <2>5. ~ Frozen
    BY <1>8, <1>a, <2>1 DEF BeginCase, SwitchFails, Runs, Open, OverlapSkips
  <2>6. ~ Frozen'
    BY <2>3, <2>5 DEF Frozen, SameSide, SameState
  <2>7. \A s \in Up' : slot'[s].key \in Begun(Groups', g')
    BY <1>a, <1>s, <2>1, <2>2, <2>3 DEF Up, SameSide
  <2>8. phase' # "canary" => Judged'
    <3>1. phase # "canary" => canaries' = canaries
      BY <1>8 DEF BeginCase, SwitchFails, EndAB, Record
    <3> QED BY <1>a, <2>2, <3>1 DEF Judged
  <2>9. CASE BeginCase
    <3>1. /\ i <= Len(Group) /\ Lost(Measured) = {} /\ pc' = "measuring"
          /\ HA => \A s \in Measured : cluster[s].home
          /\ UNCHANGED <<phase, i>>
      BY <2>9 DEF BeginCase, Runs
    <3>2. Group' = Group /\ Measured' = Measured /\ Fixture' = Fixture
      BY <2>1, <3>1, GroupStays DEF Measured, Ref, Fixture, Case
    <3>3. Measured \subseteq Stood /\ Measured \subseteq Names
      BY <1>b DEF Measured, Ref, Stood, Names, WalkInv
    <3>4. HA => FixtureOf[Group[1]] = Fixture
      <4>1. Len(Group) \in Nat
        BY <1>b, <2>1, GroupOf
      <4>2. i \in Nat /\ i # 0
        BY DEF WalkType
      <4>3. i \in 1..Len(Group)
        BY <3>1, <4>1, <4>2
      <4> QED BY <1>b, <2>1, <4>3, GroupOf DEF Fixture, Case
    <3>5. ASSUME NEW s \in Measured
          PROVE  cluster'[s].home /\ ~ slot'[s].lost /\ slot'[s].running = {Fixture}
      <4>1. Ready(s) /\ s \in Names
        BY <1>a, <2>1, <3>3
      <4>2. slot[s] # None /\ cluster[s] # None
        BY <4>1 DEF Ready
      <4>3. cluster[s].home
        BY <3>1, <4>1 DEF Ready
      <4>4. ~ slot[s].lost
        BY <3>1, <4>2 DEF Lost
      <4>5. cluster'[s].home = cluster[s].home /\ slot'[s].lost = slot[s].lost
        BY <2>3, <4>1, <4>2 DEF SameHome, SameState
      <4>6. slot'[s].running = {Fixture}
        <5>1. CASE HA
          BY <2>3, <3>4, <4>1, <4>2, <5>1 DEF SameServers, Ready
        <5>2. CASE ~ HA
          BY <2>3, <2>9, <5>2
        <5> QED BY <5>1, <5>2
      <4> QED BY <4>3, <4>4, <4>5, <4>6
    <3> QED BY <2>4, <2>6, <2>7, <2>8, <3>1, <3>2, <3>5 DEF SidesInv
  <2>10. CASE ~ BeginCase
    <3>1. pc' = "cases"
      BY <1>8, <2>1, <2>10 DEF SwitchFails, EndAB, OverlapSkips
    <3> QED BY <2>4, <2>6, <2>7, <2>8, <3>1 DEF SidesInv
  <2> QED BY <2>9, <2>10
<1>9. CASE EndCase
  <2>1. /\ pc = "measuring" /\ pc' = "cases" /\ UNCHANGED <<p, g, phase>>
        /\ phase # "canary" => canaries' = canaries
    BY <1>9 DEF EndCase, Record
  <2>2. /\ \A s \in Names : SameSide(s) /\ SameCluster(s)
        /\ phase # "canary" => \A s \in Names : SameUse(s)
        /\ HA => \A s \in Names : SameServers(s)
        /\ ~ HA => \A s \in Names : SameHome(s) \/ cluster'[s].home
        /\ Frozen' => gbroken'
    BY <1>9, EndCaseIs
  <2>3. \A s \in Stood' : Ready(s)'
    BY <1>a, <1>n, <1>s, <2>1, <2>2, ReadyStays
  <2>4. \A s \in Up' : slot'[s].key \in Begun(Groups', g')
    BY <1>a, <1>s, <2>1, <2>2 DEF Up, SameSide
  <2>5. phase' # "canary" => Judged'
    BY <1>a, <2>1 DEF Judged
  <2> QED BY <2>1, <2>2, <2>3, <2>4, <2>5 DEF SidesInv
<1>10. CASE EndCanaries
  <2>1. /\ pc = "cases" /\ phase = "canary" /\ UNCHANGED <<p, phase, slot>>
        /\ pc' \in {"gate", "ensure"}
    BY <1>10 DEF EndCanaries
  <2>2. CASE pc' = "gate"
    BY <1>2, <2>1, <2>2
  <2>3. CASE pc' = "ensure"
    <3>1. ~ Frozen /\ g' = g + 1 /\ todo' = <<"r", "t">>
      BY <1>10, <2>3 DEF EndCanaries
    <3>2. Stood' \subseteq ToCome' /\ ToCome' \subseteq Names
      <4>1. Len(todo') = 2 /\ 1..2 = {1, 2} /\ todo'[1] = "r" /\ todo'[2] = "t"
        BY <3>1
      <4> QED BY <2>1, <4>1 DEF Stood, ToCome, Names
    <3>3. ~ Frozen'
      BY <2>1, <3>1 DEF Frozen
    <3>4. Begun(Groups', g' - 1) = Begun(Groups, g) /\ Begun(Groups', g') = Begun(Groups, g + 1)
      BY <1>g, <1>s, <2>1, <3>1
    <3>5. \A s \in Up' : slot'[s].key \in Begun(Groups, g)
      BY <1>a, <2>1 DEF Up
    <3>6. \A s \in ToCome' : slot'[s] # None => slot'[s].key \in Begun(Groups, g)
      BY <3>2, <3>5 DEF Up
    <3>7. \A s \in Up' : slot'[s].key \in Begun(Groups, g + 1)
      BY <1>m, <2>1, <3>5
    <3> QED BY <2>1, <2>3, <3>2, <3>3, <3>4, <3>6, <3>7 DEF SidesInv
  <2> QED BY <2>1, <2>2, <2>3
<1>11. CASE Gate
  <2>1. pc = "gate" /\ p \in Pair /\ phase = "canary"
    BY <1>11, <1>b DEF Gate, WalkInv
  <2>2. CASE valid'[p]
    <3>1. pc' = "group" /\ phase' = "ab" /\ canaries' = canaries
      BY <1>11, <2>2 DEF Gate
    <3>2. Judged
      BY <1>11, <2>1, <2>2 DEF Gate, WalkType
    <3>3. \A s \in Names : slot'[s] = None
      BY <1>11, <2>2 DEF Gate, GateDown, Up
    <3>4. Judged' /\ ~ Frozen' /\ Up' = {}
      BY <3>1, <3>2, <3>3 DEF Judged, Frozen, Up
    <3> QED BY <3>1, <3>4 DEF SidesInv
  <2>3. CASE ~ valid'[p]
    <3>1. pc' = "endpair" /\ phase' = phase
      BY <1>11, <2>3 DEF Gate
    <3> QED BY <1>2, <2>1, <3>1
  <2> QED BY <2>2, <2>3
<1>12. CASE PassGroup
  <2>1. /\ pc = "group" /\ g' = g + 1 /\ pc' = "group" /\ UNCHANGED <<p, phase, slot, broken>>
        /\ canaries' = canaries /\ (stop # "" => stop' # "")
    BY <1>12 DEF PassGroup, SkipGroup
  <2>2. Begun(Groups', g' - 1) = Begun(Groups, g)
    BY <1>g, <1>s, <2>1
  <2>3. \A s \in Up' : slot'[s].key \in Begun(Groups, g)
    BY <1>a, <1>m, <2>1 DEF Up
  <2>4. (Frozen' <=> Frozen) /\ (Judged' <=> Judged)
    BY <2>1 DEF Frozen, Judged
  <2> QED BY <1>a, <2>1, <2>2, <2>3, <2>4 DEF SidesInv
<1>13. CASE StartGroup
  <2>1. /\ pc = "group" /\ pc' = "ensure" /\ UNCHANGED <<p, phase, g, slot, canaries>>
        /\ stop = "" /\ ~ broken /\ phase = "ab"
        /\ todo' = IF p \in Overlaps THEN <<"t", "r", "o">> ELSE <<"t", "r">>
    BY <1>13 DEF StartGroup, WalkInv
  <2>2. Stood' \subseteq ToCome' /\ ToCome' \subseteq Names
    <3>1. CASE p \in Overlaps
      <4>0. todo' = <<"t", "r", "o">>
        BY <2>1, <3>1
      <4>1. /\ Len(todo') = 3 /\ 1..3 = {1, 2, 3}
            /\ todo'[1] = "t" /\ todo'[2] = "r" /\ todo'[3] = "o"
        BY <4>0
      <4> QED BY <2>1, <3>1, <4>1 DEF Stood, ToCome, Names
    <3>2. CASE p \notin Overlaps
      <4>0. todo' = <<"t", "r">>
        BY <2>1, <3>2
      <4>1. Len(todo') = 2 /\ 1..2 = {1, 2} /\ todo'[1] = "t" /\ todo'[2] = "r"
        BY <4>0
      <4> QED BY <2>1, <3>2, <4>1 DEF Stood, ToCome, Names
    <3> QED BY <3>1, <3>2
  <2>3. ~ Frozen'
    BY <1>a, <2>1 DEF Frozen
  <2>4. \A s \in Up' : slot'[s].key \in Begun(Groups, g - 1)
    BY <1>a, <2>1 DEF Up
  <2>5. \A s \in Up' : slot'[s].key \in Begun(Groups, g)
    BY <1>m, <2>1, <2>4
  <2>6. \A s \in ToCome' : slot'[s] # None => slot'[s].key \in Begun(Groups, g - 1)
    BY <2>2, <2>4 DEF Up
  <2>7. Begun(Groups', g' - 1) = Begun(Groups, g - 1) /\ Begun(Groups', g') = Begun(Groups, g)
    BY <1>s, <2>1
  <2>8. Judged'
    BY <1>a, <2>1 DEF Judged
  <2> QED BY <2>1, <2>2, <2>3, <2>5, <2>6, <2>7, <2>8 DEF SidesInv
<1>14. CASE (EndAB /\ ~ (p \in Overlaps /\ ~ OverlapSkips)) \/ EndOverlap
  <2>1. /\ pc = "cases" /\ pc' = "close" /\ UNCHANGED <<p, phase, g, slot, canaries>>
    BY <1>14 DEF EndAB, EndOverlap
  <2>2. \A s \in Up' : slot'[s].key \in Begun(Groups', g')
    BY <1>a, <1>s, <2>1 DEF Up
  <2>3. phase' # "canary" => Judged'
    BY <1>a, <2>1 DEF Judged
  <2> QED BY <2>1, <2>2, <2>3 DEF SidesInv
<1>15. CASE CloseGroup
  <2>1. /\ pc = "close" /\ phase' = "ab" /\ g' = g + 1 /\ pc' = "group" /\ phase # "canary"
        /\ UNCHANGED <<p, stop, canaries>>
    BY <1>15 DEF CloseGroup, WalkInv
  <2>2. \A s \in Up' : s \in Up /\ slot'[s] = slot[s]
    BY <1>15 DEF CloseGroup, Up
  <2>3. \A s \in Up' : slot'[s].key \in Begun(Groups, g)
    BY <1>a, <2>1, <2>2
  <2>4. Begun(Groups', g' - 1) = Begun(Groups, g)
    BY <1>g, <1>s, <2>1
  <2>5. Frozen' => Frozen
    BY <2>2 DEF Frozen, Up
  <2>6. Frozen => stop' # "" \/ broken'
    BY <1>15, <2>1 DEF CloseGroup
  <2>7. Judged'
    BY <1>a, <2>1 DEF Judged
  <2> QED BY <2>1, <2>3, <2>4, <2>5, <2>6, <2>7 DEF SidesInv
<1>16. CASE WritePair
  <2>1. pc' = "endpair" /\ UNCHANGED <<phase, canaries>>
    BY <1>16 DEF WritePair
  <2>2. phase' # "canary" => Judged'
    BY <1>a, <2>1 DEF Judged
  <2> QED BY <1>2, <2>1, <2>2
<1>17. CASE EndPair
  <2>1. pc' = "pairs" /\ phase' = "canary"
    BY <1>17 DEF EndPair, Cleared
  <2> QED BY <1>2, <2>1
<1>18. CASE Signal \/ LoseLease \/ UNCHANGED vars
  <2>1. UNCHANGED <<pc, p, phase, g, i, todo, stop, broken, gbroken, canaries, slot, cluster>>
    BY <1>18 DEF Signal, LoseLease, vars
  <2> QED BY <1>1, <2>1
<1>19. CASE \E s \in Names : FailOver(s)
  <2>1. PICK s \in Names : FailOver(s)
    BY <1>19
  <2>2. /\ cluster[s] # None /\ cluster' = [cluster EXCEPT ![s].home = FALSE]
        /\ cluster[s].key \in HAKeys /\ pc = "cases"
        /\ UNCHANGED <<pc, p, phase, g, stop, gbroken, canaries, slot>>
    BY <2>1 DEF FailOver
  <2>3. cluster[s] \in ClusterType
    BY <2>2, SideOf
  <2> DEFINE x == cluster[s]
             y == [x EXCEPT !.home = FALSE]
  <2>4. /\ y \in ClusterType /\ y.key = x.key /\ y.build = x.build /\ y.mine = x.mine
        /\ y.used = x.used
    <3> HIDE DEF x
    <3> QED BY <2>3 DEF ClusterType, x
  <2>5. cluster \in [Names -> ClusterType \cup {None}]
    BY DEF HostType
  <2>6. cluster' = [cluster EXCEPT ![s] = y]
    BY <2>2, <2>5
  <2> HIDE DEF x, y
  <2>7. cluster'[s] = y /\ \A n \in Names \ {s} : cluster'[n] = cluster[n]
    BY <2>5, <2>6
  <2>8. \A n \in Names : SameSide(n) /\ SameServers(n)
    BY <2>2 DEF SameSide, SameServers
  <2>9. \A n \in Names : SameCluster(n) /\ SameUse(n)
    BY <2>2, <2>4, <2>7, NoneIs DEF SameCluster, SameUse, x
  <2>10. ASSUME NEW n \in Stood PROVE Ready(n)'
    <3>1. n \in Names /\ Ready(n)
      BY <1>a, <1>n, <2>2
    <3>2. ~ HA => SameHome(n)
      <4>1. cluster[n].key = GroupKey
        BY <3>1 DEF Ready
      <4>2. ~ HA => n # s
        BY <2>2, <4>1 DEF HA
      <4> QED BY <2>7, <3>1, <4>2 DEF SameHome
    <3> QED BY <2>2, <2>8, <2>9, <3>1, <3>2, ReadyStays
  <2>11. Stood' = Stood /\ Groups' = Groups
    BY <1>s, <2>2
  <2>12. Up' = Up /\ (Frozen' <=> Frozen) /\ (Judged' <=> Judged)
    BY <2>2 DEF Up, Frozen, Judged
  <2> QED BY <1>a, <2>2, <2>10, <2>11, <2>12 DEF SidesInv
<1> QED BY <1>3, <1>4, <1>5, <1>6, <1>7, <1>8, <1>9, <1>10, <1>11, <1>12,
           <1>13, <1>14, <1>15, <1>16, <1>17, <1>18, <1>19 DEF Next, Session

-----------------------------------------------------------------------------
(* The record.                                                             *)

Ids(rec) == {rec[m].id : m \in DOMAIN rec}

LEMMA IdsOf ==
    ASSUME NEW rec \in Seq(Entry), NEW other \in Seq(Entry)
    PROVE  /\ Len(rec \o other) = Len(rec) + Len(other)
           /\ Ids(rec \o other) = Ids(rec) \cup Ids(other)
           /\ \A e \in Entry : /\ Len(Append(rec, e)) = Len(rec) + 1
                               /\ Ids(Append(rec, e)) = Ids(rec) \cup {e.id}
<1>1. /\ Len(rec) \in Nat /\ Len(other) \in Nat
      /\ DOMAIN rec = 1..Len(rec) /\ DOMAIN other = 1..Len(other)
  OBVIOUS
<1> DEFINE both == rec \o other
           M == Len(rec)
           N == Len(other)
<1>2. /\ Len(both) = M + N /\ DOMAIN both = 1..M + N
      /\ \A m \in 1..M : both[m] = rec[m]
      /\ \A m \in M + 1..M + N : both[m] = other[m - M]
  BY <1>1
<1> HIDE DEF both, M, N
<1>3. M \in Nat /\ N \in Nat /\ DOMAIN rec = 1..M /\ DOMAIN other = 1..N
  BY <1>1 DEF M, N
<1>4. Ids(both) = Ids(rec) \cup Ids(other)
  <2>1. ASSUME NEW m \in 1..M + N PROVE both[m].id \in Ids(rec) \cup Ids(other)
    <3>1. CASE m \in 1..M
      BY <1>2, <1>3, <3>1 DEF Ids
    <3>2. CASE m \notin 1..M
      <4>1. m \in M + 1..M + N /\ m - M \in 1..N
        BY <1>3, <3>2
      <4> QED BY <1>2, <1>3, <4>1 DEF Ids
    <3> QED BY <3>1, <3>2
  <2>2. ASSUME NEW m \in 1..M PROVE rec[m].id \in Ids(both)
    <3>1. m \in 1..M + N
      BY <1>3
    <3> QED BY <1>2, <3>1 DEF Ids
  <2>3. ASSUME NEW m \in 1..N PROVE other[m].id \in Ids(both)
    <3>1. M + m \in 1..M + N /\ M + m \in M + 1..M + N /\ (M + m) - M = m
      BY <1>3
    <3>2. both[M + m] = other[m]
      BY <1>2, <3>1
    <3>3. other[m].id = both[M + m].id
      BY <3>2
    <3> QED BY <1>2, <3>1, <3>3 DEF Ids
  <2>4. Ids(both) \subseteq Ids(rec) \cup Ids(other)
    BY <1>2, <2>1 DEF Ids
  <2>5. Ids(rec) \subseteq Ids(both)
    <3>1. ASSUME NEW x \in Ids(rec) PROVE x \in Ids(both)
      <4>1. PICK m \in DOMAIN rec : x = rec[m].id
        BY DEF Ids
      <4> QED BY <1>3, <2>2, <4>1
    <3> QED BY <3>1
  <2>6. Ids(other) \subseteq Ids(both)
    <3>1. ASSUME NEW x \in Ids(other) PROVE x \in Ids(both)
      <4>1. PICK m \in DOMAIN other : x = other[m].id
        BY DEF Ids
      <4> QED BY <1>3, <2>3, <4>1
    <3> QED BY <3>1
  <2> QED BY <2>4, <2>5, <2>6
<1>5. ASSUME NEW e \in Entry
      PROVE  /\ Len(Append(rec, e)) = Len(rec) + 1
             /\ Ids(Append(rec, e)) = Ids(rec) \cup {e.id}
  <2> DEFINE more == Append(rec, e)
  <2>1. /\ Len(more) = M + 1 /\ DOMAIN more = 1..M + 1 /\ more[M + 1] = e
        /\ \A m \in 1..M : more[m] = rec[m]
    BY <1>1 DEF M
  <2> HIDE DEF more
  <2>2. 1..M + 1 = 1..M \cup {M + 1}
    BY <1>3
  <2>3. Ids(more) = {more[m].id : m \in 1..M} \cup {more[M + 1].id}
    BY <2>1, <2>2 DEF Ids
  <2>4. {more[m].id : m \in 1..M} = Ids(rec)
    BY <1>3, <2>1 DEF Ids
  <2> QED BY <2>1, <2>3, <2>4 DEF more, M
<1> QED BY <1>2, <1>4, <1>5 DEF both, M, N

\* Cases that are skipped are on record.
LEMMA SkippedIds ==
    ASSUME NEW cs \in Seq(Cases)
    PROVE  /\ SkippedAll(cs) \in Seq(Entry) /\ Len(SkippedAll(cs)) = Len(cs)
           /\ Ids(SkippedAll(cs)) = {cs[n] : n \in 1..Len(cs)}
<1>1. /\ SkippedAll(cs) \in Seq(Entry) /\ Len(SkippedAll(cs)) = Len(cs)
      /\ \A n \in 1..Len(cs) : SkippedAll(cs)[n] = [id |-> cs[n], ran |-> FALSE]
  BY SkippedIs
<1>2. ASSUME NEW n \in 1..Len(cs) PROVE SkippedAll(cs)[n].id = cs[n]
  <2>1. SkippedAll(cs)[n] = [id |-> cs[n], ran |-> FALSE]
    BY <1>1
  <2> QED BY <2>1
<1> DEFINE rec == SkippedAll(cs)
<1>3. rec \in Seq(Entry) /\ Len(rec) = Len(cs) /\ \A n \in 1..Len(cs) : rec[n].id = cs[n]
  BY <1>1, <1>2
<1> HIDE DEF rec
<1>4. DOMAIN rec = 1..Len(cs)
  BY <1>3
<1>5. Ids(rec) = {cs[n] : n \in 1..Len(cs)}
  BY <1>3, <1>4 DEF Ids
<1> QED BY <1>3, <1>5 DEF rec

\* The record of a pair before its first group, after one case more, after a
\* group, run or skipped, and after the last.
LEMMA UptoNone ==
    ASSUME NEW cs \in Seq(Cases)
    PROVE  Upto(<<>>, cs, 1, 0)
<1>1. Before(cs, 1) = {} /\ Cardinality({}) = 0
  BY GroupsAre, FS_EmptySet
<1>2. 1..0 = {} /\ DOMAIN <<>> = {} /\ Len(<<>>) = 0
  OBVIOUS
<1>3. {<<>>[m].id : m \in DOMAIN <<>>} = {}
  BY <1>2
<1>4. {cs[m] : m \in Before(cs, 1)} = {} /\ {ConfGroups(cs)[1][j] : j \in 1..0} = {}
  BY <1>1, <1>2
<1>5. Len(<<>>) = Cardinality(Before(cs, 1)) + 0
  <2>1. Cardinality(Before(cs, 1)) = 0
    BY <1>1
  <2> QED BY <1>2, <2>1
<1> QED BY <1>3, <1>4, <1>5 DEF Upto

LEMMA UptoMore ==
    ASSUME NEW cs \in Seq(Cases), NEW n \in 1..Len(ConfGroups(cs)),
           NEW k \in 1..Len(ConfGroups(cs)[n]),
           NEW rec \in Seq(Entry), Upto(rec, cs, n, k - 1),
           NEW e \in Entry, e.id = ConfGroups(cs)[n][k]
    PROVE  Upto(Append(rec, e), cs, n, k)
<1>1. Len(ConfGroups(cs)[n]) \in Nat /\ n \in Nat /\ Cardinality(Before(cs, n)) \in Nat
  <2>1. ConfGroups(cs) \in Seq(Seq(Cases)) /\ \A m \in Nat : Cardinality(Before(cs, m)) \in Nat
    BY GroupsAre
  <2> DEFINE G == ConfGroups(cs)
  <2>2. G \in Seq(Seq(Cases)) /\ n \in 1..Len(G)
    BY <2>1
  <2> HIDE DEF G
  <2>3. G[n] \in Seq(Cases) /\ n \in Nat
    BY <2>2
  <2>4. Len(G[n]) \in Nat
    BY <2>3
  <2> QED BY <2>1, <2>3, <2>4 DEF G
<1>2. k \in Nat /\ k # 0 /\ 1..k = 1..k - 1 \cup {k}
  BY <1>1
<1>3. /\ Len(Append(rec, e)) = Len(rec) + 1 /\ Ids(Append(rec, e)) = Ids(rec) \cup {e.id}
  BY IdsOf
<1>4. /\ Len(rec) = Cardinality(Before(cs, n)) + (k - 1)
      /\ Ids(rec) = {cs[m] : m \in Before(cs, n)} \cup {ConfGroups(cs)[n][j] : j \in 1..k - 1}
  BY DEF Upto, Ids
<1>5. Len(Append(rec, e)) = Cardinality(Before(cs, n)) + k
  BY <1>1, <1>2, <1>3, <1>4
<1>6. Ids(Append(rec, e)) =
          {cs[m] : m \in Before(cs, n)} \cup {ConfGroups(cs)[n][j] : j \in 1..k}
  <2>1. {ConfGroups(cs)[n][j] : j \in 1..k} =
            {ConfGroups(cs)[n][j] : j \in 1..k - 1} \cup {ConfGroups(cs)[n][k]}
    BY <1>2
  <2> QED BY <1>3, <1>4, <2>1
<1> QED BY <1>5, <1>6 DEF Upto, Ids

LEMMA UptoGroup ==
    ASSUME NEW cs \in Seq(Cases), NEW n \in 1..Len(ConfGroups(cs)), NEW rec
    PROVE  /\ Upto(rec, cs, n, Len(ConfGroups(cs)[n])) => Upto(rec, cs, n + 1, 0)
           /\ rec \in Seq(Entry) /\ Upto(rec, cs, n, 0) =>
                Upto(rec \o SkippedAll(ConfGroups(cs)[n]), cs, n + 1, 0)
<1> DEFINE G == ConfGroups(cs)
<1>1. /\ G \in Seq(Seq(Cases))
      /\ Cardinality(Before(cs, n + 1)) = Cardinality(Before(cs, n)) + Len(G[n])
      /\ {cs[m] : m \in Before(cs, n + 1)} =
             {cs[m] : m \in Before(cs, n)} \cup {G[n][k] : k \in 1..Len(G[n])}
      /\ \A m \in Nat : Cardinality(Before(cs, m)) \in Nat
  BY GroupsAre
<1> DEFINE A == {cs[m] : m \in Before(cs, n)}
           B == {G[n][k] : k \in 1..Len(G[n])}
           a == Cardinality(Before(cs, n))
           b == Cardinality(Before(cs, n + 1))
<1>2. 1..0 = {}
  OBVIOUS
<1>3. /\ \A r : Upto(r, cs, n, Len(G[n])) <=> Len(r) = a + Len(G[n]) /\ Ids(r) = A \cup B
      /\ \A r : Upto(r, cs, n, 0) <=> Len(r) = a + 0 /\ Ids(r) = A
      /\ \A r : Upto(r, cs, n + 1, 0) <=> Len(r) = b + 0 /\ Ids(r) = A \cup B
  BY <1>1, <1>2 DEF Upto, Ids
<1>4. G[n] \in Seq(Cases) /\ Len(G[n]) \in Nat /\ n \in Nat /\ n + 1 \in Nat
  <2>1. G[n] \in Seq(Cases) /\ n \in Nat
    BY <1>1
  <2> QED BY <2>1
<1>5. a \in Nat /\ b \in Nat /\ b = a + Len(G[n])
  BY <1>1, <1>4
<1> DEFINE grp == G[n]
<1>6. /\ SkippedAll(grp) \in Seq(Entry) /\ Len(SkippedAll(grp)) = Len(grp)
      /\ Ids(SkippedAll(grp)) = {grp[k] : k \in 1..Len(grp)}
  <2>1. grp \in Seq(Cases)
    BY <1>4
  <2> HIDE DEF grp
  <2> QED BY <2>1, SkippedIds
<1>7. Ids(SkippedAll(grp)) = B
  BY <1>6
<1> HIDE DEF a, b, A, B, G
<1>8. Upto(rec, cs, n, Len(G[n])) => Upto(rec, cs, n + 1, 0)
  BY <1>3, <1>4, <1>5
<1>9. ASSUME rec \in Seq(Entry), Upto(rec, cs, n, 0)
      PROVE  Upto(rec \o SkippedAll(grp), cs, n + 1, 0)
  <2>1. /\ Len(rec \o SkippedAll(grp)) = Len(rec) + Len(grp)
        /\ Ids(rec \o SkippedAll(grp)) = Ids(rec) \cup B
    BY <1>6, <1>7, <1>9, IdsOf
  <2>2. Len(rec) = a + 0 /\ Ids(rec) = A
    BY <1>3, <1>9
  <2>3. Len(rec \o SkippedAll(grp)) = b + 0
    BY <1>4, <1>5, <2>1, <2>2
  <2> QED BY <1>3, <2>1, <2>2, <2>3
<1> QED BY <1>8, <1>9 DEF G

LEMMA UptoAll ==
    ASSUME NEW cs \in Seq(Cases), NEW rec
    PROVE  /\ Upto(rec, cs, Len(ConfGroups(cs)) + 1, 0) => Once(rec, cs)
           /\ Once(SkippedAll(cs), cs)
<1>1. /\ Before(cs, Len(ConfGroups(cs)) + 1) = DOMAIN cs
      /\ DOMAIN cs = 1..Len(cs) /\ Len(cs) \in Nat /\ 1..0 = {}
  BY GroupsAre
<1>2. Cardinality(DOMAIN cs) = Len(cs)
  <2> DEFINE N == Len(cs)
  <2>1. N \in Nat /\ DOMAIN cs = 1..N
    BY <1>1
  <2> HIDE DEF N
  <2>2. Cardinality(1..N) = IF 1 > N THEN 0 ELSE N - 1 + 1
    BY <2>1, FS_Interval
  <2> QED BY <2>1, <2>2 DEF N
<1>3. ToSet(cs) = {cs[m] : m \in DOMAIN cs}
  BY DEF ToSet
<1>4. ASSUME Upto(rec, cs, Len(ConfGroups(cs)) + 1, 0) PROVE Once(rec, cs)
  <2> DEFINE n == Len(ConfGroups(cs)) + 1
  <2>1. Len(rec) = Cardinality(Before(cs, n)) + 0
    BY <1>4 DEF Upto
  <2>2. Ids(rec) = {cs[m] : m \in Before(cs, n)} \cup {ConfGroups(cs)[n][j] : j \in 1..0}
    BY <1>4 DEF Upto, Ids
  <2>3. Before(cs, n) = DOMAIN cs
    BY <1>1
  <2> HIDE DEF n
  <2>4. Len(rec) = Len(cs)
    BY <1>1, <1>2, <2>1, <2>3
  <2>5. Ids(rec) = {cs[m] : m \in DOMAIN cs}
    BY <1>1, <2>2, <2>3
  <2> QED BY <1>3, <2>4, <2>5 DEF Once, Ids
<1>5. Once(SkippedAll(cs), cs)
  <2>1. Len(SkippedAll(cs)) = Len(cs) /\ Ids(SkippedAll(cs)) = {cs[m] : m \in 1..Len(cs)}
    BY SkippedIds
  <2> QED BY <1>1, <1>3, <2>1 DEF Once, Ids
<1> QED BY <1>4, <1>5

\* The groups of the cases of a pair.
LEMMA PairGroupsAre ==
    ASSUME p \in Pair, phase # "canary"
    PROVE  /\ Selected[p] \in Seq(Cases) /\ Groups = ConfGroups(Selected[p])
           /\ Len(Groups) \in Nat
<1>1. Selected[p] \in Seq(Cases) /\ Groups = ConfGroups(Selected[p])
  BY PerfAssumption DEF Groups, PairGroups
<1>2. Len(Groups) \in Nat
  BY GroupsOf
<1> QED BY <1>1, <1>2

\* A group that is skipped is on the record of its pair, and of its overlap.
LEMMA SkipRecords ==
    ASSUME RecordType, p \in Pair, phase # "canary", g \in 1..Len(Groups),
           Upto(entries, Selected[p], g, 0), Over(g, 0)
    PROVE  /\ Upto(entries \o SkippedAll(Group), Selected[p], g + 1, 0)
           /\ p \in Overlaps => Upto(OverlapSkipped, Selected[p], g + 1, 0)
<1> DEFINE cs == Selected[p]
<1>1. /\ cs \in Seq(Cases) /\ g \in 1..Len(ConfGroups(cs)) /\ Group = ConfGroups(cs)[g]
      /\ entries \in Seq(Entry) /\ oentries \in Seq(Entry)
      /\ Upto(entries, cs, g, 0) /\ (p \in Overlaps => Upto(oentries, cs, g, 0))
  BY PairGroupsAre DEF Group, RecordType, Over
<1> HIDE DEF cs
<1>2. Upto(entries \o SkippedAll(Group), cs, g + 1, 0)
  BY <1>1, UptoGroup
<1>3. p \in Overlaps => Upto(oentries \o SkippedAll(Group), cs, g + 1, 0)
  BY <1>1, UptoGroup
<1> QED BY <1>2, <1>3 DEF OverlapSkipped, cs

\* A case on record, whatever became of it.
LEMMA CaseRecords ==
    ASSUME RecordType, p \in Pair, phase # "canary", g \in 1..Len(Groups),
           i \in 1..Len(Group), NEW rec \in Seq(Entry),
           Upto(rec, Selected[p], g, i - 1), NEW ran \in BOOLEAN
    PROVE  Upto(Append(rec, [id |-> Case, ran |-> ran]), Selected[p], g, i)
<1> DEFINE cs == Selected[p]
           e == [id |-> Case, ran |-> ran]
<1>1. /\ cs \in Seq(Cases) /\ g \in 1..Len(ConfGroups(cs)) /\ Group = ConfGroups(cs)[g]
      /\ Upto(rec, cs, g, i - 1)
  BY PairGroupsAre DEF Group
<1>2. e \in Entry /\ e.id = Group[i]
  BY GroupOf DEF Entry, Case
<1> HIDE DEF cs, e
<1>3. i \in 1..Len(ConfGroups(cs)[g]) /\ e.id = ConfGroups(cs)[g][i]
  BY <1>1, <1>2
<1>4. Upto(Append(rec, e), cs, g, i)
  BY <1>1, <1>2, <1>3, UptoMore
<1> QED BY <1>4 DEF cs, e

LEMMA EntriesKeeps ==
    ASSUME RecordType, WalkType, WalkInv, EntriesInv, [Next]_vars
    PROVE  EntriesInv'
<1> USE DEF planVars, outVars, pairVars, walkVars, stopVars, recordVars, hostVars, endVars,
            InGroup, Stopped
<1> DEFINE cs == Selected[p]
<1>a. /\ pc \in {"group", "ensure"} /\ phase = "ab" => Upto(entries, cs, g, 0) /\ Over(g, 0)
      /\ pc \in {"cases", "measuring"} /\ phase = "ab" =>
            Upto(entries, cs, g, i - 1) /\ Over(g, 0)
      /\ pc \in {"cases", "measuring"} /\ phase = "overlap" =>
            Upto(entries, cs, g + 1, 0) /\ Upto(oentries, cs, g, i - 1)
      /\ pc = "close" => Upto(entries, cs, g + 1, 0) /\ Over(g + 1, 0)
      /\ phase = "canary" /\ pc # "endpair" => entries = <<>> /\ oentries = <<>>
      /\ CasesOnRecord
  BY DEF EntriesInv
<1>w. /\ pc \in InGroup => g \in 1..Len(Groups)
      /\ pc \notin Stopped => p \in Pair
      /\ pc = "cases" => i \in 1..Len(Group) + 1
      /\ pc = "measuring" => i \in 1..Len(Group)
      /\ pc = "group" => g \in 1..Len(Groups) + 1
  BY DEF WalkInv
<1>p. /\ pc \in Stopped \cup {"gate"} => phase = "canary"
      /\ pc = "group" => phase = "ab"
      /\ pc = "ensure" => phase # "overlap"
      /\ phase = "overlap" => p \in Overlaps
  BY DEF WalkInv
<1>t. g \in Nat \ {0} /\ i \in Nat \ {0} /\ phase \in {"canary", "ab", "overlap"}
  BY DEF WalkType
<1>l. pc \in InGroup => Len(Group) \in Nat
  BY <1>w, GroupOf
<1>c. phase # "canary" /\ p \in Pair =>
          cs \in Seq(Cases) /\ Groups = ConfGroups(cs) /\ Len(Groups) \in Nat
  BY PairGroupsAre
<1>b. /\ pc \in InGroup => g \in 1..Len(Groups) /\ Len(Group) \in Nat
      /\ pc \notin Stopped => p \in Pair
      /\ g \in Nat \ {0} /\ i \in Nat \ {0} /\ phase \in {"canary", "ab", "overlap"}
      /\ phase # "canary" /\ p \in Pair =>
            cs \in Seq(Cases) /\ Groups = ConfGroups(cs) /\ Len(Groups) \in Nat
      /\ pc = "cases" => i \in 1..Len(Group) + 1
      /\ pc = "measuring" => i \in 1..Len(Group)
  BY <1>w, <1>t, <1>l, <1>c
<1>i. i \in Nat /\ (i + 1) - 1 = i /\ 1 - 1 = 0 /\ g \in Nat
  BY <1>b
\* The pair is at its canaries, or there is none.
<1>1. ASSUME phase' = "canary", pc' # "endpair", pc' # "close", entries' = <<>>, oentries' = <<>>
      PROVE  EntriesInv'
  BY <1>1 DEF EntriesInv, CasesOnRecord
<1>2. ASSUME phase = "canary", phase' = "canary", pc # "endpair", pc' # "endpair", pc' # "close",
             UNCHANGED <<entries, oentries>>
      PROVE  EntriesInv'
  <2>1. entries' = <<>> /\ oentries' = <<>>
    BY <1>2, <1>a
  <2> QED BY <1>1, <1>2, <2>1
\* Nothing that is said of changes.
<1>3. ASSUME UNCHANGED <<pc, p, phase, g, i, entries, oentries, valid>>
      PROVE  EntriesInv'
  <2>1. (Over(g, 0)' <=> Over(g, 0)) /\ (Over(g + 1, 0)' <=> Over(g + 1, 0))
    BY <1>3 DEF Over
  <2>2. CasesOnRecord'
    BY <1>3, <1>a DEF CasesOnRecord
  <2> QED BY <1>3, <1>a, <2>1, <2>2 DEF EntriesInv
<1>4. CASE Host \/ PassPair \/ StartPair \/ Finish
  <2>1. /\ pc \in Stopped /\ UNCHANGED <<phase, entries, oentries>>
        /\ pc' \in Stopped \cup {"gate", "ensure"}
    BY <1>4 DEF Host, PassPair, StartPair, Finish
  <2>2. phase = "canary"
    BY <1>p, <2>1
  <2> QED BY <1>2, <2>1, <2>2
<1>5. CASE StandUp
  <2>1. /\ pc = "ensure" /\ NextSide /\ UNCHANGED <<p, phase, g, entries, oentries>>
    BY <1>5 DEF StandUp
  <2>2. pc' = "ensure" \/ (pc' = "cases" /\ i' = 1)
    BY <2>1 DEF NextSide
  <2>3. CASE phase = "canary"
    BY <1>2, <2>1, <2>2, <2>3
  <2>4. CASE phase # "canary"
    <3>1. phase = "ab"
      BY <1>p, <1>t, <2>1, <2>4
    <3>2. Upto(entries, cs, g, 0) /\ Over(g, 0)
      BY <1>a, <2>1, <3>1
    <3>3. Over(g, 0)'
      BY <2>1, <3>2 DEF Over
    <3>4. /\ phase' = "ab" /\ p' = p /\ g' = g /\ entries' = entries
          /\ (pc' = "ensure" \/ (pc' = "cases" /\ i' - 1 = 0))
      BY <1>i, <2>1, <2>2, <3>1
    <3> QED BY <3>2, <3>3, <3>4 DEF EntriesInv, CasesOnRecord
  <2> QED BY <2>3, <2>4
\* A group is skipped.
<1>6. ASSUME SkipGroup, phase = "ab", pc \in {"group", "ensure"}, g \in 1..Len(Groups),
             UNCHANGED <<p, phase>>
      PROVE  EntriesInv'
  <2>1. p \in Pair /\ Upto(entries, cs, g, 0) /\ Over(g, 0)
    BY <1>6, <1>a, <1>b
  <2>2. /\ Upto(entries \o SkippedAll(Group), cs, g + 1, 0)
        /\ p \in Overlaps => Upto(OverlapSkipped, cs, g + 1, 0)
    BY <1>6, <2>1, SkipRecords
  <2>3. /\ entries' = entries \o SkippedAll(Group) /\ g' = g + 1 /\ pc' = "group"
        /\ oentries' = IF p \in Overlaps THEN OverlapSkipped ELSE oentries
        /\ p' = p /\ phase' = "ab"
    BY <1>6 DEF SkipGroup
  <2>4. Over(g, 0)'
    BY <2>1, <2>2, <2>3 DEF Over
  <2>5. Upto(entries', cs, g', 0) /\ cs = Selected[p']
    BY <2>2, <2>3
  <2> QED BY <2>3, <2>4, <2>5 DEF EntriesInv, CasesOnRecord
<1>7. CASE StuckSide \/ FailSide
  <2>1. pc = "ensure" /\ (\E copyMode : NotUp(copyMode)) /\ UNCHANGED <<p, phase>>
    BY <1>7 DEF StuckSide, FailSide
  <2>2. CASE phase = "canary"
    <3>1. pc' = "gate" /\ UNCHANGED <<entries, oentries>>
      BY <2>1, <2>2 DEF NotUp
    <3> QED BY <1>2, <2>1, <2>2, <3>1
  <2>3. CASE phase # "canary"
    <3>1. phase = "ab"
      BY <1>p, <1>t, <2>1, <2>3
    <3>2. SkipGroup
      BY <2>1, <2>3 DEF NotUp
    <3> QED BY <1>6, <1>b, <2>1, <3>1, <3>2
  <2> QED BY <2>2, <2>3
\* A case is recorded.
<1>8. ASSUME NEW ran \in BOOLEAN, NEW ok, Record(ran, ok), pc \in {"cases", "measuring"},
             pc' = "cases", i \in 1..Len(Group), UNCHANGED <<p, phase, g>>
      PROVE  EntriesInv'
  <2> DEFINE e == [id |-> Case, ran |-> ran]
  <2>1. /\ entries' = IF phase = "ab" THEN Append(entries, e) ELSE entries
        /\ oentries' = IF phase = "overlap" THEN Append(oentries, e) ELSE oentries
        /\ i' = i + 1
    BY <1>8 DEF Record
  <2>2. p \in Pair /\ g \in 1..Len(Groups) /\ i' - 1 = i
    BY <1>8, <1>b, <1>i, <2>1
  <2>3. entries \in Seq(Entry) /\ oentries \in Seq(Entry)
    BY DEF RecordType
  <2>4. CASE phase = "canary"
    BY <1>2, <1>8, <2>1, <2>4
  <2>5. CASE phase = "ab"
    <3>1. Upto(entries, cs, g, i - 1) /\ Over(g, 0)
      BY <1>8, <1>a, <2>5
    <3>2. Upto(Append(entries, e), cs, g, i)
      BY <1>8, <2>2, <2>3, <2>5, <3>1, CaseRecords
    <3> HIDE DEF e
    <3>3. Over(g, 0)'
      BY <1>8, <2>1, <2>5, <3>1 DEF Over
    <3>4. Upto(entries', cs, g', i' - 1)
      BY <1>8, <2>1, <2>2, <2>5, <3>2
    <3> QED BY <1>8, <2>5, <3>3, <3>4 DEF EntriesInv, CasesOnRecord
  <2>6. CASE phase = "overlap"
    <3>1. Upto(entries, cs, g + 1, 0) /\ Upto(oentries, cs, g, i - 1)
      BY <1>8, <1>a, <2>6
    <3>2. Upto(Append(oentries, e), cs, g, i)
      BY <1>8, <2>2, <2>3, <2>6, <3>1, CaseRecords
    <3> HIDE DEF e
    <3>3. Upto(entries', cs, g' + 1, 0) /\ Upto(oentries', cs, g', i' - 1)
      BY <1>8, <2>1, <2>2, <2>6, <3>1, <3>2
    <3> QED BY <1>8, <2>6, <3>3 DEF EntriesInv, CasesOnRecord
  <2> QED BY <1>b, <2>4, <2>5, <2>6
<1>9. CASE SkipCase \/ SwitchFails
  <2>1. /\ Record(FALSE, FALSE) /\ pc = "cases" /\ pc' = "cases" /\ i <= Len(Group)
        /\ UNCHANGED <<p, phase, g>>
    BY <1>9 DEF SkipCase, SwitchFails
  <2>2. i \in 1..Len(Group)
    <3>1. i \in Nat /\ i # 0 /\ Len(Group) \in Nat
      BY <1>b, <2>1
    <3> QED BY <2>1, <3>1
  <2> QED BY <1>8, <2>1, <2>2
<1>10. CASE EndCase
  <2>1. /\ pc = "measuring" /\ pc' = "cases" /\ UNCHANGED <<p, phase, g>>
    BY <1>10 DEF EndCase
  <2>2. PICK ok \in BOOLEAN : Record(TRUE, ok)
    BY <1>10 DEF EndCase
  <2> QED BY <1>8, <1>b, <2>1, <2>2
<1>11. CASE BeginCase
  <2>1. pc = "cases" /\ pc' = "measuring" /\ UNCHANGED <<p, phase, g, i, entries, oentries>>
    BY <1>11 DEF BeginCase
  <2>2. Over(g, 0)' <=> Over(g, 0)
    BY <2>1 DEF Over
  <2>3. CASE phase = "canary"
    BY <1>2, <2>1, <2>3
  <2>4. CASE phase # "canary"
    BY <1>a, <2>1, <2>2, <2>4 DEF EntriesInv, CasesOnRecord
  <2> QED BY <2>3, <2>4
<1>12. CASE EndCanaries
  <2>1. pc = "cases" /\ pc' \in {"ensure", "gate"} /\ phase = "canary"
        /\ UNCHANGED <<phase, entries, oentries>>
    BY <1>12 DEF EndCanaries
  <2> QED BY <1>2, <2>1
<1>13. CASE Gate
  <2>a. pc = "gate" /\ p' = p /\ oentries' = oentries
    BY <1>13 DEF Gate
  <2>1. pc = "gate" /\ p \in Pair /\ phase = "canary" /\ p' = p /\ oentries' = oentries
    BY <2>a, <1>b, <1>p
  <2>2. entries = <<>> /\ oentries = <<>> /\ cs \in Seq(Cases)
    BY <1>a, <2>1, PerfAssumption
  <2>3. CASE valid'[p]
    <3>1. pc' = "group" /\ phase' = "ab" /\ g' = 1 /\ entries' = entries
      BY <1>13, <2>3 DEF Gate
    <3>2. Upto(<<>>, cs, 1, 0)
      BY <2>2, UptoNone
    <3>3. Over(g, 0)'
      BY <2>1, <2>2, <3>1, <3>2 DEF Over
    <3>4. Upto(entries', cs, g', 0) /\ cs = Selected[p']
      BY <2>1, <2>2, <3>1, <3>2
    <3> QED BY <3>1, <3>3, <3>4 DEF EntriesInv, CasesOnRecord
  <2>4. CASE ~ valid'[p]
    <3>1. pc' = "endpair" /\ entries' = SkippedAll(cs) /\ phase' = phase
      BY <1>13, <2>4 DEF Gate
    <3>2. Once(SkippedAll(cs), cs)
      BY <2>2, UptoAll
    <3>3. CasesOnRecord'
      BY <2>1, <2>4, <3>1, <3>2 DEF CasesOnRecord, Once
    <3> QED BY <2>1, <3>1, <3>3 DEF EntriesInv
  <2> QED BY <2>3, <2>4
<1>14. CASE PassGroup
  <2>a. SkipGroup /\ pc = "group" /\ g <= Len(Groups) /\ UNCHANGED <<p, phase>>
    BY <1>14 DEF PassGroup
  <2>1. SkipGroup /\ pc = "group" /\ g <= Len(Groups) /\ UNCHANGED <<p, phase>> /\ phase = "ab"
    BY <2>a, <1>p
  <2>2. g \in 1..Len(Groups)
    <3>1. g \in Nat /\ g # 0 /\ Len(Groups) \in Nat
      BY <1>b, <2>1
    <3> QED BY <2>1, <3>1
  <2> QED BY <1>6, <2>1, <2>2
<1>15. CASE StartGroup
  <2>a. pc = "group" /\ pc' = "ensure" /\ UNCHANGED <<p, phase, g, entries, oentries>>
    BY <1>15 DEF StartGroup
  <2>1. /\ pc = "group" /\ pc' = "ensure" /\ UNCHANGED <<p, phase, g, entries, oentries>>
        /\ phase = "ab"
    BY <2>a, <1>p
  <2>2. Upto(entries, cs, g, 0) /\ Over(g, 0)
    BY <1>a, <2>1
  <2>3. Over(g, 0)' /\ Upto(entries', Selected[p'], g', 0)
    BY <2>1, <2>2 DEF Over
  <2> QED BY <2>1, <2>3 DEF EntriesInv, CasesOnRecord
<1>16. CASE EndAB
  <2>1. /\ pc = "cases" /\ phase = "ab" /\ i > Len(Group) /\ UNCHANGED <<p, g, entries>>
        /\ p \in Pair /\ g \in 1..Len(Groups)
    BY <1>16, <1>b DEF EndAB
  <2>2. Upto(entries, cs, g, i - 1) /\ Over(g, 0)
    BY <1>a, <2>1
  <2>3. i - 1 = Len(Group)
    <3>1. i \in 1..Len(Group) + 1 /\ Len(Group) \in Nat
      BY <1>b, <2>1
    <3> QED BY <2>1, <3>1
  <2>4. Upto(entries, cs, g + 1, 0)
    <3>1. cs \in Seq(Cases) /\ g \in 1..Len(ConfGroups(cs)) /\ Group = ConfGroups(cs)[g]
      BY <1>b, <2>1 DEF Group
    <3>2. Upto(entries, cs, g, Len(ConfGroups(cs)[g]))
      BY <2>2, <2>3, <3>1
    <3> HIDE DEF cs
    <3> QED BY <3>1, <3>2, UptoGroup
  <2>5. CASE p \notin Overlaps
    <3>1. pc' = "close" /\ UNCHANGED <<phase, oentries>>
      BY <1>16, <2>5 DEF EndAB
    <3>2. oentries = <<>>
      BY <2>2, <2>5 DEF Over
    <3>3. Over(g + 1, 0)'
      BY <2>1, <2>5, <3>1, <3>2 DEF Over
    <3>4. Upto(entries', cs, g' + 1, 0) /\ cs = Selected[p']
      BY <2>1, <2>4
    <3> QED BY <2>1, <3>1, <3>3, <3>4 DEF EntriesInv, CasesOnRecord
  <2>6. CASE p \in Overlaps /\ OverlapSkips
    <3>1. pc' = "close" /\ phase' = phase /\ oentries' = OverlapSkipped
      BY <1>16, <2>6 DEF EndAB
    <3>2. Upto(OverlapSkipped, cs, g + 1, 0)
      <4>1. cs \in Seq(Cases) /\ g \in 1..Len(ConfGroups(cs)) /\ Group = ConfGroups(cs)[g]
            /\ oentries \in Seq(Entry) /\ Upto(oentries, cs, g, 0)
        BY <1>b, <2>1, <2>2, <2>6 DEF Group, RecordType, Over
      <4> HIDE DEF cs
      <4>2. Upto(oentries \o SkippedAll(Group), cs, g + 1, 0)
        BY <4>1, UptoGroup
      <4> QED BY <4>2 DEF OverlapSkipped
    <3>3. Over(g + 1, 0)'
      <4>1. Upto(oentries', cs, g' + 1, 0) /\ cs = Selected[p']
        BY <2>1, <3>1, <3>2
      <4> QED BY <2>1, <2>6, <4>1 DEF Over
    <3>4. Upto(entries', cs, g' + 1, 0) /\ cs = Selected[p']
      BY <2>1, <2>4
    <3> QED BY <2>1, <3>1, <3>3, <3>4 DEF EntriesInv, CasesOnRecord
  <2>7. CASE p \in Overlaps /\ ~ OverlapSkips
    <3>1. pc' = pc /\ phase' = "overlap" /\ i' = 1 /\ oentries' = oentries
      BY <1>16, <2>7 DEF EndAB
    <3>2. Upto(oentries, cs, g, 0)
      BY <2>2, <2>7 DEF Over
    <3>3. /\ Upto(entries', cs, g' + 1, 0) /\ Upto(oentries', cs, g', i' - 1)
          /\ cs = Selected[p']
      BY <1>i, <2>1, <2>4, <3>1, <3>2
    <3> QED BY <2>1, <3>1, <3>3 DEF EntriesInv, CasesOnRecord
  <2> QED BY <2>5, <2>6, <2>7
<1>17. CASE EndOverlap
  <2>a. /\ pc = "cases" /\ phase = "overlap" /\ i > Len(Group) /\ pc' = "close"
        /\ UNCHANGED <<p, phase, g, entries, oentries>>
    BY <1>17 DEF EndOverlap
  <2>1. /\ pc = "cases" /\ phase = "overlap" /\ i > Len(Group) /\ pc' = "close"
        /\ UNCHANGED <<p, phase, g, entries, oentries>> /\ p \in Overlaps
        /\ p \in Pair /\ g \in 1..Len(Groups)
    BY <2>a, <1>b, <1>p
  <2>2. Upto(entries, cs, g + 1, 0) /\ Upto(oentries, cs, g, i - 1)
    BY <1>a, <2>1
  <2>3. i - 1 = Len(Group)
    <3>1. i \in 1..Len(Group) + 1 /\ Len(Group) \in Nat
      BY <1>b, <2>1
    <3> QED BY <2>1, <3>1
  <2>4. Upto(oentries, cs, g + 1, 0)
    <3>1. cs \in Seq(Cases) /\ g \in 1..Len(ConfGroups(cs)) /\ Group = ConfGroups(cs)[g]
      BY <1>b, <2>1 DEF Group
    <3>2. Upto(oentries, cs, g, Len(ConfGroups(cs)[g]))
      BY <2>2, <2>3, <3>1
    <3> HIDE DEF cs
    <3> QED BY <3>1, <3>2, UptoGroup
  <2>5. Over(g + 1, 0)'
    BY <2>1, <2>4 DEF Over
  <2> QED BY <2>1, <2>2, <2>5 DEF EntriesInv, CasesOnRecord
<1>18. CASE CloseGroup
  <2>1. /\ pc = "close" /\ phase' = "ab" /\ g' = g + 1 /\ pc' = "group"
        /\ UNCHANGED <<p, entries, oentries>>
    BY <1>18 DEF CloseGroup
  <2>2. Upto(entries, cs, g + 1, 0) /\ Over(g + 1, 0)
    BY <1>a, <2>1
  <2>3. Over(g, 0)'
    BY <2>1, <2>2 DEF Over
  <2>4. Upto(entries', cs, g', 0) /\ cs = Selected[p']
    BY <2>1, <2>2
  <2> QED BY <2>1, <2>3, <2>4 DEF EntriesInv, CasesOnRecord
<1>19. CASE WritePair
  <2>a. /\ pc = "group" /\ g > Len(Groups) /\ pc' = "endpair"
        /\ UNCHANGED <<p, phase, entries, oentries, valid>>
    BY <1>19 DEF WritePair
  <2>1. /\ pc = "group" /\ g > Len(Groups) /\ pc' = "endpair" /\ phase = "ab"
        /\ UNCHANGED <<p, phase, entries, oentries, valid>>
    BY <2>a, <1>p
  <2>2. Upto(entries, cs, g, 0) /\ Over(g, 0) /\ p \in Pair
    BY <1>a, <1>b, <2>1
  <2>3. g = Len(ConfGroups(cs)) + 1 /\ cs \in Seq(Cases)
    <3>1. Groups = ConfGroups(cs) /\ Len(Groups) \in Nat /\ cs \in Seq(Cases)
      BY <1>b, <2>1, <2>2
    <3>2. g \in 1..Len(Groups) + 1
      BY <1>w, <2>1
    <3> QED BY <2>1, <3>1, <3>2
  <2>4. /\ Once(entries, cs) /\ (p \in Overlaps => Once(oentries, cs))
        /\ (p \notin Overlaps => oentries = <<>>)
    <3>1. Upto(entries, cs, Len(ConfGroups(cs)) + 1, 0)
      BY <2>2, <2>3
    <3>2. p \in Overlaps => Upto(oentries, cs, Len(ConfGroups(cs)) + 1, 0)
      BY <2>2, <2>3 DEF Over
    <3>3. p \notin Overlaps => oentries = <<>>
      BY <2>2 DEF Over
    <3> HIDE DEF cs
    <3> QED BY <2>3, <3>1, <3>2, <3>3, UptoAll
  <2>5. CasesOnRecord'
    BY <2>1, <2>4 DEF CasesOnRecord, Once
  <2> QED BY <2>1, <2>5 DEF EntriesInv
<1>20. CASE EndPair
  <2>1. pc' = "pairs" /\ phase' = "canary" /\ entries' = <<>> /\ oentries' = <<>>
    BY <1>20 DEF EndPair, Cleared
  <2> QED BY <1>1, <2>1
<1>21. CASE Signal \/ LoseLease \/ (\E s \in Names : FailOver(s)) \/ UNCHANGED vars
  <2>1. UNCHANGED <<pc, p, phase, g, i, entries, oentries, valid>>
    BY <1>21 DEF Signal, LoseLease, FailOver, vars
  <2> QED BY <1>3, <2>1
<1> QED BY <1>4, <1>5, <1>7, <1>9, <1>10, <1>11, <1>12, <1>13, <1>14, <1>15, <1>16, <1>17,
           <1>18, <1>19, <1>20, <1>21 DEF Next, Session

-----------------------------------------------------------------------------
(* session.json.                                                           *)

\* A pair that session.json can be valid about, and where a valid pair has its
\* sidecar still to come.
Accounted(q) == skipped[q] # "" \/ (valid[q] /\ written[q])
AtCases == phase # "canary" /\ pc \in InGroup \cup {"group"}

\* Where a valid pair is.
ValidInv ==
    \A q \in Pair : valid[q] =>
        (written[q] /\ (q < p \/ (q = p /\ pc = "endpair"))) \/ (q = p /\ AtCases)

LEMMA DocIs ==
    /\ DocInv <=> /\ ValidInv
                  /\ pc = "host" => reason = "done" /\ p = 1
                  /\ pc # "done" => code = -1
                  /\ DocTruthful
    /\ DocInv' <=> /\ ValidInv'
                   /\ pc' = "host" => reason' = "done" /\ p' = 1
                   /\ pc' # "done" => code' = -1
                   /\ DocTruthful'
  BY Zenon DEF DocInv, ValidInv, AtCases

\* A document that is not written stays true while what it accounts for does.
LEMMA DocStays ==
    ASSUME DocInv, pc # "done", UNCHANGED <<doc, code, reason>>, pc' # "host",
           \A q \in Pair : Accounted(q) => Accounted(q)'
    PROVE  /\ pc' = "host" => reason' = "done" /\ p' = 1
           /\ pc' # "done" => code' = -1
           /\ DocTruthful'
<1>1. code = -1 /\ DocTruthful
  BY DocIs
<1>2. doc.state # "complete" /\ (doc.valid => \A q \in Pair : Accounted(q))
  BY <1>1, Zenon DEF DocTruthful, Accounted
<1>3. doc'.state # "complete" /\ (doc'.valid => \A q \in Pair : Accounted(q)')
  BY <1>2
<1>4. code' = -1 /\ -1 # 0
  BY <1>1
<1>5. code' # 0
  BY <1>4
<1> QED BY <1>3, <1>4, <1>5, Zenon DEF DocTruthful, Accounted

\* What the session writes of its pairs: outside of them, valid ones have
\* their sidecar.
LEMMA DocWritten ==
    ASSUME WalkType, DocInv, pc \in {"host", "pairs", "endpair"},
           UNCHANGED <<skipped, valid, written>>, NEW state, WriteDoc(state)
    PROVE  /\ doc'.state = state
           /\ doc'.valid => \A q \in Pair : Accounted(q)'
<1>1. ValidInv /\ ~ AtCases
  BY DocIs DEF AtCases, InGroup
<1>2. \A q \in Pair : valid[q] => written[q]
  BY <1>1 DEF ValidInv
<1>3. doc'.state = state /\ (doc'.valid <=> DocValid)
  <2> DEFINE v == DocValid
  <2>1. doc' = [state |-> state, valid |-> v]
    BY DEF WriteDoc
  <2> HIDE DEF v
  <2>2. doc'.state = state /\ doc'.valid = v
    BY <2>1
  <2> QED BY <2>2 DEF v
<1>4. DocValid => \A q \in Pair : skipped[q] # "" \/ valid[q]
  BY Zenon DEF DocValid
<1> QED BY <1>2, <1>3, <1>4, Zenon DEF Accounted

\* No step takes a pair's word back.
LEMMA ValidStays ==
    ASSUME DocInv, UNCHANGED <<p, valid, written>>, pc # "endpair", AtCases => AtCases'
    PROVE  ValidInv'
  BY DocIs, Zenon DEF ValidInv

\* A pair that is skipped, for whatever it is, stays so.
LEMMA SkipStays ==
    ASSUME WalkType, p \in Pair, UNCHANGED <<valid, written>>, NEW why, why # "",
           skipped' = skipped \/ skipped' = [skipped EXCEPT ![p] = why]
    PROVE  \A q \in Pair : Accounted(q) => Accounted(q)'
<1>1. DOMAIN skipped = Pair
  BY Zenon DEF WalkType
<1>2. \A q \in Pair : skipped'[q] = skipped[q] \/ skipped'[q] = why
  BY <1>1
<1> QED BY <1>2, Zenon DEF Accounted

LEMMA AllSame ==
    ASSUME UNCHANGED <<skipped, valid, written>>
    PROVE  \A q \in Pair : Accounted(q) => Accounted(q)'
  BY DEF Accounted

\* The pair goes on to its cases when its canaries passed, and only then.
LEMMA GateDoc ==
    ASSUME WalkType, WalkInv, DocInv, Gate
    PROVE  ValidInv' /\ \A q \in Pair : Accounted(q) => Accounted(q)'
<1>1. pc = "gate" /\ p' = p
  BY Zenon DEF Gate
<1>2. p \in Pair /\ phase = "canary"
  BY <1>1 DEF WalkInv, Stopped
<1>3. DOMAIN skipped = Pair /\ DOMAIN valid = Pair /\ DOMAIN written = Pair
  BY Zenon DEF WalkType
<1>4. /\ stop # "" => skipped' = [skipped EXCEPT ![p] = stop]
      /\ stop = "" => skipped' = skipped
      /\ \E v : valid' = [valid EXCEPT ![p] = v]
      /\ \E w : written' = [written EXCEPT ![p] = w]
      /\ valid'[p] => pc' = "group" /\ phase' = "ab"
  BY Zenon DEF Gate
<1>5. \A q \in Pair : q # p => /\ skipped'[q] = skipped[q] /\ valid'[q] = valid[q]
                               /\ written'[q] = written[q]
  BY <1>3, <1>4
<1>6. skipped'[p] = skipped[p] \/ skipped'[p] # ""
  <2> DEFINE stopped == stop # ""
  <2>1. CASE stopped
    <3>1. skipped' = [skipped EXCEPT ![p] = stop]
      BY <1>4, <2>1
    <3>2. skipped'[p] = stop
      BY <1>2, <1>3, <3>1
    <3> QED BY <2>1, <3>2
  <2>2. CASE ~ stopped
    BY <1>4, <2>2
  <2> QED BY <2>1, <2>2
<1>7. ValidInv /\ ~ AtCases
  BY <1>2, DocIs DEF AtCases
<1>8. ~ valid[p]
  <2>1. p \in Int
    BY <1>2, PerfAssumption DEF Pair
  <2>2. ~ (p < p) /\ pc # "endpair"
    BY <1>1, <2>1
  <2> QED BY <1>2, <1>7, <2>2 DEF ValidInv
<1>9. \A q \in Pair : Accounted(q) => Accounted(q)'
  BY <1>5, <1>6, <1>8, Zenon DEF Accounted
<1>10. valid'[p] => AtCases'
  BY <1>4 DEF AtCases
<1>11. ValidInv'
  BY <1>1, <1>5, <1>7, <1>10 DEF ValidInv
<1> QED BY <1>9, <1>11

LEMMA DocKeeps ==
    ASSUME WalkType, WalkInv, DocInv, [Next]_vars
    PROVE  DocInv'
<1> USE DEF planVars, outVars, pairVars, walkVars, stopVars, recordVars, hostVars, endVars
<1>c. "cluster" # "" /\ "budget" # ""
  BY Zenon
<1>w. /\ pc \notin Stopped => p \in Pair
      /\ phase \in {"canary", "ab", "overlap"}
  BY Zenon DEF WalkInv, WalkType
<1>s. ASSUME ValidInv', pc # "done", pc' # "host", UNCHANGED <<doc, code, reason>>,
             \A q \in Pair : Accounted(q) => Accounted(q)'
      PROVE  DocInv'
  BY <1>s, DocStays, DocIs
\* A step inside a pair, and none of what is said of it changes.
<1>k. ASSUME UNCHANGED <<p, valid, written, doc, code, reason>>, pc \notin {"done", "endpair"},
             pc' # "host", AtCases => AtCases',
             p \in Pair \/ skipped' = skipped,
             skipped' = skipped \/ skipped' = [skipped EXCEPT ![p] = "cluster"]
      PROVE  DocInv'
  <2>1. ValidInv'
    BY <1>k, ValidStays
  <2>2. \A q \in Pair : Accounted(q) => Accounted(q)'
    BY <1>k, <1>c, SkipStays, AllSame
  <2> QED BY <1>k, <1>s, <2>1, <2>2
\* The document is written at the end.
<1>e. ASSUME ValidInv', pc' = "done", NEW state, doc'.state = state, code' # -1,
             doc'.valid => \A q \in Pair : Accounted(q)',
             code' = 0 => state = "complete" /\ reason' \notin {"signal", "lease"}
      PROVE  DocInv'
  BY <1>e, DocIs, Zenon DEF DocTruthful, Accounted
<1>1. CASE Host
  <2>1. pc = "host" /\ UNCHANGED <<p, skipped, valid, written, reason, phase>>
    BY <1>1, Zenon DEF Host
  <2>2. reason = "done" /\ p = 1 /\ code = -1 /\ ~ AtCases
    BY <2>1, DocIs DEF AtCases, InGroup
  <2>3. ValidInv'
    BY <2>1, <2>2, ValidStays
  <2>4. CASE pc' = "pairs" /\ code' = code /\ WriteDoc("incomplete")
    <3>1. doc'.state = "incomplete" /\ (doc'.valid => \A q \in Pair : Accounted(q)')
      BY <2>1, <2>4, DocWritten
    <3>2. code' # 0
      BY <2>2, <2>4
    <3> QED BY <2>2, <2>3, <2>4, <3>1, <3>2, DocIs, Zenon DEF DocTruthful, Accounted
  <2>5. CASE pc' = "done" /\ code' = 0 /\ WriteDoc("complete")
    <3>1. doc'.state = "complete" /\ (doc'.valid => \A q \in Pair : Accounted(q)')
      BY <2>1, <2>5, DocWritten
    <3>2. reason' \notin {"signal", "lease"} /\ code' # -1
      BY <2>1, <2>2, <2>5
    <3> QED BY <1>e, <2>3, <2>5, <3>1, <3>2
  <2>6. CASE pc' = "done" /\ code' = 3 /\ WriteDoc("incomplete")
    <3>1. doc'.state = "incomplete" /\ (doc'.valid => \A q \in Pair : Accounted(q)')
      BY <2>1, <2>6, DocWritten
    <3>2. code' # 0 /\ code' # -1
      BY <2>6
    <3> QED BY <1>e, <2>3, <2>6, <3>1, <3>2
  <2> QED BY <1>1, <2>4, <2>5, <2>6, Zenon DEF Host
<1>2. CASE PassPair
  <2>1. /\ pc = "pairs" /\ p \in Pair /\ p' = p + 1 /\ pc' = pc
        /\ UNCHANGED <<valid, written, doc, code, reason, phase>>
    BY <1>2, Zenon DEF PassPair
  <2>2. PICK why : why # "" /\ (skipped' = skipped \/ skipped' = [skipped EXCEPT ![p] = why])
    <3>1. reason # ""
      BY Zenon DEF WalkType
    <3> QED BY <1>2, <1>c, <3>1, Zenon DEF PassPair
  <2>3. \A q \in Pair : Accounted(q) => Accounted(q)'
    BY <2>1, <2>2, SkipStays
  <2>4. ValidInv /\ ~ AtCases
    BY <2>1, DocIs DEF AtCases, InGroup
  <2>5. \A q \in Pair : q < p => q < p + 1
    BY <2>1, PerfAssumption DEF Pair
  <2>6. ValidInv'
    BY <2>1, <2>4, <2>5 DEF ValidInv
  <2> QED BY <1>s, <2>1, <2>3, <2>6
<1>3. CASE StartPair
  <2>1. /\ pc = "pairs" /\ pc' \in {"gate", "ensure"}
        /\ UNCHANGED <<p, skipped, valid, written, doc, code, reason, phase>>
    BY <1>3, Zenon DEF StartPair
  <2>2. ~ AtCases
    BY <2>1 DEF AtCases, InGroup
  <2> QED BY <1>k, <2>1, <2>2
<1>4. CASE StandUp
  <2>1. /\ pc = "ensure" /\ NextSide
        /\ UNCHANGED <<p, skipped, valid, written, doc, code, reason, phase>>
    BY <1>4, Zenon DEF StandUp
  <2>2. pc' \in {"ensure", "cases"}
    BY <2>1 DEF NextSide
  <2>3. AtCases => AtCases'
    BY <2>1, <2>2 DEF AtCases, InGroup
  <2> QED BY <1>k, <2>1, <2>2, <2>3
<1>5. CASE StuckSide \/ FailSide
  <2>1. /\ pc = "ensure" /\ (\E copyMode : NotUp(copyMode))
        /\ UNCHANGED <<p, valid, written, doc, code, reason, phase>>
    BY <1>5, Zenon DEF StuckSide, FailSide
  <2>2. CASE phase = "canary"
    <3>1. pc' = "gate" /\ (skipped' = skipped \/ skipped' = [skipped EXCEPT ![p] = "cluster"])
      BY <2>1, <2>2, Zenon DEF NotUp
    <3>2. ~ AtCases /\ p \in Pair
      BY <1>w, <2>1, <2>2 DEF AtCases, Stopped
    <3> QED BY <1>k, <2>1, <3>1, <3>2
  <2>3. CASE phase # "canary"
    <3>1. pc' = "group" /\ skipped' = skipped
      BY <2>1, <2>3, Zenon DEF NotUp, SkipGroup
    <3>2. AtCases'
      BY <2>1, <2>3, <3>1 DEF AtCases
    <3> QED BY <1>k, <2>1, <3>1, <3>2
  <2> QED BY <2>2, <2>3
\* Between the sides' being up and their going.
<1>6. ASSUME UNCHANGED <<p, skipped, valid, written, doc, code, reason>>,
             pc \in InGroup \cup {"group"}, pc' \in InGroup \cup {"group"},
             phase # "canary" => phase' # "canary"
      PROVE  DocInv'
  <2>1. AtCases => AtCases'
    BY <1>6 DEF AtCases
  <2>2. pc \notin {"done", "endpair"} /\ pc' # "host"
    BY <1>6 DEF InGroup
  <2> QED BY <1>k, <1>6, <2>1, <2>2
<1>7. CASE SkipCase \/ BeginCase \/ SwitchFails \/ EndCase
  <2>1. UNCHANGED <<p, skipped, valid, written, doc, code, reason, phase>>
    BY <1>7, Zenon DEF SkipCase, BeginCase, SwitchFails, EndCase
  <2>2. pc \in {"cases", "measuring"} /\ pc' \in {"cases", "measuring"}
    BY <1>7, Zenon DEF SkipCase, BeginCase, SwitchFails, EndCase
  <2> QED BY <1>6, <2>1, <2>2 DEF InGroup
<1>8. CASE PassGroup \/ StartGroup
  <2>1. UNCHANGED <<p, skipped, valid, written, doc, code, reason, phase>>
    BY <1>8, Zenon DEF PassGroup, StartGroup
  <2>2. pc = "group" /\ pc' \in {"group", "ensure"}
    BY <1>8, Zenon DEF PassGroup, StartGroup, SkipGroup
  <2> QED BY <1>6, <2>1, <2>2 DEF InGroup
<1>9. CASE EndAB \/ EndOverlap
  <2>1. UNCHANGED <<p, skipped, valid, written, doc, code, reason>>
    BY <1>9, Zenon DEF EndAB, EndOverlap
  <2>2. pc = "cases" /\ pc' \in {"cases", "close"} /\ phase' \in {phase, "overlap"}
    BY <1>9, Zenon DEF EndAB, EndOverlap
  <2> QED BY <1>6, <2>1, <2>2 DEF InGroup
<1>10. CASE CloseGroup
  <2>1. /\ UNCHANGED <<p, skipped, valid, written, doc, code, reason>>
        /\ pc = "close" /\ pc' = "group" /\ phase' = "ab"
    BY <1>10, Zenon DEF CloseGroup
  <2> QED BY <1>6, <2>1 DEF InGroup
<1>11. CASE EndCanaries
  <2>1. /\ pc = "cases" /\ phase = "canary" /\ pc' \in {"ensure", "gate"}
        /\ UNCHANGED <<p, valid, written, doc, code, reason>>
        /\ skipped' = skipped \/ skipped' = [skipped EXCEPT ![p] = "cluster"]
    BY <1>11, Zenon DEF EndCanaries
  <2>2. ~ AtCases /\ p \in Pair
    BY <1>w, <2>1 DEF AtCases, Stopped
  <2> QED BY <1>k, <2>1, <2>2
<1>12. CASE Gate
  <2>1. pc = "gate" /\ pc' \in {"group", "endpair"} /\ UNCHANGED <<doc, code, reason>>
    BY <1>12, Zenon DEF Gate
  <2> QED BY <1>12, <1>s, <2>1, GateDoc
<1>13. CASE WritePair
  <2>1. /\ pc = "group" /\ pc' = "endpair" /\ UNCHANGED <<p, valid, doc, code, reason>>
        /\ written' = [written EXCEPT ![p] = TRUE]
        /\ skipped' = skipped \/ skipped' = [skipped EXCEPT ![p] = "cluster"]
    BY <1>13, Zenon DEF WritePair
  <2>2. p \in Pair /\ DOMAIN skipped = Pair /\ DOMAIN written = Pair
    BY <1>w, <2>1, Zenon DEF Stopped, WalkType
  <2>3. /\ \A q \in Pair : skipped'[q] = skipped[q] \/ skipped'[q] = "cluster"
        /\ \A q \in Pair : written[q] => written'[q]
        /\ written'[p]
    BY <2>1, <2>2
  <2>4. \A q \in Pair : Accounted(q) => Accounted(q)'
    BY <1>c, <2>1, <2>3, Zenon DEF Accounted
  <2>5. ValidInv /\ pc # "endpair"
    BY <2>1, DocIs
  <2>6. ValidInv'
    BY <2>1, <2>3, <2>5, Zenon DEF ValidInv
  <2> QED BY <1>s, <2>1, <2>4, <2>6
<1>14. CASE EndPair
  <2>1. /\ pc = "endpair" /\ p' = p + 1 /\ pc' = "pairs" /\ WriteDoc("incomplete")
        /\ UNCHANGED <<skipped, valid, written, code>>
    BY <1>14, Zenon DEF EndPair
  <2>2. p \in Pair /\ ValidInv /\ ~ AtCases /\ code = -1
    BY <1>w, <2>1, DocIs DEF AtCases, Stopped, InGroup
  <2>3. \A q \in Pair : (q < p => q < p + 1) /\ (q = p => q < p + 1)
    BY <2>2, PerfAssumption DEF Pair
  <2>4. ValidInv'
    BY <2>1, <2>2, <2>3 DEF ValidInv
  <2>5. doc'.state = "incomplete" /\ (doc'.valid => \A q \in Pair : Accounted(q)')
    BY <2>1, DocWritten
  <2>6. code' # 0
    BY <2>1, <2>2
  <2> QED BY <2>1, <2>2, <2>4, <2>5, <2>6, DocIs, Zenon DEF DocTruthful, Accounted
<1>15. CASE Finish
  <2>1. /\ pc = "pairs" /\ pc' = "done" /\ UNCHANGED <<p, skipped, valid, written, phase>>
    BY <1>15, Zenon DEF Finish
  <2>2. ~ AtCases
    BY <2>1 DEF AtCases, InGroup
  <2>3. ValidInv'
    BY <2>1, <2>2, ValidStays
  <2>4. CASE WriteDoc("incomplete") /\ code' = 3
    <3>1. doc'.state = "incomplete" /\ (doc'.valid => \A q \in Pair : Accounted(q)')
      BY <2>1, <2>4, DocWritten
    <3>2. code' # 0 /\ code' # -1
      BY <2>4
    <3> QED BY <1>e, <2>1, <2>3, <3>1, <3>2
  <2>5. CASE WriteDoc("complete") /\ code' \in {0, 3} /\ reason' \notin {"signal", "lease"}
    <3>1. doc'.state = "complete" /\ (doc'.valid => \A q \in Pair : Accounted(q)')
      BY <2>1, <2>5, DocWritten
    <3>2. code' # -1
      BY <2>5
    <3> QED BY <1>e, <2>1, <2>3, <2>5, <3>1, <3>2
  <2>6. \/ WriteDoc("incomplete") /\ code' = 3
        \/ WriteDoc("complete") /\ code' \in {0, 3} /\ reason' \notin {"signal", "lease"}
    BY <1>15, Zenon DEF Finish
  <2> QED BY <2>4, <2>5, <2>6
<1>16. CASE Signal \/ LoseLease \/ \E s \in Names : FailOver(s)
  <2>1. /\ UNCHANGED <<pc, p, phase, skipped, valid, written, doc, code, reason>>
        /\ pc \in {"ensure", "cases", "measuring", "pairs"}
    BY <1>16, Zenon DEF Signal, LoseLease, FailOver
  <2>2. AtCases => AtCases'
    BY <2>1 DEF AtCases
  <2> QED BY <1>k, <2>1, <2>2
<1>17. CASE UNCHANGED vars
  <2>1. UNCHANGED <<pc, p, phase, skipped, valid, written, doc, code, reason>>
    BY <1>17 DEF vars
  <2>2. ValidInv' <=> ValidInv
    BY <2>1 DEF ValidInv, AtCases
  <2>3. DocTruthful' <=> DocTruthful
    BY <2>1 DEF DocTruthful
  <2> QED BY <2>1, <2>2, <2>3, DocIs
<1> QED BY <1>1, <1>2, <1>3, <1>4, <1>5, <1>7, <1>8, <1>9, <1>10, <1>11, <1>12, <1>13,
           <1>14, <1>15, <1>16, <1>17 DEF Next, Session

-----------------------------------------------------------------------------
(* What the session's properties need of it.                               *)

LEMMA StaleIs == Stale \in ClusterType /\ ~ Stale.mine
  BY DEF Stale, ClusterType

LEMMA SessionStarts == Init => SessionInv
<1> DEFINE Planned == [Pair -> {"", "plan"}]
<1>1. SUFFICES ASSUME NEW k \in Keeps, NEW skips \in Planned, NEW found \in Leftovers,
                      InitWith(k, skips, found)
               PROVE  SessionInv
  BY Zenon DEF Init
<1> HIDE DEF Planned
<1>2. /\ keep = k /\ pc = "host" /\ p = 1 /\ reason = "done" /\ tried = {}
      /\ skipped = skips /\ valid = [q \in Pair |-> FALSE] /\ written = [q \in Pair |-> FALSE]
      /\ phase = "canary" /\ g = 1 /\ i = 1
      /\ stop = "" /\ broken = FALSE
  BY <1>1, Zenon DEF InitWith
<1>3. /\ entries = <<>> /\ oentries = <<>>
      /\ slot = [s \in Names |-> None]
      /\ cluster = [s \in Names |-> IF s \in found THEN Stale ELSE None]
      /\ guard = {} /\ noted = {}
      /\ doc = [state |-> "none", valid |-> FALSE] /\ code = -1
  BY <1>1, Zenon DEF InitWith
<1>4. WalkType
  <2>1. p \in 1..NPairs + 1 /\ g \in Nat \ {0} /\ i \in Nat \ {0}
    <3>1. p = 1 /\ g = 1 /\ i = 1
      BY <1>2, Zenon
    <3> QED BY <3>1, PerfAssumption
  <2>2. valid \in [Pair -> BOOLEAN] /\ written \in [Pair -> BOOLEAN] /\ tried \subseteq Pair
    BY <1>2
  <2>3. skipped \in [Pair -> {"", "plan", "budget", "lease", "signal", "cluster"}]
    <3>1. skips \in [Pair -> {"", "plan"}]
      BY Zenon DEF Planned
    <3>2. ASSUME NEW S, NEW T, S \subseteq T, NEW f \in [Pair -> S] PROVE f \in [Pair -> T]
      BY <3>2
    <3>3. {"", "plan"} \subseteq {"", "plan", "budget", "lease", "signal", "cluster"}
      BY Zenon
    <3> QED BY <1>2, <3>1, <3>2, <3>3, Zenon
  <2>4. stop \in {"", "budget", "lease", "signal"} /\ broken \in BOOLEAN
        /\ phase \in {"canary", "ab", "overlap"} /\ reason \in {"done", "budget", "lease", "signal"}
        /\ pc \in InGroup \cup Stopped \cup {"gate", "group", "endpair"}
    BY <1>2, Zenon DEF Stopped
  <2> QED BY <2>1, <2>2, <2>3, <2>4, Zenon DEF WalkType
<1>5. RecordType
  <2>1. <<>> \in Seq(Entry)
    OBVIOUS
  <2> QED BY <1>3, <2>1, Zenon DEF RecordType
<1>6. HostType
  BY <1>3, StaleIs DEF HostType
<1>7. WalkInv
  <2>1. pc \in Stopped /\ pc \notin InGroup
    BY <1>2, Zenon DEF InGroup, Stopped
  <2>2. \A s \in Names : slot[s] = None
    BY <1>3
  <2> QED BY <1>2, <2>1, <2>2, Zenon DEF WalkInv, InGroup
<1>8. GuardInv
  <2>1. Up = {} /\ guard = {}
    BY <1>3 DEF Up
  <2>2. \A s \in Names : cluster[s] # None => ~ cluster[s].mine
    BY <1>3, StaleIs
  <2> QED BY <2>1, <2>2 DEF GuardInv
<1>9. SidesInv
  BY <1>2, Zenon DEF SidesInv, InGroup
<1>10. EntriesInv
  BY <1>2, <1>3, Zenon DEF EntriesInv, CasesOnRecord
<1>11. DocInv
  <2>1. \A q \in Pair : ~ valid[q]
    BY <1>2
  <2>2. doc.valid = FALSE /\ doc.state = "none" /\ code # 0
    <3>1. doc = [state |-> "none", valid |-> FALSE] /\ code = -1
      BY <1>3, Zenon
    <3> QED BY <3>1
  <2> QED BY <1>2, <1>3, <2>1, <2>2, Zenon DEF DocInv, DocTruthful
<1> QED BY <1>4, <1>5, <1>6, <1>7, <1>8, <1>9, <1>10, <1>11 DEF SessionInv

LEMMA SessionKeeps == SessionInv /\ [Next]_vars => SessionInv'
<1>1. SUFFICES ASSUME SessionInv, [Next]_vars PROVE SessionInv'
  OBVIOUS
<1>2. /\ WalkType /\ RecordType /\ HostType /\ WalkInv /\ GuardInv /\ SidesInv
      /\ EntriesInv /\ DocInv
  BY <1>1 DEF SessionInv
<1>3. WalkType' /\ RecordType' /\ WalkInv'
  BY <1>1, <1>2, WalkTypeKeeps, RecordTypeKeeps, WalkKeeps
<1>4. HostType' /\ GuardInv' /\ SidesInv'
  BY <1>1, <1>2, HostKeeps, SidesKeeps
<1>5. EntriesInv' /\ DocInv'
  BY <1>1, <1>2, EntriesKeeps, DocKeeps
<1> QED BY <1>3, <1>4, <1>5 DEF SessionInv

\* A case is measured on the sides its group was stood up on.
LEMMA SidesRight == SessionInv => RightSides
<1>1. SUFFICES ASSUME SessionInv, pc = "measuring" PROVE RightSides
  BY DEF RightSides
<1>2. WalkType /\ WalkInv /\ SidesInv
  BY <1>1 DEF SessionInv
<1>3. p \in Pair /\ g \in 1..Len(Groups) /\ i \in 1..Len(Group)
  BY <1>1, <1>2, InGroupIs DEF InGroup, WalkInv
<1>4. Key[Case] = GroupKey
  BY <1>3, GroupOf DEF Case
<1>5. Measured \subseteq Stood
  <2>1. phase = "overlap" => p \in Overlaps
    BY <1>2, Zenon DEF WalkInv
  <2> QED BY <2>1 DEF Measured, Ref, Stood
<1>6. /\ \A s \in Stood : Ready(s)
      /\ ~ Frozen /\ (phase # "canary" => Judged)
      /\ \A s \in Measured :
            cluster[s].home /\ ~ slot[s].lost /\ slot[s].running = {Fixture}
  BY <1>1, <1>2, Zenon DEF SidesInv
<1>7. \A s \in Measured :
        /\ slot[s] # None /\ cluster[s] # None
        /\ cluster[s].mine /\ cluster[s].key = Key[Case] /\ cluster[s].build = Build(s)
        /\ phase # "canary" => ~ cluster[s].used
  BY <1>4, <1>5, <1>6 DEF Ready
<1> QED BY <1>6, <1>7, Zenon DEF RightSides, Fixture, Judged

LEMMA SessionPromises == SessionInv => ClustersKnown /\ RecordTrue
<1>1. SUFFICES ASSUME SessionInv PROVE ClustersKnown /\ RecordTrue
  OBVIOUS
<1>2. WalkType /\ HostType /\ WalkInv /\ GuardInv /\ EntriesInv /\ DocInv
  BY <1>1 DEF SessionInv
<1>3. GuardCounts
  BY <1>2, TypeIs DEF GuardCounts, GuardInv
<1>4. NothingLeft
  <2>1. pc = "done" => \A s \in Names : slot[s] = None
    BY <1>2, Zenon DEF WalkInv, Stopped
  <2> QED BY <1>2, <2>1 DEF NothingLeft, GuardInv
<1>5. CasesOnRecord /\ DocTruthful
  BY <1>2, DocIs, Zenon DEF EntriesInv
<1> QED BY <1>1, <1>3, <1>4, <1>5, SidesRight DEF ClustersKnown, RecordTrue

-----------------------------------------------------------------------------
(* The parts side by side.                                                 *)

LEMMA StepOf ==
    ASSUME [MCNext]_mcVars
    PROVE  /\ [Next]_vars
           /\ UNCHANGED pVars \/ P!Run \/ P!Signal \/ P!Drift
           /\ UNCHANGED wVars \/ W!Waits \/ W!Engine
           /\ UNCHANGED hVars \/ H!Settles \/ H!Heartbeat \/ H!ServerDies
  BY DEF MCNext, mcVars, SessionDoes, PassDoes, WaitDoes, SettleDoes

\* A measurement of the runner is sound, for any cases, number of passes, times
\* and calls that fail: a value was taken on the hosts it claims, no cluster is
\* left paused that is not marked, a flag stands on the pairs it needs, and every
\* repetition is on record once (passOn, pass, judge, measurePasses).
THEOREM PassesAreSound == PartsSpec => []PassesSound
<1>1. PartsInit => PassInv
  BY PassStarts DEF PartsInit
<1>2. PassInv /\ [MCNext]_mcVars => PassInv'
  <2>1. SUFFICES ASSUME PassInv, [MCNext]_mcVars PROVE PassInv'
    OBVIOUS
  <2>2. CASE UNCHANGED pVars
    <3>1. UNCHANGED <<kind, pAt, step, side, cur, passes, verdict>>
      BY <2>2 DEF pVars
    <3>2. UNCHANGED P!Now /\ UNCHANGED P!Pass /\ UNCHANGED P!Other(P!Now)
      BY <3>1, NowStays
    <3>3. PassType' /\ PauseInv' /\ RecordInv'
      BY <2>1, <3>1, <3>2 DEF PassInv, PassType, PauseInv, RecordInv
    <3>4. ReadyInv'
      BY <2>1, <3>1, <3>2 DEF PassInv, ReadyInv
    <3>5. JudgedInv'
      BY <2>1, <3>1, FlagStays DEF PassInv, JudgedInv, P!RoundEnds
    <3> QED BY <3>3, <3>4, <3>5 DEF PassInv
  <2>3. CASE P!Run \/ P!Signal \/ P!Drift
    BY <2>1, <2>3, PassKeeps
  <2> QED BY <2>1, <2>2, <2>3, StepOf
<1> QED BY <1>1, <1>2, PassPromises, PTL DEF PartsSpec

\* What is said before and after a window is so, for any number of reads, any
\* engine and any pair: a vacuum wait with nothing to say saw it idle, a
\* checkpoint wait with nothing to say saw one begin and end, no settle stops
\* the one master, and a side that is restored has its roles (waitVacuum,
\* checkpointWait, haSettle, restoreN1).
THEOREM WaitsAreTrue == PartsSpec => []WaitsTrue
<1>1. PartsInit => WaitInv /\ SettleInv
  <2>1. SUFFICES ASSUME PartsInit PROVE WaitInv /\ SettleInv
    OBVIOUS
  <2>2. WaitInv
    BY <2>1, PerfPartsAssumption, WaitStarts DEF PartsInit
  <2>3. SettleInv
    BY <2>1, SettleStarts DEF PartsInit
  <2> QED BY <2>2, <2>3
<1>2. WaitInv /\ [MCNext]_mcVars => WaitInv'
  <2>1. SUFFICES ASSUME WaitInv, [MCNext]_mcVars PROVE WaitInv'
    OBVIOUS
  <2>2. CASE UNCHANGED wVars
    BY <2>1, <2>2 DEF wVars, WaitInv, EngineType, VacuumInv, CheckpointInv
  <2> QED BY <2>1, <2>2, WaitKeeps, StepOf
<1>3. SettleInv /\ [MCNext]_mcVars => SettleInv'
  <2>1. SUFFICES ASSUME SettleInv, [MCNext]_mcVars PROVE SettleInv'
    OBVIOUS
  <2>2. CASE UNCHANGED hVars
    BY <2>1, <2>2 DEF hVars, SettleInv
  <2> QED BY <2>1, <2>2, SettleKeeps, StepOf
<1> QED BY <1>1, <1>2, <1>3, WaitPromises, SettlePromises, PTL DEF PartsSpec, WaitsTrue

\* The session keeps account of its clusters, for any pairs, cases, conf keys
\* and failures: guard stage 3 reads what stands and every side it was told of,
\* none is left standing that no note names, and a case is measured on the sides
\* its group was stood up on, thawed, with n1 the master, in a pair whose
\* canaries passed (hostGuard, destroySide, ensure, runGroup).
THEOREM ClustersAreKnown == PartsSpec => []ClustersKnown
<1>1. PartsInit => SessionInv
  BY SessionStarts DEF PartsInit
<1>2. SessionInv /\ [MCNext]_mcVars => SessionInv'
  BY SessionKeeps, StepOf
<1> QED BY <1>1, <1>2, SessionPromises, PTL DEF PartsSpec

\* What a session leaves behind is true however it ended: each case of a pair
\* that was started is on record once, on the overlap's as well, and
\* session.json is valid or complete only when it is so of every pair
\* (runPair, runGroup, setState, finish).
THEOREM RecordIsTrue == PartsSpec => []RecordTrue
<1>1. PartsInit => SessionInv
  BY SessionStarts DEF PartsInit
<1>2. SessionInv /\ [MCNext]_mcVars => SessionInv'
  BY SessionKeeps, StepOf
<1> QED BY <1>1, <1>2, SessionPromises, PTL DEF PartsSpec
=============================================================================
