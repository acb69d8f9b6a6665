----------------------------- MODULE HaRunLemmas ----------------------------
(***************************************************************************)
(* What a run of HaRepl keeps, for any pairs, cases and directories: what  *)
(* a case starts from, and what its verdict says of it.                    *)
(***************************************************************************)
EXTENDS HaRepl, FiniteSetTheorems, TLAPS

\* What deal returns, a fold over the directories, is lists of cases.
DealGiven == \A mode \in Resets : Deal(mode) \in [Shards -> Seq(Cases)]

\* A run that resumes goes back to the middle of a directory only when it resets
\* before every case.
WholeDirectories == ~Resumes \/ "dir" \notin Resets

RunGiven == HaReplGiven /\ DealGiven

-----------------------------------------------------------------------------
(* The invariant.                                                          *)

InDir(d) == {c \in Cases : Directory[c] = d}
Entry == [op : {"make", "drop", "repair"}, case : Cases]

\* What is on its way to the slave of pair p.
Made(p) == {lag[p][i].case : i \in {j \in DOMAIN lag[p] : lag[p][j].op = "make"}}

\* Unless the last reset said otherwise the master of pair p has nothing but S, and
\* if that reset saw the slave level, nor has the slave or what it is owed.
Holds(p, S) ==
    \/ noted[p]
    \/ /\ master[p] \subseteq S
       /\ level[p] => slave[p] \cup Made(p) \subseteq S

Looking == {"look", "catch up", "look again", "repair", "confirm"}
Working == {"write", "read", "wait", "record", "ledger"}
Places == {"next", "over", "reset", "read file"} \cup Looking \cup Working

RunTypes ==
    /\ phase \in {"off", "run"} /\ resetEvery \in Resets
    /\ todo \in [Shards -> Seq(Cases)]
    /\ pc \in [Shards -> Places]
    /\ cur \in [Shards -> Cases \cup {"start"}]
    /\ res \in [Shards -> Outcome \cup {"none"}]
    /\ lastDir \in [Shards -> Range(Directory) \cup {"none"}]
    /\ found \in [Shards -> SUBSET Cases]
    /\ master \in [Shards -> SUBSET Cases] /\ slave \in [Shards -> SUBSET Cases]
    /\ lag \in [Shards -> Seq(Entry)]
    /\ noted \in [Shards -> BOOLEAN] /\ level \in [Shards -> BOOLEAN]
    /\ clean \in [Shards -> BOOLEAN]

\* What shard p knows of its pair where it is.
PairInv(p) ==
    /\ pc[p] \in Looking => master[p] = {}
    /\ pc[p] \in {"catch up", "repair", "confirm"} => found[p] # {}
    /\ pc[p] \in {"repair", "confirm"} /\ level[p] => slave[p] \subseteq found[p] /\ Made(p) = {}
    /\ pc[p] = "read file" => Holds(p, Unit(cur[p]))

\* Under reset=dir a directory's cases follow each other with no reset between.
DirInv(p) == resetEvery = "dir" =>
    /\ pc[p] \in Working => lastDir[p] = Directory[cur[p]]
    /\ pc[p] \in Working \cup {"next"} => lastDir[p] = "none" \/ Holds(p, InDir(lastDir[p]))

\* What a case did to a pair that was empty when it began.
CaseInv(p) == clean[p] =>
    /\ pc[p] = "write" => Empty(p)
    /\ pc[p] = "wait" =>
         /\ cur[p] \notin Late /\ master[p] = {cur[p]}
         /\ \/ slave[p] = {} /\ lag[p] = <<[op |-> "make", case |-> cur[p]]>>
            \/ slave[p] = {cur[p]} \ Diverging /\ lag[p] = <<>>
    /\ pc[p] = "read" =>
         \/ cur[p] \in Late /\ Empty(p)
         \/ /\ cur[p] \notin Late /\ master[p] = {cur[p]}
            /\ slave[p] = {cur[p]} \ Diverging /\ lag[p] = <<>>
    /\ pc[p] = "record" /\ res[p] \in CaseVerdicts =>
         (res[p] = "differ" <=> cur[p] \in Diverging \ Late)

ShardInv(p) ==
    /\ pc[p] \notin {"next", "over"} => cur[p] \in Cases
    /\ PairInv(p) /\ DirInv(p) /\ CaseInv(p)

RunInv ==
    /\ RunTypes
    /\ phase = "off" => \A p \in Shards : pc[p] = "over" /\ lastDir[p] = "none"
    /\ resetEvery = "dir" => done = {}
    /\ \A p \in Shards : ShardInv(p)

-----------------------------------------------------------------------------
(* What is shipped and what is replayed.                                   *)

\* A finite set is listed.
LEMMA ListIs == ASSUME NEW S, IsFiniteSet(S) PROVE SetToSeq(S) \in Seq(S)
<1>1. Cardinality(S) \in Nat /\ ExistsBijection(1..Cardinality(S), S)
  BY FS_CardinalityType
<1>2. PICK f \in [1..Cardinality(S) -> S] : IsInjective(f)
  BY <1>1 DEF ExistsBijection, Bijection, Injection, IsInjective
<1>3. SetToSeq(S) \in [1..Cardinality(S) -> S]
  BY <1>2, Zenon DEF SetToSeq
<1> QED BY <1>1, <1>3

\* There are finitely many cases.
LEMMA CasesAreFew == ASSUME HaReplGiven, NEW C \in SUBSET Cases PROVE IsFiniteSet(C)
<1>1. DOMAIN Corpus = 1..Len(Corpus) /\ Len(Corpus) \in Nat
  BY DEF HaReplGiven
<1>2. Corpus \in Surjection(1..Len(Corpus), Cases)
  BY <1>1 DEF HaReplGiven, Cases, Range, Surjection
<1>3. IsFiniteSet(Cases)
  BY <1>1, <1>2, FS_NatSurjection DEF ExistsSurjection
<1> QED BY <1>3, FS_Subset

\* One thing is listed as itself.
LEMMA OneListed == ASSUME NEW x PROVE SetToSeq({x}) = <<x>>
<1>1. IsFiniteSet({x}) /\ Cardinality({x}) = 1
  BY FS_Singleton
<1>2. PICK f \in [1..1 -> {x}] : IsInjective(f)
  <2>1. [i \in 1..1 |-> x] \in [1..1 -> {x}] /\ IsInjective([i \in 1..1 |-> x])
    BY DEF IsInjective
  <2> QED BY <2>1
<1>3. SetToSeq({x}) \in [1..1 -> {x}]
  BY <1>1, <1>2, Zenon DEF SetToSeq
<1> QED BY <1>3

\* So is what Ship has to say of some cases, ...
LEMMA WordsAreFew ==
    ASSUME HaReplGiven, NEW op, NEW C \in SUBSET Cases
    PROVE  IsFiniteSet({[op |-> op, case |-> c] : c \in C})
<1> DEFINE word == [c \in C |-> [op |-> op, case |-> c]]
           words == {[op |-> op, case |-> c] : c \in C}
<1>1. word \in Surjection(C, words)
  BY DEF Surjection
<1>2. IsFiniteSet(C)
  BY CasesAreFew
<1> QED BY <1>1, <1>2, FS_Surjection

\* ... and it goes to the end of what pair p is owed.
LEMMA ShipIs ==
    ASSUME HaReplGiven, lag \in [Shards -> Seq(Entry)], NEW p \in Shards,
           NEW op \in {"make", "drop", "repair"}, NEW C \in SUBSET Cases, Ship(p, op, C)
    PROVE  /\ lag' \in [Shards -> Seq(Entry)]
           /\ \A q \in Shards \ {p} : lag'[q] = lag[q]
           /\ Made(p)' \subseteq Made(p) \cup (IF op = "make" THEN C ELSE {})
<1> DEFINE words == {[op |-> op, case |-> c] : c \in C}
           more == SetToSeq(words)
<1>1. more \in Seq(words) /\ words \subseteq Entry
  <2>1. IsFiniteSet(words)
    BY WordsAreFew
  <2>2. words \subseteq Entry
    BY DEF Entry
  <2> HIDE DEF words
  <2> QED BY <2>1, <2>2, ListIs
<1>2. lag' = [lag EXCEPT ![p] = lag[p] \o more]
  BY DEF Ship
<1>3. more \in Seq(Entry)
  BY <1>1
<1> HIDE DEF more
<1>4. lag' \in [Shards -> Seq(Entry)] /\ \A q \in Shards \ {p} : lag'[q] = lag[q]
  BY <1>2, <1>3
<1>5. lag[p] \in Seq(Entry) /\ lag'[p] = lag[p] \o more
  BY <1>2
<1>6. ASSUME NEW i \in DOMAIN lag'[p], lag'[p][i].op = "make"
      PROVE  lag'[p][i].case \in Made(p) \cup (IF op = "make" THEN C ELSE {})
  <2>1. CASE i \in DOMAIN lag[p]
    <3>1. lag'[p][i] = lag[p][i]
      BY <1>3, <1>5, <2>1
    <3> QED BY <1>6, <2>1, <3>1 DEF Made
  <2>2. CASE i \notin DOMAIN lag[p]
    <3>1. i - Len(lag[p]) \in DOMAIN more /\ lag'[p][i] = more[i - Len(lag[p])]
      BY <1>3, <1>5, <2>2
    <3>2. lag'[p][i] \in words
      BY <1>1, <3>1
    <3> QED BY <1>6, <3>2
  <2> QED BY <2>1, <2>2
<1> QED BY <1>4, <1>6 DEF Made

\* A replay takes the first thing off, and gives the slave nothing that was not
\* made.
LEMMA ApplyIs ==
    ASSUME RunTypes, NEW p \in Shards, Apply(p)
    PROVE  /\ lag' \in [Shards -> Seq(Entry)] /\ slave' \in [Shards -> SUBSET Cases]
           /\ \A q \in Shards \ {p} : lag'[q] = lag[q] /\ slave'[q] = slave[q]
           /\ Made(p)' \subseteq Made(p)
           /\ slave'[p] \subseteq slave[p] \cup Made(p)
<1>1. /\ lag[p] \in Seq(Entry) /\ lag[p] # <<>>
      /\ lag' = [lag EXCEPT ![p] = Tail(lag[p])]
      /\ slave' = [slave EXCEPT ![p] = Replay(slave[p], Head(lag[p]))]
  BY DEF RunTypes, Apply
<1>2. Head(lag[p]) \in Entry /\ Tail(lag[p]) \in Seq(Entry)
      /\ Head(lag[p]) = lag[p][1] /\ 1 \in DOMAIN lag[p]
  BY <1>1
<1>3. /\ Replay(slave[p], Head(lag[p])) \in SUBSET Cases
      /\ Replay(slave[p], Head(lag[p])) \subseteq slave[p] \cup Made(p)
  <2>1. slave[p] \in SUBSET Cases /\ Head(lag[p]).case \in Cases
        /\ Head(lag[p]).op \in {"make", "drop", "repair"}
    BY <1>2 DEF RunTypes, Entry
  <2>2. Head(lag[p]).op = "make" => Head(lag[p]).case \in Made(p)
    BY <1>2 DEF Made
  <2> QED BY <2>1, <2>2 DEF Replay
<1>4. /\ lag' \in [Shards -> Seq(Entry)] /\ slave' \in [Shards -> SUBSET Cases]
      /\ \A q \in Shards \ {p} : lag'[q] = lag[q] /\ slave'[q] = slave[q]
  BY <1>1, <1>2, <1>3 DEF RunTypes
<1>5. lag'[p] = Tail(lag[p]) /\ slave'[p] = Replay(slave[p], Head(lag[p]))
  BY <1>1 DEF RunTypes
<1>6. ASSUME NEW i \in DOMAIN lag'[p], lag'[p][i].op = "make"
      PROVE  lag'[p][i].case \in Made(p)
  <2>1. ASSUME NEW s \in Seq(Entry), s # <<>>, NEW j \in DOMAIN Tail(s)
        PROVE  j + 1 \in DOMAIN s /\ Tail(s)[j] = s[j + 1]
    BY <2>1
  <2>2. i + 1 \in DOMAIN lag[p] /\ lag'[p][i] = lag[p][i + 1]
    BY <1>1, <1>5, <2>1
  <2> QED BY <1>6, <2>2 DEF Made
<1>7. Made(p)' \subseteq Made(p)
  BY <1>6 DEF Made
<1> QED BY <1>3, <1>4, <1>5, <1>7

-----------------------------------------------------------------------------
(* The steps.                                                              *)

USE DEF life, plan, here, last, record, disk, pair, seen

\* Nothing of shard q or its pair changes.
Untouched(q) ==
    /\ resetEvery' = resetEvery /\ pc'[q] = pc[q] /\ cur'[q] = cur[q] /\ res'[q] = res[q]
    /\ lastDir'[q] = lastDir[q] /\ found'[q] = found[q]
    /\ master'[q] = master[q] /\ slave'[q] = slave[q] /\ lag'[q] = lag[q]
    /\ noted'[q] = noted[q] /\ level'[q] = level[q] /\ clean'[q] = clean[q]

\* What a shard knows of its pair it goes on knowing while neither changes.
LEMMA OthersHold == ASSUME NEW q \in Shards, ShardInv(q), Untouched(q) PROVE ShardInv(q)'
<1>1. (Made(q)' = Made(q)) /\ (Empty(q)' = Empty(q)) /\ (Unit(cur[q])' = Unit(cur[q]))
  BY DEF Untouched, Made, Empty, Level, Unit
<1>2. PairInv(q)'
  BY <1>1 DEF ShardInv, PairInv, Holds, Untouched
<1>3. DirInv(q)'
  BY <1>1 DEF ShardInv, DirInv, Holds, InDir, Untouched
<1>4. CaseInv(q)'
  BY <1>1 DEF ShardInv, CaseInv, Untouched
<1> QED BY <1>2, <1>3, <1>4 DEF ShardInv, Untouched

\* A slave that is level is owed nothing.
LEMMA OwedIs ==
    ASSUME NEW p \in Shards
    PROVE  /\ lag'[p] = lag[p] => Made(p)' = Made(p)
           /\ Level(p) => Made(p) = {}
<1>1. lag'[p] = lag[p] => Made(p)' = Made(p)
  BY DEF Made
<1>2. Level(p) => Made(p) = {}
  BY DEF Made, Level
<1> QED BY <1>1, <1>2

\* A run resets before every case or before every directory, and then it resumes
\* nothing.
LEMMA ModesAre ==
    RunGiven /\ RunInv => resetEvery \in {"case", "dir"} /\ (resetEvery = "dir" => done = {})
  BY DEF RunGiven, HaReplGiven, RunInv, RunTypes

\* The case a shard takes is one of the corpus, with its directory.
LEMMA TakenIs ==
    ASSUME RunGiven, RunTypes, NEW p \in Shards, Take(p)
    PROVE  /\ Head(todo[p]) \in Cases /\ todo' \in [Shards -> Seq(Cases)]
           /\ Directory[Head(todo[p])] \in Range(Directory)
<1>1. todo[p] \in Seq(Cases) /\ todo[p] # <<>> /\ todo' = [todo EXCEPT ![p] = Tail(todo[p])]
  BY DEF RunTypes, Take
<1>2. Head(todo[p]) \in Cases /\ Tail(todo[p]) \in Seq(Cases)
  BY <1>1
<1> QED BY <1>1, <1>2 DEF RunTypes, RunGiven, HaReplGiven, Range

\* A shard that is out of cases.
LEMMA LeaveKeeps ==
    ASSUME RunGiven, RunInv, NEW p \in Shards, Leave(p)
    PROVE  RunTypes' /\ ShardInv(p)' /\ \A q \in Shards \ {p} : Untouched(q)
<1>1. RunTypes'
  BY DEF Leave, Goto, RunInv, RunTypes, RunGiven, HaReplGiven, Places, Looking, Working,
         Range, Outcome, CaseVerdicts, RunVerdicts
<1>2. \A q \in Shards \ {p} : Untouched(q)
  BY DEF Leave, Goto, RunInv, RunTypes, Untouched
<1>3. /\ ShardInv(p)
      /\ pc[p] = "next"
      /\ pc'[p] = "over"
      /\ cur'[p] = cur[p] /\ res'[p] = res[p] /\ lastDir'[p] = lastDir[p] /\ found'[p] = found[p]
      /\ master'[p] = master[p] /\ slave'[p] = slave[p] /\ lag'[p] = lag[p] /\ noted'[p] = noted[p]
      /\ level'[p] = level[p] /\ clean'[p] = clean[p]
      /\ resetEvery' = resetEvery /\ done' = done
  BY DEF Leave, Goto, RunInv, RunTypes
<1>4. Made(p)' = Made(p) /\ (Level(p) => Made(p) = {})
  BY <1>3, OwedIs
<1> USE DEF Looking, Working, ShardInv
<1>5. (pc[p] \notin {"next", "over"} => cur[p] \in Cases)'
  BY <1>3
<1>6. PairInv(p)'
  BY <1>3, <1>4, ModesAre DEF PairInv, DirInv, Holds, Unit, InDir
<1>7. DirInv(p)'
  BY <1>3, <1>4, ModesAre DEF PairInv, DirInv, Holds, Unit, InDir
<1>8. CaseInv(p)'
  BY <1>3 DEF CaseInv, Empty, Level
<1> QED BY <1>1, <1>2, <1>5, <1>6, <1>7, <1>8

\* A case an earlier run judged is skipped, which only a run under reset=case does.
LEMMA SkipKeeps ==
    ASSUME RunGiven, RunInv, NEW p \in Shards, Skip(p)
    PROVE  RunTypes' /\ ShardInv(p)' /\ \A q \in Shards \ {p} : Untouched(q)
<1>1. RunTypes'
  BY TakenIs DEF Skip, DoneWith, RunInv, RunTypes, RunGiven, HaReplGiven, Places, Looking,
                 Working, Range, Outcome, CaseVerdicts, RunVerdicts
<1>2. \A q \in Shards \ {p} : Untouched(q)
  BY DEF Skip, Take, DoneWith, RunInv, RunTypes, Untouched
<1>3. /\ ShardInv(p)
      /\ pc[p] = "next"
      /\ done # {}
      /\ pc'[p] = pc[p] /\ cur'[p] = cur[p] /\ res'[p] = res[p] /\ found'[p] = found[p]
      /\ master'[p] = master[p] /\ slave'[p] = slave[p] /\ lag'[p] = lag[p] /\ noted'[p] = noted[p]
      /\ level'[p] = level[p] /\ clean'[p] = clean[p]
      /\ resetEvery' = resetEvery /\ done' = done
  BY DEF Skip, Take, DoneWith, RunInv, RunTypes
<1>4. Made(p)' = Made(p) /\ (Level(p) => Made(p) = {})
  BY <1>3, OwedIs
<1> USE DEF Looking, Working, ShardInv
<1>5. (pc[p] \notin {"next", "over"} => cur[p] \in Cases)'
  BY <1>3
<1>6. PairInv(p)'
  BY <1>3, <1>4, ModesAre DEF PairInv, DirInv, Holds, Unit, InDir
<1>7. DirInv(p)'
  BY <1>3, <1>4, ModesAre DEF PairInv, DirInv, Holds, Unit, InDir
<1>8. CaseInv(p)'
  BY <1>3 DEF CaseInv, Empty, Level
<1> QED BY <1>1, <1>2, <1>5, <1>6, <1>7, <1>8

\* A case without a reset of its own has the directory's.
LEMMA BeginKeeps ==
    ASSUME RunGiven, RunInv, NEW p \in Shards, Begin(p)
    PROVE  RunTypes' /\ ShardInv(p)' /\ \A q \in Shards \ {p} : Untouched(q)
<1>1. RunTypes'
  BY TakenIs DEF Begin, DoneWith, Goto, NeedsReset, RunInv, RunTypes, RunGiven, HaReplGiven,
                 Places, Looking, Working, Range, Outcome, CaseVerdicts, RunVerdicts
<1>2. \A q \in Shards \ {p} : Untouched(q)
  BY DEF Begin, Take, DoneWith, Goto, NeedsReset, RunInv, RunTypes, Untouched
<1>3. /\ ShardInv(p)
      /\ pc[p] = "next"
      /\ cur'[p] \in Cases
      /\ pc'[p] = IF NeedsReset(p, cur'[p]) THEN "reset" ELSE "read file"
      /\ res'[p] = res[p] /\ lastDir'[p] = lastDir[p] /\ found'[p] = found[p] /\ master'[p] = master[p]
      /\ slave'[p] = slave[p] /\ lag'[p] = lag[p] /\ noted'[p] = noted[p] /\ level'[p] = level[p]
      /\ clean'[p] = clean[p]
      /\ resetEvery' = resetEvery /\ done' = done
  BY TakenIs DEF Begin, Take, DoneWith, Goto, NeedsReset, RunInv, RunTypes
<1>4. Made(p)' = Made(p) /\ (Level(p) => Made(p) = {})
  BY <1>3, OwedIs
<1> USE DEF Looking, Working, ShardInv
<1>5. (pc[p] \notin {"next", "over"} => cur[p] \in Cases)'
  BY <1>3
<1>6. PairInv(p)'
  <2>1. CASE NeedsReset(p, cur'[p])
    BY <1>3, <2>1 DEF PairInv
  <2>2. CASE ~NeedsReset(p, cur'[p])
    <3>1. resetEvery = "dir" /\ Directory[cur'[p]] = lastDir[p] /\ lastDir[p] # "none"
      BY <1>3, <2>2, ModesAre DEF NeedsReset, RunGiven, HaReplGiven, Range
    <3>2. Holds(p, InDir(lastDir[p]))
      BY <1>3, <3>1 DEF DirInv
    <3>3. InDir(lastDir[p]) = Unit(cur[p])'
      BY <1>3, <3>1 DEF InDir, Unit
    <3>4. Holds(p, Unit(cur[p]))'
      BY <1>3, <1>4, <3>2, <3>3 DEF Holds
    <3> QED BY <1>3, <2>2, <3>4 DEF PairInv
  <2> QED BY <2>1, <2>2
<1>7. DirInv(p)'
  BY <1>3, <1>4, ModesAre DEF PairInv, DirInv, Holds, Unit, InDir
<1>8. CaseInv(p)'
  BY <1>3 DEF CaseInv, Empty, Level
<1> QED BY <1>1, <1>2, <1>5, <1>6, <1>7, <1>8

\* A reset that fails is noted.
LEMMA ResetFailsKeeps ==
    ASSUME RunGiven, RunInv, NEW p \in Shards, ResetFails(p)
    PROVE  RunTypes' /\ ShardInv(p)' /\ \A q \in Shards \ {p} : Untouched(q)
<1>1. RunTypes'
  BY DEF ResetFails, Note, Goto, RunInv, RunTypes, RunGiven, HaReplGiven, Places, Looking,
         Working, Range, Outcome, CaseVerdicts, RunVerdicts
<1>2. \A q \in Shards \ {p} : Untouched(q)
  BY DEF ResetFails, Note, Goto, RunInv, RunTypes, Untouched
<1>3. /\ ShardInv(p)
      /\ pc[p] \in {"reset", "look", "look again"}
      /\ pc'[p] = "read file"
      /\ noted'[p] = TRUE
      /\ found'[p] = {}
      /\ cur'[p] = cur[p] /\ res'[p] = res[p] /\ lastDir'[p] = lastDir[p] /\ master'[p] = master[p]
      /\ slave'[p] = slave[p] /\ lag'[p] = lag[p] /\ level'[p] = level[p] /\ clean'[p] = clean[p]
      /\ resetEvery' = resetEvery /\ done' = done
  BY DEF ResetFails, Note, Goto, RunInv, RunTypes
<1>4. Made(p)' = Made(p) /\ (Level(p) => Made(p) = {})
  BY <1>3, OwedIs
<1> USE DEF Looking, Working, ShardInv
<1>5. (pc[p] \notin {"next", "over"} => cur[p] \in Cases)'
  BY <1>3
<1>6. PairInv(p)'
  BY <1>3, <1>4, ModesAre DEF PairInv, DirInv, Holds, Unit, InDir
<1>7. DirInv(p)'
  BY <1>3, <1>4, ModesAre DEF PairInv, DirInv, Holds, Unit, InDir
<1>8. CaseInv(p)'
  BY <1>3 DEF CaseInv, Empty, Level
<1> QED BY <1>1, <1>2, <1>5, <1>6, <1>7, <1>8

\* A slave seen empty and level holds nothing.
LEMMA LookKeeps ==
    ASSUME RunGiven, RunInv, NEW p \in Shards, Look(p)
    PROVE  RunTypes' /\ ShardInv(p)' /\ \A q \in Shards \ {p} : Untouched(q)
<1>1. RunTypes'
  BY DEF Look, Goto, Level, RunInv, RunTypes, RunGiven, HaReplGiven, Places, Looking,
         Working, Range, Outcome, CaseVerdicts, RunVerdicts
<1>2. \A q \in Shards \ {p} : Untouched(q)
  BY DEF Look, Goto, Level, RunInv, RunTypes, Untouched
<1>3. /\ ShardInv(p)
      /\ pc[p] = "look"
      /\ found'[p] = slave[p]
      /\ level'[p] = Level(p)
      /\ pc'[p] = IF slave[p] = {} THEN "read file" ELSE "catch up"
      /\ cur'[p] = cur[p] /\ res'[p] = res[p] /\ lastDir'[p] = lastDir[p] /\ master'[p] = master[p]
      /\ slave'[p] = slave[p] /\ lag'[p] = lag[p] /\ noted'[p] = noted[p] /\ clean'[p] = clean[p]
      /\ resetEvery' = resetEvery /\ done' = done
  BY DEF Look, Goto, Level, RunInv, RunTypes
<1>4. Made(p)' = Made(p) /\ (Level(p) => Made(p) = {})
  BY <1>3, OwedIs
<1> USE DEF Looking, Working, ShardInv
<1>5. (pc[p] \notin {"next", "over"} => cur[p] \in Cases)'
  BY <1>3
<1>6. PairInv(p)'
  BY <1>3, <1>4, ModesAre DEF PairInv, DirInv, Holds, Unit, InDir
<1>7. DirInv(p)'
  BY <1>3, <1>4, ModesAre DEF PairInv, DirInv, Holds, Unit, InDir
<1>8. CaseInv(p)'
  BY <1>3 DEF CaseInv, Empty, Level
<1> QED BY <1>1, <1>2, <1>5, <1>6, <1>7, <1>8

\* A slave that has caught up is looked at again.
LEMMA CatchUpKeeps ==
    ASSUME RunGiven, RunInv, NEW p \in Shards, CatchUp(p)
    PROVE  RunTypes' /\ ShardInv(p)' /\ \A q \in Shards \ {p} : Untouched(q)
<1>1. RunTypes'
  BY DEF CatchUp, Goto, Level, RunInv, RunTypes, RunGiven, HaReplGiven, Places, Looking,
         Working, Range, Outcome, CaseVerdicts, RunVerdicts
<1>2. \A q \in Shards \ {p} : Untouched(q)
  BY DEF CatchUp, Goto, Level, RunInv, RunTypes, Untouched
<1>3. /\ ShardInv(p)
      /\ pc[p] = "catch up"
      /\ pc'[p] = "look again"
      /\ cur'[p] = cur[p] /\ res'[p] = res[p] /\ lastDir'[p] = lastDir[p] /\ found'[p] = found[p]
      /\ master'[p] = master[p] /\ slave'[p] = slave[p] /\ lag'[p] = lag[p] /\ noted'[p] = noted[p]
      /\ level'[p] = level[p] /\ clean'[p] = clean[p]
      /\ resetEvery' = resetEvery /\ done' = done
  BY DEF CatchUp, Goto, Level, RunInv, RunTypes
<1>4. Made(p)' = Made(p) /\ (Level(p) => Made(p) = {})
  BY <1>3, OwedIs
<1> USE DEF Looking, Working, ShardInv
<1>5. (pc[p] \notin {"next", "over"} => cur[p] \in Cases)'
  BY <1>3
<1>6. PairInv(p)'
  BY <1>3, <1>4, ModesAre DEF PairInv, DirInv, Holds, Unit, InDir
<1>7. DirInv(p)'
  BY <1>3, <1>4, ModesAre DEF PairInv, DirInv, Holds, Unit, InDir
<1>8. CaseInv(p)'
  BY <1>3 DEF CaseInv, Empty, Level
<1> QED BY <1>1, <1>2, <1>5, <1>6, <1>7, <1>8

\* What it holds then is what is to be repaired.
LEMMA LookAgainKeeps ==
    ASSUME RunGiven, RunInv, NEW p \in Shards, LookAgain(p)
    PROVE  RunTypes' /\ ShardInv(p)' /\ \A q \in Shards \ {p} : Untouched(q)
<1>1. RunTypes'
  BY DEF LookAgain, Goto, Level, RunInv, RunTypes, RunGiven, HaReplGiven, Places, Looking,
         Working, Range, Outcome, CaseVerdicts, RunVerdicts
<1>2. \A q \in Shards \ {p} : Untouched(q)
  BY DEF LookAgain, Goto, Level, RunInv, RunTypes, Untouched
<1>3. /\ ShardInv(p)
      /\ pc[p] = "look again"
      /\ found'[p] = slave[p]
      /\ level'[p] = Level(p)
      /\ pc'[p] = IF slave[p] = {} THEN "read file" ELSE "repair"
      /\ cur'[p] = cur[p] /\ res'[p] = res[p] /\ lastDir'[p] = lastDir[p] /\ master'[p] = master[p]
      /\ slave'[p] = slave[p] /\ lag'[p] = lag[p] /\ noted'[p] = noted[p] /\ clean'[p] = clean[p]
      /\ resetEvery' = resetEvery /\ done' = done
  BY DEF LookAgain, Goto, Level, RunInv, RunTypes
<1>4. Made(p)' = Made(p) /\ (Level(p) => Made(p) = {})
  BY <1>3, OwedIs
<1> USE DEF Looking, Working, ShardInv
<1>5. (pc[p] \notin {"next", "over"} => cur[p] \in Cases)'
  BY <1>3
<1>6. PairInv(p)'
  BY <1>3, <1>4, ModesAre DEF PairInv, DirInv, Holds, Unit, InDir
<1>7. DirInv(p)'
  BY <1>3, <1>4, ModesAre DEF PairInv, DirInv, Holds, Unit, InDir
<1>8. CaseInv(p)'
  BY <1>3 DEF CaseInv, Empty, Level
<1> QED BY <1>1, <1>2, <1>5, <1>6, <1>7, <1>8

\* What a repair did not take is noted.
LEMMA ConfirmKeeps ==
    ASSUME RunGiven, RunInv, NEW p \in Shards, Confirm(p)
    PROVE  RunTypes' /\ ShardInv(p)' /\ \A q \in Shards \ {p} : Untouched(q)
<1>1. RunTypes'
  BY DEF Confirm, Goto, Strand, Level, RunInv, RunTypes, RunGiven, HaReplGiven, Places,
         Looking, Working, Range, Outcome, CaseVerdicts, RunVerdicts
<1>2. \A q \in Shards \ {p} : Untouched(q)
  BY DEF Confirm, Goto, Strand, Level, RunInv, RunTypes, Untouched
<1>3. /\ ShardInv(p)
      /\ pc[p] = "confirm"
      /\ Level(p)
      /\ noted'[p] = (noted[p] \/ found[p] \ slave[p] # found[p])
      /\ found'[p] = {}
      /\ pc'[p] = "read file"
      /\ cur'[p] = cur[p] /\ res'[p] = res[p] /\ lastDir'[p] = lastDir[p] /\ master'[p] = master[p]
      /\ slave'[p] = slave[p] /\ lag'[p] = lag[p] /\ level'[p] = level[p] /\ clean'[p] = clean[p]
      /\ resetEvery' = resetEvery /\ done' = done
  BY DEF Confirm, Goto, Strand, Level, RunInv, RunTypes
<1>4. Made(p)' = Made(p) /\ (Level(p) => Made(p) = {})
  BY <1>3, OwedIs
<1> USE DEF Looking, Working, ShardInv
<1>5. (pc[p] \notin {"next", "over"} => cur[p] \in Cases)'
  BY <1>3
<1>6. PairInv(p)'
  BY <1>3, <1>4, ModesAre DEF PairInv, DirInv, Holds, Unit, InDir
<1>7. DirInv(p)'
  BY <1>3, <1>4, ModesAre DEF PairInv, DirInv, Holds, Unit, InDir
<1>8. CaseInv(p)'
  BY <1>3 DEF CaseInv, Empty, Level
<1> QED BY <1>1, <1>2, <1>5, <1>6, <1>7, <1>8

\* So is what could not be waited for.
LEMMA GiveUpKeeps ==
    ASSUME RunGiven, RunInv, NEW p \in Shards, GiveUp(p)
    PROVE  RunTypes' /\ ShardInv(p)' /\ \A q \in Shards \ {p} : Untouched(q)
<1>1. RunTypes'
  BY DEF GiveUp, Goto, Strand, Level, RunInv, RunTypes, RunGiven, HaReplGiven, Places,
         Looking, Working, Range, Outcome, CaseVerdicts, RunVerdicts
<1>2. \A q \in Shards \ {p} : Untouched(q)
  BY DEF GiveUp, Goto, Strand, Level, RunInv, RunTypes, Untouched
<1>3. /\ ShardInv(p)
      /\ pc[p] \in {"catch up", "confirm"}
      /\ noted'[p] = (noted[p] \/ {} # found[p])
      /\ found'[p] = {}
      /\ pc'[p] = "read file"
      /\ cur'[p] = cur[p] /\ res'[p] = res[p] /\ lastDir'[p] = lastDir[p] /\ master'[p] = master[p]
      /\ slave'[p] = slave[p] /\ lag'[p] = lag[p] /\ level'[p] = level[p] /\ clean'[p] = clean[p]
      /\ resetEvery' = resetEvery /\ done' = done
  BY DEF GiveUp, Goto, Strand, Level, RunInv, RunTypes
<1>4. Made(p)' = Made(p) /\ (Level(p) => Made(p) = {})
  BY <1>3, OwedIs
<1> USE DEF Looking, Working, ShardInv
<1>5. (pc[p] \notin {"next", "over"} => cur[p] \in Cases)'
  BY <1>3
<1>6. PairInv(p)'
  BY <1>3, <1>4, ModesAre DEF PairInv, DirInv, Holds, Unit, InDir
<1>7. DirInv(p)'
  BY <1>3, <1>4, ModesAre DEF PairInv, DirInv, Holds, Unit, InDir
<1>8. CaseInv(p)'
  BY <1>3 DEF CaseInv, Empty, Level
<1> QED BY <1>1, <1>2, <1>5, <1>6, <1>7, <1>8

\* A case begins: its directory is the shard's, and its pair empty or not.
LEMMA ReadFileKeeps ==
    ASSUME RunGiven, RunInv, NEW p \in Shards, ReadFile(p)
    PROVE  RunTypes' /\ ShardInv(p)' /\ \A q \in Shards \ {p} : Untouched(q)
<1>0. cur[p] \in Cases /\ Directory[cur[p]] \in Range(Directory)
  BY DEF ReadFile, RunInv, ShardInv, RunGiven, HaReplGiven, Range
<1>1. RunTypes'
  BY <1>0 DEF ReadFile, Goto, Empty, Level, RunInv, RunTypes, Places, Looking, Working,
         Outcome, CaseVerdicts, RunVerdicts
<1>2. \A q \in Shards \ {p} : Untouched(q)
  BY DEF ReadFile, Goto, Empty, Level, RunInv, RunTypes, Untouched
<1>3. /\ ShardInv(p)
      /\ pc[p] = "read file"
      /\ lastDir'[p] = Directory[cur[p]]
      /\ clean'[p] = Empty(p)
      /\ pc'[p] = IF cur[p] \in Unreadable THEN "next"
                   ELSE IF cur[p] \in Late THEN "read" ELSE "write"
      /\ cur'[p] = cur[p] /\ res'[p] = res[p] /\ found'[p] = found[p] /\ master'[p] = master[p]
      /\ slave'[p] = slave[p] /\ lag'[p] = lag[p] /\ noted'[p] = noted[p] /\ level'[p] = level[p]
      /\ resetEvery' = resetEvery /\ done' = done
  BY DEF ReadFile, Goto, Empty, Level, RunInv, RunTypes
<1>4. Made(p)' = Made(p) /\ (Level(p) => Made(p) = {})
  BY <1>3, OwedIs
<1> USE DEF Looking, Working, ShardInv
<1>5. (pc[p] \notin {"next", "over"} => cur[p] \in Cases)'
  BY <1>3
<1>6. PairInv(p)'
  BY <1>3, <1>4, ModesAre DEF PairInv, DirInv, Holds, Unit, InDir
<1>7. DirInv(p)'
  BY <1>3, <1>4, ModesAre DEF PairInv, DirInv, Holds, Unit, InDir
<1>8. CaseInv(p)'
  BY <1>3 DEF CaseInv, Empty, Level
<1> QED BY <1>1, <1>2, <1>5, <1>6, <1>7, <1>8

\* A node that fails is no verdict on the case.
LEMMA CaseFailsKeeps ==
    ASSUME RunGiven, RunInv, NEW p \in Shards, CaseFails(p)
    PROVE  RunTypes' /\ ShardInv(p)' /\ \A q \in Shards \ {p} : Untouched(q)
<1>1. RunTypes'
  BY DEF CaseFails, Return, Goto, RunInv, RunTypes, RunGiven, HaReplGiven, Places, Looking,
         Working, Range, Outcome, CaseVerdicts, RunVerdicts
<1>2. \A q \in Shards \ {p} : Untouched(q)
  BY DEF CaseFails, Return, Goto, RunInv, RunTypes, Untouched
<1>3. /\ ShardInv(p)
      /\ pc[p] \in {"write", "read"}
      /\ res'[p] = "case_failed"
      /\ pc'[p] = "record"
      /\ cur'[p] = cur[p] /\ lastDir'[p] = lastDir[p] /\ found'[p] = found[p] /\ master'[p] = master[p]
      /\ slave'[p] = slave[p] /\ lag'[p] = lag[p] /\ noted'[p] = noted[p] /\ level'[p] = level[p]
      /\ clean'[p] = clean[p]
      /\ resetEvery' = resetEvery /\ done' = done
  BY DEF CaseFails, Return, Goto, RunInv, RunTypes
<1>4. Made(p)' = Made(p) /\ (Level(p) => Made(p) = {})
  BY <1>3, OwedIs
<1> USE DEF Looking, Working, ShardInv
<1>5. (pc[p] \notin {"next", "over"} => cur[p] \in Cases)'
  BY <1>3
<1>6. PairInv(p)'
  BY <1>3, <1>4, ModesAre DEF PairInv, DirInv, Holds, Unit, InDir
<1>7. DirInv(p)'
  BY <1>3, <1>4, ModesAre DEF PairInv, DirInv, Holds, Unit, InDir
<1>8. CaseInv(p)'
  BY <1>3 DEF CaseInv, Empty, Level, CaseVerdicts
<1> QED BY <1>1, <1>2, <1>5, <1>6, <1>7, <1>8

\* Waiting ends when the slave has replayed the case's object.
LEMMA WaitKeeps ==
    ASSUME RunGiven, RunInv, NEW p \in Shards, Wait(p)
    PROVE  RunTypes' /\ ShardInv(p)' /\ \A q \in Shards \ {p} : Untouched(q)
<1>1. RunTypes'
  BY DEF Wait, Goto, Level, RunInv, RunTypes, RunGiven, HaReplGiven, Places, Looking,
         Working, Range, Outcome, CaseVerdicts, RunVerdicts
<1>2. \A q \in Shards \ {p} : Untouched(q)
  BY DEF Wait, Goto, Level, RunInv, RunTypes, Untouched
<1>3. /\ ShardInv(p)
      /\ pc[p] = "wait"
      /\ Level(p)
      /\ pc'[p] = "read"
      /\ cur'[p] = cur[p] /\ res'[p] = res[p] /\ lastDir'[p] = lastDir[p] /\ found'[p] = found[p]
      /\ master'[p] = master[p] /\ slave'[p] = slave[p] /\ lag'[p] = lag[p] /\ noted'[p] = noted[p]
      /\ level'[p] = level[p] /\ clean'[p] = clean[p]
      /\ resetEvery' = resetEvery /\ done' = done
  BY DEF Wait, Goto, Level, RunInv, RunTypes
<1>4. Made(p)' = Made(p) /\ (Level(p) => Made(p) = {})
  BY <1>3, OwedIs
<1> USE DEF Looking, Working, ShardInv
<1>5. (pc[p] \notin {"next", "over"} => cur[p] \in Cases)'
  BY <1>3
<1>6. PairInv(p)'
  BY <1>3, <1>4, ModesAre DEF PairInv, DirInv, Holds, Unit, InDir
<1>7. DirInv(p)'
  BY <1>3, <1>4, ModesAre DEF PairInv, DirInv, Holds, Unit, InDir
<1>8. CaseInv(p)'
  BY <1>3 DEF CaseInv, Empty, Level
<1> QED BY <1>1, <1>2, <1>5, <1>6, <1>7, <1>8

\* A wait that times out is no verdict on the case.
LEMMA WaitTimesOutKeeps ==
    ASSUME RunGiven, RunInv, NEW p \in Shards, WaitTimesOut(p)
    PROVE  RunTypes' /\ ShardInv(p)' /\ \A q \in Shards \ {p} : Untouched(q)
<1>1. RunTypes'
  BY DEF WaitTimesOut, Return, Goto, RunInv, RunTypes, RunGiven, HaReplGiven, Places,
         Looking, Working, Range, Outcome, CaseVerdicts, RunVerdicts
<1>2. \A q \in Shards \ {p} : Untouched(q)
  BY DEF WaitTimesOut, Return, Goto, RunInv, RunTypes, Untouched
<1>3. /\ ShardInv(p)
      /\ pc[p] = "wait"
      /\ res'[p] = "wait_timeout"
      /\ pc'[p] = "record"
      /\ cur'[p] = cur[p] /\ lastDir'[p] = lastDir[p] /\ found'[p] = found[p] /\ master'[p] = master[p]
      /\ slave'[p] = slave[p] /\ lag'[p] = lag[p] /\ noted'[p] = noted[p] /\ level'[p] = level[p]
      /\ clean'[p] = clean[p]
      /\ resetEvery' = resetEvery /\ done' = done
  BY DEF WaitTimesOut, Return, Goto, RunInv, RunTypes
<1>4. Made(p)' = Made(p) /\ (Level(p) => Made(p) = {})
  BY <1>3, OwedIs
<1> USE DEF Looking, Working, ShardInv
<1>5. (pc[p] \notin {"next", "over"} => cur[p] \in Cases)'
  BY <1>3
<1>6. PairInv(p)'
  BY <1>3, <1>4, ModesAre DEF PairInv, DirInv, Holds, Unit, InDir
<1>7. DirInv(p)'
  BY <1>3, <1>4, ModesAre DEF PairInv, DirInv, Holds, Unit, InDir
<1>8. CaseInv(p)'
  BY <1>3 DEF CaseInv, Empty, Level, CaseVerdicts
<1> QED BY <1>1, <1>2, <1>5, <1>6, <1>7, <1>8

\* The two reads differ when the slave has not what the master has.
LEMMA ReadKeeps ==
    ASSUME RunGiven, RunInv, NEW p \in Shards, Read(p)
    PROVE  RunTypes' /\ ShardInv(p)' /\ \A q \in Shards \ {p} : Untouched(q)
<1>1. RunTypes'
  BY DEF Read, Return, Goto, RunInv, RunTypes, RunGiven, HaReplGiven, Places, Looking,
         Working, Range, Outcome, CaseVerdicts, RunVerdicts
<1>2. \A q \in Shards \ {p} : Untouched(q)
  BY DEF Read, Return, Goto, RunInv, RunTypes, Untouched
<1>3. /\ ShardInv(p)
      /\ pc[p] = "read"
      /\ pc'[p] = IF master[p] # slave[p] \/ cur[p] \notin Late THEN "record" ELSE "write"
      /\ res'[p] = IF master[p] # slave[p] THEN "differ"
                    ELSE IF cur[p] \in Late THEN res[p] ELSE "same"
      /\ cur'[p] = cur[p] /\ lastDir'[p] = lastDir[p] /\ found'[p] = found[p] /\ master'[p] = master[p]
      /\ slave'[p] = slave[p] /\ lag'[p] = lag[p] /\ noted'[p] = noted[p] /\ level'[p] = level[p]
      /\ clean'[p] = clean[p]
      /\ resetEvery' = resetEvery /\ done' = done
  BY DEF Read, Return, Goto, RunInv, RunTypes
<1>4. Made(p)' = Made(p) /\ (Level(p) => Made(p) = {})
  BY <1>3, OwedIs
<1> USE DEF Looking, Working, ShardInv
<1>5. (pc[p] \notin {"next", "over"} => cur[p] \in Cases)'
  BY <1>3
<1>6. PairInv(p)'
  BY <1>3, <1>4, ModesAre DEF PairInv, DirInv, Holds, Unit, InDir
<1>7. DirInv(p)'
  BY <1>3, <1>4, ModesAre DEF PairInv, DirInv, Holds, Unit, InDir
<1>8. CaseInv(p)'
  BY <1>3 DEF CaseInv, Empty, Level
<1> QED BY <1>1, <1>2, <1>5, <1>6, <1>7, <1>8

\* A verdict is recorded.
LEMMA RecordKeeps ==
    ASSUME RunGiven, RunInv, NEW p \in Shards, Record(p)
    PROVE  RunTypes' /\ ShardInv(p)' /\ \A q \in Shards \ {p} : Untouched(q)
<1>1. RunTypes'
  BY DEF Record, Goto, RunInv, RunTypes, RunGiven, HaReplGiven, Places, Looking, Working,
         Range, Outcome, CaseVerdicts, RunVerdicts
<1>2. \A q \in Shards \ {p} : Untouched(q)
  BY DEF Record, Goto, RunInv, RunTypes, Untouched
<1>3. /\ ShardInv(p)
      /\ pc[p] = "record"
      /\ pc'[p] = "ledger"
      /\ cur'[p] = cur[p] /\ res'[p] = res[p] /\ lastDir'[p] = lastDir[p] /\ found'[p] = found[p]
      /\ master'[p] = master[p] /\ slave'[p] = slave[p] /\ lag'[p] = lag[p] /\ noted'[p] = noted[p]
      /\ level'[p] = level[p] /\ clean'[p] = clean[p]
      /\ resetEvery' = resetEvery /\ done' = done
  BY DEF Record, Goto, RunInv, RunTypes
<1>4. Made(p)' = Made(p) /\ (Level(p) => Made(p) = {})
  BY <1>3, OwedIs
<1> USE DEF Looking, Working, ShardInv
<1>5. (pc[p] \notin {"next", "over"} => cur[p] \in Cases)'
  BY <1>3
<1>6. PairInv(p)'
  BY <1>3, <1>4, ModesAre DEF PairInv, DirInv, Holds, Unit, InDir
<1>7. DirInv(p)'
  BY <1>3, <1>4, ModesAre DEF PairInv, DirInv, Holds, Unit, InDir
<1>8. CaseInv(p)'
  BY <1>3 DEF CaseInv, Empty, Level
<1> QED BY <1>1, <1>2, <1>5, <1>6, <1>7, <1>8

\* And written.
LEMMA WriteLedgerKeeps ==
    ASSUME RunGiven, RunInv, NEW p \in Shards, WriteLedger(p)
    PROVE  RunTypes' /\ ShardInv(p)' /\ \A q \in Shards \ {p} : Untouched(q)
<1>1. RunTypes'
  BY DEF WriteLedger, Goto, RunInv, RunTypes, RunGiven, HaReplGiven, Places, Looking,
         Working, Range, Outcome, CaseVerdicts, RunVerdicts
<1>2. \A q \in Shards \ {p} : Untouched(q)
  BY DEF WriteLedger, Goto, RunInv, RunTypes, Untouched
<1>3. /\ ShardInv(p)
      /\ pc[p] = "ledger"
      /\ res'[p] = "none"
      /\ pc'[p] = "next"
      /\ cur'[p] = cur[p] /\ lastDir'[p] = lastDir[p] /\ found'[p] = found[p] /\ master'[p] = master[p]
      /\ slave'[p] = slave[p] /\ lag'[p] = lag[p] /\ noted'[p] = noted[p] /\ level'[p] = level[p]
      /\ clean'[p] = clean[p]
      /\ resetEvery' = resetEvery /\ done' = done
  BY DEF WriteLedger, Goto, RunInv, RunTypes
<1>4. Made(p)' = Made(p) /\ (Level(p) => Made(p) = {})
  BY <1>3, OwedIs
<1> USE DEF Looking, Working, ShardInv
<1>5. (pc[p] \notin {"next", "over"} => cur[p] \in Cases)'
  BY <1>3
<1>6. PairInv(p)'
  BY <1>3, <1>4, ModesAre DEF PairInv, DirInv, Holds, Unit, InDir
<1>7. DirInv(p)'
  BY <1>3, <1>4, ModesAre DEF PairInv, DirInv, Holds, Unit, InDir
<1>8. CaseInv(p)'
  BY <1>3 DEF CaseInv, Empty, Level
<1> QED BY <1>1, <1>2, <1>5, <1>6, <1>7, <1>8

\* A master that is not empty after its reset is noted.
LEMMA ResetMasterKeeps ==
    ASSUME RunGiven, RunInv, NEW p \in Shards, ResetMaster(p)
    PROVE  RunTypes' /\ ShardInv(p)' /\ \A q \in Shards \ {p} : Untouched(q)
<1> DEFINE left == master[p] \cap Stubborn
<1>0. /\ lag' \in [Shards -> Seq(Entry)] /\ \A q \in Shards \ {p} : lag'[q] = lag[q]
      /\ Made(p)' \subseteq Made(p)
  <2>1. Ship(p, "drop", master[p] \ left) /\ master[p] \ left \in SUBSET Cases
    BY DEF ResetMaster, RunInv, RunTypes
  <2> HIDE DEF left
  <2> QED BY <2>1, ShipIs DEF RunGiven, RunInv, RunTypes
<1>1. RunTypes'
  BY <1>0 DEF ResetMaster, Goto, life, plan, here, last, record, disk, pair, RunInv,
              RunTypes,
              Places, Looking, Working
<1>2. \A q \in Shards \ {p} : Untouched(q)
  BY <1>0 DEF ResetMaster, Goto, life, plan, here, last, record, disk, pair, RunInv,
              RunTypes,
              Untouched
<1>3. /\ ShardInv(p) /\ pc[p] = "reset"
      /\ master'[p] = left /\ noted'[p] = (left # {}) /\ level'[p] = FALSE
      /\ pc'[p] = IF left = {} THEN "look" ELSE "read file"
      /\ cur'[p] = cur[p]
  BY DEF ResetMaster, Goto, life, plan, here, last, record, disk, pair, RunInv, RunTypes
<1> USE DEF Looking, Working, ShardInv
<1>4. (pc[p] \notin {"next", "over"} => cur[p] \in Cases)'
  BY <1>3
<1>5. PairInv(p)' /\ DirInv(p)' /\ CaseInv(p)'
  BY <1>3 DEF PairInv, DirInv, CaseInv, Holds
<1> QED BY <1>1, <1>2, <1>4, <1>5

\* What a repair ships makes nothing.
LEMMA RepairKeeps ==
    ASSUME RunGiven, RunInv, NEW p \in Shards, Repair(p)
    PROVE  RunTypes' /\ ShardInv(p)' /\ \A q \in Shards \ {p} : Untouched(q)
<1>0. /\ lag' \in [Shards -> Seq(Entry)] /\ \A q \in Shards \ {p} : lag'[q] = lag[q]
      /\ Made(p)' \subseteq Made(p)
  <2>1. Ship(p, "repair", found[p] \ NoRepair) /\ found[p] \ NoRepair \in SUBSET Cases
    BY DEF Repair, RunInv, RunTypes
  <2> QED BY <2>1, ShipIs DEF RunGiven, RunInv, RunTypes
<1>1. RunTypes'
  BY <1>0 DEF Repair, Goto, RunInv, RunTypes,
              Places, Looking, Working
<1>2. \A q \in Shards \ {p} : Untouched(q)
  BY <1>0 DEF Repair, Goto, RunInv, RunTypes,
              Untouched
<1>3. /\ ShardInv(p) /\ pc[p] = "repair" /\ pc'[p] = "confirm"
      /\ cur'[p] = cur[p] /\ found'[p] = found[p] /\ master'[p] = master[p]
      /\ slave'[p] = slave[p] /\ level'[p] = level[p]
  BY DEF Repair, Goto, RunInv, RunTypes
<1> USE DEF Looking, Working, ShardInv
<1>4. (pc[p] \notin {"next", "over"} => cur[p] \in Cases)'
  BY <1>3
<1>5. PairInv(p)' /\ DirInv(p)' /\ CaseInv(p)'
  BY <1>0, <1>3 DEF PairInv, DirInv, CaseInv, Holds
<1> QED BY <1>1, <1>2, <1>4, <1>5

\* A case makes its own object and no other.
LEMMA WriteKeeps ==
    ASSUME RunGiven, RunInv, NEW p \in Shards, Write(p)
    PROVE  RunTypes' /\ ShardInv(p)' /\ \A q \in Shards \ {p} : Untouched(q)
<1> DEFINE c == cur[p]
<1>0. pc[p] = "write" /\ c \in Cases /\ master[p] \in SUBSET Cases /\ ShardInv(p)
  BY DEF Write, RunInv, RunTypes, ShardInv
<1>1. /\ lag' \in [Shards -> Seq(Entry)] /\ \A q \in Shards \ {p} : lag'[q] = lag[q]
      /\ Made(p)' \subseteq Made(p) \cup {c}
  <2>1. Ship(p, "make", {c} \ master[p]) /\ {c} \ master[p] \in SUBSET Cases
    BY <1>0 DEF Write
  <2> HIDE DEF c
  <2> QED BY <2>1, ShipIs DEF RunGiven, RunInv, RunTypes
<1>2. RunTypes'
  BY <1>0, <1>1 DEF Write, AfterWrite, Return, Goto, life, plan, last, record, disk, seen,
              RunInv, RunTypes, Places, Looking, Working, Outcome, CaseVerdicts
<1>3. \A q \in Shards \ {p} : Untouched(q)
  BY <1>1 DEF Write, AfterWrite, Return, Goto, life, plan, last, record, disk, seen,
              RunInv, RunTypes, Untouched
<1>4. /\ master'[p] = master[p] \cup {c} /\ slave'[p] = slave[p]
      /\ cur'[p] = c /\ lastDir'[p] = lastDir[p] /\ noted'[p] = noted[p]
      /\ level'[p] = level[p] /\ clean'[p] = clean[p] /\ resetEvery' = resetEvery
      /\ IF c \in Late THEN pc'[p] = "record" /\ res'[p] = "same" ELSE pc'[p] = "wait"
  BY DEF Write, AfterWrite, Return, Goto, life, plan, last, record, disk, seen, RunInv,
         RunTypes
<1> USE DEF Looking, Working, ShardInv
<1>5. (pc[p] \notin {"next", "over"} => cur[p] \in Cases)'
  BY <1>0, <1>4
<1>6. PairInv(p)'
  BY <1>4 DEF PairInv
<1>7. DirInv(p)'
  <2> SUFFICES ASSUME resetEvery = "dir", lastDir[p] # "none"
               PROVE  lastDir[p] = Directory[c] /\ Holds(p, InDir(lastDir[p]))'
    BY <1>0, <1>4 DEF DirInv
  <2>1. lastDir[p] = Directory[c] /\ Holds(p, InDir(lastDir[p]))
    BY <1>0 DEF DirInv
  <2>2. c \in InDir(lastDir[p]) /\ (InDir(lastDir[p]))' = InDir(lastDir[p])
    BY <1>0, <1>4, <2>1 DEF InDir
  <2> QED BY <1>1, <1>4, <2>1, <2>2 DEF Holds
<1>8. CaseInv(p)'
  <2> SUFFICES ASSUME clean[p], c \notin Late
               PROVE  /\ master'[p] = {c} /\ slave'[p] = {}
                      /\ lag'[p] = <<[op |-> "make", case |-> c]>>
    BY <1>4 DEF CaseInv
  <2>1. master[p] = {} /\ slave[p] = {} /\ lag[p] = <<>>
    BY <1>0 DEF CaseInv, Empty, Level
  <2>2. lag' = [lag EXCEPT ![p] = lag[p] \o
                   SetToSeq({[op |-> "make", case |-> d] : d \in {c} \ master[p]})]
    BY DEF Write, Ship
  <2>3. {[op |-> "make", case |-> d] : d \in {c} \ master[p]} = {[op |-> "make", case |-> c]}
    BY <2>1
  <2>4. lag'[p] = lag[p] \o SetToSeq({[op |-> "make", case |-> c]})
    BY <2>2, <2>3 DEF RunInv, RunTypes
  <2>5. SetToSeq({[op |-> "make", case |-> c]}) = <<[op |-> "make", case |-> c]>>
    BY OneListed
  <2> QED BY <1>4, <2>1, <2>4, <2>5
<1> QED BY <1>2, <1>3, <1>5, <1>6, <1>7, <1>8

\* The slave comes to hold only what it was owed.
LEMMA ApplyKeeps ==
    ASSUME RunGiven, RunInv, NEW p \in Shards, Apply(p)
    PROVE  RunTypes' /\ ShardInv(p)' /\ \A q \in Shards \ {p} : Untouched(q)
<1>0. /\ lag' \in [Shards -> Seq(Entry)] /\ slave' \in [Shards -> SUBSET Cases]
      /\ \A q \in Shards \ {p} : lag'[q] = lag[q] /\ slave'[q] = slave[q]
      /\ Made(p)' \subseteq Made(p)
      /\ slave'[p] \subseteq slave[p] \cup Made(p)
  BY ApplyIs DEF RunInv
<1>1. RunTypes'
  BY <1>0 DEF Apply, RunInv, RunTypes
<1>2. \A q \in Shards \ {p} : Untouched(q)
  BY <1>0 DEF Apply, Untouched
<1>3. /\ ShardInv(p) /\ pc' = pc /\ cur' = cur /\ found' = found /\ master' = master
      /\ lastDir' = lastDir /\ noted' = noted /\ level' = level /\ clean' = clean /\ res' = res
      /\ resetEvery' = resetEvery
  BY DEF Apply, RunInv
<1> USE DEF Looking, Working, ShardInv
<1>4. (pc[p] \notin {"next", "over"} => cur[p] \in Cases)'
  BY <1>3
<1>5. PairInv(p)'
  BY <1>0, <1>3 DEF PairInv, Holds, Unit
<1>6. DirInv(p)'
  BY <1>0, <1>3 DEF DirInv, Holds, InDir
<1>7. CaseInv(p)'
  <2>1. lag[p] # <<>> /\ lag'[p] = Tail(lag[p]) /\ slave'[p] = Replay(slave[p], Head(lag[p]))
    BY DEF Apply, RunInv, RunTypes
  <2>2. ASSUME slave[p] = {}, lag[p] = <<[op |-> "make", case |-> cur[p]]>>
        PROVE  lag'[p] = <<>> /\ slave'[p] = {cur[p]} \ Diverging
    <3>1. Head(lag[p]) = [op |-> "make", case |-> cur[p]] /\ Tail(lag[p]) = <<>>
      BY <2>2
    <3> QED BY <2>1, <2>2, <3>1 DEF Replay
  <2> QED BY <1>3, <2>1, <2>2 DEF CaseInv, Empty, Level
<1> QED BY <1>1, <1>2, <1>4, <1>5, <1>6, <1>7

-----------------------------------------------------------------------------
(* A run begins and ends.                                                  *)

\* A run that is over knows nothing.
LEMMA ForgetKeeps ==
    ASSUME RunGiven, RunInv, Forget, phase' = "off", UNCHANGED <<resetEvery, pair>>
    PROVE  RunInv'
<1>1. phase' = "off" /\ resetEvery' \in Resets
      /\ master' \in [Shards -> SUBSET Cases] /\ slave' \in [Shards -> SUBSET Cases]
      /\ lag' \in [Shards -> Seq(Entry)]
  BY DEF RunInv, RunTypes, pair
<1>2. todo' \in [Shards -> Seq(Cases)] /\ found' \in [Shards -> SUBSET Cases]
  BY DEF Forget
<1>3. pc' \in [Shards -> Places] /\ cur' \in [Shards -> Cases \cup {"start"}]
  BY DEF Forget, Places
<1>4. /\ res' \in [Shards -> Outcome \cup {"none"}]
      /\ lastDir' \in [Shards -> Range(Directory) \cup {"none"}]
  BY DEF Forget
<1>5. /\ noted' \in [Shards -> BOOLEAN] /\ level' \in [Shards -> BOOLEAN]
      /\ clean' \in [Shards -> BOOLEAN]
  BY DEF Forget
<1>6. RunTypes'
  BY <1>1, <1>2, <1>3, <1>4, <1>5 DEF RunTypes
<1>7. ASSUME NEW p \in Shards PROVE pc'[p] = "over" /\ lastDir'[p] = "none" /\ ShardInv(p)'
  BY DEF Forget, ShardInv, PairInv, DirInv, CaseInv, Looking, Working
<1> QED BY <1>6, <1>7 DEF RunInv, Forget

\* A run that begins knows nothing, and resumes only when it resets before each case.
LEMMA StartKeeps ==
    ASSUME RunGiven, WholeDirectories, RunInv, NEW mode \in Resets,
           NEW resume \in {FALSE, Resumes}, Start(mode, resume)
    PROVE  RunInv'
<1>1. RunTypes'
  BY DEF Start, RunInv, RunTypes, RunGiven, DealGiven, here, last, record, seen, disk, pair,
         Places
<1>2. (resetEvery = "dir" => done = {})'
  <2> SUFFICES ASSUME mode = "dir" PROVE done' = {}
    BY DEF Start
  <2>1. ~resume
    BY DEF WholeDirectories
  <2> QED BY <2>1 DEF Start
<1>3. ASSUME NEW p \in Shards PROVE ShardInv(p)'
  <2>1. pc'[p] = "next" /\ lastDir'[p] = "none"
    BY DEF Start, RunInv, last
  <2> QED BY <2>1 DEF ShardInv, PairInv, DirInv, CaseInv, Looking, Working
<1> QED BY <1>1, <1>2, <1>3 DEF RunInv, Start

\* Before the first run nothing is known.
LEMMA RunBegins == ASSUME RunGiven, Init PROVE RunInv
<1>1. RunTypes
  BY DEF Init, RunTypes, Places, Entry
<1>2. ASSUME NEW p \in Shards PROVE pc[p] = "over" /\ lastDir[p] = "none" /\ ShardInv(p)
  BY DEF Init, ShardInv, PairInv, DirInv, CaseInv, Looking, Working
<1> QED BY <1>1, <1>2 DEF RunInv, Init

\* A step of one shard leaves the others as they were, and no run begins or ends.
LEMMA ShardKeeps ==
    ASSUME RunGiven, RunInv, NEW p \in Shards, Shard(p) \/ Apply(p) PROVE RunInv'
<1>1. RunTypes' /\ ShardInv(p)' /\ \A q \in Shards \ {p} : Untouched(q)
  <2>1. CASE Reset(p)
    BY <2>1, ResetFailsKeeps, ResetMasterKeeps, LookKeeps, CatchUpKeeps, LookAgainKeeps,
       RepairKeeps, ConfirmKeeps, GiveUpKeeps DEF Reset
  <2>2. CASE RunCase(p)
    BY <2>2, CaseFailsKeeps, WriteKeeps, WaitKeeps, WaitTimesOutKeeps, ReadKeeps DEF RunCase
  <2> QED BY <2>1, <2>2, LeaveKeeps, SkipKeeps, BeginKeeps, ReadFileKeeps, RecordKeeps,
             WriteLedgerKeeps, ApplyKeeps DEF Shard
<1>2. \A q \in Shards : ShardInv(q)'
  BY <1>1, OthersHold DEF RunInv
<1>3. phase' = phase /\ done' = done /\ resetEvery' = resetEvery
  BY DEF Shard, Reset, RunCase, Apply, Leave, Skip, Begin, ReadFile, Record, WriteLedger,
         ResetFails, ResetMaster, Look, CatchUp, LookAgain, Repair, Confirm, GiveUp,
         CaseFails, Write, Wait, WaitTimesOut, Read, plan
<1>4. phase = "off" => \A q \in Shards : pc'[q] = "over" /\ lastDir'[q] = "none"
  <2> SUFFICES ASSUME phase = "off"
               PROVE  \A q \in Shards : pc'[q] = "over" /\ lastDir'[q] = "none"
    OBVIOUS
  <2>1. pc[p] = "over"
    BY DEF RunInv
  <2>2. Apply(p)
    BY <2>1 DEF Shard, Reset, RunCase, Leave, Skip, Begin, Take, ReadFile, Record,
                WriteLedger,
         ResetFails, ResetMaster, Look, CatchUp, LookAgain, Repair, Confirm, GiveUp,
         CaseFails, Write, Wait, WaitTimesOut, Read
  <2> QED BY <2>2 DEF Apply, last, RunInv
<1> QED BY <1>1, <1>2, <1>3, <1>4 DEF RunInv

\* Every step keeps all of it.
LEMMA RunStep ==
    ASSUME RunGiven, WholeDirectories, RunInv, [Next]_vars PROVE RunInv'
<1>1. CASE \E mode \in Resets, resume \in {FALSE, Resumes} : Start(mode, resume)
  BY <1>1, StartKeeps
<1>2. CASE \E p \in Shards : Shard(p) \/ Apply(p)
  BY <1>2, ShardKeeps
<1>3. CASE Cancel \/ UNCHANGED vars
  <2>1. UNCHANGED <<phase, resetEvery, plan, pc, here, last, found, pair, seen>>
    BY <1>3 DEF Cancel, vars
  <2> USE <2>1 DEF plan, here, last, pair, seen
  <2>2. RunTypes'
    BY DEF RunInv, RunTypes
  <2>3. \A q \in Shards : Untouched(q)
    BY DEF Untouched
  <2>4. \A q \in Shards : ShardInv(q)'
    BY <2>3, OthersHold DEF RunInv
  <2> QED BY <2>2, <2>4 DEF RunInv
<1>4. CASE Finish \/ Kill
  BY <1>4, ForgetKeeps DEF Finish, Kill, pair
<1> QED BY <1>1, <1>2, <1>3, <1>4 DEF Next

-----------------------------------------------------------------------------
\* What a case starts from is its own, unless the reset before it said otherwise.
LEMMA RunStartsOnItsOwn == RunInv => StartsOnItsOwn
  BY DEF RunInv, ShardInv, PairInv, Holds, StartsOnItsOwn

\* And on a pair that was empty its verdict is its own.
LEMMA RunJudges == RunInv => HonestVerdict
  BY DEF RunInv, ShardInv, CaseInv, HonestVerdict
=============================================================================
