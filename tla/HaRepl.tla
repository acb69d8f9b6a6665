------------------------------- MODULE HaRepl -------------------------------
(***************************************************************************)
(* The ha_repl suite: several master/slave pairs share one corpus, one     *)
(* ledger of verdicts and one record of what a slave was left holding.     *)
(*                                                                         *)
(* hareplsuite/harepl.go deals the cases and runs a shard per pair,        *)
(* reset.go empties a pair's database between cases and takes off the      *)
(* slave what the master's own drops could not, case.go asks both nodes    *)
(* the same reads, ledger.go makes a run resumable.                        *)
(*                                                                         *)
(* A case makes one object, named by the case.  The pair itself is a log:  *)
(* what the master did and the slave has yet to replay.  The slave replays *)
(* at any time and in order.                                               *)
(*                                                                         *)
(* A definition whose name ends in _F is a seeded fault: the one that      *)
(* follows it with a plausible bug.  No specification uses it.             *)
(***************************************************************************)
EXTENDS Integers, Sequences, FiniteSets, SequencesExt

CONSTANTS
    Pairs,      \* how many pairs drive the corpus
    Corpus,     \* the cases, in the order Cases() lists them
    Directory,  \* Directory[c]: the directory a case is in
    Resets,     \* the settings of reset a run may have: "case", "dir"
    Late,       \* the cases that read before they write
    Diverging,  \* the cases whose object does not replicate
    Renaming,   \* the cases whose object the slave knows by another name
    Stubborn,   \* the cases whose object the master's reset cannot remove
    NoRepair,   \* the cases whose object has no placeholder
    Unreadable, \* the cases whose file cannot be read
    Resumes,    \* resume=yes is a setting a run may have
    Outages,    \* the nodes may stop answering
    MaxRuns,    \* bound: how many times a run is started
    MaxKills    \* bound: how many runs die without unwinding

Shards == 1..Pairs
Cases == Range(Corpus)

\* What a run is given: pairs, and cases that are listed once each; a name that
\* stands for none is not a case's or a directory's.
HaReplGiven ==
    /\ Pairs \in Nat \ {0}
    /\ Corpus \in Seq(DOMAIN Directory) /\ IsInjective(Corpus)
    /\ Cases = DOMAIN Directory
    /\ "start" \notin Cases /\ "none" \notin Range(Directory)
    /\ Resets \subseteq {"case", "dir"}
    /\ MaxRuns \in Nat /\ MaxKills \in Nat

VARIABLES
    phase,      \* "off", or "run" while shards are at work
    resetEvery, \* the run's setting of reset
    runs,       \* how many runs were started
    kills,      \* how many died
    cancelled,  \* the run's context is done
    done,       \* what the ledger had judged when a resuming run started
    todo,       \* todo[p]: the cases shard p has left
    pc,         \* pc[p]: where shard p is
    cur,        \* cur[p]: its case
    res,        \* res[p]: the outcome RunCase is about to return
    lastDir,    \* lastDir[p]
    lastCase,   \* lastCase[p]
    found,      \* found[p]: what the slave was seen holding, while it is looked into
    results,    \* results[c]: the outcomes this run's record holds for a case
    stranded,   \* this run's record of objects left on a slave
    ledger,     \* verdicts.tsv
    file,       \* slave-stranded.tsv
    master,     \* master[p]: the objects the master holds
    slave,      \* slave[p]: the objects the slave holds
    lag,        \* lag[p]: what the master did and the slave has not replayed
    noted,      \* noted[p]: the last reset said it left something (observation)
    level,      \* level[p]: nothing was on its way to the slave when the last
                \* reset looked at it (observation)
    clean,      \* clean[p]: the pair was empty when the case began (observation)
    repaired    \* the objects repairs took off slaves since the last run that
                \* did not resume (observation)

life == <<runs, kills>>
plan == <<done, todo>>
here == <<cur, res>>
last == <<lastDir, lastCase>>
record == <<results, stranded>>
disk == <<ledger, file>>
pair == <<master, slave, lag>>
seen == <<noted, level, clean>>
vars == <<phase, resetEvery, life, cancelled, plan, pc, here, last, found, record, disk,
          pair, seen, repaired>>

RunVerdicts == {"wait_timeout", "case_failed"}
CaseVerdicts == {"same", "differ"}
Outcome == RunVerdicts \cup CaseVerdicts

-----------------------------------------------------------------------------
(* Dealing the corpus.                                                     *)

Directories == Range(Directory)
CasesOf(d) == SelectSeq(Corpus, LAMBDA c : Directory[c] = d)
FirstAt(d) == CHOOSE i \in DOMAIN Corpus :
    /\ Directory[Corpus[i]] = d
    /\ \A j \in 1..(i - 1) : Directory[Corpus[j]] # d

\* Largest first; a directory met earlier first among equals.
Order == SetToSortSeq(Directories, LAMBDA d, e :
    LET a == Len(CasesOf(d))
        b == Len(CasesOf(e))
    IN a > b \/ (a = b /\ FirstAt(d) < FirstAt(e)))

\* The shard that holds the fewest cases; the first of them.
Lightest(dealt) == CHOOSE p \in Shards :
    /\ \A q \in Shards : Len(dealt[p]) <= Len(dealt[q])
    /\ \A q \in 1..(p - 1) : Len(dealt[p]) < Len(dealt[q])

RoundRobin == [p \in Shards |->
    [k \in 1..((Len(Corpus) - p + Pairs) \div Pairs) |-> Corpus[p + (k - 1) * Pairs]]]

ByDirectory == FoldLeft(
    LAMBDA dealt, d : [dealt EXCEPT ![Lightest(dealt)] = @ \o CasesOf(d)],
    [p \in Shards |-> <<>>], Order)

Deal_F(mode) == RoundRobin

Deal(mode) == IF mode = "case" \/ Pairs = 1 THEN RoundRobin ELSE ByDirectory

-----------------------------------------------------------------------------
(* The ledger.                                                             *)

LinesOf(c) == SelectSeq(ledger, LAMBDA line : line.case = c)

Judged_F == {line \in Range(ledger) : line.outcome \notin RunVerdicts}

\* Judged: a case's last line, unless it was a verdict about the run.
Judged == {line \in Range(ledger) :
    /\ line = Last(LinesOf(line.case))
    /\ line.outcome \notin RunVerdicts}

DoneWith(c) == \E line \in done : line.case = c
Prior(c) == (CHOOSE line \in done : line.case = c).outcome

-----------------------------------------------------------------------------
(* The pair.                                                               *)

Replay(held, entry) ==
    CASE entry.op = "make" -> IF entry.case \in Diverging THEN held ELSE held \cup {entry.case}
      [] entry.op = "drop" -> IF entry.case \in Renaming THEN held ELSE held \ {entry.case}
      [] entry.op = "repair" -> held \ {entry.case}

\* The slave replays the next thing the master did.
Apply(p) ==
    /\ lag[p] # <<>>
    /\ slave' = [slave EXCEPT ![p] = Replay(@, Head(lag[p]))]
    /\ lag' = [lag EXCEPT ![p] = Tail(@)]
    /\ repaired' = IF Head(lag[p]).op = "repair"
                   THEN repaired \cup (slave[p] \cap {Head(lag[p]).case})
                   ELSE repaired
    /\ UNCHANGED <<phase, resetEvery, life, cancelled, plan, pc, here, last, found, record,
                   disk, master, seen>>

Ship(p, op, cases) == lag' = [lag EXCEPT ![p] =
    @ \o SetToSeq({[op |-> op, case |-> c] : c \in cases})]

\* WaitForReplication's marker has crossed once the slave has replayed
\* everything before it.
Level(p) == lag[p] = <<>>

-----------------------------------------------------------------------------
(* A run.                                                                  *)

\* What a process knows when it starts; what it knew is gone when it ends.
Forget ==
    /\ done' = {} /\ todo' = [p \in Shards |-> <<>>]
    /\ pc' = [p \in Shards |-> "over"]
    /\ cur' = [p \in Shards |-> "start"] /\ res' = [p \in Shards |-> "none"]
    /\ lastDir' = [p \in Shards |-> "none"] /\ lastCase' = [p \in Shards |-> "start"]
    /\ found' = [p \in Shards |-> {}]
    /\ results' = [c \in Cases |-> <<>>] /\ stranded' = {}
    /\ noted' = [p \in Shards |-> FALSE] /\ level' = [p \in Shards |-> FALSE]
    /\ clean' = [p \in Shards |-> FALSE]
    /\ cancelled' = FALSE

Start(mode, resume) ==
    /\ phase = "off" /\ runs < MaxRuns
    /\ phase' = "run" /\ runs' = runs + 1 /\ resetEvery' = mode
    /\ done' = IF resume THEN Judged ELSE {}
    /\ todo' = Deal(mode)
    /\ pc' = [p \in Shards |-> "next"]
    /\ UNCHANGED <<here, last, found, record, seen>>
    /\ repaired' = IF resume THEN repaired ELSE {}
    /\ UNCHANGED <<kills, cancelled, disk, pair>>

Goto(p, at) == pc' = [pc EXCEPT ![p] = at]

\* The loop's head: the context, and a shard that has run out of cases.
Leave(p) ==
    /\ pc[p] = "next" /\ (cancelled \/ todo[p] = <<>>)
    /\ Goto(p, "over")
    /\ UNCHANGED <<phase, resetEvery, life, cancelled, plan, here, last, found, record, disk,
                   pair, seen, repaired>>

Take(p) ==
    /\ pc[p] = "next" /\ ~cancelled /\ todo[p] # <<>>
    /\ todo' = [todo EXCEPT ![p] = Tail(@)]

Skip_F(p) ==
    /\ Take(p)
    /\ DoneWith(Head(todo[p]))
    /\ UNCHANGED <<phase, resetEvery, life, cancelled, done, pc, here, last, found, record,
                   disk, pair, seen, repaired>>

\* A case an earlier run judged.
Skip(p) ==
    /\ Take(p)
    /\ LET c == Head(todo[p]) IN
       /\ DoneWith(c)
       /\ results' = [results EXCEPT ![c] = Append(@, Prior(c))]
       /\ lastDir' = [lastDir EXCEPT ![p] = Directory[c]]
       /\ lastCase' = [lastCase EXCEPT ![p] = c]
    /\ UNCHANGED <<phase, resetEvery, life, cancelled, done, pc, here, found, stranded, disk,
                   pair, seen, repaired>>

NeedsReset_F(p, c) == lastDir[p] = "none"

\* Before every case, or before the first of a directory.
NeedsReset(p, c) == resetEvery = "case" \/ Directory[c] # lastDir[p]

Begin(p) ==
    /\ Take(p)
    /\ LET c == Head(todo[p]) IN
       /\ ~DoneWith(c)
       /\ cur' = [cur EXCEPT ![p] = c]
       /\ Goto(p, IF NeedsReset(p, c) THEN "reset" ELSE "read file")
    /\ UNCHANGED <<phase, resetEvery, life, cancelled, done, res, last, found, record, disk,
                   pair, seen, repaired>>

-----------------------------------------------------------------------------
(* Reset.                                                                  *)

Note(p) == noted' = [noted EXCEPT ![p] = TRUE]

\* A node does not answer, or the context is done: the error is printed and
\* the case runs all the same.
ResetFails(p) ==
    /\ pc[p] \in {"reset", "look", "look again"}
    /\ cancelled \/ Outages
    /\ Note(p)
    /\ found' = [found EXCEPT ![p] = {}]
    /\ Goto(p, "read file")
    /\ UNCHANGED <<phase, resetEvery, life, cancelled, plan, here, last, record, disk, pair,
                   level, clean, repaired>>

\* The passes: everything the catalog names is dropped until a pass gains
\* nothing.  A master that is not clean afterwards is reported and its slave
\* is not looked at.
ResetMaster(p) ==
    /\ pc[p] = "reset" /\ ~cancelled
    /\ LET left == master[p] \cap Stubborn IN
       /\ master' = [master EXCEPT ![p] = left]
       /\ Ship(p, "drop", master[p] \ left)
       /\ noted' = [noted EXCEPT ![p] = left # {}]
       /\ level' = [level EXCEPT ![p] = FALSE]
       /\ Goto(p, IF left = {} THEN "look" ELSE "read file")
    /\ UNCHANGED <<phase, resetEvery, life, cancelled, plan, here, last, found, record, disk,
                   slave, clean, repaired>>

\* strandedOnSlaves: a slave that looks clean is not waited for.
Look(p) ==
    /\ pc[p] = "look" /\ ~cancelled
    /\ found' = [found EXCEPT ![p] = slave[p]]
    /\ level' = [level EXCEPT ![p] = Level(p)]
    /\ Goto(p, IF slave[p] = {} THEN "read file" ELSE "catch up")
    /\ UNCHANGED <<phase, resetEvery, life, cancelled, plan, here, last, record, disk, pair,
                   noted, clean, repaired>>

\* Behind is not stranded: one marker crossing tells them apart.
CatchUp(p) ==
    /\ pc[p] = "catch up" /\ Level(p) /\ ~cancelled
    /\ Goto(p, "look again")
    /\ UNCHANGED <<phase, resetEvery, life, cancelled, plan, here, last, found, record, disk,
                   pair, seen, repaired>>

LookAgain_F(p) ==
    /\ pc[p] = "look again" /\ ~cancelled
    /\ found' = [found EXCEPT ![p] = slave[p]]
    /\ Goto(p, "repair")
    /\ UNCHANGED <<phase, resetEvery, life, cancelled, plan, here, last, record, disk, pair,
                   seen, repaired>>

LookAgain(p) ==
    /\ pc[p] = "look again" /\ ~cancelled
    /\ found' = [found EXCEPT ![p] = slave[p]]
    /\ level' = [level EXCEPT ![p] = Level(p)]
    /\ Goto(p, IF slave[p] = {} THEN "read file" ELSE "repair")
    /\ UNCHANGED <<phase, resetEvery, life, cancelled, plan, here, last, record, disk, pair,
                   noted, clean, repaired>>

\* repairSlaves: the master makes and drops each name, so that the slave drops
\* its own.
Repair(p) ==
    /\ pc[p] = "repair"
    /\ Ship(p, "repair", found[p] \ NoRepair)
    /\ Goto(p, "confirm")
    /\ UNCHANGED <<phase, resetEvery, life, cancelled, plan, here, last, found, record, disk,
                   master, slave, seen, repaired>>

\* One entry of the record: what was found, the case it is put down to, what
\* is gone now.
Blame(p, gone) == [case |-> lastCase[p], objects |-> found[p], repaired |-> gone]

Strand_F(p, gone) ==
    /\ stranded' = IF gone = found[p] THEN stranded ELSE stranded \cup {Blame(p, gone)}
    /\ noted' = [noted EXCEPT ![p] = @ \/ gone # found[p]]

\* The entry goes into the run's record, repaired or not.
Strand(p, gone) ==
    /\ stranded' = stranded \cup {Blame(p, gone)}
    /\ noted' = [noted EXCEPT ![p] = @ \/ gone # found[p]]

\* The slave is asked again after the marker; a repair that worked is known
\* from that and from nothing else.
Confirm(p) ==
    /\ pc[p] = "confirm" /\ Level(p) /\ ~cancelled
    /\ Strand(p, found[p] \ slave[p])
    /\ found' = [found EXCEPT ![p] = {}]
    /\ Goto(p, "read file")
    /\ UNCHANGED <<phase, resetEvery, life, cancelled, plan, here, last, results, disk, pair,
                   level, clean, repaired>>

\* Neither wait is for ever: what was found is reported with the reason.
GiveUp(p) ==
    /\ pc[p] \in {"catch up", "confirm"} /\ (~Level(p) \/ cancelled)
    /\ Strand(p, {})
    /\ found' = [found EXCEPT ![p] = {}]
    /\ Goto(p, "read file")
    /\ UNCHANGED <<phase, resetEvery, life, cancelled, plan, here, last, results, disk, pair,
                   level, clean, repaired>>

-----------------------------------------------------------------------------
(* RunCase.                                                                *)

Empty(p) == master[p] = {} /\ slave[p] = {} /\ Level(p)

\* An unreadable file is reported and is neither run nor kept in the ledger.
ReadFile(p) ==
    /\ pc[p] = "read file"
    /\ LET c == cur[p] IN
       /\ lastDir' = [lastDir EXCEPT ![p] = Directory[c]]
       /\ IF c \in Unreadable
          THEN /\ results' = [results EXCEPT ![c] = Append(@, "case_failed")]
               /\ Goto(p, "next")
          ELSE /\ Goto(p, IF c \in Late THEN "read" ELSE "write")
               /\ UNCHANGED results
    /\ clean' = [clean EXCEPT ![p] = Empty(p)]
    /\ UNCHANGED <<phase, resetEvery, life, cancelled, plan, here, lastCase, found, stranded,
                   disk, pair, noted, level, repaired>>

Return(p, outcome) == res' = [res EXCEPT ![p] = outcome] /\ Goto(p, "record")

\* A segment begins with a look at the context, and any call may find a node
\* gone.
CaseFails(p) ==
    /\ pc[p] \in {"write", "read"} /\ (cancelled \/ Outages)
    /\ Return(p, "case_failed")
    /\ UNCHANGED <<phase, resetEvery, life, cancelled, plan, cur, last, found, record, disk,
                   pair, seen, repaired>>

AfterWrite_F(c) == IF c \in Late THEN "same" ELSE "read"

\* Where a write segment leads: a later read waits for it, the end of a case
\* that has compared something does not.
AfterWrite(c) == IF c \in Late THEN "same" ELSE "wait"

\* A write segment.  A name the master still has refuses the case's own.
Write(p) ==
    /\ pc[p] = "write" /\ ~cancelled
    /\ LET c == cur[p] IN
       /\ master' = [master EXCEPT ![p] = @ \cup {c}]
       /\ Ship(p, "make", {c} \ master[p])
       /\ IF AfterWrite(c) = "same" THEN Return(p, "same")
          ELSE Goto(p, AfterWrite(c)) /\ UNCHANGED res
    /\ UNCHANGED <<phase, resetEvery, life, cancelled, plan, cur, last, found, record, disk,
                   slave, seen, repaired>>

\* The marker crosses, ...
Wait(p) ==
    /\ pc[p] = "wait" /\ Level(p) /\ ~cancelled
    /\ Goto(p, "read")
    /\ UNCHANGED <<phase, resetEvery, life, cancelled, plan, here, last, found, record, disk,
                   pair, seen, repaired>>

\* ... or the bound passes first.
WaitTimesOut(p) ==
    /\ pc[p] = "wait" /\ (~Level(p) \/ cancelled)
    /\ Return(p, "wait_timeout")
    /\ UNCHANGED <<phase, resetEvery, life, cancelled, plan, cur, last, found, record, disk,
                   pair, seen, repaired>>

\* A read segment: the two nodes' answers.  The first that differ end the case.
Read(p) ==
    /\ pc[p] = "read" /\ ~cancelled
    /\ IF master[p] # slave[p] THEN Return(p, "differ")
       ELSE IF cur[p] \in Late THEN Goto(p, "write") /\ UNCHANGED res
       ELSE Return(p, "same")
    /\ UNCHANGED <<phase, resetEvery, life, cancelled, plan, cur, last, found, record, disk,
                   pair, seen, repaired>>

-----------------------------------------------------------------------------
(* The record.                                                             *)

Record_F(p) ==
    /\ pc[p] = "record"
    /\ results' = [results EXCEPT ![cur[p]] = Append(@, res[p])]
    /\ Goto(p, "ledger")
    /\ todo' = IF res[p] = "wait_timeout"
               THEN [todo EXCEPT ![p] = Append(@, cur[p])] ELSE todo
    /\ UNCHANGED <<phase, resetEvery, life, cancelled, done, here, last, found, stranded, disk,
                   pair, seen, repaired>>

\* The verdict joins the run's results, under the lock.
Record(p) ==
    /\ pc[p] = "record"
    /\ results' = [results EXCEPT ![cur[p]] = Append(@, res[p])]
    /\ Goto(p, "ledger")
    /\ UNCHANGED <<phase, resetEvery, life, cancelled, plan, here, last, found, stranded, disk,
                   pair, seen, repaired>>

\* It is appended to the ledger and flushed, outside it.
WriteLedger(p) ==
    /\ pc[p] = "ledger"
    /\ ledger' = Append(ledger, [case |-> cur[p], outcome |-> res[p]])
    /\ lastCase' = [lastCase EXCEPT ![p] = cur[p]]
    /\ res' = [res EXCEPT ![p] = "none"]
    /\ Goto(p, "next")
    /\ UNCHANGED <<phase, resetEvery, life, cancelled, plan, cur, lastDir, found, record, file,
                   pair, seen, repaired>>

\* The operator stops the run, or its bound is reached.
Cancel ==
    /\ phase = "run" /\ ~cancelled
    /\ cancelled' = TRUE
    /\ UNCHANGED <<phase, resetEvery, life, plan, pc, here, last, found, record, disk, pair,
                   seen, repaired>>

Over == phase = "run" /\ \A p \in Shards : pc[p] = "over"

\* The shards are done: what a slave was left holding is written down, over
\* what an earlier run wrote.
Finish ==
    /\ Over
    /\ file' = IF stranded = {} THEN file ELSE stranded
    /\ phase' = "off" /\ Forget
    /\ UNCHANGED <<resetEvery, life, ledger, pair, repaired>>

\* The process dies where it stands.
Kill ==
    /\ phase = "run" /\ kills < MaxKills
    /\ kills' = kills + 1
    /\ phase' = "off" /\ Forget
    /\ UNCHANGED <<resetEvery, runs, disk, pair, repaired>>

-----------------------------------------------------------------------------
Init ==
    /\ phase = "off" /\ resetEvery \in Resets /\ runs = 0 /\ kills = 0 /\ cancelled = FALSE
    /\ done = {} /\ todo = [p \in Shards |-> <<>>]
    /\ pc = [p \in Shards |-> "over"]
    /\ cur = [p \in Shards |-> "start"] /\ res = [p \in Shards |-> "none"]
    /\ lastDir = [p \in Shards |-> "none"] /\ lastCase = [p \in Shards |-> "start"]
    /\ found = [p \in Shards |-> {}]
    /\ results = [c \in Cases |-> <<>>] /\ stranded = {}
    /\ ledger = <<>> /\ file = {}
    /\ master = [p \in Shards |-> {}] /\ slave = [p \in Shards |-> {}]
    /\ lag = [p \in Shards |-> <<>>]
    /\ noted = [p \in Shards |-> FALSE] /\ level = [p \in Shards |-> FALSE]
    /\ clean = [p \in Shards |-> FALSE]
    /\ repaired = {}

RunCase(p) ==
    \/ CaseFails(p) \/ Write(p) \/ Wait(p) \/ WaitTimesOut(p) \/ Read(p)

Reset(p) ==
    \/ ResetFails(p) \/ ResetMaster(p) \/ Look(p) \/ CatchUp(p) \/ LookAgain(p)
    \/ Repair(p) \/ Confirm(p) \/ GiveUp(p)

Shard(p) ==
    \/ Leave(p) \/ Skip(p) \/ Begin(p)
    \/ Reset(p) \/ ReadFile(p) \/ RunCase(p)
    \/ Record(p) \/ WriteLedger(p)

Next ==
    \/ \E mode \in Resets, resume \in {FALSE, Resumes} : Start(mode, resume)
    \/ \E p \in Shards : Shard(p) \/ Apply(p)
    \/ Cancel \/ Finish \/ Kill

Spec == Init /\ [][Next]_vars

-----------------------------------------------------------------------------
(* Properties.                                                             *)

\* The state stays within its types; every case is in one place of the record.
HaTypeOK ==
    /\ phase \in {"off", "run"} /\ resetEvery \in Resets
    /\ runs \in 0..MaxRuns /\ kills \in 0..MaxKills
    /\ \A line \in done \cup Range(ledger) :
         line.case \in Cases /\ line.outcome \in Outcome
    /\ \A c \in Cases : Range(results[c]) \subseteq Outcome
    /\ \A p \in Shards :
         /\ cur[p] \in Cases \cup {"start"}
         /\ res[p] \in Outcome \cup {"none"}
         /\ phase = "run" => (res[p] # "none" <=> pc[p] \in {"record", "ledger"})
         /\ (pc[p] \in {"repair", "confirm"}) => found[p] # {}
         /\ master[p] \cup slave[p] \cup found[p] \subseteq Cases

\* harepl.go shard, reset.go: what a case starts from is its own directory's
\* under reset=dir and nothing under reset=case, unless the reset before it
\* said otherwise; and the slave too, when the reset looked at a slave that
\* was not behind.
Unit(c) == IF resetEvery = "case" THEN {} ELSE {e \in Cases : Directory[e] = Directory[c]}

StartsOnItsOwn == \A p \in Shards : pc[p] = "read file" =>
    \/ noted[p]
    \/ /\ master[p] \subseteq Unit(cur[p])
       /\ level[p] => slave[p] \subseteq Unit(cur[p])

\* case.go RunCase: on a pair that was empty when the case began, the verdict
\* is the case's: `differ` for the object that does not replicate, and for
\* nothing else.
HonestVerdict == \A p \in Shards :
    pc[p] = "record" /\ clean[p] /\ res[p] \in CaseVerdicts =>
        (res[p] = "differ" <=> cur[p] \in Diverging \ Late)

\* harepl.go shard: a run's record has each case at most once, and exactly
\* once when every shard came to its end: judged, resumed or unreadable.
EveryCaseOnce ==
    /\ \A c \in Cases : Len(results[c]) <= 1
    /\ Over /\ ~cancelled => \A c \in Cases : Len(results[c]) = 1

\* ledger.go Judged: a verdict is only resumed when no later attempt at the
\* case ended in a verdict about the run.
LastWord == \A line \in done : \A i \in DOMAIN ledger :
    ledger[i].case = line.case /\ ledger[i].outcome \in RunVerdicts =>
        \E j \in DOMAIN ledger : j > i /\ ledger[j] = line

\* The record of a run and the ledger of all of them, in a state that is well
\* formed.
RunAccounts == HaTypeOK /\ EveryCaseOnce /\ LastWord

\* harepl.go deal: under reset=dir the objects of one directory are never on
\* two pairs.
DirectoryOnOnePair == resetEvery = "dir" => \A p, q \in Shards :
    p # q => \A c \in master[p], e \in master[q] : Directory[c] # Directory[e]

\* reset.go Stranded: what a repair took off a slave is in the file that says
\* so, once the run that did it is over.
RecordKept == phase = "off" =>
    repaired \subseteq UNION {entry.objects : entry \in file}

\* What a run says: of the cases, and of what it took off its slaves.
ReportHonest == HonestVerdict /\ RecordKept

-----------------------------------------------------------------------------
(* What a comment or a document says and the code does not have.           *)

\* harepl.go shard: "the repair keeps the next case honest".  Under reset=case
\* a case whose reset left nothing unsaid starts on a slave that holds nothing
\* once it has replayed what it is owed.
Owed(p) == FoldLeft(Replay, slave[p], lag[p])
StartsClean == \A p \in Shards : pc[p] = "read file" /\ ~noted[p] => Owed(p) = {}

\* harepl.go shard: an object left on a slave is put down to a case that ran.
BlamesWhoRan == \A entry \in stranded : ~DoneWith(entry.case)

\* case.go: a difference is one replication was waited for.
DiffersAfterWait ==
    [][\A p \in Shards : pc[p] = "read" /\ res'[p] = "differ" => Level(p)]_vars
=============================================================================
