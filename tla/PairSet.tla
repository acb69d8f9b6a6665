-------------------------------- MODULE PairSet -------------------------------
(***************************************************************************)
(* The set of pairs an HA replication run asks for by name and size        *)
(* (hareplsuite/harepl.go, sandbox/lifecycle.go): found or refused, built, *)
(* destroyed and built again, and taken down by the run that made it.      *)
(*                                                                         *)
(* Runs follow each other on one conf; the operator acts between them.  A  *)
(* call of csb may fail, and a create that fails may have stood its pair   *)
(* up all the same.  A destroyed cluster keeps its describe artifact, and  *)
(* with it its name and its label.                                         *)
(***************************************************************************)
EXTENDS Integers, FiniteSets, FiniteSetsExt

CONSTANTS
    Sizes,   \* the sizes a conf may ask for
    Runs,    \* how many runs there are
    Trouble  \* how many calls, signals and visits of the operator go wrong

\* Pair n of the set is PairName(set, n).
Pair == 1..Max(Sizes)
Nobody == 0

\* A conf asks for some number of pairs, and one of the sizes is the largest.
PairGiven ==
    /\ Sizes \subseteq Nat
    /\ \E most \in Sizes : \A size \in Sizes : size <= most

VARIABLES
    csb,     \* [Pair -> [state, up, label]]: what cluster ls has of each
    run,     \* the run going on, or the last one
    last,    \* how the run before it ended, and on which conf
    trouble

pairVars == <<csb, run, last, trouble>>

Absent == [state |-> FALSE, up |-> FALSE, label |-> Nobody]
NoRun == [id |-> 0, at |-> "ended", want |-> 0, reuse |-> FALSE, rebuild |-> FALSE,
          cut |-> FALSE, todo |-> {}, stuck |-> FALSE, made |-> {}, names |-> {},
          unheard |-> FALSE, end |-> "none"]

PairInit ==
    /\ csb = [n \in Pair |-> Absent]
    /\ run = NoRun
    /\ last = [want |-> 0, end |-> "none"]
    /\ trouble = Trouble

-----------------------------------------------------------------------------
(* csb, as the code uses it. *)

Labelled(r) == {n \in Pair : csb[n].label = r}
MembersOf == {n \in Pair : csb[n].state}
DownAmong(names) == {n \in names : ~ csb[n].up}
Downed(names) == [n \in Pair |-> IF n \in names THEN [csb[n] EXCEPT !.up = FALSE] ELSE csb[n]]
Created(n) == [csb EXCEPT ![n] = [state |-> TRUE, up |-> TRUE, label |-> run.id]]

\* A call fails of itself while there is trouble left, and always once the
\* run's context is gone.
Fails == (trouble > 0 \/ run.cut) /\ trouble' = IF run.cut THEN trouble ELSE trouble - 1
Works == ~ run.cut /\ trouble' = trouble

-----------------------------------------------------------------------------
(* The operator, between runs. *)

\* Another run of the conf, which may have been edited since.
Start ==
    /\ run.at = "ended" /\ run.id < Runs
    /\ \E want \in Sizes, reuse \in BOOLEAN, rebuild \in BOOLEAN :
          run' = [NoRun EXCEPT !.id = run.id + 1, !.at = "resolve", !.want = want,
                               !.reuse = reuse, !.rebuild = rebuild]
    /\ last' = [want |-> run.want, end |-> run.end]
    /\ UNCHANGED <<csb, trouble>>

\* A pair stood up or taken down by hand.
ByHand ==
    /\ run.at = "ended" /\ trouble > 0
    /\ \E n \in Pair :
          csb' = IF csb[n].up THEN Downed({n})
                 ELSE [csb EXCEPT ![n] = [state |-> TRUE, up |-> TRUE, label |-> Nobody]]
    /\ trouble' = trouble - 1
    /\ run' = [run EXCEPT !.end = "touched"]
    /\ UNCHANGED last

-----------------------------------------------------------------------------
(* resolveSet. *)

Refuse(r) == r' = [run EXCEPT !.at = "ended", !.end = "refused"]

\* The set is there and runs; it is not there; it is not as the conf has it,
\* and goes only if the environment says so.
resolveSet ==
    LET have == MembersOf
        down == DownAmong(have)
        asked == Cardinality(have) = run.want /\ down = {}
    IN  /\ run.at = "resolve"
        /\ \/ /\ Fails /\ Refuse(run)
           \/ /\ Works
              /\ \/ /\ asked
                    /\ run' = [run EXCEPT !.at = "use", !.names = have]
                 \/ /\ have = {}
                    /\ run' = [run EXCEPT !.at = "create", !.todo = 1..run.want]
                 \/ /\ ~ asked /\ have # {} /\ ~ run.rebuild
                    /\ Refuse(run)
                 \/ /\ ~ asked /\ have # {} /\ run.rebuild
                    /\ run' = [run EXCEPT !.at = "destroy", !.todo = have]
        /\ UNCHANGED <<csb, last>>

\* The existing set goes first, each pair by its name, and all of them are
\* tried: one that would not go stops the rebuild.
DestroyNamed_F ==
    /\ run.at = "destroy"
    /\ IF run.todo # {}
       THEN LET n == Min(run.todo)
            IN  \/ /\ Works /\ csb' = Downed({n})
                   /\ run' = [run EXCEPT !.todo = @ \ {n}]
                \/ /\ Fails /\ run' = [run EXCEPT !.todo = @ \ {n}]
                   /\ UNCHANGED csb
       ELSE /\ run' = [run EXCEPT !.at = "create", !.todo = 1..run.want]
            /\ UNCHANGED <<csb, trouble>>
    /\ UNCHANGED last
DestroyNamed ==
    /\ run.at = "destroy"
    /\ \/ LET n == Min(run.todo)
          IN  /\ run.todo # {}
              /\ \/ /\ Works /\ csb' = Downed({n})
                    /\ run' = [run EXCEPT !.todo = @ \ {n}]
                 \/ /\ Fails /\ run' = [run EXCEPT !.todo = @ \ {n}, !.stuck = TRUE]
                    /\ UNCHANGED csb
       \/ /\ run.todo = {}
          /\ IF run.stuck THEN Refuse(run)
             ELSE run' = [run EXCEPT !.at = "create", !.todo = 1..run.want]
          /\ UNCHANGED <<csb, trouble>>
    /\ UNCHANGED last

\* One pair after the other, each claimed by its label.  The pairs made so far
\* are taken back when one cannot be: none were, if it is the first.
standUpPairs ==
    /\ run.at = "create"
    /\ \/ LET n == Min(run.todo)
          IN  /\ run.todo # {}
              /\ \/ /\ Works /\ csb' = Created(n)
                    /\ run' = [run EXCEPT !.todo = @ \ {n}, !.made = @ \cup {n}]
                 \/ /\ Fails
                    /\ \E heard \in BOOLEAN :
                          /\ csb' = IF heard THEN csb ELSE Created(n)
                          /\ run' = [run EXCEPT !.at = "down", !.end = "refused",
                                                !.unheard = ~ heard /\ run.made = {}]
       \/ /\ run.todo = {}
          /\ run' = [run EXCEPT !.at = "use", !.names = run.made]
          /\ UNCHANGED <<csb, trouble>>
    /\ UNCHANGED last

-----------------------------------------------------------------------------
(* The run on its pairs, and their end. *)

\* Every pair answers and describes itself, and the cases are run; or the run
\* stops at the first that does not.  A set this run did not make, or was told
\* to keep, stays.
Use ==
    /\ run.at = "use"
    /\ \/ Works /\ run' = [run EXCEPT !.at = IF run.made = {} \/ run.reuse THEN "ended" ELSE "down",
                                      !.end = "ran"]
       \/ Fails /\ run' = [run EXCEPT !.at = IF run.made = {} \/ run.reuse THEN "ended" ELSE "down",
                                      !.end = "refused"]
    /\ UNCHANGED <<csb, last>>

\* By the label this run wrote, outside its context.  A failure is only said.
tearDownPairs_F ==
    /\ run.at = "down"
    /\ run' = [run EXCEPT !.at = "ended"]
    /\ csb' = Downed(IF run.made = {} THEN {} ELSE Pair)
    /\ UNCHANGED <<last, trouble>>
tearDownPairs ==
    /\ run.at = "down"
    /\ \/ /\ run.made = {}
          /\ run' = [run EXCEPT !.at = "ended"]
          /\ UNCHANGED <<csb, trouble>>
       \/ /\ run.made # {}
          /\ run' = [run EXCEPT !.at = "ended"]
          /\ csb' = Downed(Labelled(run.id)) /\ trouble' = trouble
       \/ /\ run.made # {} /\ trouble > 0
          /\ run' = [run EXCEPT !.at = "ended", !.stuck = TRUE]
          /\ \E some \in SUBSET Labelled(run.id) : csb' = Downed(some)
          /\ trouble' = trouble - 1
    /\ UNCHANGED last

\* The run's context is cancelled, or its process is killed.
Cancel ==
    /\ run.at # "ended" /\ ~ run.cut /\ trouble > 0
    /\ run' = [run EXCEPT !.cut = TRUE]
    /\ trouble' = trouble - 1
    /\ UNCHANGED <<csb, last>>

Die ==
    /\ run.at # "ended" /\ trouble > 0
    /\ run' = [run EXCEPT !.at = "ended", !.end = "killed"]
    /\ trouble' = trouble - 1
    /\ UNCHANGED <<csb, last>>

RunStep == resolveSet \/ DestroyNamed \/ standUpPairs \/ Use \/ tearDownPairs
PairNext == Start \/ ByHand \/ RunStep \/ Cancel \/ Die
PairSpec == PairInit /\ [][PairNext]_pairVars

-----------------------------------------------------------------------------
(* What must hold. *)

\* A run is measured on the set it asked for: the size it asked for, every pair
\* up, and if it made the set, made all of it: nothing it built is a pair that
\* would not go down, and nothing of the old set stands beside it.
SetAsAsked ==
    run.at = "use" =>
      /\ Cardinality(run.names) = run.want
      /\ \A n \in run.names : csb[n].up
      /\ run.made # {} => /\ \A n \in run.names : csb[n].label = run.id
                          /\ \A n \in Pair : csb[n].up => n \in run.names

\* A run destroys what it created: it takes down a pair that is another's, or
\* nobody's, only when the environment asked it to build the set again.
DestroysItsOwn ==
    [][\A n \in Pair :
          (csb[n].up /\ ~ csb'[n].up /\ run.at # "ended" /\ ~ run.rebuild)
             => csb[n].label = run.id]_pairVars

\* A run that was not told to keep its set leaves no pair of its own standing,
\* whatever failed on the way and whenever it was cancelled; unless it was
\* killed, csb would not take them down, or the very first create was never
\* heard the end of.
LeavesNothing ==
    run.at = "ended" /\ run.end \in {"ran", "refused"} /\ ~ run.reuse /\ ~ run.stuck /\ ~ run.unheard =>
      \A n \in Pair : csb[n].up => csb[n].label # run.id

\* "The first run makes them; every run after it finds them and says so"
\* (harepl.go:793): the same conf, run again after a run that went well, is not
\* refused.
FoundAgain ==
    run.end = "refused" /\ trouble = Trouble => ~ (last.end = "ran" /\ last.want = run.want)
=============================================================================
