------------------------------ MODULE HaProofs ------------------------------
(***************************************************************************)
(* The HA replication suite in its parts: what a case starts from, the set *)
(* of pairs a run is on, and the commands that check the applier, for any  *)
(* cases, sizes, catalog, command lines and engines they are given.        *)
(***************************************************************************)
EXTENDS HaParts, FiniteSetTheorems, WellFoundedInduction, TLAPS

-----------------------------------------------------------------------------
(* The set of pairs.                                                       *)

Clusters == [Pair -> [state : BOOLEAN, up : BOOLEAN, label : Nat]]
OneRun ==
    [id : Nat, at : {"ended", "resolve", "destroy", "create", "use", "down"},
     want : Sizes \cup {0}, reuse : BOOLEAN, rebuild : BOOLEAN, cut : BOOLEAN,
     todo : SUBSET Pair, stuck : BOOLEAN, made : SUBSET Pair, names : SUBSET Pair,
     unheard : BOOLEAN, end : {"none", "ran", "refused", "touched", "killed"}]

PairTypes == csb \in Clusters /\ run \in OneRun

\* A label is of a run that was: a run going on is nobody, and before its first
\* create nothing is labelled with it.
LabelInv ==
    /\ \A k \in Pair : csb[k].up => csb[k].state
    /\ \A k \in Pair : csb[k].label <= run.id
    /\ run.at # "ended" => run.id # Nobody /\ run.want \in Sizes
    /\ run.at \in {"resolve", "destroy", "create", "use"} => ~run.unheard
    /\ run.at \in {"resolve", "destroy"} => run.made = {}
    /\ run.at # "ended" /\ run.made = {} /\ ~run.unheard =>
          \A k \in Pair : csb[k].label # run.id

\* What stands while a set is taken down is what is still to go, or would not;
\* and while one is built, what is built so far.
BuildInv ==
    /\ run.at = "destroy" => run.rebuild
    /\ run.at = "destroy" /\ ~run.stuck => \A k \in Pair : csb[k].up => k \in run.todo
    /\ run.at = "create" =>
          /\ run.todo \cup run.made = 1..run.want
          /\ \A k \in run.made : csb[k].up /\ csb[k].label = run.id
          /\ \A k \in Pair : csb[k].up => k \in run.made

PairInv == PairTypes /\ LabelInv /\ BuildInv /\ SetAsAsked /\ LeavesNothing

\* The first of some pairs is one of them.
LEMMA FirstIn == ASSUME NEW T \in SUBSET Nat, T # {} PROVE Min(T) \in T
<1> DEFINE Below == OpToRel(<, Nat)
<1>1. IsWellFoundedOn(Below, Nat)
  BY NatLessThanWellFounded
<1>2. \A y, m \in Nat : y < m => <<y, m>> \in Below
  BY DEF OpToRel
<1> HIDE DEF Below
<1>3. PICK m \in T : \A y \in T : <<y, m>> \notin Below
  BY <1>1, WFMin
<1>4. ASSUME NEW y \in T PROVE m <= y
  <2>1. m \in Nat /\ y \in Nat
    OBVIOUS
  <2>2. ~(y < m)
    BY <1>2, <1>3, <2>1, Zenon
  <2> QED BY <2>1, <2>2
<1> QED BY <1>4 DEF Min

\* The pairs of a set of an admissible size are pairs.
LEMMA WantedArePairs ==
    ASSUME PairGiven, NEW w \in Sizes
    PROVE  /\ 1..w \subseteq Pair /\ Pair \subseteq Nat
           /\ Cardinality(1..w) = w
<1>1. Max(Sizes) \in Sizes /\ w <= Max(Sizes)
  BY DEF PairGiven, Max
<1>2. Cardinality(1..w) = w
  BY FS_Interval DEF PairGiven
<1>3. Sizes \subseteq Nat
  BY DEF PairGiven
<1>4. w \in Nat /\ Max(Sizes) \in Nat
  BY <1>1, <1>3
<1>5. 1..w \subseteq Pair
  BY <1>1, <1>4 DEF Pair
<1>6. Pair \subseteq Nat
  BY <1>4 DEF Pair
<1> QED BY <1>2, <1>5, <1>6

LEMMA PairBegins == ASSUME PairGiven, PairInit PROVE PairInv
<1> USE DEF PairInit, Absent, NoRun, Nobody
<1>1. PairTypes
  BY DEF PairTypes, OneRun, Clusters
<1>2. LabelInv /\ BuildInv /\ SetAsAsked /\ LeavesNothing
  BY DEF LabelInv, BuildInv, SetAsAsked, LeavesNothing
<1> QED BY <1>1, <1>2 DEF PairInv

\* A conf is run again: nothing is labelled with a run that was never before.
LEMMA StartsFresh == ASSUME PairGiven, PairInv, Start PROVE PairInv'
<1> USE DEF PairInv
<1>1. PICK want \in Sizes, reuse \in BOOLEAN, rebuild \in BOOLEAN :
        run' = [NoRun EXCEPT !.id = run.id + 1, !.at = "resolve", !.want = want,
                             !.reuse = reuse, !.rebuild = rebuild]
  BY DEF Start
<1>2. run' = [id |-> run.id + 1, at |-> "resolve", want |-> want, reuse |-> reuse,
              rebuild |-> rebuild, cut |-> FALSE, todo |-> {}, stuck |-> FALSE,
              made |-> {}, names |-> {}, unheard |-> FALSE, end |-> "none"]
  BY <1>1 DEF NoRun
<1>3. csb' = csb /\ run.id \in Nat
  BY DEF Start, PairTypes, OneRun
<1> HIDE <1>1
<1>4. PairTypes'
  BY <1>2, <1>3 DEF PairTypes, OneRun, Clusters
<1>5. LabelInv' /\ BuildInv' /\ SetAsAsked' /\ LeavesNothing'
  BY <1>2, <1>3 DEF PairTypes, OneRun, Clusters, LabelInv, BuildInv, SetAsAsked,
       LeavesNothing, Nobody
<1> QED BY <1>4, <1>5

\* The operator's own pairs are nobody's.
LEMMA OperatorsPairs == ASSUME PairGiven, PairInv, ByHand PROVE PairInv'
<1> USE DEF PairInv
<1>1. PICK k \in Pair :
          csb' = IF csb[k].up THEN Downed({k})
                 ELSE [csb EXCEPT ![k] = [state |-> TRUE, up |-> TRUE, label |-> Nobody]]
  BY DEF ByHand
<1>2. run' = [run EXCEPT !.end = "touched"] /\ run.at = "ended"
  BY DEF ByHand
<1>3. /\ run' \in OneRun
      /\ run'.at = "ended" /\ run'.id = run.id /\ run'.end = "touched"
  BY <1>2 DEF PairTypes, OneRun, Clusters
<1>4. csb' \in Clusters
  BY <1>1 DEF PairTypes, OneRun, Clusters, Downed, Nobody
<1>5. \A m \in Pair : (csb'[m].up => csb'[m].state) /\ csb'[m].label <= run.id
  BY <1>1 DEF PairTypes, OneRun, Clusters, LabelInv, Downed, Nobody
<1>6. PairTypes'
  BY <1>3, <1>4 DEF PairTypes, OneRun, Clusters
<1>7. LabelInv' /\ BuildInv' /\ SetAsAsked' /\ LeavesNothing'
  BY <1>3, <1>5 DEF LabelInv, BuildInv, SetAsAsked, LeavesNothing
<1> QED BY <1>6, <1>7

\* What a run finds of its set: the set it asked for, none, or another, which is
\* refused or goes first.
LEMMA SetResolved == ASSUME PairGiven, PairInv, resolveSet PROVE PairInv'
<1> USE DEF PairInv
<1>1. /\ csb' = csb /\ run.at = "resolve" /\ run.want \in Sizes /\ run.id # Nobody
      /\ csb \in Clusters /\ run \in OneRun
  BY DEF resolveSet, LabelInv, PairTypes
<1>2. CASE run' = [run EXCEPT !.at = "ended", !.end = "refused"]
  <2>1. run' \in OneRun
    BY <1>1, <1>2 DEF OneRun
  <2>2. run'.at = "ended" /\ run'.id = run.id /\ run'.made = run.made
        /\ run'.unheard = run.unheard
    BY <1>1, <1>2 DEF OneRun
  <2>3. PairTypes' /\ LabelInv' /\ BuildInv' /\ SetAsAsked' /\ LeavesNothing'
    BY <1>1, <2>1, <2>2 DEF PairTypes, LabelInv, BuildInv, SetAsAsked, LeavesNothing
  <2> QED BY <2>3
<1>3. CASE /\ Cardinality(MembersOf) = run.want /\ DownAmong(MembersOf) = {}
           /\ run' = [run EXCEPT !.at = "use", !.names = MembersOf]
  <2>1. run' \in OneRun
    BY <1>1, <1>3 DEF OneRun, MembersOf
  <2>2. /\ run'.at = "use" /\ run'.names = MembersOf
        /\ run'.id = run.id /\ run'.want = run.want
        /\ run'.made = run.made /\ run'.unheard = run.unheard
    BY <1>1, <1>3 DEF OneRun
  <2>3. PairTypes' /\ LabelInv' /\ BuildInv' /\ LeavesNothing'
    BY <1>1, <2>1, <2>2 DEF PairTypes, LabelInv, BuildInv, LeavesNothing
  <2>4. SetAsAsked'
    BY <1>1, <1>3, <2>2 DEF SetAsAsked, LabelInv, MembersOf, DownAmong
  <2> QED BY <2>3, <2>4
<1>4. CASE MembersOf = {} /\ run' = [run EXCEPT !.at = "create", !.todo = 1..run.want]
  <2>1. run' \in OneRun
    BY <1>1, <1>4, WantedArePairs DEF OneRun
  <2>2. /\ run'.at = "create" /\ run'.todo = 1..run.want
        /\ run'.id = run.id /\ run'.want = run.want
        /\ run'.made = run.made /\ run'.unheard = run.unheard
    BY <1>1, <1>4 DEF OneRun
  <2>3. PairTypes' /\ LabelInv' /\ SetAsAsked' /\ LeavesNothing'
    BY <1>1, <2>1, <2>2 DEF PairTypes, LabelInv, SetAsAsked, LeavesNothing
  <2>4. BuildInv'
    BY <1>1, <1>4, <2>2 DEF BuildInv, LabelInv, MembersOf
  <2> QED BY <2>3, <2>4
<1>5. CASE run.rebuild /\ run' = [run EXCEPT !.at = "destroy", !.todo = MembersOf]
  <2>1. run' \in OneRun
    BY <1>1, <1>5 DEF OneRun, MembersOf
  <2>2. /\ run'.at = "destroy" /\ run'.todo = MembersOf /\ run'.rebuild
        /\ run'.id = run.id /\ run'.want = run.want
        /\ run'.made = run.made /\ run'.unheard = run.unheard
    BY <1>1, <1>5 DEF OneRun
  <2>3. PairTypes' /\ LabelInv' /\ SetAsAsked' /\ LeavesNothing'
    BY <1>1, <2>1, <2>2 DEF PairTypes, LabelInv, SetAsAsked, LeavesNothing
  <2>4. BuildInv'
    BY <1>1, <1>5, <2>2 DEF BuildInv, LabelInv, MembersOf
  <2> QED BY <2>3, <2>4
<1> QED BY <1>2, <1>3, <1>4, <1>5 DEF resolveSet, Refuse

\* A set goes pair by pair, and what would not go is remembered.
LEMMA SetDestroyed == ASSUME PairGiven, PairInv, DestroyNamed PROVE PairInv'
<1> USE DEF PairInv
<1>1. /\ run.at = "destroy" /\ run.want \in Sizes /\ run.id # Nobody /\ run.rebuild
      /\ csb \in Clusters /\ run \in OneRun
  BY DEF DestroyNamed, LabelInv, BuildInv, PairTypes
<1>2. ASSUME NEW k \in run.todo, csb' = Downed({k}), run' = [run EXCEPT !.todo = @ \ {k}]
      PROVE  PairInv'
  <2>1. csb' \in Clusters
    BY <1>1, <1>2 DEF Clusters, Downed
  <2>2. run' \in OneRun
    BY <1>1, <1>2 DEF OneRun
  <2>3. /\ run'.at = "destroy" /\ run'.todo = run.todo \ {k} /\ run'.rebuild
        /\ run'.id = run.id /\ run'.want = run.want /\ run'.stuck = run.stuck
        /\ run'.made = run.made /\ run'.unheard = run.unheard
    BY <1>1, <1>2 DEF OneRun
  <2>4. \A m \in Pair : /\ csb'[m].state = csb[m].state /\ csb'[m].label = csb[m].label
                        /\ csb'[m].up <=> (csb[m].up /\ m # k)
    BY <1>1, <1>2 DEF Clusters, Downed
  <2>5. PairTypes' /\ LabelInv' /\ SetAsAsked' /\ LeavesNothing'
    BY <1>1, <2>1, <2>2, <2>3, <2>4 DEF PairTypes, LabelInv, SetAsAsked, LeavesNothing
  <2>6. BuildInv'
    BY <1>1, <2>3, <2>4 DEF BuildInv
  <2> QED BY <2>5, <2>6
<1>3. ASSUME NEW k \in run.todo, csb' = csb,
             run' = [run EXCEPT !.todo = @ \ {k}, !.stuck = TRUE]
      PROVE  PairInv'
  <2>1. run' \in OneRun
    BY <1>1, <1>3 DEF OneRun
  <2>2. /\ run'.at = "destroy" /\ run'.rebuild /\ run'.stuck
        /\ run'.id = run.id /\ run'.want = run.want
        /\ run'.made = run.made /\ run'.unheard = run.unheard
    BY <1>1, <1>3 DEF OneRun
  <2> QED BY <1>1, <1>3, <2>1, <2>2
          DEF PairTypes, LabelInv, BuildInv, SetAsAsked, LeavesNothing
<1>4. CASE csb' = csb /\ run' = [run EXCEPT !.at = "ended", !.end = "refused"]
  <2>1. run' \in OneRun
    BY <1>1, <1>4 DEF OneRun
  <2>2. run'.at = "ended" /\ run'.id = run.id /\ run'.made = run.made
        /\ run'.unheard = run.unheard
    BY <1>1, <1>4 DEF OneRun
  <2>3. PairTypes' /\ LabelInv' /\ BuildInv' /\ SetAsAsked' /\ LeavesNothing'
    BY <1>1, <1>4, <2>1, <2>2 DEF PairTypes, LabelInv, BuildInv, SetAsAsked, LeavesNothing
  <2> QED BY <2>3
<1>5. CASE /\ csb' = csb /\ run.todo = {} /\ ~run.stuck
           /\ run' = [run EXCEPT !.at = "create", !.todo = 1..run.want]
  <2>1. run' \in OneRun
    BY <1>1, <1>5, WantedArePairs DEF OneRun
  <2>2. /\ run'.at = "create" /\ run'.todo = 1..run.want
        /\ run'.id = run.id /\ run'.want = run.want
        /\ run'.made = run.made /\ run'.unheard = run.unheard
    BY <1>1, <1>5 DEF OneRun
  <2>3. PairTypes' /\ LabelInv' /\ SetAsAsked' /\ LeavesNothing'
    BY <1>1, <1>5, <2>1, <2>2 DEF PairTypes, LabelInv, SetAsAsked, LeavesNothing
  <2>4. BuildInv'
    BY <1>1, <1>5, <2>2 DEF BuildInv, LabelInv
  <2> QED BY <2>3, <2>4
<1>6. run.todo # {} => Min(run.todo) \in run.todo
  BY <1>1, FirstIn, WantedArePairs DEF OneRun
<1> QED BY <1>2, <1>3, <1>4, <1>5, <1>6 DEF DestroyNamed, Refuse

\* A set is built pair by pair, each its own by its label; one that cannot be
\* ends the run, and its pair may stand all the same.
LEMMA SetStoodUp == ASSUME PairGiven, PairInv, standUpPairs PROVE PairInv'
<1> USE DEF PairInv
<1>1. /\ run.at = "create" /\ run.want \in Sizes /\ run.id # Nobody /\ ~run.unheard
      /\ csb \in Clusters /\ run \in OneRun
  BY DEF standUpPairs, LabelInv, PairTypes
<1>a. run.todo # {} => Min(run.todo) \in run.todo
  BY <1>1, FirstIn, WantedArePairs DEF OneRun
<1>b. ASSUME NEW k \in run.todo, csb' = Created(k)
      PROVE  /\ csb' \in Clusters /\ k \in Pair
             /\ csb'[k] = [state |-> TRUE, up |-> TRUE, label |-> run.id]
             /\ \A m \in Pair : m # k => csb'[m] = csb[m]
  BY <1>1, <1>b DEF Clusters, OneRun, Created
<1>2. ASSUME NEW k \in run.todo, csb' = Created(k),
             run' = [run EXCEPT !.todo = @ \ {k}, !.made = @ \cup {k}]
      PROVE  PairInv'
  <2>1. run' \in OneRun
    BY <1>1, <1>2 DEF OneRun
  <2>2. /\ run'.at = "create" /\ run'.todo = run.todo \ {k}
        /\ run'.made = run.made \cup {k}
        /\ run'.id = run.id /\ run'.want = run.want /\ run'.unheard = run.unheard
    BY <1>1, <1>2 DEF OneRun
  <2>3. PairTypes' /\ SetAsAsked' /\ LeavesNothing'
    BY <1>2, <1>b, <2>1, <2>2 DEF PairTypes, SetAsAsked, LeavesNothing
  <2>4. LabelInv'
    BY <1>1, <1>2, <1>b, <2>2 DEF LabelInv, OneRun
  <2>5. BuildInv'
    BY <1>1, <1>2, <1>b, <2>2 DEF BuildInv, OneRun
  <2> QED BY <2>3, <2>4, <2>5
<1>3. ASSUME NEW k \in run.todo, NEW heard \in BOOLEAN,
             csb' = IF heard THEN csb ELSE Created(k),
             run' = [run EXCEPT !.at = "down", !.end = "refused",
                                !.unheard = ~heard /\ run.made = {}]
      PROVE  PairInv'
  <2>1. run' \in OneRun
    BY <1>1, <1>3 DEF OneRun
  <2>2. /\ run'.at = "down" /\ run'.made = run.made
        /\ run'.id = run.id /\ run'.want = run.want
        /\ run'.unheard <=> (~heard /\ run.made = {})
    BY <1>1, <1>3 DEF OneRun
  <2>3. PairTypes' /\ BuildInv' /\ SetAsAsked' /\ LeavesNothing'
    BY <1>1, <1>3, <1>b, <2>1, <2>2 DEF PairTypes, BuildInv, SetAsAsked, LeavesNothing
  <2>4. LabelInv'
    BY <1>1, <1>3, <1>b, <2>2 DEF LabelInv, OneRun
  <2> QED BY <2>3, <2>4
<1>4. CASE run.todo = {} /\ csb' = csb /\ run' = [run EXCEPT !.at = "use",
        !.names = run.made]
  <2>1. run' \in OneRun
    BY <1>1, <1>4 DEF OneRun
  <2>2. /\ run'.at = "use" /\ run'.names = run.made /\ run'.made = run.made
        /\ run'.id = run.id /\ run'.want = run.want /\ run'.unheard = run.unheard
    BY <1>1, <1>4 DEF OneRun
  <2>3. PairTypes' /\ LabelInv' /\ BuildInv' /\ LeavesNothing'
    BY <1>1, <1>4, <2>1, <2>2 DEF PairTypes, LabelInv, BuildInv, LeavesNothing
  <2>4. SetAsAsked'
    BY <1>1, <1>4, <2>2, WantedArePairs DEF BuildInv, SetAsAsked
  <2> QED BY <2>3, <2>4
<1>5. CASE run.todo # {}
  <2> DEFINE k == Min(run.todo)
  <2>1. k \in run.todo
    BY <1>5, <1>a
  <2> HIDE DEF k
  <2>2. \/ csb' = Created(k) /\ run' = [run EXCEPT !.todo = @ \ {k}, !.made = @ \cup {k}]
        \/ \E heard \in BOOLEAN :
              /\ csb' = IF heard THEN csb ELSE Created(k)
              /\ run' = [run EXCEPT !.at = "down", !.end = "refused",
                                    !.unheard = ~heard /\ run.made = {}]
    BY <1>5 DEF standUpPairs, k
  <2> QED BY <1>2, <1>3, <2>1, <2>2
<1> QED BY <1>4, <1>5 DEF standUpPairs

\* The cases were run, or could not be: its own set goes unless it is to be kept.
LEMMA SetUsed == ASSUME PairGiven, PairInv, Use PROVE PairInv'
<1> USE DEF PairInv
<1>1. /\ csb' = csb /\ run.at = "use" /\ run.want \in Sizes /\ run.id # Nobody
      /\ ~run.unheard
      /\ csb \in Clusters /\ run \in OneRun
  BY DEF Use, LabelInv, PairTypes
<1>2. PICK e \in {"ran", "refused"} :
        run' = [run EXCEPT !.at = IF run.made = {} \/ run.reuse THEN "ended" ELSE "down",
                           !.end = e]
  BY DEF Use
<1>3. run' \in OneRun
  BY <1>1, <1>2 DEF OneRun
<1>4. /\ run'.at = IF run.made = {} \/ run.reuse THEN "ended" ELSE "down"
      /\ run'.id = run.id /\ run'.want = run.want /\ run'.unheard = run.unheard
      /\ run'.made = run.made /\ run'.reuse = run.reuse
  BY <1>1, <1>2 DEF OneRun
<1>5. PairTypes' /\ LabelInv' /\ BuildInv' /\ SetAsAsked' /\ LeavesNothing'
  BY <1>1, <1>3, <1>4 DEF PairTypes, LabelInv, BuildInv, SetAsAsked, LeavesNothing
<1> QED BY <1>5

\* A run takes down what carries its label, which is all it made, unless it made
\* none it heard of or csb would not.
LEMMA SetTakenDown == ASSUME PairGiven, PairInv, tearDownPairs PROVE PairInv'
<1> USE DEF PairInv
<1>1. /\ run.at = "down" /\ run.want \in Sizes /\ run.id # Nobody
      /\ csb \in Clusters /\ run \in OneRun
  BY DEF tearDownPairs, LabelInv, PairTypes
<1>2. ASSUME NEW gone \in SUBSET Labelled(run.id), csb' = Downed(gone)
      PROVE  /\ csb' \in Clusters
             /\ \A m \in Pair :
                   /\ csb'[m].state = csb[m].state
                   /\ csb'[m].label = csb[m].label
                   /\ csb'[m].up <=> (csb[m].up /\ m \notin gone)
  BY <1>1, <1>2 DEF Clusters, Downed, Labelled
<1>3. CASE /\ run' = [run EXCEPT !.at = "ended"]
           /\ (csb' = csb /\ run.made = {}) \/ csb' = Downed(Labelled(run.id))
  <2>1. run' \in OneRun
    BY <1>1, <1>3 DEF OneRun
  <2>2. /\ run'.at = "ended" /\ run'.id = run.id /\ run'.made = run.made
        /\ run'.unheard = run.unheard
    BY <1>1, <1>3 DEF OneRun
  <2>3. CASE csb' = csb /\ run.made = {}
    BY <1>1, <2>1, <2>2, <2>3 DEF PairTypes, LabelInv, BuildInv, SetAsAsked, LeavesNothing
  <2>4. CASE csb' = Downed(Labelled(run.id))
    BY <1>1, <1>2, <2>1, <2>2, <2>4
       DEF PairTypes, LabelInv, BuildInv, SetAsAsked, LeavesNothing, Labelled
  <2> QED BY <1>3, <2>3, <2>4
<1>4. CASE /\ run' = [run EXCEPT !.at = "ended", !.stuck = TRUE]
           /\ \E some \in SUBSET Labelled(run.id) : csb' = Downed(some)
  <2>1. run' \in OneRun
    BY <1>1, <1>4 DEF OneRun
  <2>2. /\ run'.at = "ended" /\ run'.id = run.id /\ run'.stuck
    BY <1>1, <1>4 DEF OneRun
  <2>3. /\ csb' \in Clusters
        /\ \A m \in Pair :
              /\ csb'[m].state = csb[m].state
              /\ csb'[m].label = csb[m].label
              /\ csb'[m].up => csb[m].up
    BY <1>2, <1>4
  <2>4. PairTypes' /\ LabelInv' /\ BuildInv' /\ SetAsAsked' /\ LeavesNothing'
    BY <1>1, <2>1, <2>2, <2>3 DEF PairTypes, LabelInv, BuildInv, SetAsAsked, LeavesNothing
  <2> QED BY <2>4
<1> QED BY <1>3, <1>4 DEF tearDownPairs

\* A run that is cancelled goes on; one that dies says nothing.
LEMMA RunCutShort ==
    ASSUME PairGiven, PairInv, Cancel \/ Die \/ UNCHANGED pairVars PROVE PairInv'
<1> USE DEF PairInv
<1>1. csb' = csb /\ csb \in Clusters /\ run \in OneRun
  BY DEF Cancel, Die, pairVars, PairTypes
<1>2. CASE run' = [run EXCEPT !.cut = TRUE] /\ run.at # "ended"
  <2>1. run' \in OneRun
    BY <1>1, <1>2 DEF OneRun
  <2>2. /\ run'.at = run.at /\ run'.id = run.id /\ run'.want = run.want
        /\ run'.made = run.made
        /\ run'.unheard = run.unheard /\ run'.rebuild = run.rebuild
        /\ run'.stuck = run.stuck /\ run'.todo = run.todo /\ run'.names = run.names
    BY <1>1, <1>2 DEF OneRun
  <2> QED BY <1>1, <1>2, <2>1, <2>2
          DEF PairTypes, LabelInv, BuildInv, SetAsAsked, LeavesNothing
<1>3. CASE run' = [run EXCEPT !.at = "ended", !.end = "killed"]
  <2>1. run' \in OneRun
    BY <1>1, <1>3 DEF OneRun
  <2>2. run'.at = "ended" /\ run'.id = run.id /\ run'.end = "killed"
    BY <1>1, <1>3 DEF OneRun
  <2> QED BY <1>1, <2>1, <2>2 DEF PairTypes, LabelInv, BuildInv, SetAsAsked, LeavesNothing
<1>4. CASE UNCHANGED pairVars
  BY <1>4 DEF pairVars, PairTypes, LabelInv, BuildInv, SetAsAsked, LeavesNothing
<1> QED BY <1>2, <1>3, <1>4 DEF Cancel, Die

LEMMA PairStep ==
    ASSUME PairGiven, PairInv, [PairNext]_pairVars PROVE PairInv'
  BY StartsFresh, OperatorsPairs, SetResolved, SetDestroyed, SetStoodUp, SetUsed,
     SetTakenDown, RunCutShort DEF PairNext, RunStep

\* What goes while a run is on is its own, or of the set it was told to replace.
LEMMA OwnPairsGo ==
    ASSUME PairInv, [PairNext]_pairVars, NEW k \in Pair, csb[k].up, ~csb'[k].up,
           run.at # "ended", ~run.rebuild
    PROVE  csb[k].label = run.id
<1>1. csb \in Clusters /\ run.at # "destroy"
  BY DEF PairInv, PairTypes, BuildInv
<1>2. csb' # csb
  OBVIOUS
<1>3. CASE standUpPairs
  <2>1. PICK m : csb' = Created(m)
    BY <1>2, <1>3 DEF standUpPairs
  <2> QED BY <1>1, <2>1 DEF Created, Clusters
<1>4. CASE tearDownPairs
  <2>1. PICK gone \in SUBSET Labelled(run.id) : csb' = Downed(gone)
    BY <1>2, <1>4 DEF tearDownPairs
  <2> QED BY <1>1, <2>1 DEF Downed, Clusters, Labelled
<1>5. ~Start /\ ~ByHand /\ ~DestroyNamed
  BY <1>1 DEF Start, ByHand, DestroyNamed
<1>6. ~resolveSet /\ ~Use /\ ~Cancel /\ ~Die /\ ~UNCHANGED pairVars
  BY <1>2 DEF resolveSet, Use, Cancel, Die, pairVars
<1> QED BY <1>3, <1>4, <1>5, <1>6 DEF PairNext, RunStep

-----------------------------------------------------------------------------
(* The check of the applier: what its variables are.                       *)

ThePatterns == Range(Catalog)
Faults == {"overtook", "differ", "stopped", "twice"}
PatternOutcome ==
    [pattern : ThePatterns, round : Nat, ahead : Nat, never : Nat, refused : Nat,
     stalled : BOOLEAN, final : {"same", "differ", "stalled"}, fail : BOOLEAN]
ClientsOutcome ==
    [hung : BOOLEAN, kills : Nat, down : BOOLEAN, err : BOOLEAN, stalled : BOOLEAN,
     backlog : Int]
LogCounts == [started : Nat, dup : Nat]
ARow ==
    [verdict : {"missed", "control-overtook", "control-did-not-overtake", "inconclusive",
                "held", "damaged", "stalled", "diverged", "hung", "same"},
     fault : SUBSET Faults, cut : Nat, backlog : Int]

AroundPC == {"ledger", "pair", "probe", "head", "close", "teardown", "drop", "exit"}
PatternPC == {"pre", "write", "look", "catchup", "final"}
ClientsPC == {"clients", "killclients", "join", "barrier", "compare"}

CommandTypes ==
    /\ opt \in Asked /\ opt.verb \in {"pairs", "stress", "restart"}
    /\ ints \in Nat /\ n \in Nat /\ watch \in {"off", "read", "on"}
    /\ code \in {0, 1, 130} /\ said \subseteq {"clients", "slave", "pair"}
    /\ ledger \in {"none", "old", "empty", "ours"}

EngineTypes ==
    /\ committed \in Nat /\ applied \in Nat /\ stored \in Nat
    /\ log \in LogCounts /\ log0 \in LogCounts /\ cut \in Nat
    /\ fault \subseteq Faults

\* A verb is where it may be, and kills come only beside the clients of restart.
PlaceInv ==
    /\ pc \in AroundPC \cup (IF opt.verb = "pairs" THEN PatternPC \cup {"pattern"}
                             ELSE ClientsPC \cup {"setup"})
    /\ pc = "probe" => opt.verb = "pairs"
    /\ loop \in {"off", "wait", "script", "kill", "start", "end"}
    /\ loop \in {"wait", "script", "kill", "start"} =>
          pc \in {"clients", "killclients", "join"} /\ opt.verb = "restart"

OutcomeInv ==
    /\ pc \in PatternPC => o \in PatternOutcome
    /\ pc \in ClientsPC => o \in ClientsOutcome

\* An interrupt is counted at most once; signals are default only from the
\* teardown on; and 130 is the code of what an interrupt ended.
SignalInv ==
    /\ n <= ints
    /\ dfl => pc \in {"teardown", "drop", "exit"}
    /\ code = 130 => pc = "exit" /\ (dfl \/ ints >= 2)

EndPC == {"close", "teardown", "drop", "exit"}

\* Clients that write, a slave that is down and a pair that stands are in hand or
\* have been said.
HostInv ==
    /\ clients => \/ pc \in {"clients", "killclients"}
                  \/ "clients" \in said /\ (pc \in EndPC \/ (pc = "join" /\ o.err))
    /\ ~slave \/ loop = "start" => opt.node
    /\ ~slave => \/ /\ pc \in {"clients", "killclients", "join"}
                    /\ loop = "start" \/ (loop = "end" /\ o.down)
                 \/ "slave" \in said /\ pc \in EndPC
    /\ pc = "ledger" => pair = ~opt.build
    /\ opt.build /\ ~opt.keep /\ pair /\ pc \in {"drop", "exit"} => "pair" \in said

\* The file is this run's own from its header on.
LedgerInv ==
    /\ opt.old => ledger \in {"old", "ours"}
    /\ pc = "ledger" => ledger \in {"none", "old"}
    /\ ledger = "empty" => pc \in {"pair", "probe", "head", "teardown", "drop"} \/ code = 130
    /\ pc \in PatternPC \cup ClientsPC \cup {"pattern", "setup", "close"} => ledger = "ours"
    /\ rows # <<>> => ledger = "ours"

\* The control was seen to go first.
Overtook(us) == \E i \in DOMAIN us : us[i].pattern = "ctl" /\ us[i].ahead > 0

\* The control is asked first and never again, and every row is the verdict its
\* outcome has by the control's.
PairsInv ==
    /\ rows \in Seq(ARow) /\ outs \in Seq(PatternOutcome)
    /\ opt.verb # "pairs" => outs = <<>>
    /\ opt.verb = "pairs" =>
          /\ pc \in {"ledger", "pair", "probe"} => pats = Select(opt.names) /\ outs = <<>>
          /\ pc \in PatternPC \cup {"head", "pattern"} =>
                /\ pats \in Seq(ThePatterns)
                /\ \A i \in DOMAIN pats : pats[i] \in Trailing => opt.trailing
                /\ \A i \in DOMAIN pats : pats[i] = "ctl" <=> (i = 1 /\ outs = <<>>)
          /\ pc \in PatternPC => pats # <<>> /\ o.pattern = pats[1]
          /\ Len(rows) = Len(outs)
          /\ \A i \in DOMAIN outs :
                /\ outs[i].pattern = "ctl" <=> i = 1
                /\ rows[i].verdict = Verdict(outs[i], Overtook(outs))

\* What is not applied stays so once the engine has stopped; and what was seen
\* ahead, of a pattern that holds anything back, had overtaken.
FaultInv ==
    /\ lag # {} => opt.verb = "pairs"
    /\ applied <= committed /\ (committed > 0 => opt.verb # "pairs")
    /\ "stopped" \in fault => lag # {} \/ applied < committed
    /\ pc \in PatternPC =>
          /\ o.final = "same" /\ ~o.stalled /\ ~o.fail
          /\ o.pattern # "ctl" /\ o.ahead > 0 => "overtook" \in fault
          /\ /\ pc = "look" /\ o.pattern # "ctl"
             /\ <<o.round, "T1">> \in lag /\ <<o.round, "T2">> \notin lag
             => "overtook" \in fault
    /\ pc = "compare" /\ ~o.stalled => applied = committed

\* The applier's log gained a line for every commit applied twice, less what a
\* rotation took.
LogInv ==
    /\ pc \in {"ledger", "pair", "probe", "head", "setup"} =>
          fault = {} /\ ~failed /\ cut = 0 /\ log = log0
    /\ opt.verb = "restart" =>
          /\ failed => "twice" \in fault
          /\ "twice" \notin fault => log.dup <= log0.dup
          /\ LET gained == log.dup + (IF cut = 0 THEN 0 ELSE cut - 1) - log0.dup
             IN  gained >= 0 /\ ("twice" \in fault => gained >= 1)

\* What VerdictsSound says of a row by itself.
RowSound(r) ==
    /\ r.verdict \in {"missed", "damaged", "diverged"} => r.fault # {}
    /\ r.verdict \in {"held", "same", "hung"} => "differ" \notin r.fault /\ "stopped" \notin r.fault
    /\ r.verdict = "held" /\ opt.verb = "restart" =>
          r.backlog > 0 /\ ("twice" \in r.fault => r.cut > 1)
RowsInv == \A i \in DOMAIN rows : RowSound(rows[i])

ApplyInv ==
    /\ CommandTypes /\ EngineTypes /\ PlaceInv /\ OutcomeInv /\ SignalInv /\ HostInv
    /\ LedgerInv /\ PairsInv /\ FaultInv /\ LogInv /\ RowsInv

LEMMA AskedOf ==
    ASSUME ApplyGiven, NEW p \in Asked
    PROVE  /\ p.verb \in {"pairs", "stress", "restart"} /\ p.names \in Named
           /\ p.build \in BOOLEAN /\ p.keep \in BOOLEAN /\ p.node \in BOOLEAN
           /\ p.old \in BOOLEAN /\ p.table \in BOOLEAN /\ p.trailing \in BOOLEAN
           /\ p.only \in BOOLEAN /\ (p.verb # "restart" => ~p.node)
  BY DEF ApplyGiven, Asked, Opts

-----------------------------------------------------------------------------
(* What happens to an outcome under way.                                   *)

LEMMA PatternMoves ==
    ASSUME NEW u \in PatternOutcome
    PROVE  /\ [u EXCEPT !.refused = @ + 1] \in PatternOutcome
           /\ [u EXCEPT !.never = @ + 1] \in PatternOutcome
           /\ [u EXCEPT !.ahead = @ + 1] \in PatternOutcome
           /\ NextRound(u) \in PatternOutcome
           /\ NextRound([u EXCEPT !.refused = @ + 1]) \in PatternOutcome
<1>1. \A w \in PatternOutcome : /\ [w EXCEPT !.refused = @ + 1] \in PatternOutcome
                               /\ [w EXCEPT !.round = @ + 1] \in PatternOutcome
  BY DEF PatternOutcome
<1>2. [u EXCEPT !.never = @ + 1] \in PatternOutcome
  BY DEF PatternOutcome
<1>3. [u EXCEPT !.ahead = @ + 1] \in PatternOutcome
  BY DEF PatternOutcome
<1>4. \A w \in PatternOutcome : NextRound(w) \in PatternOutcome
  BY <1>1 DEF NextRound
<1> QED BY <1>1, <1>2, <1>3, <1>4

\* What was seen ahead stays so, and no round changes the pattern or its end.
SameButCounts(u, w) ==
    w.pattern = u.pattern /\ w.ahead = u.ahead /\ w.final = u.final
    /\ w.stalled = u.stalled /\ w.fail = u.fail

LEMMA PatternKeeps ==
    ASSUME NEW u \in PatternOutcome
    PROVE  /\ SameButCounts(u, [u EXCEPT !.refused = @ + 1])
           /\ SameButCounts(u, [u EXCEPT !.never = @ + 1])
           /\ SameButCounts(u, NextRound(u))
           /\ SameButCounts(u, NextRound([u EXCEPT !.refused = @ + 1]))
           /\ [u EXCEPT !.refused = @ + 1].round = u.round
  BY DEF PatternOutcome, NextRound, SameButCounts

LEMMA ClientsMoves ==
    ASSUME NEW u \in ClientsOutcome
    PROVE  /\ \A h, e \in BOOLEAN : [u EXCEPT !.hung = h, !.err = e] \in ClientsOutcome
           /\ [u EXCEPT !.err = TRUE] \in ClientsOutcome
           /\ [u EXCEPT !.down = TRUE] \in ClientsOutcome
           /\ [u EXCEPT !.stalled = TRUE] \in ClientsOutcome
           /\ \A b \in Int : [u EXCEPT !.kills = @ + 1, !.backlog = b] \in ClientsOutcome
<1> USE DEF ClientsOutcome
<1>1. ASSUME NEW h \in BOOLEAN, NEW e \in BOOLEAN
      PROVE  [u EXCEPT !.hung = h, !.err = e] \in ClientsOutcome
  OBVIOUS
<1>2. [u EXCEPT !.err = TRUE] \in ClientsOutcome
  OBVIOUS
<1>3. [u EXCEPT !.down = TRUE] \in ClientsOutcome
  OBVIOUS
<1>4. [u EXCEPT !.stalled = TRUE] \in ClientsOutcome
  OBVIOUS
<1>5. ASSUME NEW b \in Int PROVE [u EXCEPT !.kills = @ + 1, !.backlog = b] \in ClientsOutcome
  <2>1. u.kills + 1 \in Nat
    OBVIOUS
  <2>2. [u EXCEPT !.kills = u.kills + 1] \in ClientsOutcome
    BY <2>1
  <2>3. [u EXCEPT !.kills = @ + 1, !.backlog = b]
           = [[u EXCEPT !.kills = u.kills + 1] EXCEPT !.backlog = b]
    OBVIOUS
  <2> QED BY <2>2, <2>3
<1> HIDE DEF ClientsOutcome
<1> QED BY <1>1, <1>2, <1>3, <1>4, <1>5

LEMMA OutcomeBegins ==
    ASSUME CommandTypes
    PROVE  StartOutcome \in ClientsOutcome /\ \A p \in ThePatterns : NewOutcome(p) \in PatternOutcome
<1>1. StartOutcome \in ClientsOutcome
  BY DEF StartOutcome, ClientsOutcome
<1>2. \A p \in ThePatterns : NewOutcome(p) \in PatternOutcome
  BY DEF NewOutcome, PatternOutcome
<1> QED BY <1>1, <1>2

LEMMA ControlFirst ==
    ASSUME PairsInv, opt.verb = "pairs", pc \in PatternPC \cup {"pattern"}, pats # <<>>
    PROVE  pats \in Seq(ThePatterns) /\ pats[1] \in ThePatterns /\ 1 \in DOMAIN pats
  BY DEF PairsInv


LEMMA KilledIs ==
    ASSUME o \in ClientsOutcome PROVE Killed \in ClientsOutcome /\ Killed.down = o.down /\ Killed.err = o.err
<1>1. (IF o.backlog >= 0 /\ markers > 0 THEN o.backlog + 1 ELSE o.backlog) \in Int
  BY DEF ClientsOutcome
<1>2. \A b \in Int : /\ [o EXCEPT !.kills = @ + 1, !.backlog = b] \in ClientsOutcome
                     /\ [o EXCEPT !.kills = @ + 1, !.backlog = b].down = o.down
                     /\ [o EXCEPT !.kills = @ + 1, !.backlog = b].err = o.err
  BY ClientsMoves DEF ClientsOutcome
<1>3. Killed = [o EXCEPT !.kills = @ + 1,
                         !.backlog = IF o.backlog >= 0 /\ markers > 0 THEN o.backlog + 1 ELSE o.backlog]
  BY DEF Killed, ClientsOutcome
<1> QED BY <1>1, <1>2, <1>3

LEMMA ClientsKeep ==
    ASSUME NEW u \in ClientsOutcome
    PROVE  /\ \A h, e \in BOOLEAN : [u EXCEPT !.hung = h, !.err = e].down = u.down
           /\ [u EXCEPT !.err = TRUE].down = u.down /\ [u EXCEPT !.err = TRUE].err
           /\ [u EXCEPT !.down = TRUE].down /\ [u EXCEPT !.down = TRUE].err = u.err
           /\ [u EXCEPT !.stalled = TRUE].err = u.err /\ [u EXCEPT !.stalled = TRUE].stalled
  BY DEF ClientsOutcome

\* The verdict of one outcome, where b says that the control overtook.
LEMMA VerdictIs ==
    ASSUME NEW u \in PatternOutcome, NEW b \in BOOLEAN
    PROVE  /\ Verdict(u, b) \in {"missed", "control-overtook", "control-did-not-overtake",
                                 "inconclusive", "held"}
           /\ Verdict(u, b) = "missed" => Broken(u) \/ (u.pattern # "ctl" /\ u.ahead > 0)
           /\ Verdict(u, b) = "held" => u.pattern # "ctl" /\ ~Broken(u) /\ b
<1>1. CASE u.pattern = "ctl" /\ Broken(u)
  BY <1>1 DEF Verdict
<1>2. CASE u.pattern = "ctl" /\ ~Broken(u)
  BY <1>2 DEF Verdict
<1>3. CASE u.pattern # "ctl" /\ (Broken(u) \/ u.ahead > 0)
  BY <1>3 DEF Verdict
<1>4. CASE u.pattern # "ctl" /\ ~(Broken(u) \/ u.ahead > 0)
  BY <1>4 DEF Verdict
<1> QED BY <1>1, <1>2, <1>3, <1>4

\* Judge looks for the control over all the outcomes.
LEMMA JudgedBy ==
    ASSUME NEW us \in Seq(PatternOutcome), us # <<>>
    PROVE  /\ Judge(us) = [i \in DOMAIN us |-> Verdict(us[i], Overtook(us))]
           /\ Last(Judge(us)) = Verdict(us[Len(us)], Overtook(us))
<1>1. 1 \in DOMAIN us /\ Len(us) \in Nat /\ Len(us) \in DOMAIN us /\ DOMAIN us = 1..Len(us)
  OBVIOUS
<1>2. Judge(us) = [i \in DOMAIN us |-> Verdict(us[i], Overtook(us))]
  BY DEF Judge, Overtook
<1>3. Len(Judge(us)) = Len(us)
  <2>1. DOMAIN Judge(us) = 1..Len(us)
    BY <1>1, <1>2
  <2> QED BY <1>1, <2>1
<1>4. Judge(us)[Len(us)] = Verdict(us[Len(us)], Overtook(us))
  BY <1>1, <1>2
<1> QED BY <1>2, <1>3, <1>4 DEF Last

\* The pattern under way is the first that is left.
LEMMA AskedNow ==
    ASSUME PairsInv, opt.verb = "pairs", pc \in PatternPC
    PROVE  /\ pats \in Seq(ThePatterns) /\ pats # <<>> /\ o.pattern = pats[1]
           /\ \A i \in DOMAIN pats : pats[i] \in Trailing => opt.trailing
           /\ \A i \in DOMAIN pats : pats[i] = "ctl" <=> (i = 1 /\ outs = <<>>)
  BY DEF PairsInv

\* A step that adds no row.
LEMMA PairsStay ==
    ASSUME PairsInv, UNCHANGED <<opt, rows, outs, pats>>,
           opt.verb = "pairs" =>
              /\ pc' \in {"ledger", "pair", "probe"} => pc \in {"ledger", "pair", "probe"}
              /\ pc' \in PatternPC \cup {"head", "pattern"} =>
                    pc \in PatternPC \cup {"head", "pattern"}
              /\ pc' \in PatternPC => pats # <<>> /\ o'.pattern = pats[1]
    PROVE  PairsInv'
  BY DEF PairsInv

\* A pattern's row.
LEMMA RowIs ==
    ASSUME PairsInv, EngineTypes, opt.verb = "pairs", pc \in PatternPC,
           NEW u \in PatternOutcome, u.pattern = o.pattern, Row(u),
           opt' = opt, pc' \in {"pattern", "close"}
    PROVE  /\ PairsInv'
           /\ \E b \in BOOLEAN :
                 rows' = Append(rows, [verdict |-> Verdict(u, b), fault |-> fault, cut |-> 0,
                                       backlog |-> 0])
<1>1. /\ outs' = Append(outs, u) /\ pats' = Tail(pats)
      /\ rows' = Append(rows, [verdict |-> Last(Judge(outs')), fault |-> fault, cut |-> 0,
                               backlog |-> 0])
  BY DEF Row
<1>2. /\ rows \in Seq(ARow) /\ outs \in Seq(PatternOutcome) /\ Len(rows) = Len(outs)
      /\ \A i \in DOMAIN outs :
            /\ outs[i].pattern = "ctl" <=> i = 1
            /\ rows[i].verdict = Verdict(outs[i], Overtook(outs))
  BY DEF PairsInv
<1>3. /\ pats \in Seq(ThePatterns) /\ pats # <<>> /\ o.pattern = pats[1]
      /\ \A i \in DOMAIN pats : pats[i] \in Trailing => opt.trailing
      /\ \A i \in DOMAIN pats : pats[i] = "ctl" <=> (i = 1 /\ outs = <<>>)
  BY AskedNow
<1>4. /\ outs' \in Seq(PatternOutcome) /\ Len(outs') = Len(outs) + 1 /\ outs'[Len(outs')] = u
      /\ \A i \in DOMAIN outs : outs'[i] = outs[i]
      /\ DOMAIN outs = 1..Len(outs) /\ DOMAIN outs' = 1..Len(outs') /\ Len(outs) \in Nat
  BY <1>1, <1>2
<1>5. u.pattern = "ctl" <=> outs = <<>>
  BY <1>3
<1>6. \A i \in DOMAIN outs' : outs'[i].pattern = "ctl" <=> i = 1
  BY <1>2, <1>4, <1>5
<1>7. Last(Judge(outs')) = Verdict(u, Overtook(outs'))
  <2>1. outs' # <<>>
    BY <1>4
  <2> QED BY <1>4, <2>1, JudgedBy
<1> DEFINE b == Overtook(outs')
<1>8. b \in BOOLEAN
  BY DEF Overtook
<1>9. rows' = Append(rows, [verdict |-> Verdict(u, b), fault |-> fault, cut |-> 0,
                            backlog |-> 0])
  BY <1>1, <1>7
<1>10. [verdict |-> Verdict(u, b), fault |-> fault, cut |-> 0, backlog |-> 0] \in ARow
  <2>1. Verdict(u, b) \in {"missed", "control-overtook", "control-did-not-overtake",
                           "inconclusive", "held"}
    BY <1>8, VerdictIs
  <2> HIDE DEF b
  <2> QED BY <2>1 DEF ARow, EngineTypes
<1>11. /\ rows' \in Seq(ARow) /\ Len(rows') = Len(rows) + 1
       /\ rows'[Len(rows')].verdict = Verdict(u, b)
       /\ \A i \in DOMAIN outs : rows'[i] = rows[i]
  BY <1>2, <1>4, <1>9, <1>10
<1>12. \A i \in DOMAIN outs' : rows'[i].verdict = Verdict(outs'[i], Overtook(outs'))
  <2> SUFFICES ASSUME NEW i \in DOMAIN outs'
               PROVE  rows'[i].verdict = Verdict(outs'[i], Overtook(outs'))
    OBVIOUS
  <2>1. CASE i \in DOMAIN outs
    <3>1. outs # <<>> /\ u.pattern # "ctl"
      BY <2>1, <1>4, <1>5
    <3>2. Overtook(outs') <=> Overtook(outs)
      BY <1>4, <3>1 DEF Overtook
    <3>3. Overtook(outs') = Overtook(outs)
      BY <3>2 DEF Overtook
    <3> QED BY <1>2, <1>4, <1>11, <2>1, <3>3
  <2>2. CASE i = Len(outs')
    BY <1>2, <1>4, <1>8, <1>11, <2>2
  <2> QED BY <1>4, <2>1, <2>2
<1>13. /\ pats' \in Seq(ThePatterns)
       /\ \A i \in DOMAIN pats' : pats'[i] \in Trailing => opt'.trailing
       /\ \A i \in DOMAIN pats' : pats'[i] # "ctl"
       /\ outs' # <<>>
  <2>1. pats' \in Seq(ThePatterns) /\ outs' # <<>>
    <3>1. Tail(pats) \in Seq(ThePatterns)
      BY <1>3
    <3>2. outs' # <<>>
      BY <1>4
    <3> QED BY <1>1, <3>1, <3>2
  <2>2. \A i \in DOMAIN pats' : i + 1 \in DOMAIN pats /\ pats'[i] = pats[i + 1] /\ i + 1 # 1
    BY <1>1, <1>3
  <2> QED BY <1>3, <2>1, <2>2
<1>14. PairsInv'
  BY <1>2, <1>4, <1>6, <1>11, <1>12, <1>13 DEF PairsInv, PatternPC
<1> HIDE DEF b
<1> QED BY <1>8, <1>9, <1>14

LEMMA RowsGrow ==
    ASSUME rows \in Seq(ARow), RowsInv, NEW r, RowSound(r), rows' = Append(rows, r), opt' = opt
    PROVE  RowsInv'
<1>1. \A i \in DOMAIN rows' : rows'[i] = r \/ (i \in DOMAIN rows /\ rows'[i] = rows[i])
  OBVIOUS
<1> QED BY <1>1 DEF RowsInv, RowSound

\* The verdicts on a whole run.
LEMMA RunVerdicts ==
    ASSUME NEW u
    PROVE  /\ JudgeStress(u) \in {"damaged", "stalled", "diverged", "hung", "same"}
           /\ JudgeRestart(u) \in {"missed", "inconclusive", "held"}
  BY DEF JudgeStress, JudgeRestart

\* How a pattern may end.
LEMMA RowsEnd ==
    ASSUME NEW w \in PatternOutcome
    PROVE  /\ [w EXCEPT !.stalled = TRUE, !.final = "stalled"] \in PatternOutcome
           /\ [w EXCEPT !.stalled = TRUE, !.final = "stalled"].pattern = w.pattern
           /\ \A d \in {"same", "differ"}, f \in BOOLEAN :
                 LET u == [w EXCEPT !.final = d, !.fail = f]
                 IN  /\ u \in PatternOutcome /\ u.pattern = w.pattern /\ u.ahead = w.ahead
                     /\ u.final = d /\ u.fail = f /\ u.stalled = w.stalled
<1>1. /\ [w EXCEPT !.stalled = TRUE, !.final = "stalled"] \in PatternOutcome
      /\ [w EXCEPT !.stalled = TRUE, !.final = "stalled"].pattern = w.pattern
  BY DEF PatternOutcome
<1>2. ASSUME NEW d \in {"same", "differ"}, NEW f \in BOOLEAN
      PROVE  [w EXCEPT !.final = d, !.fail = f] \in PatternOutcome
  BY DEF PatternOutcome
<1>3. ASSUME NEW d \in {"same", "differ"}, NEW f \in BOOLEAN
      PROVE  LET u == [w EXCEPT !.final = d, !.fail = f]
             IN  /\ u.pattern = w.pattern /\ u.ahead = w.ahead
                 /\ u.final = d /\ u.fail = f /\ u.stalled = w.stalled
  BY DEF PatternOutcome
<1> QED BY <1>1, <1>2, <1>3

\* The row of a stress run and that of a restart run.
LEMMA StressRow ==
    ASSUME CommandTypes, EngineTypes, NEW u, fault' \in SUBSET Faults
    PROVE  [verdict |-> JudgeStress(u), fault |-> fault', cut |-> 0, backlog |-> 0] \in ARow
  BY RunVerdicts DEF ARow

LEMMA RestartRow ==
    ASSUME EngineTypes, OutcomeInv, pc = "compare", NEW u
    PROVE  [verdict |-> JudgeRestart(u), fault |-> fault, cut |-> cut, backlog |-> o.backlog] \in ARow
<1>1. o.backlog \in Int
  BY DEF OutcomeInv, ClientsPC, ClientsOutcome
<1>2. JudgeRestart(u) \in {"missed", "inconclusive", "held"}
  BY RunVerdicts
<1> QED BY <1>1, <1>2 DEF ARow, EngineTypes

LEMMA CommandTypesStep ==
    ASSUME ApplyGiven, CommandTypes, [Next]_vars PROVE CommandTypes'
<1> USE DEF cmdVars, sigVars, endVars, fileVars, hostVars, engineVars,
            loopVars, CommandTypes
<1>1. CASE OpenLedger
  BY <1>1 DEF OpenLedger, Fail
<1>2. CASE OpenPair
  <2>1. UNCHANGED <<opt, ints, n, watch, said, ledger>> /\ code' \in {code, 1}
    BY <1>2 DEF OpenPair
  <2> QED BY <2>1
<1>3. CASE Probe
  BY <1>3 DEF Probe, Fail
<1>4. CASE LedgerHead
  BY <1>4 DEF LedgerHead, Fail
<1>5. CASE Register
  BY <1>5 DEF Register
<1>6. CASE StartPattern
  BY <1>6 DEF StartPattern, Fail
<1>7. CASE PreWrite
  BY <1>7 DEF PreWrite, Fail
<1>8. CASE WriteRound
  BY <1>8 DEF WriteRound, Fail, Refused, AfterRound, NextRound
<1>9. CASE Look
  BY <1>9 DEF Look, Fail
<1>10. CASE CatchUp
  BY <1>10 DEF CatchUp, Fail, Row, AfterRound, NextRound
<1>11. CASE FinalCompare
  BY <1>11 DEF FinalCompare, Fail, Row
<1>12. CASE SetupStress
  BY <1>12 DEF SetupStress, Fail
<1>13. CASE SetupRestart
  BY <1>13 DEF SetupRestart, Fail
<1>14. CASE RunClients
  BY <1>14 DEF RunClients
<1>15. CASE KillClients
  BY <1>15 DEF KillClients
<1>16. CASE CloseStop
  BY <1>16 DEF CloseStop
<1>17. CASE Join
  <2>1. /\ UNCHANGED <<opt, ints, n, watch, ledger>> /\ code' \in {code, 1}
        /\ said' \in {said, said \cup {"slave"}}
    BY <1>17 DEF Join, Fail
  <2> QED BY <2>1
<1>18. CASE Barrier
  BY <1>18 DEF Barrier, Fail
<1>19. CASE CompareStress
  BY <1>19 DEF CompareStress, Fail
<1>20. CASE CompareRestart
  BY <1>20 DEF CompareRestart, Fail
<1>21. CASE Close
  BY <1>21 DEF Close, Forget
<1>22. CASE StopSignals
  BY <1>22 DEF StopSignals
<1>23. CASE Teardown
  BY <1>23 DEF Teardown
<1>24. CASE Exit
  BY <1>24 DEF Exit, Drop
<1>25. CASE LoopWait
  BY <1>25 DEF LoopWait
<1>26. CASE LoopRead
  BY <1>26 DEF LoopRead
<1>27. CASE LoopKillApplier
  BY <1>27 DEF LoopKillApplier, Killed
<1>28. CASE LoopCrash
  BY <1>28 DEF LoopCrash, Killed
<1>29. CASE LoopStart
  BY <1>29 DEF LoopStart
<1>30. CASE Interrupt
  <2>1. UNCHANGED <<opt, watch, ledger>> /\ ints' = ints + 1 /\ n' \in {n, n + 1}
    BY <1>30 DEF Interrupt
  <2>2. code' \in {code, 130} /\ said' \in {said, said \cup {"pair"}, said \cup RestartLeft}
    BY <1>30 DEF Interrupt
  <2>3. RestartLeft \subseteq {"clients", "slave", "pair"}
    BY DEF RestartLeft
  <2> QED BY <2>1, <2>2, <2>3
<1>31. CASE \E r \in 1..Rounds, t \in {"T1", "T2"} : ApplyRound(<<r, t>>)
  BY <1>31 DEF ApplyRound
<1>32. CASE Commit
  BY <1>32 DEF Commit
<1>33. CASE Apply
  BY <1>33 DEF Apply
<1>34. CASE Store
  BY <1>34 DEF Store
<1>35. CASE Stopped
  BY <1>35 DEF Stopped
<1>36. CASE HbStart
  BY <1>36 DEF HbStart
<1>37. CASE Rotate
  <2>1. UNCHANGED <<cmdVars, sigVars, endVars, fileVars>>
    BY <1>37 DEF Rotate
  <2> QED BY <2>1
<1>38. CASE UNCHANGED vars
  BY <1>38 DEF vars
<1> QED BY <1>1, <1>2, <1>3, <1>4, <1>5, <1>6, <1>7, <1>8, <1>9, <1>10, <1>11,
            <1>12, <1>13, <1>14, <1>15, <1>16, <1>17, <1>18, <1>19, <1>20,
            <1>21, <1>22, <1>23, <1>24, <1>25, <1>26, <1>27, <1>28, <1>29,
            <1>30, <1>31, <1>32, <1>33, <1>34, <1>35, <1>36, <1>37, <1>38
           DEF Next, Command, KillLoop, Engine

LEMMA EngineTypesStep ==
    ASSUME ApplyGiven, EngineTypes, [Next]_vars PROVE EngineTypes'
<1> USE DEF cmdVars, sigVars, endVars, fileVars, hostVars, engineVars,
            loopVars, EngineTypes, LogCounts, Faults
<1>1. CASE OpenLedger
  BY <1>1 DEF OpenLedger, Fail
<1>2. CASE OpenPair
  BY <1>2 DEF OpenPair, Fail
<1>3. CASE Probe
  BY <1>3 DEF Probe, Fail
<1>4. CASE LedgerHead
  BY <1>4 DEF LedgerHead, Fail
<1>5. CASE Register
  BY <1>5 DEF Register
<1>6. CASE StartPattern
  BY <1>6 DEF StartPattern, Fail
<1>7. CASE PreWrite
  BY <1>7 DEF PreWrite, Fail
<1>8. CASE WriteRound
  BY <1>8 DEF WriteRound, Fail, Refused, AfterRound, NextRound
<1>9. CASE Look
  BY <1>9 DEF Look, Fail
<1>10. CASE CatchUp
  BY <1>10 DEF CatchUp, Fail, Row, AfterRound, NextRound
<1>11. CASE FinalCompare
  BY <1>11 DEF FinalCompare, Fail, Row
<1>12. CASE SetupStress
  BY <1>12 DEF SetupStress, Fail
<1>13. CASE SetupRestart
  BY <1>13 DEF SetupRestart, Fail
<1>14. CASE RunClients
  BY <1>14 DEF RunClients
<1>15. CASE KillClients
  BY <1>15 DEF KillClients
<1>16. CASE CloseStop
  BY <1>16 DEF CloseStop
<1>17. CASE Join
  BY <1>17 DEF Join, Fail
<1>18. CASE Barrier
  BY <1>18 DEF Barrier, Fail
<1>19. CASE CompareStress
  BY <1>19 DEF CompareStress, Fail
<1>20. CASE CompareRestart
  BY <1>20 DEF CompareRestart, Fail
<1>21. CASE Close
  BY <1>21 DEF Close, Forget
<1>22. CASE StopSignals
  BY <1>22 DEF StopSignals
<1>23. CASE Teardown
  BY <1>23 DEF Teardown
<1>24. CASE Exit
  BY <1>24 DEF Exit, Drop
<1>25. CASE LoopWait
  BY <1>25 DEF LoopWait
<1>26. CASE LoopRead
  BY <1>26 DEF LoopRead
<1>27. CASE LoopKillApplier
  BY <1>27 DEF LoopKillApplier, Killed
<1>28. CASE LoopCrash
  BY <1>28 DEF LoopCrash, Killed
<1>29. CASE LoopStart
  BY <1>29 DEF LoopStart
<1>30. CASE Interrupt
  <2>1. CASE Forget
    BY <2>1 DEF Forget
  <2>2. CASE UNCHANGED <<engineVars, log0>>
    BY <2>2
  <2> QED BY <1>30, <2>1, <2>2 DEF Interrupt
<1>31. CASE \E r \in 1..Rounds, t \in {"T1", "T2"} : ApplyRound(<<r, t>>)
  BY <1>31 DEF ApplyRound
<1>32. CASE Commit
  BY <1>32 DEF Commit
<1>33. CASE Apply
  BY <1>33 DEF Apply
<1>34. CASE Store
  BY <1>34 DEF Store
<1>35. CASE Stopped
  BY <1>35 DEF Stopped
<1>36. CASE HbStart
  <2>1. UNCHANGED <<committed, applied, stored, cut, log0>>
    BY <1>36 DEF HbStart
  <2>2. /\ fault' \in {fault, fault \cup {"twice"}}
        /\ log' \in {[started |-> log.started + 1, dup |-> log.dup + 1],
                    [log EXCEPT !.started = @ + 1]}
    BY <1>36 DEF HbStart
  <2>3. log' \in LogCounts
    BY <2>2
  <2> QED BY <2>1, <2>2, <2>3
<1>37. CASE Rotate
  BY <1>37 DEF Rotate
<1>38. CASE UNCHANGED vars
  BY <1>38 DEF vars
<1> QED BY <1>1, <1>2, <1>3, <1>4, <1>5, <1>6, <1>7, <1>8, <1>9, <1>10, <1>11,
            <1>12, <1>13, <1>14, <1>15, <1>16, <1>17, <1>18, <1>19, <1>20,
            <1>21, <1>22, <1>23, <1>24, <1>25, <1>26, <1>27, <1>28, <1>29,
            <1>30, <1>31, <1>32, <1>33, <1>34, <1>35, <1>36, <1>37, <1>38
           DEF Next, Command, KillLoop, Engine

LEMMA PlaceInvStep ==
    ASSUME ApplyGiven, ApplyInv, [Next]_vars PROVE PlaceInv'
<1> USE DEF ApplyInv, cmdVars, sigVars, endVars, fileVars, hostVars,
            engineVars, loopVars, CommandTypes, PlaceInv, AroundPC, PatternPC,
            ClientsPC
<1>1. CASE OpenLedger
  BY <1>1, AskedOf DEF OpenLedger, Fail
<1>2. CASE OpenPair
  BY <1>2, AskedOf DEF OpenPair, Fail
<1>3. CASE Probe
  BY <1>3, AskedOf DEF Probe, Fail
<1>4. CASE LedgerHead
  BY <1>4, AskedOf DEF LedgerHead, Fail
<1>5. CASE Register
  BY <1>5, AskedOf DEF Register
<1>6. CASE StartPattern
  BY <1>6, AskedOf DEF StartPattern, Fail
<1>7. CASE PreWrite
  BY <1>7, AskedOf DEF PreWrite, Fail
<1>8. CASE WriteRound
  BY <1>8, AskedOf DEF WriteRound, Fail, Refused, AfterRound, NextRound
<1>9. CASE Look
  BY <1>9, AskedOf DEF Look, Fail
<1>10. CASE CatchUp
  BY <1>10, AskedOf DEF CatchUp, Fail, Row, AfterRound, NextRound
<1>11. CASE FinalCompare
  BY <1>11, AskedOf DEF FinalCompare, Fail, Row
<1>12. CASE SetupStress
  BY <1>12, AskedOf DEF SetupStress, Fail
<1>13. CASE SetupRestart
  BY <1>13, AskedOf DEF SetupRestart, Fail
<1>14. CASE RunClients
  BY <1>14, AskedOf DEF RunClients
<1>15. CASE KillClients
  BY <1>15, AskedOf DEF KillClients
<1>16. CASE CloseStop
  BY <1>16, AskedOf DEF CloseStop
<1>17. CASE Join
  <2>1. pc = "join" /\ pc' \in {"close", "barrier"} /\ loop \in {"off", "end"}
    BY <1>17 DEF Join, Fail, Joined
  <2>2. UNCHANGED <<opt, loop>>
    BY <1>17 DEF Join
  <2> QED BY <2>1, <2>2
<1>18. CASE Barrier
  BY <1>18, AskedOf DEF Barrier, Fail
<1>19. CASE CompareStress
  BY <1>19, AskedOf DEF CompareStress, Fail
<1>20. CASE CompareRestart
  BY <1>20, AskedOf DEF CompareRestart, Fail
<1>21. CASE Close
  BY <1>21, AskedOf DEF Close, Forget
<1>22. CASE StopSignals
  BY <1>22, AskedOf DEF StopSignals
<1>23. CASE Teardown
  BY <1>23, AskedOf DEF Teardown
<1>24. CASE Exit
  BY <1>24, AskedOf DEF Exit, Drop
<1>25. CASE LoopWait
  BY <1>25, AskedOf DEF LoopWait
<1>26. CASE LoopRead
  BY <1>26, AskedOf DEF LoopRead
<1>27. CASE LoopKillApplier
  BY <1>27, AskedOf DEF LoopKillApplier, Killed
<1>28. CASE LoopCrash
  BY <1>28, AskedOf DEF LoopCrash, Killed
<1>29. CASE LoopStart
  BY <1>29, AskedOf DEF LoopStart
<1>30. CASE Interrupt
  <2>1. opt' = opt
    BY <1>30 DEF Interrupt
  <2>2. CASE UNCHANGED <<pc, loopVars>>
    BY <2>1, <2>2
  <2>3. CASE pc' = "exit" /\ loop' \in {loop, "end"}
    <3>1. ~dfl \/ pc \in {"teardown", "drop", "exit"}
      BY DEF SignalInv
    <3> QED BY <2>1, <2>3, <3>1, <1>30 DEF Interrupt, Forget
  <2> QED BY <1>30, <2>2, <2>3 DEF Interrupt, Forget
<1>31. CASE \E r \in 1..Rounds, t \in {"T1", "T2"} : ApplyRound(<<r, t>>)
  BY <1>31, AskedOf DEF ApplyRound
<1>32. CASE Commit
  BY <1>32, AskedOf DEF Commit
<1>33. CASE Apply
  BY <1>33, AskedOf DEF Apply
<1>34. CASE Store
  BY <1>34, AskedOf DEF Store
<1>35. CASE Stopped
  BY <1>35, AskedOf DEF Stopped
<1>36. CASE HbStart
  BY <1>36, AskedOf DEF HbStart
<1>37. CASE Rotate
  BY <1>37, AskedOf DEF Rotate
<1>38. CASE UNCHANGED vars
  BY <1>38 DEF vars
<1> QED BY <1>1, <1>2, <1>3, <1>4, <1>5, <1>6, <1>7, <1>8, <1>9, <1>10, <1>11,
            <1>12, <1>13, <1>14, <1>15, <1>16, <1>17, <1>18, <1>19, <1>20,
            <1>21, <1>22, <1>23, <1>24, <1>25, <1>26, <1>27, <1>28, <1>29,
            <1>30, <1>31, <1>32, <1>33, <1>34, <1>35, <1>36, <1>37, <1>38
           DEF Next, Command, KillLoop, Engine

LEMMA OutcomeInvStep ==
    ASSUME ApplyGiven, ApplyInv, [Next]_vars PROVE OutcomeInv'
<1> USE DEF ApplyInv, cmdVars, sigVars, endVars, fileVars, hostVars,
            engineVars, loopVars, OutcomeInv, PatternPC, ClientsPC
<1>1. CASE OpenLedger
  BY <1>1, PatternMoves, ClientsMoves DEF OpenLedger, Fail
<1>2. CASE OpenPair
  BY <1>2, PatternMoves, ClientsMoves DEF OpenPair, Fail
<1>3. CASE Probe
  BY <1>3, PatternMoves, ClientsMoves DEF Probe, Fail
<1>4. CASE LedgerHead
  BY <1>4, PatternMoves, ClientsMoves DEF LedgerHead, Fail
<1>5. CASE Register
  BY <1>5, PatternMoves, ClientsMoves DEF Register
<1>6. CASE StartPattern
  <2>1. CASE pc' \notin PatternPC /\ pc' \notin ClientsPC
    BY <2>1
  <2>2. CASE o' = NewOutcome(pats[1]) /\ pc' = "pre" /\ pats # <<>>
    <3>1. pc = "pattern" /\ opt.verb = "pairs"
      BY <1>6 DEF StartPattern, PlaceInv, AroundPC
    <3> QED BY <2>2, <3>1, ControlFirst, OutcomeBegins
  <2> QED BY <1>6, <2>1, <2>2 DEF StartPattern, Fail
<1>7. CASE PreWrite
  BY <1>7, PatternMoves, ClientsMoves DEF PreWrite, Fail
<1>8. CASE WriteRound
  BY <1>8, PatternMoves, ClientsMoves DEF WriteRound, Fail, Refused, AfterRound, NextRound
<1>9. CASE Look
  BY <1>9, PatternMoves, ClientsMoves DEF Look, Fail
<1>10. CASE CatchUp
  BY <1>10, PatternMoves, ClientsMoves DEF CatchUp, Fail, Row, AfterRound, NextRound
<1>11. CASE FinalCompare
  BY <1>11, PatternMoves, ClientsMoves DEF FinalCompare, Fail, Row
<1>12. CASE SetupStress
  BY <1>12, OutcomeBegins DEF SetupStress, Fail
<1>13. CASE SetupRestart
  BY <1>13, OutcomeBegins DEF SetupRestart, Fail
<1>14. CASE RunClients
  BY <1>14, PatternMoves, ClientsMoves DEF RunClients
<1>15. CASE KillClients
  BY <1>15, PatternMoves, ClientsMoves DEF KillClients
<1>16. CASE CloseStop
  BY <1>16, PatternMoves, ClientsMoves DEF CloseStop
<1>17. CASE Join
  BY <1>17, PatternMoves, ClientsMoves DEF Join, Fail
<1>18. CASE Barrier
  BY <1>18, PatternMoves, ClientsMoves DEF Barrier, Fail
<1>19. CASE CompareStress
  BY <1>19, PatternMoves, ClientsMoves DEF CompareStress, Fail
<1>20. CASE CompareRestart
  BY <1>20, PatternMoves, ClientsMoves DEF CompareRestart, Fail
<1>21. CASE Close
  BY <1>21, PatternMoves, ClientsMoves DEF Close, Forget
<1>22. CASE StopSignals
  BY <1>22, PatternMoves, ClientsMoves DEF StopSignals
<1>23. CASE Teardown
  BY <1>23, PatternMoves, ClientsMoves DEF Teardown
<1>24. CASE Exit
  BY <1>24, PatternMoves, ClientsMoves DEF Exit, Drop
<1>25. CASE LoopWait
  BY <1>25, PatternMoves, ClientsMoves DEF LoopWait
<1>26. CASE LoopRead
  BY <1>26, PatternMoves, ClientsMoves DEF LoopRead
<1>27. CASE LoopKillApplier
  BY <1>27, KilledIs DEF LoopKillApplier, PlaceInv
<1>28. CASE LoopCrash
  BY <1>28, KilledIs DEF LoopCrash, PlaceInv
<1>29. CASE LoopStart
  BY <1>29, ClientsMoves DEF LoopStart, PlaceInv
<1>30. CASE Interrupt
  BY <1>30, PatternMoves, ClientsMoves DEF Interrupt, Forget, RestartLeft, AtOnce
<1>31. CASE \E r \in 1..Rounds, t \in {"T1", "T2"} : ApplyRound(<<r, t>>)
  BY <1>31, PatternMoves, ClientsMoves DEF ApplyRound
<1>32. CASE Commit
  BY <1>32, PatternMoves, ClientsMoves DEF Commit
<1>33. CASE Apply
  BY <1>33, PatternMoves, ClientsMoves DEF Apply
<1>34. CASE Store
  BY <1>34, PatternMoves, ClientsMoves DEF Store
<1>35. CASE Stopped
  BY <1>35, PatternMoves, ClientsMoves DEF Stopped
<1>36. CASE HbStart
  BY <1>36, PatternMoves, ClientsMoves DEF HbStart
<1>37. CASE Rotate
  BY <1>37, PatternMoves, ClientsMoves DEF Rotate
<1>38. CASE UNCHANGED vars
  BY <1>38 DEF vars
<1> QED BY <1>1, <1>2, <1>3, <1>4, <1>5, <1>6, <1>7, <1>8, <1>9, <1>10, <1>11,
            <1>12, <1>13, <1>14, <1>15, <1>16, <1>17, <1>18, <1>19, <1>20,
            <1>21, <1>22, <1>23, <1>24, <1>25, <1>26, <1>27, <1>28, <1>29,
            <1>30, <1>31, <1>32, <1>33, <1>34, <1>35, <1>36, <1>37, <1>38
           DEF Next, Command, KillLoop, Engine

LEMMA SignalInvStep ==
    ASSUME ApplyGiven, ApplyInv, [Next]_vars PROVE SignalInv'
<1> USE DEF ApplyInv, cmdVars, sigVars, endVars, fileVars, hostVars,
            engineVars, loopVars, SignalInv, CommandTypes
<1>1. CASE OpenLedger
  BY <1>1 DEF OpenLedger, Fail
<1>2. CASE OpenPair
  <2>1. /\ pc = "pair" /\ pc' \in {"teardown", "probe", "head"}
        /\ UNCHANGED sigVars /\ code' \in {code, 1}
    BY <1>2 DEF OpenPair
  <2> QED BY <2>1
<1>3. CASE Probe
  BY <1>3 DEF Probe, Fail
<1>4. CASE LedgerHead
  BY <1>4 DEF LedgerHead, Fail, Cancelled
<1>5. CASE Register
  BY <1>5 DEF Register
<1>6. CASE StartPattern
  BY <1>6 DEF StartPattern, Fail
<1>7. CASE PreWrite
  BY <1>7 DEF PreWrite, Fail
<1>8. CASE WriteRound
  BY <1>8 DEF WriteRound, Fail, Refused, AfterRound, NextRound
<1>9. CASE Look
  BY <1>9 DEF Look, Fail
<1>10. CASE CatchUp
  BY <1>10 DEF CatchUp, Fail, Row, AfterRound, NextRound
<1>11. CASE FinalCompare
  BY <1>11 DEF FinalCompare, Fail, Row
<1>12. CASE SetupStress
  BY <1>12 DEF SetupStress, Fail
<1>13. CASE SetupRestart
  BY <1>13 DEF SetupRestart, Fail
<1>14. CASE RunClients
  BY <1>14 DEF RunClients
<1>15. CASE KillClients
  BY <1>15 DEF KillClients
<1>16. CASE CloseStop
  BY <1>16 DEF CloseStop
<1>17. CASE Join
  BY <1>17 DEF Join, Fail
<1>18. CASE Barrier
  BY <1>18 DEF Barrier, Fail
<1>19. CASE CompareStress
  <2>1. pc = "compare" /\ pc' = "close" /\ UNCHANGED sigVars /\ code' \in {code, 1}
    BY <1>19 DEF CompareStress, Fail
  <2> QED BY <2>1
<1>20. CASE CompareRestart
  BY <1>20 DEF CompareRestart, Fail
<1>21. CASE Close
  BY <1>21 DEF Close, Forget
<1>22. CASE StopSignals
  BY <1>22 DEF StopSignals
<1>23. CASE Teardown
  BY <1>23 DEF Teardown
<1>24. CASE Exit
  BY <1>24 DEF Exit, Drop
<1>25. CASE LoopWait
  BY <1>25 DEF LoopWait
<1>26. CASE LoopRead
  BY <1>26 DEF LoopRead
<1>27. CASE LoopKillApplier
  BY <1>27 DEF LoopKillApplier, Killed
<1>28. CASE LoopCrash
  BY <1>28 DEF LoopCrash, Killed
<1>29. CASE LoopStart
  BY <1>29 DEF LoopStart
<1>30. CASE Interrupt
  BY <1>30 DEF Interrupt, Forget, RestartLeft, AtOnce
<1>31. CASE \E r \in 1..Rounds, t \in {"T1", "T2"} : ApplyRound(<<r, t>>)
  BY <1>31 DEF ApplyRound
<1>32. CASE Commit
  BY <1>32 DEF Commit
<1>33. CASE Apply
  BY <1>33 DEF Apply
<1>34. CASE Store
  BY <1>34 DEF Store
<1>35. CASE Stopped
  BY <1>35 DEF Stopped
<1>36. CASE HbStart
  BY <1>36 DEF HbStart
<1>37. CASE Rotate
  BY <1>37 DEF Rotate
<1>38. CASE UNCHANGED vars
  BY <1>38 DEF vars
<1> QED BY <1>1, <1>2, <1>3, <1>4, <1>5, <1>6, <1>7, <1>8, <1>9, <1>10, <1>11,
            <1>12, <1>13, <1>14, <1>15, <1>16, <1>17, <1>18, <1>19, <1>20,
            <1>21, <1>22, <1>23, <1>24, <1>25, <1>26, <1>27, <1>28, <1>29,
            <1>30, <1>31, <1>32, <1>33, <1>34, <1>35, <1>36, <1>37, <1>38
           DEF Next, Command, KillLoop, Engine

LEMMA LedgerInvStep ==
    ASSUME ApplyGiven, ApplyInv, [Next]_vars PROVE LedgerInv'
<1> USE DEF ApplyInv, cmdVars, sigVars, endVars, fileVars, hostVars,
            engineVars, loopVars, LedgerInv, PlaceInv, AroundPC, PatternPC,
            ClientsPC
<1>1. CASE OpenLedger
  <2>1. /\ pc = "ledger" /\ pc' \in {"exit", "pair"} /\ UNCHANGED <<opt, rows>>
        /\ (pc' = "exit" => ledger' = ledger)
        /\ (pc' = "pair" => ledger' = IF opt.old THEN "old" ELSE "empty")
    BY <1>1 DEF OpenLedger
  <2>2. CASE pc' = "exit"
    BY <2>1, <2>2
  <2>3. CASE pc' = "pair"
    <3>1. rows = <<>>
      BY <2>1
    <3> QED BY <2>1, <2>3, <3>1
  <2> QED BY <2>1, <2>2, <2>3
<1>2. CASE OpenPair
  <2>1. pc = "pair" /\ pc' \in {"teardown", "probe", "head"} /\ UNCHANGED <<opt, ledger, rows>>
    BY <1>2 DEF OpenPair
  <2> QED BY <2>1
<1>3. CASE Probe
  BY <1>3 DEF Probe, Fail
<1>4. CASE LedgerHead
  BY <1>4 DEF LedgerHead, Fail
<1>5. CASE Register
  BY <1>5 DEF Register
<1>6. CASE StartPattern
  BY <1>6 DEF StartPattern, Fail
<1>7. CASE PreWrite
  BY <1>7 DEF PreWrite, Fail
<1>8. CASE WriteRound
  BY <1>8 DEF WriteRound, Fail, Refused, AfterRound, NextRound
<1>9. CASE Look
  BY <1>9 DEF Look, Fail
<1>10. CASE CatchUp
  BY <1>10 DEF CatchUp, Fail, Row, AfterRound, NextRound
<1>11. CASE FinalCompare
  BY <1>11 DEF FinalCompare, Fail, Row
<1>12. CASE SetupStress
  BY <1>12 DEF SetupStress, Fail
<1>13. CASE SetupRestart
  BY <1>13 DEF SetupRestart, Fail
<1>14. CASE RunClients
  BY <1>14 DEF RunClients
<1>15. CASE KillClients
  BY <1>15 DEF KillClients
<1>16. CASE CloseStop
  BY <1>16 DEF CloseStop
<1>17. CASE Join
  BY <1>17 DEF Join, Fail
<1>18. CASE Barrier
  BY <1>18 DEF Barrier, Fail
<1>19. CASE CompareStress
  <2>1. UNCHANGED <<opt, ledger>> /\ pc = "compare" /\ pc' = "close"
    BY <1>19 DEF CompareStress, Fail
  <2> QED BY <2>1
<1>20. CASE CompareRestart
  BY <1>20 DEF CompareRestart, Fail
<1>21. CASE Close
  BY <1>21 DEF Close, Forget
<1>22. CASE StopSignals
  BY <1>22 DEF StopSignals
<1>23. CASE Teardown
  BY <1>23 DEF Teardown
<1>24. CASE Exit
  BY <1>24 DEF Exit, Drop
<1>25. CASE LoopWait
  BY <1>25 DEF LoopWait
<1>26. CASE LoopRead
  BY <1>26 DEF LoopRead
<1>27. CASE LoopKillApplier
  BY <1>27 DEF LoopKillApplier, Killed
<1>28. CASE LoopCrash
  BY <1>28 DEF LoopCrash, Killed
<1>29. CASE LoopStart
  BY <1>29 DEF LoopStart
<1>30. CASE Interrupt
  BY <1>30 DEF Interrupt, Forget, RestartLeft, AtOnce
<1>31. CASE \E r \in 1..Rounds, t \in {"T1", "T2"} : ApplyRound(<<r, t>>)
  BY <1>31 DEF ApplyRound
<1>32. CASE Commit
  BY <1>32 DEF Commit
<1>33. CASE Apply
  BY <1>33 DEF Apply
<1>34. CASE Store
  BY <1>34 DEF Store
<1>35. CASE Stopped
  BY <1>35 DEF Stopped
<1>36. CASE HbStart
  BY <1>36 DEF HbStart
<1>37. CASE Rotate
  BY <1>37 DEF Rotate
<1>38. CASE UNCHANGED vars
  BY <1>38 DEF vars
<1> QED BY <1>1, <1>2, <1>3, <1>4, <1>5, <1>6, <1>7, <1>8, <1>9, <1>10, <1>11,
            <1>12, <1>13, <1>14, <1>15, <1>16, <1>17, <1>18, <1>19, <1>20,
            <1>21, <1>22, <1>23, <1>24, <1>25, <1>26, <1>27, <1>28, <1>29,
            <1>30, <1>31, <1>32, <1>33, <1>34, <1>35, <1>36, <1>37, <1>38
           DEF Next, Command, KillLoop, Engine

LEMMA HostInvStep ==
    ASSUME ApplyGiven, ApplyInv, [Next]_vars PROVE HostInv'
<1> USE DEF ApplyInv, cmdVars, sigVars, endVars, fileVars, hostVars,
            engineVars, loopVars, HostInv, PlaceInv, AroundPC, PatternPC,
            ClientsPC, EndPC, OutcomeInv
<1>1. CASE OpenLedger
  <2>1. pc = "ledger" /\ pc' \in {"exit", "pair"} /\ UNCHANGED <<opt, said, hostVars>>
    BY <1>1 DEF OpenLedger
  <2>2. ~clients /\ slave /\ pair = ~opt.build
    BY <2>1
  <2>3. ~(opt.build /\ pair)
    BY <2>2, Zenon
  <2>4. loop # "start"
    BY <2>1
  <2>5. pc' # "ledger" /\ ~clients' /\ slave' /\ loop' # "start" /\ ~(opt'.build /\ pair')
    BY <1>1, <2>1, <2>2, <2>3, <2>4 DEF OpenLedger
  <2> QED BY <2>5, Zenon
<1>2. CASE OpenPair
  BY <1>2, AskedOf DEF OpenPair, Fail
<1>3. CASE Probe
  BY <1>3, AskedOf DEF Probe, Fail
<1>4. CASE LedgerHead
  BY <1>4, AskedOf DEF LedgerHead, Fail
<1>5. CASE Register
  BY <1>5, AskedOf DEF Register
<1>6. CASE StartPattern
  BY <1>6, AskedOf DEF StartPattern, Fail
<1>7. CASE PreWrite
  BY <1>7, AskedOf DEF PreWrite, Fail
<1>8. CASE WriteRound
  BY <1>8, AskedOf DEF WriteRound, Fail, Refused, AfterRound, NextRound
<1>9. CASE Look
  BY <1>9, AskedOf DEF Look, Fail
<1>10. CASE CatchUp
  BY <1>10, AskedOf DEF CatchUp, Fail, Row, AfterRound, NextRound
<1>11. CASE FinalCompare
  BY <1>11, AskedOf DEF FinalCompare, Fail, Row
<1>12. CASE SetupStress
  BY <1>12, AskedOf DEF SetupStress, Fail
<1>13. CASE SetupRestart
  BY <1>13, AskedOf DEF SetupRestart, Fail
<1>14. CASE RunClients
  BY <1>14, AskedOf DEF RunClients
<1>15. CASE KillClients
  BY <1>15, AskedOf DEF KillClients
<1>16. CASE CloseStop
  BY <1>16, AskedOf DEF CloseStop
<1>17. CASE Join
  <2>1. pc = "join" /\ loop \in {"off", "end"} /\ UNCHANGED <<opt, o, loop, hostVars>>
    BY <1>17 DEF Join, Joined
  <2>2. CASE (o.err \/ o.down) /\ pc' = "close" /\ said' = said \cup (IF o.down THEN {"slave"} ELSE {})
    BY <2>1, <2>2
  <2>3. CASE ~o.err /\ ~o.down /\ pc' = "barrier" /\ said' = said
    BY <2>1, <2>3
  <2> QED BY <1>17, <2>2, <2>3 DEF Join, Fail
<1>18. CASE Barrier
  BY <1>18, AskedOf DEF Barrier, Fail
<1>19. CASE CompareStress
  BY <1>19, AskedOf DEF CompareStress, Fail
<1>20. CASE CompareRestart
  BY <1>20, AskedOf DEF CompareRestart, Fail
<1>21. CASE Close
  BY <1>21, AskedOf DEF Close, Forget
<1>22. CASE StopSignals
  BY <1>22, AskedOf DEF StopSignals
<1>23. CASE Teardown
  BY <1>23, AskedOf DEF Teardown
<1>24. CASE Exit
  BY <1>24, AskedOf DEF Exit, Drop
<1>25. CASE LoopWait
  BY <1>25, AskedOf DEF LoopWait
<1>26. CASE LoopRead
  BY <1>26, AskedOf DEF LoopRead
<1>27. CASE LoopKillApplier
  <2>1. UNCHANGED <<opt, pc, said, pair, clients>> /\ loop = "kill"
    BY <1>27 DEF LoopKillApplier
  <2>2. pc \in {"clients", "killclients", "join"} /\ o \in ClientsOutcome
    BY <2>1
  <2>3. loop' = "wait" /\ slave' = slave
    BY <1>27 DEF LoopKillApplier
  <2>4. o'.err = o.err /\ o'.down = o.down
    BY <1>27, <2>2, KilledIs DEF LoopKillApplier
  <2> QED BY <2>1, <2>2, <2>3, <2>4
<1>28. CASE LoopCrash
  <2>1. UNCHANGED <<opt, pc, said, pair, clients>> /\ loop = "kill"
    BY <1>28 DEF LoopCrash
  <2>2. pc \in {"clients", "killclients", "join"} /\ o \in ClientsOutcome
    BY <2>1
  <2>3. slave /\ opt.node
    BY <1>28, <2>1, <2>2 DEF LoopCrash
  <2>4. o'.err = o.err /\ o'.down = o.down
    BY <1>28, <2>2, KilledIs DEF LoopCrash
  <2>5. loop' = "start" \/ slave' = slave
    BY <1>28 DEF LoopCrash
  <2> QED BY <2>1, <2>2, <2>3, <2>4, <2>5
<1>29. CASE LoopStart
  <2>1. UNCHANGED <<opt, pc, said, pair, clients>> /\ loop = "start"
    BY <1>29 DEF LoopStart
  <2>2. pc \in {"clients", "killclients", "join"} /\ o \in ClientsOutcome
    BY <2>1
  <2>3. CASE slave' = TRUE /\ o' = o
    BY <2>1, <2>2, <2>3
  <2>4. CASE slave' = FALSE /\ loop' = "end" /\ o' = [o EXCEPT !.down = TRUE]
    <3>1. o'.down /\ o'.err = o.err
      BY <2>2, <2>4, ClientsKeep
    <3>2. opt.node
      BY <1>29, <2>1, <2>2
    <3> QED BY <2>1, <2>2, <2>4, <3>1, <3>2
  <2> QED BY <1>29, <2>3, <2>4 DEF LoopStart
<1>30. CASE Interrupt
  <2>1. UNCHANGED <<opt, hostVars>> /\ pc # "ledger"
    BY <1>30 DEF Interrupt
  <2>2. CASE UNCHANGED <<pc, said, o, loopVars>>
    BY <2>1, <2>2
  <2>3. CASE dfl /\ pc' = "exit" /\ said' = said \cup {"pair"} /\ loop' = loop
    <3>1. pc \in {"teardown", "drop", "exit"}
      BY <2>3 DEF SignalInv
    <3>2. (clients => "clients" \in said) /\ (~slave => "slave" \in said)
      BY <3>1
    <3> QED BY <2>1, <2>3, <3>2
  <2>4. CASE pc' = "exit" /\ said' = said \cup RestartLeft /\ loop' = "end"
    BY <2>1, <2>4 DEF RestartLeft
  <2> QED BY <1>30, <2>2, <2>3, <2>4 DEF Interrupt, Forget
<1>31. CASE \E r \in 1..Rounds, t \in {"T1", "T2"} : ApplyRound(<<r, t>>)
  BY <1>31, AskedOf DEF ApplyRound
<1>32. CASE Commit
  BY <1>32, AskedOf DEF Commit
<1>33. CASE Apply
  BY <1>33, AskedOf DEF Apply
<1>34. CASE Store
  BY <1>34, AskedOf DEF Store
<1>35. CASE Stopped
  BY <1>35, AskedOf DEF Stopped
<1>36. CASE HbStart
  BY <1>36, AskedOf DEF HbStart
<1>37. CASE Rotate
  BY <1>37, AskedOf DEF Rotate
<1>38. CASE UNCHANGED vars
  BY <1>38 DEF vars
<1> QED BY <1>1, <1>2, <1>3, <1>4, <1>5, <1>6, <1>7, <1>8, <1>9, <1>10, <1>11,
            <1>12, <1>13, <1>14, <1>15, <1>16, <1>17, <1>18, <1>19, <1>20,
            <1>21, <1>22, <1>23, <1>24, <1>25, <1>26, <1>27, <1>28, <1>29,
            <1>30, <1>31, <1>32, <1>33, <1>34, <1>35, <1>36, <1>37, <1>38
           DEF Next, Command, KillLoop, Engine

LEMMA FaultInvStep ==
    ASSUME ApplyGiven, ApplyInv, [Next]_vars PROVE FaultInv'
<1> USE DEF ApplyInv, cmdVars, sigVars, endVars, fileVars, hostVars,
            engineVars, loopVars, FaultInv, EngineTypes, PlaceInv, AroundPC,
            PatternPC, ClientsPC, OutcomeInv
<1>1. CASE OpenLedger
  BY <1>1, PatternKeeps, ClientsKeep DEF OpenLedger, Fail
<1>2. CASE OpenPair
  BY <1>2, PatternKeeps, ClientsKeep DEF OpenPair, Fail
<1>3. CASE Probe
  BY <1>3, PatternKeeps, ClientsKeep DEF Probe, Fail
<1>4. CASE LedgerHead
  BY <1>4, PatternKeeps, ClientsKeep DEF LedgerHead, Fail
<1>5. CASE Register
  BY <1>5, PatternKeeps, ClientsKeep DEF Register
<1>6. CASE StartPattern
  <2>1. UNCHANGED <<opt, lag, committed, applied>> /\ fault' \in {fault, {}}
    BY <1>6 DEF StartPattern, Fail
  <2>2. CASE pc' = "close"
    BY <2>1, <2>2
  <2>3. CASE pc' = "pre" /\ o' = NewOutcome(pats[1])
    <3>1. o'.final = "same" /\ ~o'.stalled /\ ~o'.fail /\ o'.ahead = 0
      BY <2>3 DEF NewOutcome
    <3> QED BY <2>1, <2>3, <3>1
  <2> QED BY <1>6, <2>2, <2>3 DEF StartPattern, Fail
<1>7. CASE PreWrite
  <2>1. pc = "pre" /\ pc' \in {"close", "write"} /\ UNCHANGED <<opt, lag, committed, applied, fault>>
    BY <1>7 DEF PreWrite, Fail
  <2>2. o \in PatternOutcome
    BY <2>1
  <2>3. CASE o' = o
    BY <2>1, <2>3
  <2>4. CASE o' = [o EXCEPT !.refused = @ + 1]
    <3>1. SameButCounts(o, o')
      BY <2>2, <2>4, PatternKeeps
    <3> QED BY <2>1, <3>1 DEF SameButCounts
  <2> QED BY <1>7, <2>3, <2>4 DEF PreWrite
<1>8. CASE WriteRound
  <2>1. pc = "write" /\ o \in PatternOutcome /\ opt.verb = "pairs"
    BY <1>8 DEF WriteRound
  <2>2. UNCHANGED <<opt, fault, committed, applied>>
    BY <1>8 DEF WriteRound
  <2>3. CASE pc' = "close" /\ lag' = lag
    BY <2>2, <2>3
  <2>4. CASE pc' \in {"pre", "final", "catchup"} /\ SameButCounts(o, o') /\ (lag # {} => lag' # {})
    BY <2>1, <2>2, <2>4 DEF SameButCounts
  <2>5. CASE pc' = "look" /\ o' = o /\ <<o.round, "T2">> \in lag' /\ (lag # {} => lag' # {})
    BY <2>1, <2>2, <2>5
  <2>6. SameButCounts(o, Refused) /\ SameButCounts(o, NextRound(Refused))
    BY <2>1, PatternKeeps DEF Refused
  <2> QED BY <1>8, <2>3, <2>4, <2>5, <2>6 DEF WriteRound, Fail, AfterRound
<1>9. CASE Look
  <2>1. pc = "look" /\ o \in PatternOutcome /\ UNCHANGED <<opt, lag, fault, committed, applied>>
    BY <1>9 DEF Look
  <2>2. CASE pc' = "close"
    BY <2>1, <2>2
  <2>3. CASE /\ pc' = "catchup"
             /\ \/ o' = o
                \/ o' = [o EXCEPT !.never = @ + 1]
                \/ /\ o' = [o EXCEPT !.ahead = @ + 1]
                   /\ <<o.round, "T1">> \in lag /\ <<o.round, "T2">> \notin lag
    <3>1. CASE o' = o
      BY <2>1, <2>3, <3>1
    <3>2. CASE o' = [o EXCEPT !.never = @ + 1]
      <4>1. SameButCounts(o, o')
        BY <2>1, <3>2, PatternKeeps
      <4> QED BY <2>1, <2>3, <4>1 DEF SameButCounts
    <3>3. CASE /\ o' = [o EXCEPT !.ahead = @ + 1]
               /\ <<o.round, "T1">> \in lag /\ <<o.round, "T2">> \notin lag
      <4>1. /\ o'.pattern = o.pattern /\ o'.final = o.final /\ o'.stalled = o.stalled
            /\ o'.fail = o.fail
        BY <2>1, <3>3 DEF PatternOutcome
      <4>2. o.pattern # "ctl" => "overtook" \in fault
        BY <2>1, <3>3
      <4> QED BY <2>1, <2>3, <4>1, <4>2
    <3> QED BY <2>3, <3>1, <3>2, <3>3
  <2> QED BY <1>9, <2>2, <2>3 DEF Look, Fail
<1>10. CASE CatchUp
  <2>1. pc = "catchup" /\ o \in PatternOutcome /\ UNCHANGED <<opt, lag, fault, committed, applied>>
    BY <1>10 DEF CatchUp
  <2>2. CASE pc' \in {"close", "pattern"}
    BY <2>1, <2>2
  <2>3. CASE pc' \in {"pre", "final"} /\ o' = NextRound(o)
    <3>1. SameButCounts(o, o')
      BY <2>1, <2>3, PatternKeeps
    <3> QED BY <2>1, <2>3, <3>1 DEF SameButCounts
  <2> QED BY <1>10, <2>2, <2>3 DEF CatchUp, Fail, AfterRound
<1>11. CASE FinalCompare
  BY <1>11, PatternKeeps, ClientsKeep DEF FinalCompare, Fail, Row
<1>12. CASE SetupStress
  BY <1>12, PatternKeeps, ClientsKeep DEF SetupStress, Fail
<1>13. CASE SetupRestart
  BY <1>13, PatternKeeps, ClientsKeep DEF SetupRestart, Fail
<1>14. CASE RunClients
  BY <1>14, PatternKeeps, ClientsKeep DEF RunClients
<1>15. CASE KillClients
  BY <1>15, PatternKeeps, ClientsKeep DEF KillClients
<1>16. CASE CloseStop
  BY <1>16, PatternKeeps, ClientsKeep DEF CloseStop
<1>17. CASE Join
  BY <1>17, PatternKeeps, ClientsKeep DEF Join, Fail
<1>18. CASE Barrier
  BY <1>18, PatternKeeps, ClientsKeep DEF Barrier, Fail
<1>19. CASE CompareStress
  BY <1>19, PatternKeeps, ClientsKeep DEF CompareStress, Fail
<1>20. CASE CompareRestart
  BY <1>20, PatternKeeps, ClientsKeep DEF CompareRestart, Fail
<1>21. CASE Close
  BY <1>21, PatternKeeps, ClientsKeep DEF Close, Forget
<1>22. CASE StopSignals
  BY <1>22, PatternKeeps, ClientsKeep DEF StopSignals
<1>23. CASE Teardown
  BY <1>23, PatternKeeps, ClientsKeep DEF Teardown
<1>24. CASE Exit
  BY <1>24, PatternKeeps, ClientsKeep DEF Exit, Drop
<1>25. CASE LoopWait
  BY <1>25, PatternKeeps, ClientsKeep DEF LoopWait
<1>26. CASE LoopRead
  BY <1>26, PatternKeeps, ClientsKeep DEF LoopRead
<1>27. CASE LoopKillApplier
  BY <1>27, PatternKeeps, ClientsKeep DEF LoopKillApplier, Killed
<1>28. CASE LoopCrash
  BY <1>28, PatternKeeps, ClientsKeep DEF LoopCrash, Killed
<1>29. CASE LoopStart
  BY <1>29, PatternKeeps, ClientsKeep DEF LoopStart
<1>30. CASE Interrupt
  BY <1>30, PatternKeeps, ClientsKeep DEF Interrupt, Forget, RestartLeft, AtOnce
<1>31. CASE \E r \in 1..Rounds, t \in {"T1", "T2"} : ApplyRound(<<r, t>>)
  <2> PICK r \in 1..Rounds, t \in {"T1", "T2"} : ApplyRound(<<r, t>>)
    BY <1>31
  <2>1. /\ <<r, t>> \in lag /\ "stopped" \notin fault /\ lag' = lag \ {<<r, t>>}
        /\ UNCHANGED <<opt, pc, o, committed, applied>>
    BY DEF ApplyRound
  <2>2. fault \subseteq fault' /\ fault' \subseteq fault \cup {"overtook", "differ"}
    BY DEF ApplyRound
  <2>3. ~Free(<<r, t>>) => "overtook" \in fault'
    BY DEF ApplyRound
  <2>4. ASSUME pc = "look", o.pattern # "ctl", <<o.round, "T1">> \in lag', <<o.round, "T2">> \notin lag'
        PROVE  "overtook" \in fault'
    <3>1. <<o.round, "T1">> \in lag
      BY <2>1, <2>4
    <3>2. CASE <<o.round, "T2">> \notin lag
      BY <2>2, <2>4, <3>1, <3>2
    <3>3. CASE <<r, t>> = <<o.round, "T2">>
      <4>1. r = o.round /\ t = "T2"
        BY <3>3
      <4>2. o.pattern = pats[1] /\ pats # <<>> /\ opt.verb = "pairs" /\ pats \in Seq(ThePatterns)
        BY <2>4 DEF PairsInv
      <4>3. o.pattern \in Trailing => opt.trailing
        BY <2>4, <4>2 DEF PairsInv
      <4>4. ~Free(<<r, t>>)
        BY <2>4, <3>1, <4>1, <4>3 DEF Free
      <4> QED BY <2>3, <4>4
    <3> QED BY <2>1, <2>4, <3>2, <3>3
  <2>5. applied' <= committed' /\ (lag' # {} => lag # {})
    BY <2>1
  <2> QED BY <2>1, <2>2, <2>4, <2>5
<1>32. CASE Commit
  BY <1>32, PatternKeeps, ClientsKeep DEF Commit
<1>33. CASE Apply
  BY <1>33, PatternKeeps, ClientsKeep DEF Apply
<1>34. CASE Store
  BY <1>34, PatternKeeps, ClientsKeep DEF Store
<1>35. CASE Stopped
  BY <1>35, PatternKeeps, ClientsKeep DEF Stopped
<1>36. CASE HbStart
  <2>1. UNCHANGED <<opt, pc, o, lag, committed, applied>> /\ fault' \in {fault, fault \cup {"twice"}}
    BY <1>36 DEF HbStart
  <2>2. "stopped" \in fault' <=> "stopped" \in fault
    BY <2>1
  <2> QED BY <2>1, <2>2
<1>37. CASE Rotate
  BY <1>37, PatternKeeps, ClientsKeep DEF Rotate
<1>38. CASE UNCHANGED vars
  BY <1>38 DEF vars
<1> QED BY <1>1, <1>2, <1>3, <1>4, <1>5, <1>6, <1>7, <1>8, <1>9, <1>10, <1>11,
            <1>12, <1>13, <1>14, <1>15, <1>16, <1>17, <1>18, <1>19, <1>20,
            <1>21, <1>22, <1>23, <1>24, <1>25, <1>26, <1>27, <1>28, <1>29,
            <1>30, <1>31, <1>32, <1>33, <1>34, <1>35, <1>36, <1>37, <1>38
           DEF Next, Command, KillLoop, Engine

LEMMA LogInvStep ==
    ASSUME ApplyGiven, ApplyInv, [Next]_vars PROVE LogInv'
<1> USE DEF ApplyInv, cmdVars, sigVars, endVars, fileVars, hostVars,
            engineVars, loopVars, LogInv, EngineTypes, LogCounts, PlaceInv,
            AroundPC, PatternPC, ClientsPC
<1>1. CASE OpenLedger
  BY <1>1 DEF OpenLedger, Fail
<1>2. CASE OpenPair
  BY <1>2 DEF OpenPair, Fail
<1>3. CASE Probe
  BY <1>3 DEF Probe, Fail
<1>4. CASE LedgerHead
  BY <1>4 DEF LedgerHead, Fail
<1>5. CASE Register
  BY <1>5 DEF Register
<1>6. CASE StartPattern
  BY <1>6 DEF StartPattern, Fail
<1>7. CASE PreWrite
  BY <1>7 DEF PreWrite, Fail
<1>8. CASE WriteRound
  BY <1>8 DEF WriteRound, Fail, Refused, AfterRound, NextRound
<1>9. CASE Look
  BY <1>9 DEF Look, Fail
<1>10. CASE CatchUp
  BY <1>10 DEF CatchUp, Fail, Row, AfterRound, NextRound
<1>11. CASE FinalCompare
  BY <1>11 DEF FinalCompare, Fail, Row
<1>12. CASE SetupStress
  BY <1>12 DEF SetupStress, Fail
<1>13. CASE SetupRestart
  BY <1>13 DEF SetupRestart, Fail
<1>14. CASE RunClients
  BY <1>14 DEF RunClients
<1>15. CASE KillClients
  BY <1>15 DEF KillClients
<1>16. CASE CloseStop
  BY <1>16 DEF CloseStop
<1>17. CASE Join
  BY <1>17 DEF Join, Fail
<1>18. CASE Barrier
  BY <1>18 DEF Barrier, Fail
<1>19. CASE CompareStress
  BY <1>19 DEF CompareStress, Fail
<1>20. CASE CompareRestart
  BY <1>20 DEF CompareRestart, Fail
<1>21. CASE Close
  BY <1>21 DEF Close, Forget
<1>22. CASE StopSignals
  BY <1>22 DEF StopSignals
<1>23. CASE Teardown
  BY <1>23 DEF Teardown
<1>24. CASE Exit
  BY <1>24 DEF Exit, Drop
<1>25. CASE LoopWait
  BY <1>25 DEF LoopWait
<1>26. CASE LoopRead
  BY <1>26 DEF LoopRead
<1>27. CASE LoopKillApplier
  BY <1>27 DEF LoopKillApplier, Killed
<1>28. CASE LoopCrash
  BY <1>28 DEF LoopCrash, Killed
<1>29. CASE LoopStart
  BY <1>29 DEF LoopStart
<1>30. CASE Interrupt
  BY <1>30 DEF Interrupt, Forget, RestartLeft, AtOnce
<1>31. CASE Under /\ (\E r \in 1..Rounds, t \in {"T1", "T2"} : ApplyRound(<<r, t>>))
  <2>1. /\ Under /\ UNCHANGED <<opt, pc, log, log0, failed, cut>>
        /\ fault' \subseteq fault \cup {"overtook", "differ"} /\ fault \subseteq fault'
    BY <1>31 DEF ApplyRound
  <2> QED BY <2>1 DEF Under
<1>32. CASE Under /\ (Commit)
  BY <1>32 DEF Commit
<1>33. CASE Under /\ (Apply)
  <2>1. /\ Under /\ UNCHANGED <<opt, pc, log, log0, failed, cut>>
        /\ fault' \subseteq fault \cup {"differ"} /\ fault \subseteq fault'
    BY <1>33 DEF Apply
  <2> QED BY <2>1 DEF Under
<1>34. CASE Under /\ (Store)
  BY <1>34 DEF Store
<1>35. CASE Under /\ (Stopped)
  <2>1. /\ Under /\ UNCHANGED <<opt, pc, log, log0, failed, cut>>
        /\ fault' = fault \cup {"stopped"}
    BY <1>35 DEF Stopped
  <2> QED BY <2>1 DEF Under
<1>36. CASE Under /\ (HbStart)
  <2>1. Under /\ UNCHANGED <<opt, pc, log0, cut>>
    BY <1>36 DEF HbStart
  <2>2. CASE /\ fault' = fault \cup {"twice"}
             /\ log' = [started |-> log.started + 1, dup |-> log.dup + 1]
    <3>1. log'.dup = log.dup + 1
      BY <2>2
    <3> QED BY <2>1, <2>2, <3>1 DEF Under
  <2>3. CASE fault' = fault /\ failed' = failed /\ log' = [log EXCEPT !.started = @ + 1]
    <3>1. log'.dup = log.dup
      BY <2>3
    <3> QED BY <2>1, <2>3, <3>1 DEF Under
  <2>4. \/ /\ fault' = fault \cup {"twice"}
           /\ log' = [started |-> log.started + 1, dup |-> log.dup + 1]
        \/ fault' = fault /\ failed' = failed /\ log' = [log EXCEPT !.started = @ + 1]
    BY <1>36, Zenon DEF HbStart
  <2> QED BY <2>2, <2>3, <2>4
<1>37. CASE Under /\ (Rotate)
  BY <1>37 DEF Rotate
<1>38. CASE UNCHANGED vars
  BY <1>38 DEF vars
<1> QED BY <1>1, <1>2, <1>3, <1>4, <1>5, <1>6, <1>7, <1>8, <1>9, <1>10, <1>11,
            <1>12, <1>13, <1>14, <1>15, <1>16, <1>17, <1>18, <1>19, <1>20,
            <1>21, <1>22, <1>23, <1>24, <1>25, <1>26, <1>27, <1>28, <1>29,
            <1>30, <1>31, <1>32, <1>33, <1>34, <1>35, <1>36, <1>37, <1>38
           DEF Next, Command, KillLoop, Engine

LEMMA PairsInvStep ==
    ASSUME ApplyGiven, ApplyInv, [Next]_vars PROVE PairsInv'
<1> USE DEF ApplyInv, cmdVars, sigVars, endVars, fileVars, hostVars,
            engineVars, loopVars, CommandTypes, PlaceInv, AroundPC, PatternPC,
            ClientsPC, OutcomeInv
<1>1. CASE OpenLedger
  BY <1>1, AskedNow, PairsStay DEF OpenLedger, Fail
<1>2. CASE OpenPair
  BY <1>2, AskedNow, PairsStay DEF OpenPair, Fail
<1>3. CASE Probe
  <2>1. pc = "probe" /\ UNCHANGED <<opt, rows, outs>> /\ pc' \in {"teardown", "head"}
    BY <1>3 DEF Probe
  <2>2. CASE pats' = pats /\ pc' = "teardown"
    BY <2>1, <2>2, PairsStay
  <2>3. CASE pats' = ForPair(pats, opt.trailing) /\ pc' = "head"
    <3>1. opt.verb = "pairs" /\ pats = Select(opt.names) /\ outs = <<>>
      BY <2>1 DEF PairsInv
    <3>2. opt.names \in Named /\ opt.trailing \in BOOLEAN
      BY AskedOf
    <3>3. /\ pats' \in Seq(ThePatterns) /\ pats' # <<>> /\ pats'[1] = "ctl"
          /\ \A i \in 2..Len(pats') : pats'[i] # "ctl"
          /\ \A i \in DOMAIN pats' : pats'[i] \in Trailing => opt.trailing
      BY <2>3, <3>1, <3>2 DEF ApplyGiven, ThePatterns
    <3>4. \A i \in DOMAIN pats' : pats'[i] = "ctl" <=> i = 1
      BY <3>3
    <3> QED BY <2>1, <2>3, <3>1, <3>3, <3>4 DEF PairsInv
  <2> QED BY <1>3, <2>2, <2>3 DEF Probe
<1>4. CASE LedgerHead
  BY <1>4, AskedNow, PairsStay DEF LedgerHead, Fail
<1>5. CASE Register
  BY <1>5, AskedNow, PairsStay DEF Register
<1>6. CASE StartPattern
  <2>1. pc = "pattern" /\ UNCHANGED <<opt, rows, outs, pats>> /\ pc' \in {"close", "pre"}
    BY <1>6 DEF StartPattern, Fail
  <2>2. pc' = "pre" => pats # <<>> /\ o'.pattern = pats[1]
    BY <1>6 DEF StartPattern, Fail, NewOutcome
  <2> QED BY <2>1, <2>2, PairsStay
<1>7. CASE PreWrite
  <2>1. UNCHANGED <<opt, rows, outs, pats>> /\ pc = "pre" /\ pc' \in {"close", "write"}
    BY <1>7 DEF PreWrite, Fail
  <2>2. opt.verb = "pairs" /\ pc \in PatternPC => pats # <<>> /\ o.pattern = pats[1]
    BY AskedNow
  <2>3. o \in PatternOutcome
    BY <2>1
  <2>4. pc' \in PatternPC => o'.pattern = o.pattern
    BY <1>7, <2>3, PatternKeeps DEF PreWrite, Fail, SameButCounts
  <2> QED BY <2>1, <2>2, <2>4, PairsStay
<1>8. CASE WriteRound
  <2>1. UNCHANGED <<opt, rows, outs, pats>> /\ pc = "write" /\ pc' \in PatternPC \cup {"close"}
    BY <1>8 DEF WriteRound, Fail, AfterRound
  <2>2. opt.verb = "pairs" /\ pc \in PatternPC => pats # <<>> /\ o.pattern = pats[1]
    BY AskedNow
  <2>3. o \in PatternOutcome
    BY <2>1
  <2>4. pc' \in PatternPC => o'.pattern = o.pattern
    <3>1. Refused.pattern = o.pattern /\ NextRound(Refused).pattern = o.pattern
      BY <2>3, PatternKeeps DEF Refused, SameButCounts
    <3> QED BY <1>8, <3>1 DEF WriteRound, Fail
  <2> QED BY <2>1, <2>2, <2>4, PairsStay
<1>9. CASE Look
  <2>1. UNCHANGED <<opt, rows, outs, pats>> /\ pc = "look" /\ pc' \in {"close", "catchup"}
    BY <1>9 DEF Look, Fail
  <2>2. opt.verb = "pairs" /\ pc \in PatternPC => pats # <<>> /\ o.pattern = pats[1]
    BY AskedNow
  <2>3. o \in PatternOutcome
    BY <2>1
  <2>4. pc' \in PatternPC => o'.pattern = o.pattern
    BY <1>9, <2>3 DEF Look, Fail, PatternOutcome
  <2> QED BY <2>1, <2>2, <2>4, PairsStay
<1>10. CASE CatchUp
  <2>1. pc = "catchup" /\ o \in PatternOutcome /\ opt.verb = "pairs" /\ opt' = opt
    BY <1>10 DEF CatchUp
  <2>2. CASE UNCHANGED <<pats, rows, outs>> /\ pc' = "close"
    BY <2>1, <2>2, PairsStay
  <2>3. CASE /\ UNCHANGED <<pats, rows, outs>> /\ o' = NextRound(o)
             /\ pc' \in {"pre", "final"}
    <3>1. o'.pattern = o.pattern
      BY <2>1, <2>3, PatternKeeps DEF SameButCounts
    <3> QED BY <2>1, <2>3, <3>1, AskedNow, PairsStay
  <2>4. CASE /\ Row([o EXCEPT !.stalled = TRUE, !.final = "stalled"])
             /\ pc' \in {"pattern", "close"}
    <3> DEFINE u == [o EXCEPT !.stalled = TRUE, !.final = "stalled"]
    <3>1. u \in PatternOutcome /\ u.pattern = o.pattern
      BY <2>1, RowsEnd
    <3> QED BY <2>1, <2>4, <3>1, RowIs
  <2> QED BY <1>10, <2>2, <2>3, <2>4 DEF CatchUp, Fail, AfterRound
<1>11. CASE FinalCompare
  <2>1. pc = "final" /\ o \in PatternOutcome /\ opt.verb = "pairs" /\ opt' = opt
    BY <1>11 DEF FinalCompare
  <2>2. CASE UNCHANGED <<pats, rows, outs>> /\ pc' = "close"
    BY <2>1, <2>2, PairsStay
  <2>3. ASSUME NEW f \in BOOLEAN, NEW d \in {"same", "differ"},
               Row([o EXCEPT !.final = d, !.fail = f]), pc' \in {"pattern", "close"}
        PROVE  PairsInv'
    <3> DEFINE u == [o EXCEPT !.final = d, !.fail = f]
    <3>1. u \in PatternOutcome /\ u.pattern = o.pattern
      BY <2>1 DEF PatternOutcome
    <3> QED BY <2>1, <2>3, <3>1, RowIs
  <2>4. CASE \E f \in {FALSE} \cup {"overtook" \in fault} :
                Row([o EXCEPT !.final = IF "differ" \in fault THEN "differ" ELSE "same", !.fail = f])
    <3> DEFINE d == IF "differ" \in fault THEN "differ" ELSE "same"
    <3>1. d \in {"same", "differ"}
      OBVIOUS
    <3>2. PICK f \in {FALSE} \cup {"overtook" \in fault} : Row([o EXCEPT !.final = d, !.fail = f])
      BY <2>4
    <3>3. f \in BOOLEAN
      <4>1. CASE f = FALSE
        BY <4>1
      <4>2. CASE f = ("overtook" \in fault)
        BY <4>2
      <4> QED BY <3>2, <4>1, <4>2
    <3>4. pc' = "pattern" \/ pc' = "close"
      BY <1>11 DEF FinalCompare, Fail
    <3> HIDE DEF d
    <3> QED BY <2>3, <3>1, <3>2, <3>3, <3>4
  <2> QED BY <1>11, <2>2, <2>4 DEF FinalCompare, Fail
<1>12. CASE SetupStress
  BY <1>12, AskedNow, PairsStay DEF SetupStress, Fail
<1>13. CASE SetupRestart
  BY <1>13, AskedNow, PairsStay DEF SetupRestart, Fail
<1>14. CASE RunClients
  BY <1>14, AskedNow, PairsStay DEF RunClients
<1>15. CASE KillClients
  BY <1>15, AskedNow, PairsStay DEF KillClients
<1>16. CASE CloseStop
  BY <1>16, AskedNow, PairsStay DEF CloseStop
<1>17. CASE Join
  BY <1>17, AskedNow, PairsStay DEF Join, Fail
<1>18. CASE Barrier
  BY <1>18, AskedNow, PairsStay DEF Barrier, Fail
<1>19. CASE CompareStress
  <2>1. pc = "compare" /\ opt.verb = "stress" /\ UNCHANGED <<opt, outs>>
    BY <1>19 DEF CompareStress
  <2>2. rows' = rows \/ \E r \in ARow : rows' = Append(rows, r)
    <3>1. CASE rows' = rows
      BY <3>1
    <3>2. ASSUME NEW u, fault' \in SUBSET Faults,
                 rows' = Append(rows, [verdict |-> JudgeStress(u), fault |-> fault', cut |-> 0,
                                       backlog |-> 0])
          PROVE  \E r \in ARow : rows' = Append(rows, r)
      BY <3>2, StressRow
    <3>3. fault' \in SUBSET Faults
      BY EngineTypesStep DEF EngineTypes
    <3> QED BY <1>19, <3>1, <3>2, <3>3 DEF CompareStress
  <2>3. rows' \in Seq(ARow)
    BY <2>2 DEF PairsInv
  <2> QED BY <2>1, <2>3 DEF PairsInv
<1>20. CASE CompareRestart
  <2>1. pc = "compare" /\ opt.verb = "restart" /\ UNCHANGED <<opt, outs>>
    BY <1>20 DEF CompareRestart
  <2>2. rows' = rows \/ \E r \in ARow : rows' = Append(rows, r)
    BY <1>20, RestartRow DEF CompareRestart
  <2>3. rows' \in Seq(ARow)
    BY <2>2 DEF PairsInv
  <2> QED BY <2>1, <2>3 DEF PairsInv
<1>21. CASE Close
  BY <1>21, AskedNow, PairsStay DEF Close, Forget
<1>22. CASE StopSignals
  BY <1>22, AskedNow, PairsStay DEF StopSignals
<1>23. CASE Teardown
  BY <1>23, AskedNow, PairsStay DEF Teardown
<1>24. CASE Exit
  BY <1>24, AskedNow, PairsStay DEF Exit, Drop
<1>25. CASE LoopWait
  BY <1>25, AskedNow, PairsStay DEF LoopWait
<1>26. CASE LoopRead
  BY <1>26, AskedNow, PairsStay DEF LoopRead
<1>27. CASE LoopKillApplier
  <2>1. UNCHANGED <<opt, rows, outs, pats, pc>> /\ pc \notin PatternPC
    BY <1>27 DEF LoopKillApplier
  <2> QED BY <2>1, PairsStay
<1>28. CASE LoopCrash
  <2>1. UNCHANGED <<opt, rows, outs, pats, pc>> /\ pc \notin PatternPC
    BY <1>28 DEF LoopCrash
  <2> QED BY <2>1, PairsStay
<1>29. CASE LoopStart
  <2>1. UNCHANGED <<opt, rows, outs, pats, pc>> /\ pc \notin PatternPC
    BY <1>29 DEF LoopStart
  <2> QED BY <2>1, PairsStay
<1>30. CASE Interrupt
  BY <1>30, AskedNow, PairsStay DEF Interrupt, Forget, RestartLeft, AtOnce
<1>31. CASE \E r \in 1..Rounds, t \in {"T1", "T2"} : ApplyRound(<<r, t>>)
  BY <1>31, AskedNow, PairsStay DEF ApplyRound
<1>32. CASE Commit
  BY <1>32, AskedNow, PairsStay DEF Commit
<1>33. CASE Apply
  BY <1>33, AskedNow, PairsStay DEF Apply
<1>34. CASE Store
  BY <1>34, AskedNow, PairsStay DEF Store
<1>35. CASE Stopped
  BY <1>35, AskedNow, PairsStay DEF Stopped
<1>36. CASE HbStart
  BY <1>36, AskedNow, PairsStay DEF HbStart
<1>37. CASE Rotate
  BY <1>37, AskedNow, PairsStay DEF Rotate
<1>38. CASE UNCHANGED vars
  <2>1. UNCHANGED <<opt, rows, outs, pats, pc, o>>
    BY <1>38 DEF vars
  <2> QED BY <2>1, AskedNow, PairsStay
<1> QED BY <1>1, <1>2, <1>3, <1>4, <1>5, <1>6, <1>7, <1>8, <1>9, <1>10, <1>11,
            <1>12, <1>13, <1>14, <1>15, <1>16, <1>17, <1>18, <1>19, <1>20,
            <1>21, <1>22, <1>23, <1>24, <1>25, <1>26, <1>27, <1>28, <1>29,
            <1>30, <1>31, <1>32, <1>33, <1>34, <1>35, <1>36, <1>37, <1>38
           DEF Next, Command, KillLoop, Engine

\* Which steps add a row.
LEMMA RowsBy ==
    ASSUME [Next]_vars
    PROVE  CatchUp \/ FinalCompare \/ CompareStress \/ CompareRestart \/ UNCHANGED <<opt, rows>>
<1> USE DEF cmdVars, sigVars, endVars, fileVars, hostVars, engineVars, loopVars
<1>1. CASE OpenLedger \/ OpenPair \/ Probe \/ LedgerHead \/ Register
  BY <1>1 DEF OpenLedger, OpenPair, Probe, LedgerHead, Register
<1>2. CASE StartPattern \/ PreWrite \/ WriteRound \/ Look
  BY <1>2 DEF StartPattern, PreWrite, WriteRound, Look
<1>3. CASE SetupStress \/ SetupRestart \/ RunClients \/ KillClients \/ CloseStop \/ Join \/ Barrier
  BY <1>3 DEF SetupStress, SetupRestart, RunClients, KillClients, CloseStop, Join, Barrier
<1>4. CASE Close \/ StopSignals \/ Teardown \/ Exit
  BY <1>4 DEF Close, StopSignals, Teardown, Exit
<1>5. CASE KillLoop
  BY <1>5 DEF KillLoop, LoopWait, LoopRead, LoopKillApplier, LoopCrash, LoopStart
<1>6. CASE Engine
  BY <1>6 DEF Engine, ApplyRound, Commit, Apply, Store, Stopped, HbStart, Rotate
<1>7. CASE Interrupt
  BY <1>7 DEF Interrupt
<1>8. CASE UNCHANGED vars
  BY <1>8 DEF vars
<1> QED BY <1>1, <1>2, <1>3, <1>4, <1>5, <1>6, <1>7, <1>8 DEF Next, Command

LEMMA RowsInvStep ==
    ASSUME ApplyGiven, ApplyInv, [Next]_vars PROVE RowsInv'
<1> USE DEF ApplyInv, PlaceInv, AroundPC, PatternPC, ClientsPC, OutcomeInv,
            cmdVars, sigVars, endVars, fileVars, hostVars, engineVars, loopVars
<1>1. CASE CatchUp
  <2>1. /\ pc = "catchup" /\ o \in PatternOutcome /\ opt.verb = "pairs" /\ opt' = opt
        /\ rows \in Seq(ARow)
    BY <1>1 DEF CatchUp, PairsInv
  <2>2. CASE rows' = rows
    BY <2>1, <2>2 DEF RowsInv, RowSound
  <2>3. CASE /\ Row([o EXCEPT !.stalled = TRUE, !.final = "stalled"]) /\ "stopped" \in fault
             /\ pc' \in {"pattern", "close"}
    <3> DEFINE u == [o EXCEPT !.stalled = TRUE, !.final = "stalled"]
    <3>1. u \in PatternOutcome /\ u.pattern = o.pattern /\ Broken(u)
      BY <2>1 DEF PatternOutcome, Broken
    <3>2. PICK b \in BOOLEAN :
             rows' = Append(rows, [verdict |-> Verdict(u, b), fault |-> fault, cut |-> 0,
                                   backlog |-> 0])
      BY <2>1, <2>3, <3>1, RowIs
    <3>3. Verdict(u, b) \notin {"held", "same", "hung"}
      BY <3>1, VerdictIs
    <3> HIDE DEF u
    <3> DEFINE r == [verdict |-> Verdict(u, b), fault |-> fault, cut |-> 0, backlog |-> 0]
    <3>4. RowSound(r)
      BY <2>3, <3>3 DEF RowSound
    <3> QED BY <2>1, <3>2, <3>4, RowsGrow
  <2> QED BY <1>1, <2>2, <2>3 DEF CatchUp, Fail
<1>2. CASE FinalCompare
  <2>1. /\ pc = "final" /\ o \in PatternOutcome /\ opt.verb = "pairs" /\ opt' = opt
        /\ rows \in Seq(ARow)
    BY <1>2 DEF FinalCompare, PairsInv
  <2>2. CASE rows' = rows
    BY <2>1, <2>2 DEF RowsInv, RowSound
  <2>3. ASSUME NEW f \in BOOLEAN, f => "overtook" \in fault, lag = {}, pc' \in {"pattern", "close"},
               Row([o EXCEPT !.final = IF "differ" \in fault THEN "differ" ELSE "same", !.fail = f])
        PROVE  RowsInv'
    <3> DEFINE d == IF "differ" \in fault THEN "differ" ELSE "same"
               u == [o EXCEPT !.final = d, !.fail = f]
    <3>1. d \in {"same", "differ"} /\ ("differ" \in fault <=> d = "differ")
      OBVIOUS
    <3>2. Row(u)
      BY <2>3
    <3> HIDE DEF d
    <3>3. u \in PatternOutcome /\ u.pattern = o.pattern /\ u.ahead = o.ahead
      BY <2>1, <3>1 DEF PatternOutcome
    <3>4. u.final = d /\ (u.fail <=> f) /\ u.stalled = o.stalled
      BY <2>1, <3>1 DEF PatternOutcome
    <3> HIDE DEF u
    <3>5. PICK b \in BOOLEAN :
             rows' = Append(rows, [verdict |-> Verdict(u, b), fault |-> fault, cut |-> 0,
                                   backlog |-> 0])
      BY <2>1, <2>3, <3>2, <3>3, RowIs
    <3>6. Broken(u) \/ (u.pattern # "ctl" /\ u.ahead > 0) => fault # {}
      <4>1. ~o.stalled /\ (o.pattern # "ctl" /\ o.ahead > 0 => "overtook" \in fault)
        BY <2>1 DEF FaultInv
      <4>2. Broken(u) => "differ" \in fault \/ f
        BY <3>1, <3>4, <4>1 DEF Broken
      <4> QED BY <2>3, <3>3, <4>1, <4>2
    <3>7. ~Broken(u) => "differ" \notin fault
      BY <3>1, <3>4 DEF Broken
    <3>8. "stopped" \notin fault
      <4>1. committed = 0 /\ applied = 0
        BY <2>1 DEF FaultInv, EngineTypes
      <4> QED BY <2>3, <4>1 DEF FaultInv
    <3>9. /\ Verdict(u, b) = "missed" => fault # {}
          /\ Verdict(u, b) = "held" => "differ" \notin fault
          /\ Verdict(u, b) \notin {"damaged", "diverged", "same", "hung"}
      BY <3>3, <3>6, <3>7, VerdictIs
    <3> DEFINE r == [verdict |-> Verdict(u, b), fault |-> fault, cut |-> 0, backlog |-> 0]
    <3>10. RowSound(r)
      BY <2>1, <3>8, <3>9 DEF RowSound
    <3> QED BY <2>1, <3>5, <3>10, RowsGrow
  <2>4. CASE /\ lag = {} /\ pc' = "pattern"
             /\ \E f \in {FALSE} \cup {"overtook" \in fault} :
                   Row([o EXCEPT !.final = IF "differ" \in fault THEN "differ" ELSE "same",
                                 !.fail = f])
    <3>1. PICK f \in {FALSE} \cup {"overtook" \in fault} :
             Row([o EXCEPT !.final = IF "differ" \in fault THEN "differ" ELSE "same", !.fail = f])
      BY <2>4
    <3>2. f \in BOOLEAN /\ (f => "overtook" \in fault)
      <4>1. CASE f = FALSE
        BY <4>1
      <4>2. CASE f = ("overtook" \in fault)
        <5>1. f \in BOOLEAN
          BY <4>2
        <5>2. f => "overtook" \in fault
          BY <4>2, Zenon
        <5> QED BY <5>1, <5>2
      <4> QED BY <3>1, <4>1, <4>2
    <3> QED BY <2>3, <2>4, <3>1, <3>2
  <2> QED BY <1>2, <2>2, <2>4 DEF FinalCompare, Fail
<1>3. CASE CompareStress
  <2>1. /\ pc = "compare" /\ opt.verb = "stress" /\ opt' = opt /\ rows \in Seq(ARow)
        /\ o \in ClientsOutcome
    BY <1>3 DEF CompareStress, PairsInv
  <2>2. CASE rows' = rows
    BY <2>1, <2>2 DEF RowsInv, RowSound
  <2>3. ASSUME NEW m, NEW s, s => Differ,
               fault' = IF m THEN fault \cup {"differ"} ELSE fault,
               rows' = Append(rows,
                  [verdict |-> JudgeStress([mheap |-> m, sheap |-> s, differ |-> Differ,
                                   stalled |-> o.stalled, fail |-> FALSE, hung |-> o.hung]),
                   fault |-> fault', cut |-> 0, backlog |-> 0])
        PROVE  RowsInv'
    <3> DEFINE w == [mheap |-> m, sheap |-> s, differ |-> Differ,
                     stalled |-> o.stalled, fail |-> FALSE, hung |-> o.hung]
               v == JudgeStress(w)
               r == [verdict |-> v, fault |-> fault', cut |-> 0, backlog |-> 0]
    <3>1. ~o.stalled => applied = committed
      BY <2>1 DEF FaultInv
    <3>2. ~o.stalled /\ Differ => "differ" \in fault
      BY <3>1 DEF Differ
    <3>3. v \in {"damaged", "diverged"} => "differ" \in fault'
      BY <2>3, <3>2 DEF JudgeStress
    <3>4. v \in {"hung", "same"} => fault' = fault /\ ~o.stalled /\ ~Differ
      BY <2>3 DEF JudgeStress
    <3>5. ~o.stalled => "stopped" \notin fault
      <4>1. lag = {}
        BY <2>1 DEF FaultInv
      <4> QED BY <3>1, <4>1 DEF FaultInv, EngineTypes
    <3>6. v \notin {"missed", "held"}
      BY RunVerdicts
    <3>7. RowSound(r)
      <4> HIDE DEF v
      <4> QED BY <3>3, <3>4, <3>5, <3>6 DEF RowSound, Differ
    <3> QED BY <2>1, <2>3, <3>7, RowsGrow
  <2> QED BY <1>3, <2>2, <2>3 DEF CompareStress
<1>4. CASE CompareRestart
  <2>1. /\ pc = "compare" /\ opt.verb = "restart" /\ opt' = opt /\ rows \in Seq(ARow)
        /\ o \in ClientsOutcome
    BY <1>4 DEF CompareRestart, PairsInv
  <2>2. CASE rows' = rows
    BY <2>1, <2>2 DEF RowsInv, RowSound
  <2> DEFINE w == [fail |-> failed, dup670 |-> Dup670, stalled |-> o.stalled,
                   differ |-> Differ, kills |-> o.kills, backlog |-> o.backlog]
             v == JudgeRestart(w)
             r == [verdict |-> v, fault |-> fault, cut |-> cut, backlog |-> o.backlog]
  <2>3. CASE rows' = Append(rows, r)
    <3>1. ~o.stalled => applied = committed
      BY <2>1 DEF FaultInv
    <3>2. ~o.stalled /\ Differ => "differ" \in fault
      BY <3>1 DEF Differ
    <3>3. log.dup \in Nat /\ log0.dup \in Nat /\ cut \in Nat
      BY DEF EngineTypes, LogCounts
    <3>4. /\ failed => "twice" \in fault
          /\ "twice" \notin fault => log.dup <= log0.dup
          /\ "twice" \in fault => log.dup + (IF cut = 0 THEN 0 ELSE cut - 1) - log0.dup >= 1
      BY <2>1 DEF LogInv
    <3>5. Dup670 > 0 => "twice" \in fault
      BY <3>3, <3>4 DEF Dup670
    <3>6. ~(Dup670 > 0) /\ ~(Dup670 < 0) => log.dup = log0.dup
      BY <3>3 DEF Dup670
    <3>7. v = "missed" => fault # {}
      <4>1. v = "missed" => failed \/ Dup670 > 0 \/ (~o.stalled /\ Differ)
        BY DEF JudgeRestart
      <4> QED BY <3>2, <3>4, <3>5, <4>1
    <3>8. v = "held" => /\ ~o.stalled /\ ~Differ /\ ~(o.backlog < 1)
                        /\ ~(Dup670 > 0) /\ ~(Dup670 < 0)
      BY DEF JudgeRestart
    <3>9. ~o.stalled => "stopped" \notin fault
      <4>1. lag = {}
        BY <2>1 DEF FaultInv
      <4> QED BY <3>1, <4>1 DEF FaultInv, EngineTypes
    <3>10. o.backlog \in Int
      BY <2>1 DEF ClientsOutcome
    <3>11. v = "held" => o.backlog > 0 /\ ("twice" \in fault => cut > 1)
      BY <3>3, <3>4, <3>6, <3>8, <3>10
    <3>12. v \notin {"damaged", "diverged", "same", "hung"}
      BY RunVerdicts
    <3>13. RowSound(r)
      <4> HIDE DEF v
      <4> QED BY <3>7, <3>8, <3>9, <3>11, <3>12 DEF RowSound, Differ
    <3> QED BY <2>1, <2>3, <3>13, RowsGrow
  <2> QED BY <1>4, <2>2, <2>3 DEF CompareRestart
<1>5. CASE UNCHANGED <<opt, rows>>
  BY <1>5 DEF RowsInv, RowSound
<1> QED BY <1>1, <1>2, <1>3, <1>4, <1>5, RowsBy


LEMMA ApplyStep ==
    ASSUME ApplyGiven, ApplyInv, [Next]_vars PROVE ApplyInv'
<1>1. CommandTypes' /\ EngineTypes'
  BY CommandTypesStep, EngineTypesStep DEF ApplyInv
<1>2. PlaceInv' /\ OutcomeInv' /\ SignalInv' /\ HostInv' /\ LedgerInv'
  BY PlaceInvStep, OutcomeInvStep, SignalInvStep, HostInvStep, LedgerInvStep
<1>3. PairsInv' /\ FaultInv' /\ LogInv' /\ RowsInv'
  BY PairsInvStep, FaultInvStep, LogInvStep, RowsInvStep
<1> QED BY <1>1, <1>2, <1>3 DEF ApplyInv

LEMMA ApplyBegins ==
    ASSUME ApplyGiven, NEW p \in Asked, InitWith(p) PROVE ApplyInv
<1> USE DEF InitWith
<1>1. opt = p /\ opt \in Asked
  OBVIOUS
<1>2. CommandTypes
  BY <1>1, AskedOf DEF CommandTypes
<1>3. EngineTypes
  BY DEF EngineTypes, LogCounts, Faults
<1>4. PlaceInv /\ OutcomeInv /\ SignalInv
  BY DEF PlaceInv, OutcomeInv, SignalInv, AroundPC, PatternPC, ClientsPC
<1>5. HostInv
  BY DEF HostInv, EndPC
<1>6. LedgerInv
  BY DEF LedgerInv, PatternPC, ClientsPC
<1>7. PairsInv
  BY DEF PairsInv, PatternPC
<1>8. FaultInv /\ LogInv /\ RowsInv
  BY DEF FaultInv, LogInv, RowsInv, PatternPC
<1> QED BY <1>2, <1>3, <1>4, <1>5, <1>6, <1>7, <1>8 DEF ApplyInv

LEMMA ApplyMeans ==
    ASSUME ApplyInv PROVE VerdictsSound /\ LedgerSound /\ NothingLeft
<1>1. VerdictsSound
  <2>1. ASSUME NEW i \in DOMAIN rows
        PROVE  RowSound(rows[i])
    BY DEF ApplyInv, RowsInv
  <2>2. ASSUME NEW i \in DOMAIN rows, rows[i].verdict = "held", opt.verb = "pairs"
        PROVE  \E j \in 1..(i - 1) : outs[j].pattern = "ctl" /\ outs[j].ahead > 0
    <3>1. /\ rows \in Seq(ARow) /\ outs \in Seq(PatternOutcome) /\ Len(rows) = Len(outs)
          /\ \A k \in DOMAIN outs :
                /\ outs[k].pattern = "ctl" <=> k = 1
                /\ rows[k].verdict = Verdict(outs[k], Overtook(outs))
      BY <2>2 DEF ApplyInv, PairsInv
    <3>2. i \in DOMAIN outs /\ outs[i] \in PatternOutcome /\ i \in Nat /\ i >= 1
      BY <3>1
    <3>3. Overtook(outs) \in BOOLEAN
      BY DEF Overtook
    <3>4. outs[i].pattern # "ctl" /\ Overtook(outs)
      BY <2>2, <3>1, <3>2, <3>3, VerdictIs
    <3>5. PICK j \in DOMAIN outs : outs[j].pattern = "ctl" /\ outs[j].ahead > 0
      BY <3>4 DEF Overtook
    <3>6. j = 1 /\ i # 1
      BY <3>1, <3>2, <3>4, <3>5
    <3> QED BY <3>2, <3>5, <3>6
  <2>3. pc = "compare" => ~clients /\ slave /\ loop \in {"off", "end"}
    BY DEF ApplyInv, HostInv, PlaceInv, EndPC
  <2> QED BY <2>1, <2>2, <2>3 DEF VerdictsSound, RowSound
<1>2. LedgerSound
  <2>1. ASSUME opt.verb = "pairs", NEW i \in DOMAIN rows
        PROVE  rows[i].verdict = Judge(outs)[i]
    <3>1. /\ rows \in Seq(ARow) /\ outs \in Seq(PatternOutcome) /\ Len(rows) = Len(outs)
          /\ \A k \in DOMAIN outs : rows[k].verdict = Verdict(outs[k], Overtook(outs))
      BY <2>1 DEF ApplyInv, PairsInv
    <3>2. i \in DOMAIN outs /\ outs # <<>>
      BY <2>1, <3>1
    <3> QED BY <3>1, <3>2, JudgedBy
  <2> QED BY <2>1 DEF LedgerSound, ApplyInv, LedgerInv
<1>3. NothingLeft
  BY DEF ApplyInv, NothingLeft, HostInv, SignalInv
<1> QED BY <1>1, <1>2, <1>3
-----------------------------------------------------------------------------
(* The parts side by side.                                                 *)

\* The part does not change, and another one's steps leave both as they are.
LEMMA Elsewhere ==
    ASSUME [MCNext]_mcVars
    PROVE  [PairNext]_pairVars /\ [Next]_vars
  BY DEF MCNext, RunDoes, SetDoes, ApplyDoes, mcVars

\* Nor do they move a run that is elsewhere.
LEMMA RunsElsewhere ==
    ASSUME [MCNext]_mcVars
    PROVE  /\ machine' = machine
           /\ machine = "suite" => [Suite!Next]_(Suite!vars)
           /\ machine = "resume" => [Again!Next]_(Again!vars)
<1>1. CASE SetDoes(PairNext) \/ ApplyDoes(Next) \/ UNCHANGED mcVars
  <2>1. machine' = machine /\ UNCHANGED runVars
    BY <1>1 DEF SetDoes, ApplyDoes, mcVars
  <2>2. UNCHANGED Suite!vars
    BY <2>1 DEF runVars, Suite!vars, Suite!life, Suite!plan, Suite!here, Suite!last,
                Suite!record, Suite!disk, Suite!pair, Suite!seen
  <2>3. UNCHANGED Again!vars
    BY <2>1 DEF runVars, Again!vars, Again!life, Again!plan, Again!here, Again!last,
                Again!record, Again!disk, Again!pair, Again!seen
  <2> QED BY <2>1, <2>2, <2>3
<1>2. CASE RunDoes("suite", Suite!Next)
  BY <1>2 DEF RunDoes
<1>3. CASE RunDoes("resume", Again!Next)
  BY <1>3 DEF RunDoes
<1> QED BY <1>1, <1>2, <1>3 DEF MCNext

\* What the runs keep, whichever are under way.
RunsInv ==
    /\ machine = "suite" => Suite!RunInv
    /\ machine = "resume" => Again!RunInv

LEMMA RunsKeep ==
    ASSUME Suite!WholeDirectories, Again!WholeDirectories PROVE PartsSpec => []RunsInv
<1>1. PartsInit => RunsInv
  BY HaAssumption, Suite!RunBegins, Again!RunBegins DEF PartsInit, RunsInv
<1>2. RunsInv /\ [MCNext]_mcVars => RunsInv'
  BY HaAssumption, RunsElsewhere, Suite!RunStep, Again!RunStep DEF RunsInv
<1> QED BY <1>1, <1>2, PTL DEF PartsSpec

-----------------------------------------------------------------------------
\* A case starts from what is its own, or from its directory's, unless the reset
\* before it said that it left something or saw a slave that was behind (shard,
\* reset, strandedOnSlaves).  A run that goes back to the middle of a directory is
\* the exception: it may resume, and resets before a directory.
THEOREM CaseOnItsOwnThere ==
    ASSUME Suite!WholeDirectories, Again!WholeDirectories PROVE PartsSpec => []CaseOnItsOwn
<1>1. RunsInv => CaseOnItsOwn
  BY Suite!RunStartsOnItsOwn, Again!RunStartsOnItsOwn DEF RunsInv, CaseOnItsOwn
<1> QED BY <1>1, RunsKeep, PTL

\* On a pair that was empty when the case began, the verdict is the case's:
\* `differ` for the object that does not replicate and for nothing else (RunCase).
THEOREM VerdictsHonestThere ==
    ASSUME Suite!WholeDirectories, Again!WholeDirectories
    PROVE  PartsSpec => [](/\ machine = "suite" => Suite!HonestVerdict
                           /\ machine = "resume" => Again!HonestVerdict)
<1>1. RunsInv => /\ machine = "suite" => Suite!HonestVerdict
                 /\ machine = "resume" => Again!HonestVerdict
  BY Suite!RunJudges, Again!RunJudges DEF RunsInv
<1> QED BY <1>1, RunsKeep, PTL

\* A run that uses a set is on as many pairs as it asked for, its own or found
\* standing, and when it is over nothing it built stands unless it was asked to
\* keep it or could not be told (resolveSet, tearDownPairs).
THEOREM PairsTrueThere == PartsSpec => []PairsTrue
<1>1. PartsInit => PairInv
  BY HaAssumption, PairBegins DEF PartsInit
<1>2. PairInv /\ [MCNext]_mcVars => PairInv'
  BY HaAssumption, Elsewhere, PairStep
<1>3. PairInv => PairsTrue
  BY DEF PairInv, PairsTrue
<1> QED BY <1>1, <1>2, <1>3, PTL DEF PartsSpec

\* A command's verdicts are what the engine did, its ledger is its own and whole,
\* and a slave it leaves down, clients it leaves writing and a pair it leaves
\* standing are said (pairs.go, stress.go, restart.go).
THEOREM ApplyTrueThere == PartsSpec => []ApplyTrue
<1>1. PartsInit => ApplyInv
  <2> SUFFICES ASSUME PartsInit PROVE ApplyInv
    OBVIOUS
  <2>1. PICK p \in Asked : InitWith(p)
    BY HaAssumption DEF PartsInit, Init
  <2> QED BY <2>1, HaAssumption, ApplyBegins
<1>2. ApplyInv /\ [MCNext]_mcVars => ApplyInv'
  BY HaAssumption, Elsewhere, ApplyStep
<1>3. ApplyInv => ApplyTrue
  BY ApplyMeans DEF ApplyTrue
<1> QED BY <1>1, <1>2, <1>3, PTL DEF PartsSpec
=============================================================================
