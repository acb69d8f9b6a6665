----------------------------- MODULE SizingProofs ----------------------------
(***************************************************************************)
(* The sizing of a run, for any machines, corpora, configurations and      *)
(* troubles: what the file says of a machine is so, and from that a run    *)
(* fits the memory there is and grows on evidence only.                    *)
(***************************************************************************)
EXTENDS Sizing, FiniteSetTheorems, WellFoundedInduction, TLAPS

-----------------------------------------------------------------------------
(* Smallest and largest.                                                   *)

\* A finite set of numbers has a smallest: take a smallest set without one.
LEMMA MinIs ==
    ASSUME NEW T \in SUBSET Int, IsFiniteSet(T), T # {}
    PROVE  Min(T) \in T /\ \A y \in T : Min(T) <= y
<1> DEFINE Bad(X) == X # {} /\ \A x \in X : \E y \in X : y < x
           Sizes == {Cardinality(X) : X \in {Y \in SUBSET T : Bad(Y)}}
<1>1. \A X \in SUBSET T : IsFiniteSet(X) /\ Cardinality(X) \in Nat
  BY FS_Subset, FS_CardinalityType
<1>2. Sizes \subseteq Nat
  BY <1>1
<1>3. ASSUME Bad(T) PROVE FALSE
  <2>1. Sizes # {}
    BY <1>3
  <2> DEFINE Below == OpToRel(<, Nat)
  <2>2. IsWellFoundedOn(Below, Nat)
    BY NatLessThanWellFounded
  <2>3. \A a, b \in Nat : a < b => <<a, b>> \in Below
    BY DEF OpToRel
  <2> HIDE DEF Below, Sizes
  <2>4. PICK m \in Sizes : \A y \in Sizes : <<y, m>> \notin Below
    BY <1>2, <2>1, <2>2, WFMin
  <2>5. PICK X \in SUBSET T : Bad(X) /\ m = Cardinality(X)
    BY <2>4 DEF Sizes
  <2>6. PICK x \in X : TRUE
    BY <2>5
  <2>7. Bad(X \ {x})
    <3>1. PICK y \in X : y < x
      BY <2>5, <2>6
    <3>2. ASSUME NEW z \in X \ {x} PROVE \E w \in X \ {x} : w < z
      <4>1. PICK w \in X : w < z
        BY <2>5
      <4>2. y < z \/ w # x
        BY <3>1, <4>1
      <4>3. y \in X \ {x}
        BY <3>1
      <4> QED BY <4>1, <4>2, <4>3
    <3> QED BY <3>1, <3>2
  <2>8. Cardinality(X \ {x}) = m - 1 /\ m \in Nat /\ m - 1 \in Nat
    BY <1>1, <2>5, <2>6, FS_RemoveElement
  <2>9. Cardinality(X \ {x}) \in Sizes
    BY <2>7 DEF Sizes
  <2>10. m - 1 < m
    BY <2>8
  <2>11. <<m - 1, m>> \in Below
    BY <2>3, <2>8, <2>10, Zenon
  <2> QED BY <2>4, <2>8, <2>9, <2>11, Zenon
<1>4. PICK m \in T : \A y \in T : m <= y
  BY <1>3
<1> QED BY <1>4 DEF Min

\* And a largest.
LEMMA MaxIs ==
    ASSUME NEW T \in SUBSET Int, IsFiniteSet(T), T # {}
    PROVE  Max(T) \in T /\ \A y \in T : Max(T) >= y
<1> DEFINE N == {0 - x : x \in T}
           f == [x \in T |-> 0 - x]
<1>1. IsFiniteSet(N)
  <2>1. f \in Surjection(T, N)
    BY DEF Surjection
  <2> QED BY <2>1, FS_Surjection
<1>2. N \in SUBSET Int /\ N # {}
  <2>1. \A x \in T : 0 - x \in Int /\ 0 - x \in N
    OBVIOUS
  <2> QED BY <2>1
<1>3. Min(N) \in N /\ \A y \in N : Min(N) <= y
  BY <1>1, <1>2, MinIs
<1>4. PICK m \in T : Min(N) = 0 - m
  BY <1>3
<1>5. ASSUME NEW y \in T PROVE m >= y
  <2>1. 0 - y \in N
    OBVIOUS
  <2>2. 0 - m <= 0 - y
    BY <1>3, <1>4, <2>1
  <2> QED BY <2>2
<1> QED BY <1>4, <1>5 DEF Max

LEMMA MaxOr0Is ==
    ASSUME NEW T \in SUBSET Nat, IsFiniteSet(T)
    PROVE  /\ MaxOr0(T) \in Nat /\ \A y \in T : MaxOr0(T) >= y
           /\ MaxOr0(T) # 0 => MaxOr0(T) \in T
<1>1. T \in SUBSET Int
  OBVIOUS
<1>2. CASE T = {}
  BY <1>2 DEF MaxOr0
<1>3. CASE T # {}
  BY <1>1, <1>3, MaxIs DEF MaxOr0
<1> QED BY <1>2, <1>3

-----------------------------------------------------------------------------
(* What the file says.                                                     *)

Paths == {Path[s][k] : s \in DOMAIN Shipped, k \in DOMAIN Cases}
Record ==
    [path : Paths, lane : {c.lane : c \in Confs}, buffers : Nat \ {0},
     slots : Nat \ {0}, cases : Nat \ {0}, wall : Nat, caseS : Nat, longest : Nat,
     perSlot : Nat \ {0}]

\* A run of machine h that ended is recorded: what it cost a slot is what its
\* corpus costs, or that less what the samples missed.
Evidence(h, r, k) ==
    /\ r.path = Path[suite][k] /\ r.cases = Cases[k]
    /\ [corpus |-> k, lane |-> r.lane, slots |-> r.slots] \in ran[h]
    /\ r.perSlot - r.buffers \in {Floor[k], Floor[k] - Missed}
Known(h, r) == r \in Record /\ \E k \in DOMAIN Cases : Evidence(h, r, k)

\* Every record is of a run of its machine, in the file and in what a run that is
\* being saved has read of it.
FileOf(f) ==
    /\ f \in [Hosts -> Seq(Record)]
    /\ \A h \in Hosts : Len(f[h]) <= Keep /\ \A i \in DOMAIN f[h] : Known(h, f[h][i])

RunIs(h) ==
    \/ run[h] = None
    \/ \E n \in DOMAIN Wall : run[h] = [at |-> "running", slots |-> n]
    \/ /\ \E n \in DOMAIN Wall, r \in Record, f \in [Hosts -> Seq(Record)] :
             run[h] = [at |-> "saving", slots |-> n, rec |-> r, read |-> f]
       /\ Known(h, run[h].rec) /\ FileOf(run[h].read)

SizingInv ==
    /\ suite \in DOMAIN Shipped
    /\ conf \in [Hosts -> Confs] /\ run = [h \in Hosts |-> run[h]]
    /\ ran = [h \in Hosts |-> ran[h]]
    /\ FileOf(file) /\ \A h \in Hosts : RunIs(h)
    /\ FitsMemory /\ GrowsOnEvidence

-----------------------------------------------------------------------------
(* The decision.                                                           *)

\* A count for which the recorded run is evidence is of the same corpus.
LEMMA SameIsSame ==
    ASSUME suite \in DOMAIN Shipped, NEW h, NEW in \in Confs, NEW recs \in Seq(Record),
           \A i \in DOMAIN recs : Known(h, recs[i]),
           NEW i \in DOMAIN recs, sameCorpus(in, recs, recs[i]),
           NEW k \in DOMAIN Cases, Evidence(h, recs[i], k)
    PROVE  k = in.corpus
<1>1. in.corpus \in DOMAIN Cases /\ recs[i].path = Path[suite][k] /\ recs[i].cases = Cases[k]
      /\ recs[i].path = Path[suite][in.corpus]
  BY SizingAssumption DEF NumbersGiven, Evidence, sameCorpus, pathOf
<1>2. CASE suite \in Blind
  BY <1>1, <1>2, SizingAssumption DEF CorporaTold
<1>3. CASE suite \notin Blind
  <2>1. Cases[in.corpus] \in Nat \ {0} /\ Cases[k] \in Nat \ {0}
    BY <1>1, SizingAssumption DEF NumbersGiven
  <2>2. sizeOf(in, recs) = Cases[in.corpus]
    BY <1>3, <2>1 DEF sizeOf, casesOf
  <2>3. Near(Cases[k], Cases[in.corpus])
    BY <1>1, <2>1, <2>2 DEF sameCorpus
  <2> QED BY <1>1, <2>3, SizingAssumption DEF CorporaTold
<1> QED BY <1>2, <1>3

\* The records that are looked at are of the sequence, and finitely many.
LEMMA PeersAre ==
    ASSUME NEW in, NEW recs \in Seq(Record)
    PROVE  /\ IsFiniteSet(peers(in, recs)) /\ peers(in, recs) \subseteq Record
           /\ \A r \in peers(in, recs) :
                 \E i \in DOMAIN recs : r = recs[i] /\ r.lane = in.lane /\ sameCorpus(in, recs, r)
<1>1. IsFiniteSet(DOMAIN recs) /\ DOMAIN recs = 1..Len(recs) /\ Len(recs) \in Nat
  BY FS_Interval
<1> DEFINE f == [i \in DOMAIN recs |-> recs[i]]
           All == {recs[i] : i \in DOMAIN recs}
<1>2. IsFiniteSet(All)
  <2>1. f \in Surjection(DOMAIN recs, All)
    BY DEF Surjection
  <2> QED BY <1>1, <2>1, FS_Surjection
<1>3. peers(in, recs) \subseteq All
  BY DEF peers
<1>4. IsFiniteSet(peers(in, recs))
  BY <1>2, <1>3, FS_Subset
<1>5. All \subseteq Record
  BY <1>1
<1>6. ASSUME NEW r \in peers(in, recs)
      PROVE  \E i \in DOMAIN recs : r = recs[i] /\ r.lane = in.lane /\ sameCorpus(in, recs, r)
  BY DEF peers
<1> QED BY <1>3, <1>4, <1>5, <1>6

LEMMA SlotsOfPeers ==
    ASSUME NEW P, IsFiniteSet(P), P \subseteq Record
    PROVE  LET T == {r.slots : r \in P} IN T \in SUBSET (Nat \ {0}) /\ IsFiniteSet(T)
<1> DEFINE T == {r.slots : r \in P}
           f == [r \in P |-> r.slots]
<1>1. f \in Surjection(P, T)
  BY DEF Surjection
<1> QED BY <1>1, FS_Surjection DEF Record

\* The growth is from the most slots of a recorded run of this corpus and lane.
LEMMA TriedIs ==
    ASSUME suite \in DOMAIN Shipped, NEW in \in Confs, NEW recs \in Seq(Record)
    PROVE  /\ tried(in, recs) \in Nat \ {0}
           /\ \/ tried(in, recs) = Start[suite]
              \/ \E r \in peers(in, recs) : tried(in, recs) = growth(in.mode) * r.slots
<1> DEFINE T == {r.slots : r \in peers(in, recs)}
<1>1. T \in SUBSET (Nat \ {0}) /\ IsFiniteSet(T)
  BY PeersAre, SlotsOfPeers
<1>2. /\ MaxOr0(T) \in Nat
      /\ MaxOr0(T) # 0 => MaxOr0(T) \in T
  BY <1>1, MaxOr0Is
<1>3. growth(in.mode) \in {1, 2, 4}
  BY DEF growth
<1>4. Start[suite] \in Nat \ {0}
  BY SizingAssumption DEF NumbersGiven
<1>5. CASE MaxOr0(T) = 0
  <2>1. IsFiniteSet({Start[suite]} \union {1})
    BY FS_Singleton, FS_AddElement
  <2>2. {Start[suite], 1} = {Start[suite]} \union {1} /\ {Start[suite], 1} \in SUBSET Int
    BY <1>4
  <2>3. Max({Start[suite], 1}) \in {Start[suite], 1} /\ Max({Start[suite], 1}) >= Start[suite]
    BY <2>1, <2>2, MaxIs, Zenon
  <2>4. Max({Start[suite], 1}) = Start[suite]
    BY <1>4, <2>3
  <2> QED BY <1>4, <1>5, <2>4 DEF tried
<1>6. CASE MaxOr0(T) # 0
  <2>1. PICK r \in peers(in, recs) : MaxOr0(T) = r.slots
    BY <1>2, <1>6
  <2>2. tried(in, recs) = MaxOr0(T) * growth(in.mode)
    BY <1>6 DEF tried
  <2>3. MaxOr0(T) * growth(in.mode) = growth(in.mode) * r.slots
    BY <1>2, <1>3, <2>1
  <2>4. MaxOr0(T) * growth(in.mode) \in Nat \ {0}
    BY <1>2, <1>3, <1>6
  <2> QED BY <2>1, <2>2, <2>3, <2>4
<1> QED BY <1>5, <1>6

\* More gets no smaller margin.
LEMMA MarginGrows ==
    ASSUME NEW a \in Int, NEW b \in Int, a >= b
    PROVE  withMargin(a) \in Int /\ withMargin(b) \in Int /\ withMargin(a) >= withMargin(b)
BY DEF withMargin

LEMMA LargestIsNumber ==
    ASSUME NEW T \in SUBSET Int, IsFiniteSet(T)
    PROVE  MaxOr0(T) \in Int /\ (MaxOr0(T) # 0 => MaxOr0(T) \in T)
<1>1. CASE T = {}
  BY <1>1 DEF MaxOr0
<1>2. CASE T # {}
  BY <1>2, MaxIs DEF MaxOr0
<1> QED BY <1>1, <1>2

\* What a slot may cost covers what it does cost, wherever a count is taken from it.
LEMMA BudgetCovers ==
    ASSUME suite \in DOMAIN Shipped, NEW h, NEW in \in Confs, NEW recs \in Seq(Record),
           \A i \in DOMAIN recs : Known(h, recs[i])
    PROVE  /\ budgetFor(in, recs) \in Int
           /\ budgetFor(in, recs) > 0 => budgetFor(in, recs) >= Floor[in.corpus] + in.buffers
<1> DEFINE cost(i) == adjusted(recs[i], in)
           covers == {i \in DOMAIN recs : \/ sameCorpus(in, recs, recs[i])
                                          \/ casesOf(in) > 0 /\ recs[i].cases >= casesOf(in)}
           C == {cost(i) : i \in covers}
           A == {cost(i) : i \in DOMAIN recs}
           slot == Floor[in.corpus] + in.buffers
<1>1. /\ in.corpus \in DOMAIN Cases /\ in.buffers \in Nat \ {0} /\ Floor[in.corpus] \in Nat
      /\ Missed \in Nat /\ Shipped[suite] \in Nat /\ Cases[in.corpus] \in Nat \ {0}
  BY SizingAssumption DEF NumbersGiven
<1>2. /\ withMargin(slot - Missed) >= slot
      /\ Shipped[suite] = 0 \/ Shipped[suite] >= slot
  BY SizingAssumption DEF CostsCovered
<1>3. IsFiniteSet(DOMAIN recs) /\ \A i \in DOMAIN recs : recs[i] \in Record
  BY FS_Interval
<1>4. ASSUME NEW i \in DOMAIN recs
      PROVE  /\ recs[i].perSlot \in Nat \ {0} /\ recs[i].buffers \in Nat \ {0}
             /\ cost(i) = recs[i].perSlot - recs[i].buffers + in.buffers
  <2>1. recs[i].perSlot \in Nat \ {0} /\ recs[i].buffers \in Nat \ {0}
    BY <1>3 DEF Record
  <2> QED BY <1>1, <2>1 DEF adjusted
<1>5. \A i \in DOMAIN recs : cost(i) \in Int
  BY <1>1, <1>4
<1>6. ASSUME NEW i \in covers PROVE cost(i) >= slot - Missed
  <2>1. PICK k \in DOMAIN Cases : Evidence(h, recs[i], k)
    BY DEF Known
  <2>2. Floor[k] >= Floor[in.corpus] /\ Floor[k] \in Nat
    <3>1. CASE sameCorpus(in, recs, recs[i])
      BY <1>1, <2>1, <3>1, SameIsSame
    <3>2. CASE casesOf(in) > 0 /\ recs[i].cases >= casesOf(in)
      <4>1. Cases[k] >= Cases[in.corpus]
        BY <1>1, <2>1, <3>2 DEF Evidence, casesOf
      <4> QED BY <1>1, <4>1, SizingAssumption DEF CostsCovered, NumbersGiven
    <3> QED BY <3>1, <3>2
  <2>3. recs[i].perSlot - recs[i].buffers >= Floor[k] - Missed
    BY <1>1, <2>1, <2>2 DEF Evidence
  <2>4. /\ recs[i].perSlot \in Nat /\ recs[i].buffers \in Nat
        /\ cost(i) = recs[i].perSlot - recs[i].buffers + in.buffers
    BY <1>4
  <2>5. \A p, b, x, f, g, m \in Nat :
            p - b >= g - m /\ g >= f => p - b + x >= f + x - m
    OBVIOUS
  <2> HIDE DEF cost
  <2>6. recs[i].perSlot - recs[i].buffers + in.buffers
            >= Floor[in.corpus] + in.buffers - Missed
    BY <1>1, <2>2, <2>3, <2>4, <2>5
  <2> HIDE DEF slot
  <2>7. slot - Missed = Floor[in.corpus] + in.buffers - Missed
    BY <1>1 DEF slot
  <2> QED BY <2>4, <2>6, <2>7
<1> HIDE DEF cost
<1>7. A \in SUBSET Int /\ C \in SUBSET Int /\ C \subseteq A
  BY <1>5
<1>8. IsFiniteSet(A) /\ IsFiniteSet(C)
  <2> DEFINE f == [i \in DOMAIN recs |-> cost(i)]
  <2>1. f \in Surjection(DOMAIN recs, A)
    BY DEF Surjection
  <2>2. IsFiniteSet(A)
    BY <1>3, <2>1, FS_Surjection
  <2> QED BY <1>7, <2>2, FS_Subset
<1>9. MaxOr0(C) \in Int /\ MaxOr0(A) \in Int
  <2> HIDE DEF A, C
  <2> QED BY <1>7, <1>8, LargestIsNumber
<1>10. slot \in Nat /\ slot - Missed \in Int
  BY <1>1
<1> HIDE DEF slot
<1>11. budgetFor(in, recs) = IF MaxOr0(C) > 0 THEN withMargin(MaxOr0(C))
          ELSE IF Shipped[suite] = 0 THEN 0
          ELSE IF withMargin(MaxOr0(A)) > Shipped[suite] THEN withMargin(MaxOr0(A))
          ELSE Shipped[suite]
  BY DEF budgetFor, cost
<1>12. CASE MaxOr0(C) > 0
  <2>1. C # {}
    BY <1>12 DEF MaxOr0
  <2>2. MaxOr0(C) \in C
    BY <1>7, <1>8, <2>1, MaxIs DEF MaxOr0
  <2>3. PICK i \in covers : MaxOr0(C) = cost(i)
    BY <2>2
  <2>4. MaxOr0(C) >= slot - Missed
    BY <1>6, <2>3
  <2> HIDE DEF C, A
  <2>5. /\ withMargin(MaxOr0(C)) \in Int /\ withMargin(slot - Missed) \in Int
        /\ withMargin(MaxOr0(C)) >= withMargin(slot - Missed)
    BY <1>9, <1>10, <2>4, MarginGrows
  <2>6. withMargin(MaxOr0(C)) >= slot
    BY <1>2, <1>10, <2>5
  <2>7. budgetFor(in, recs) = withMargin(MaxOr0(C))
    BY <1>11, <1>12
  <2> QED BY <2>5, <2>6, <2>7 DEF slot
<1>13. CASE ~(MaxOr0(C) > 0)
  <2> HIDE DEF C, A
  <2>1. withMargin(MaxOr0(A)) \in Int
    BY <1>9, MarginGrows
  <2>2. budgetFor(in, recs) \in {0, Shipped[suite], withMargin(MaxOr0(A))}
        /\ (Shipped[suite] = 0 => budgetFor(in, recs) = 0)
        /\ (Shipped[suite] # 0 => budgetFor(in, recs) >= Shipped[suite])
    BY <1>1, <1>11, <1>13, <2>1
  <2> QED BY <1>1, <1>2, <1>10, <2>1, <2>2 DEF slot
<1> QED BY <1>12, <1>13
LEMMA FewAreFinite ==
    ASSUME NEW x, NEW y, NEW z
    PROVE  IsFiniteSet({x, y}) /\ IsFiniteSet({x, y, z})
<1>1. IsFiniteSet({x})
  BY FS_Singleton
<1>2. IsFiniteSet({x} \union {y}) /\ {x} \union {y} = {x, y}
  BY <1>1, FS_AddElement
<1>3. IsFiniteSet({x, y} \union {z}) /\ {x, y} \union {z} = {x, y, z}
  BY <1>2, FS_AddElement
<1> QED BY <1>2, <1>3

\* The knee and the corpus bound, where there are any, are numbers.
LEMMA KneeIs ==
    ASSUME NEW in \in Confs, NEW recs \in Seq(Record)
    PROVE  IsFiniteSet(knee(in, recs)) /\ knee(in, recs) \subseteq Int
<1> DEFINE runs == {r \in peers(in, recs) : r.wall > 0}
           fastest == Min({r.wall : r \in runs})
           near == {q \in runs : q.wall * 100 <= fastest * 105}
           best == Min({r.slots : r \in near})
<1>1. CASE knee(in, recs) = {}
  BY <1>1, FS_EmptySet
<1>2. CASE knee(in, recs) # {}
  <2>1. knee(in, recs) = {best} /\ Cardinality(runs) >= 2
    BY <1>2 DEF knee
  <2>2. IsFiniteSet(runs) /\ runs \subseteq Record
    BY PeersAre, FS_Subset
  <2>3. runs # {}
    <3> HIDE DEF runs
    <3>1. Cardinality({}) = 0
      BY FS_EmptySet
    <3> QED BY <2>1, <3>1
  <2> DEFINE W == {r.wall : r \in runs}
             w == [r \in runs |-> r.wall]
  <2>4. W \in SUBSET Int /\ W # {} /\ IsFiniteSet(W)
    <3>1. w \in Surjection(runs, W)
      BY DEF Surjection
    <3>2. IsFiniteSet(W)
      BY <2>2, <3>1, FS_Surjection
    <3>3. \A x \in runs : x.wall \in Int /\ x.wall \in W
      BY <2>2 DEF Record
    <3> QED BY <2>3, <3>2, <3>3
  <2>5. Min(W) \in W
    <3> HIDE DEF W
    <3> QED BY <2>4, MinIs
  <2>6. PICK r \in runs : fastest = r.wall
    BY <2>5
  <2>7. r \in near
    BY <2>2, <2>6 DEF Record
  <2>8. IsFiniteSet(near) /\ near \subseteq Record
    BY <2>2, FS_Subset
  <2> DEFINE T == {q.slots : q \in near}
  <2>9. T \in SUBSET (Nat \ {0}) /\ IsFiniteSet(T) /\ T # {}
    <3> HIDE DEF near
    <3> QED BY <2>7, <2>8, SlotsOfPeers
  <2>10. Min(T) \in T
    <3> HIDE DEF T
    <3> QED BY <2>9, MinIs
  <2>11. best \in Int
    <3>1. best = Min(T)
      OBVIOUS
    <3>2. \A x \in T : x \in Int
      <4> HIDE DEF T
      <4> QED BY <2>9
    <3> HIDE DEF T, best
    <3> QED BY <2>10, <3>1, <3>2, Zenon
  <2> QED BY <2>1, <2>11, FS_Singleton
<1> QED BY <1>1, <1>2

LEMMA CorpusBoundIs ==
    ASSUME suite \in DOMAIN Shipped, NEW in \in Confs, NEW recs \in Seq(Record)
    PROVE  IsFiniteSet(corpusBound(in, recs)) /\ corpusBound(in, recs) \subseteq Int
<1> DEFINE told == {i \in DOMAIN recs : recs[i].caseS > 0 /\ recs[i].longest > 0}
           same == {i \in told : sameCorpus(in, recs, recs[i])}
           other == {i \in told : casesOf(in) > 0 /\ recs[i].cases > 0}
           first(S) == recs[Min(S)]
<1>1. IsFiniteSet(DOMAIN recs) /\ DOMAIN recs \subseteq Int /\ \A i \in DOMAIN recs : recs[i] \in Record
  BY FS_Interval
<1>2. casesOf(in) \in Nat
  BY SizingAssumption DEF casesOf, NumbersGiven
<1>3. ASSUME NEW S \in SUBSET told, S # {}
      PROVE  first(S).caseS \in Nat \ {0} /\ first(S).longest \in Nat \ {0} /\ Min(S) \in S
  <2>1. IsFiniteSet(S) /\ S \in SUBSET Int
    BY <1>1, FS_Subset
  <2>2. Min(S) \in S
    BY <1>3, <2>1, MinIs
  <2>3. Min(S) \in told /\ Min(S) \in DOMAIN recs
    BY <2>2
  <2>4. first(S).caseS > 0 /\ first(S).longest > 0
    BY <2>3
  <2>5. first(S).caseS \in Nat /\ first(S).longest \in Nat
    BY <1>1, <2>3 DEF Record
  <2> QED BY <2>2, <2>4, <2>5
<1>4. CASE same # {}
  <2>1. corpusBound(in, recs) = {first(same).caseS \div first(same).longest}
    BY <1>4 DEF corpusBound
  <2>2. first(same).caseS \div first(same).longest \in Int
    <3> HIDE DEF first
    <3>1. same \in SUBSET told
      OBVIOUS
    <3> HIDE DEF same, told
    <3> QED BY <1>3, <1>4, <3>1
  <2> HIDE DEF first, same
  <2> QED BY <2>1, <2>2, FS_Singleton
<1>5. CASE same = {} /\ other # {}
  <2> DEFINE r == first(other)
  <2>1. corpusBound(in, recs) = {((r.caseS * casesOf(in)) \div r.cases) \div r.longest}
    BY <1>5 DEF corpusBound
  <2>2. r.caseS \in Nat /\ r.longest \in Nat \ {0} /\ r.cases \in Nat \ {0}
    <3>1. Min(other) \in other /\ r.caseS \in Nat /\ r.longest \in Nat \ {0}
      BY <1>3, <1>5
    <3> QED BY <1>1, <3>1 DEF Record
  <2> HIDE DEF r
  <2>3. r.caseS * casesOf(in) \in Int
    BY <1>2, <2>2
  <2>4. (r.caseS * casesOf(in)) \div r.cases \in Int
    BY <2>2, <2>3
  <2>5. ((r.caseS * casesOf(in)) \div r.cases) \div r.longest \in Int
    BY <2>2, <2>4
  <2> QED BY <2>1, <2>5, FS_Singleton
<1>6. CASE same = {} /\ other = {}
  BY <1>6, FS_EmptySet DEF corpusBound
<1> QED BY <1>4, <1>5, <1>6

\* A count that divides the memory fits it.
LEMMA DividedFits ==
    ASSUME NEW n \in Nat, NEW p \in Nat \ {0}, NEW q \in Nat, q <= p, NEW a \in Int, n <= a \div p
    PROVE  n * q <= a
<1>1. n * p <= (a \div p) * p
  <2>1. \A x \in Int : n <= x => n * p <= x * p
    OBVIOUS
  <2>2. a \div p \in Int
    OBVIOUS
  <2> QED BY <2>1, <2>2
<1>2. (a \div p) * p <= a
  OBVIOUS
<1>3. n * q <= n * p
  OBVIOUS
<1>4. n * q \in Int /\ n * p \in Int /\ (a \div p) * p \in Int
  OBVIOUS
<1> QED BY <1>1, <1>2, <1>3, <1>4
\* What a run takes: a number of slots that the machine allows, and, where no
\* count is written down, more than one only of what fits and was tried.
LEMMA SlotsAre ==
    ASSUME suite \in DOMAIN Shipped, NEW h, NEW in \in Confs, NEW recs \in Seq(Record),
           \A i \in DOMAIN recs : Known(h, recs[i])
    PROVE  /\ Slots(in, recs) \in DOMAIN Wall
           /\ (in.configured = 0 /\ Slots(in, recs) > 1) =>
                 /\ Slots(in, recs) <= tried(in, recs)
                 /\ in.mode # "aggressive" =>
                       Slots(in, recs) * (Floor[in.corpus] + in.buffers)
                          <= Avail - reservedMB - Shared
<1> DEFINE budget == factored(budgetFor(in, recs), in.mode)
           per == IF budget < 1 THEN 1 ELSE budget
           free == Avail - reservedMB - Shared
           bounds == {free \div per, CPUs, tried(in, recs)}
                        \union ({casesOf(in)} \ {0})
                        \union (IF in.mode = "aggressive" THEN {} ELSE knee(in, recs))
                        \union corpusBound(in, recs)
           slot == Floor[in.corpus] + in.buffers
<1>1. /\ CPUs \in Nat \ {0} /\ DOMAIN Wall = 1..Len(Wall) /\ Len(Wall) \in Nat /\ CPUs <= Len(Wall)
      /\ in.configured \in {0} \union DOMAIN Wall
      /\ in.mode \in {"conservative", "measured", "aggressive"}
      /\ slot \in Nat \ {0} /\ free \in Int /\ casesOf(in) \in Nat
  <2>1. /\ Wall \in Seq(Nat) /\ CPUs \in DOMAIN Wall /\ Avail \in Nat /\ Shared \in Nat
        /\ in.configured \in {0} \union DOMAIN Wall
        /\ in.mode \in {"conservative", "measured", "aggressive"}
        /\ in.corpus \in DOMAIN Cases /\ in.buffers \in Nat \ {0}
    BY SizingAssumption DEF NumbersGiven
  <2>2. Floor[in.corpus] \in Nat /\ Cases[in.corpus] \in Nat
    BY <2>1, SizingAssumption DEF NumbersGiven
  <2>3. slot \in Nat \ {0} /\ free \in Int
    <3>1. slot \in Nat \ {0}
      <4>1. Floor[in.corpus] \in Nat /\ in.buffers \in Nat \ {0}
        BY <2>1, <2>2
      <4>2. \A x \in Nat, y \in Nat \ {0} : x + y \in Nat \ {0}
        OBVIOUS
      <4> QED BY <4>1, <4>2
    <3>2. Avail - reservedMB - Shared \in Int
      BY <2>1 DEF reservedMB
    <3> QED BY <3>1, <3>2
  <2>4. casesOf(in) \in Nat
    BY <2>2 DEF casesOf
  <2>5. CPUs \in Nat \ {0} /\ DOMAIN Wall = 1..Len(Wall) /\ Len(Wall) \in Nat /\ CPUs <= Len(Wall)
    BY <2>1
  <2> QED BY <2>1, <2>3, <2>4, <2>5
<1>2. /\ budgetFor(in, recs) \in Int
      /\ budgetFor(in, recs) > 0 => budgetFor(in, recs) >= slot
  BY BudgetCovers
<1>3. budget \in Int /\ per \in Nat \ {0}
  <2>1. \A b \in Int : factored(b, in.mode) \in Int
    BY DEF factored
  <2>2. budget \in Int
    BY <2>1, <1>2
  <2>3. \A b \in Int : (IF b < 1 THEN 1 ELSE b) \in Nat \ {0}
    OBVIOUS
  <2> HIDE DEF budget
  <2> QED BY <2>2, <2>3
<1>4. tried(in, recs) \in Nat \ {0}
  BY TriedIs
<1>5. free \div per \in Int
  <2> HIDE DEF per, free
  <2> QED BY <1>1, <1>3
<1>6. IsFiniteSet(bounds) /\ bounds \in SUBSET Int
  <2>1. IsFiniteSet({free \div per, CPUs, tried(in, recs)})
    BY FewAreFinite
  <2>2. IsFiniteSet({casesOf(in)} \ {0}) /\ {casesOf(in)} \ {0} \subseteq Int
    <3>1. IsFiniteSet({casesOf(in)})
      BY FS_Singleton
    <3>2. IsFiniteSet({casesOf(in)} \ {0})
      BY <3>1, FS_RemoveElement
    <3> QED BY <1>1, <3>2
  <2>3. LET K == IF in.mode = "aggressive" THEN {} ELSE knee(in, recs)
        IN  IsFiniteSet(K) /\ K \subseteq Int
    BY KneeIs, FS_EmptySet
  <2>4. IsFiniteSet(corpusBound(in, recs)) /\ corpusBound(in, recs) \subseteq Int
    BY CorpusBoundIs
  <2>5. {free \div per, CPUs, tried(in, recs)} \subseteq Int
    <3> HIDE DEF per, free
    <3> QED BY <1>1, <1>4, <1>5
  <2> HIDE DEF per, free
  <2> QED BY <2>1, <2>2, <2>3, <2>4, <2>5, FS_Union
<1>7. /\ free \div per \in bounds /\ CPUs \in bounds /\ tried(in, recs) \in bounds
  OBVIOUS
<1>8. Slots(in, recs) = IF in.configured > 0 THEN in.configured
          ELSE IF budgetFor(in, recs) <= 0 \/ Min(bounds) < 1 THEN 1 ELSE Min(bounds)
  BY DEF Slots
<1> HIDE DEF bounds
<1>9. /\ Min(bounds) \in Int /\ Min(bounds) <= free \div per
      /\ Min(bounds) <= CPUs /\ Min(bounds) <= tried(in, recs)
  <2>1. bounds # {}
    BY <1>7
  <2>2. Min(bounds) \in bounds /\ \A y \in bounds : Min(bounds) <= y
    BY <1>6, <2>1, MinIs
  <2> HIDE DEF per, free
  <2> QED BY <1>6, <1>7, <2>2
<1>10. CASE in.configured > 0
  BY <1>1, <1>8, <1>10
<1>11. CASE in.configured = 0 /\ (budgetFor(in, recs) <= 0 \/ Min(bounds) < 1)
  BY <1>1, <1>8, <1>11
<1>12. CASE in.configured = 0 /\ ~(budgetFor(in, recs) <= 0 \/ Min(bounds) < 1)
  <2>1. Slots(in, recs) = Min(bounds)
    BY <1>8, <1>12
  <2>2. Min(bounds) \in Nat \ {0} /\ Min(bounds) \in DOMAIN Wall
    BY <1>1, <1>9, <1>12
  <2>3. ASSUME in.mode # "aggressive" PROVE Min(bounds) * slot <= free
    <3>1. budget >= budgetFor(in, recs)
      BY <1>1, <1>2, <1>12, <2>3 DEF factored
    <3>2. slot <= per
      BY <1>1, <1>2, <1>3, <1>12, <3>1
    <3> HIDE DEF per, slot, free
    <3> QED BY <1>1, <1>3, <1>9, <2>2, <3>2, DividedFits
  <2> QED BY <1>9, <2>1, <2>2, <2>3
<1> QED BY <1>1, <1>10, <1>11, <1>12

\* A record of a run that ended: it is of this corpus, with these slots.
LEMMA StopIs ==
    ASSUME suite \in DOMAIN Shipped, NEW h \in Hosts, conf \in [Hosts -> Confs],
           run[h].slots \in DOMAIN Wall,
           NEW less \in {0, Missed}, NEW hang \in BOOLEAN, NEW s \in {0, Shared}
    PROVE  LET r == Stop(h, Floor[conf[h].corpus] - less, hang, s)
           IN  /\ r \in Record /\ r.path = Path[suite][conf[h].corpus]
               /\ r.cases = Cases[conf[h].corpus] /\ r.lane = conf[h].lane
               /\ r.slots = run[h].slots
               /\ r.perSlot - r.buffers = Floor[conf[h].corpus] - less
<1> DEFINE c == conf[h]
           n == run[h].slots
           cost == Floor[c.corpus] - less
           slot == Floor[c.corpus] + c.buffers
           peak == n * (cost + c.buffers) + s
           own == IF s < peak THEN s ELSE peak
           r == Stop(h, cost, hang, s)
<1>1. /\ c \in Confs /\ c.corpus \in DOMAIN Cases /\ c.buffers \in Nat \ {0}
      /\ Floor[c.corpus] \in Nat /\ less \in Nat /\ s \in Nat /\ less <= Missed /\ Missed \in Nat
      /\ n \in Nat \ {0} /\ Wall[n] \in Nat /\ Cases[c.corpus] \in Nat \ {0}
      /\ CaseS \in Nat /\ LongestUnitS \in Nat
  <2>1. c \in Confs /\ c.corpus \in DOMAIN Cases /\ c.buffers \in Nat \ {0}
    BY SizingAssumption DEF NumbersGiven
  <2>2. {Missed, Shared, CaseS, LongestUnitS} \subseteq Nat /\ Wall \in Seq(Nat)
    BY SizingAssumption DEF NumbersGiven
  <2>3. Floor[c.corpus] \in Nat /\ Cases[c.corpus] \in Nat \ {0}
    BY <2>1, SizingAssumption DEF NumbersGiven
  <2>4. n \in Nat \ {0} /\ Wall[n] \in Nat
    BY <2>2
  <2>5. less \in Nat /\ s \in Nat /\ less <= Missed
    BY <2>2
  <2> QED BY <2>1, <2>2, <2>3, <2>4, <2>5
<1>2. withMargin(slot - Missed) >= slot /\ slot \in Nat \ {0}
  BY <1>1, SizingAssumption DEF CostsCovered
<1>3. cost + c.buffers \in Nat \ {0}
  <2>1. slot - Missed \in Int
    BY <1>1
  <2> HIDE DEF slot
  <2>2. slot - Missed > 0
    BY <1>2, <2>1 DEF withMargin
  <2> USE DEF slot
  <2> QED BY <1>1, <2>2
<1>4. n * (cost + c.buffers) \in Nat \ {0} /\ (n * (cost + c.buffers)) \div n = cost + c.buffers
  <2>1. \A x, y \in Nat \ {0} : x * y \in Nat \ {0} /\ (x * y) \div x = y
    OBVIOUS
  <2> HIDE DEF cost, n
  <2> QED BY <1>1, <1>3, <2>1
<1>5. own = s /\ peak > own /\ peak - own = n * (cost + c.buffers)
  <2> DEFINE m == n * (cost + c.buffers)
  <2>1. m \in Nat \ {0} /\ peak = m + s
    BY <1>4
  <2> HIDE DEF m, peak
  <2>2. own = s /\ peak > own /\ peak - own = m
    BY <1>1, <2>1
  <2> QED BY <2>2 DEF m
<1>6. r = [path |-> pathOf(c), lane |-> c.lane, buffers |-> c.buffers, slots |-> n,
         cases |-> Cases[c.corpus], wall |-> Wall[n] + (IF hang THEN 1000 ELSE 0),
         caseS |-> CaseS, longest |-> LongestUnitS,
         perSlot |-> IF peak > own THEN (peak - own) \div n ELSE 0]
  BY DEF Stop
<1>7. (IF peak > own THEN (peak - own) \div n ELSE 0) = cost + c.buffers
  <2> HIDE DEF peak, own, cost
  <2> QED BY <1>4, <1>5
<1>8. pathOf(c) = Path[suite][c.corpus] /\ pathOf(c) \in Paths
  BY <1>1 DEF pathOf, Paths
<1>9. Wall[n] + (IF hang THEN 1000 ELSE 0) \in Nat
  BY <1>1
<1> HIDE DEF peak, own, r
<1>10. r \in Record
  <2>1. c.lane \in {d.lane : d \in Confs}
    BY <1>1
  <2> HIDE DEF cost, n, c
  <2> QED BY <1>1, <1>3, <1>6, <1>7, <1>8, <1>9, <2>1 DEF Record
<1>11. r.perSlot = cost + c.buffers /\ r.buffers = c.buffers
  BY <1>6, <1>7
<1>12. r.perSlot - r.buffers = cost
  BY <1>1, <1>11
<1> QED BY <1>6, <1>8, <1>10, <1>12 DEF r
-----------------------------------------------------------------------------
(* The steps.                                                              *)

\* What is known of a machine stays known.
LEMMA KnownStays ==
    ASSUME suite' = suite, NEW h, ran[h] \subseteq ran'[h], NEW r, Known(h, r)
    PROVE  Known(h, r)'
BY DEF Known, Evidence

\* Trimming keeps the newest runs, all of them where there are no more than Keep.
LEMMA TrimIs ==
    ASSUME NEW f \in [Hosts -> Seq(Record)], NEW h \in Hosts
    PROVE  /\ Trim(f) \in [Hosts -> Seq(Record)]
           /\ Len(Trim(f)[h]) <= Keep /\ Len(Trim(f)[h]) <= Len(f[h])
           /\ \A i \in DOMAIN Trim(f)[h] : i \in DOMAIN f[h] /\ Trim(f)[h][i] = f[h][i]
           /\ Len(f[h]) > 0 => Len(Trim(f)[h]) > 0
           /\ Len(f[h]) <= Keep => Trim(f)[h] = f[h]
<1>1. Keep \in Nat \ {0}
  BY SizingAssumption DEF NumbersGiven
<1> DEFINE kept(g) == Min({Len(f[g]), Keep})
           m == kept(h)
<1>2. ASSUME NEW g \in Hosts
      PROVE  /\ kept(g) \in {Len(f[g]), Keep} /\ kept(g) <= Len(f[g]) /\ kept(g) <= Keep
             /\ SubSeq(f[g], 1, kept(g)) \in Seq(Record) /\ Len(SubSeq(f[g], 1, kept(g))) = kept(g)
             /\ \A i \in 1..kept(g) : SubSeq(f[g], 1, kept(g))[i] = f[g][i]
  <2>1. f[g] \in Seq(Record) /\ Len(f[g]) \in Nat
    OBVIOUS
  <2>2. IsFiniteSet({Len(f[g]), Keep}) /\ {Len(f[g]), Keep} \in SUBSET Int
    <3>1. IsFiniteSet({Len(f[g]), Keep})
      BY FewAreFinite, Zenon
    <3> QED BY <1>1, <2>1, <3>1
  <2>3. kept(g) \in {Len(f[g]), Keep} /\ kept(g) <= Len(f[g]) /\ kept(g) <= Keep
    BY <2>2, MinIs
  <2> HIDE DEF kept
  <2> QED BY <1>1, <2>1, <2>3
<1>3. Trim(f) = [g \in Hosts |-> SubSeq(f[g], 1, kept(g))]
  BY DEF Trim
<1> HIDE DEF kept
<1>4. Trim(f) \in [Hosts -> Seq(Record)] /\ Trim(f)[h] = SubSeq(f[h], 1, m)
  BY <1>2, <1>3
<1>5. /\ m \in {Len(f[h]), Keep} /\ m <= Len(f[h]) /\ m <= Keep /\ Len(Trim(f)[h]) = m
      /\ \A i \in 1..m : Trim(f)[h][i] = f[h][i]
  BY <1>2, <1>4
<1> HIDE DEF m
<1>6. Trim(f)[h] \in Seq(Record) /\ f[h] \in Seq(Record)
  BY <1>4
<1>7. DOMAIN Trim(f)[h] = 1..m /\ DOMAIN f[h] = 1..Len(f[h]) /\ Len(f[h]) \in Nat
  BY <1>5, <1>6
<1>8. ASSUME Len(f[h]) <= Keep PROVE Trim(f)[h] = f[h]
  BY <1>1, <1>5, <1>6, <1>7, <1>8
<1> QED BY <1>1, <1>4, <1>5, <1>7, <1>8

\* A step that leaves the suite alone, and takes nothing from what the machines
\* have ended, leaves what a file says known.
LEMMA FileStays ==
    ASSUME suite' = suite, \A h \in Hosts : ran[h] \subseteq ran'[h], NEW f, FileOf(f)
    PROVE  FileOf(f)'
BY KnownStays DEF FileOf

LEMMA RunStays ==
    ASSUME suite' = suite, \A h \in Hosts : ran[h] \subseteq ran'[h],
           NEW h \in Hosts, run'[h] = run[h], RunIs(h)
    PROVE  RunIs(h)'
<1>1. CASE run[h] = None
  BY <1>1 DEF RunIs, None
<1>2. CASE \E n \in DOMAIN Wall : run[h] = [at |-> "running", slots |-> n]
  BY <1>2 DEF RunIs
<1>3. CASE /\ \E n \in DOMAIN Wall, r \in Record, f \in [Hosts -> Seq(Record)] :
                 run[h] = [at |-> "saving", slots |-> n, rec |-> r, read |-> f]
           /\ Known(h, run[h].rec) /\ FileOf(run[h].read)
  <2>1. Known(h, run[h].rec)' /\ FileOf(run[h].read)'
    <3>1. Known(h, run[h].rec)'
      <4> DEFINE r == run[h].rec
      <4>1. Known(h, r)
        BY <1>3
      <4>2. run'[h].rec = r
        OBVIOUS
      <4> QED BY <4>1, <4>2 DEF Known, Evidence
    <3>2. FileOf(run[h].read)'
      <4>1. PICK f : f = run[h].read
        OBVIOUS
      <4>2. FileOf(f)'
        BY <1>3, <4>1, FileStays
      <4> QED BY <4>1, <4>2 DEF FileOf
    <3> QED BY <3>1, <3>2
  <2> QED BY <1>3, <2>1 DEF RunIs
<1> QED BY <1>1, <1>2, <1>3 DEF RunIs
-----------------------------------------------------------------------------
(* The invariant.                                                          *)

Fits(h) ==
    (run[h].at = "running" /\ run[h].slots > 1 /\ conf[h].mode # "aggressive" /\ conf[h].configured = 0)
      => run[h].slots * (Floor[conf[h].corpus] + conf[h].buffers)
           <= Avail - reservedMB - Shared
Grows(h) ==
    (run[h].at = "running" /\ run[h].slots > Start[suite] /\ conf[h].configured = 0)
      => \E r \in ran[h] : /\ r.corpus = conf[h].corpus /\ r.lane = conf[h].lane
                           /\ run[h].slots <= growth(conf[h].mode) * r.slots

LEMMA PerHost ==
    /\ FitsMemory <=> \A h \in Hosts : Fits(h)
    /\ GrowsOnEvidence <=> \A h \in Hosts : Grows(h)
BY DEF FitsMemory, GrowsOnEvidence, Fits, Grows

LEMMA SizingInit == Init => SizingInv
<1> SUFFICES ASSUME Init PROVE SizingInv
  OBVIOUS
<1>1. /\ suite \in DOMAIN Shipped /\ run = [h \in Hosts |-> None]
      /\ ran = [h \in Hosts |-> {}] /\ trouble = Trouble
      /\ file = [h \in Hosts |-> <<>>]
  BY DEF Init
<1>2. conf \in [Hosts -> Confs]
  BY DEF Init
<1>3. FileOf(file)
  BY <1>1, SizingAssumption DEF FileOf, NumbersGiven
<1>4. \A h \in Hosts : RunIs(h) /\ Fits(h) /\ Grows(h)
  BY <1>1 DEF RunIs, Fits, Grows, None
<1> QED BY <1>1, <1>2, <1>3, <1>4, PerHost DEF SizingInv

\* What a step of machine h leaves to show: what it says of h itself.
LEMMA OthersStay ==
    ASSUME SizingInv, NEW h \in Hosts, suite' = suite, conf' = conf,
           ran' = [g \in Hosts |-> ran'[g]], run' = [g \in Hosts |-> run'[g]],
           \A g \in Hosts \ {h} : run'[g] = run[g] /\ ran'[g] = ran[g],
           ran[h] \subseteq ran'[h], FileOf(file)', RunIs(h)', Fits(h)', Grows(h)'
    PROVE  SizingInv'
<1>1. \A g \in Hosts : ran[g] \subseteq ran'[g]
  OBVIOUS
<1>2. ASSUME NEW g \in Hosts PROVE RunIs(g)' /\ Fits(g)' /\ Grows(g)'
  <2>1. CASE g = h
    BY <2>1
  <2>2. CASE g # h
    <3>1. RunIs(g) /\ Fits(g) /\ Grows(g)
      BY PerHost DEF SizingInv
    <3>2. run'[g] = run[g] /\ ran'[g] = ran[g]
      BY <2>2
    <3>3. RunIs(g)'
      BY <1>1, <3>1, <3>2, RunStays
    <3>4. Fits(g)'
      BY <3>1, <3>2 DEF Fits
    <3>5. Grows(g)'
      BY <3>1, <3>2 DEF Grows
    <3> QED BY <3>3, <3>4, <3>5
  <2> QED BY <2>1, <2>2
<1>3. FitsMemory' /\ GrowsOnEvidence'
  BY <1>2 DEF FitsMemory, GrowsOnEvidence, Fits, Grows
<1> QED BY <1>2, <1>3 DEF SizingInv

\* A run that is begun: what was decided fits, and grows on a run that ended.
LEMMA BeginSafe ==
    ASSUME SizingInv, NEW h \in Hosts, Begin(h)
    PROVE  SizingInv'
<1> DEFINE in == conf[h]
           recs == file[h]
           n == Slots(in, recs)
<1>1. /\ suite' = suite /\ conf' = conf /\ ran' = ran /\ file' = file
      /\ run' = [run EXCEPT ![h] = [at |-> "running", slots |-> n]]
  BY DEF Begin, Load
<1>2. /\ suite \in DOMAIN Shipped /\ in \in Confs /\ recs \in Seq(Record)
      /\ \A i \in DOMAIN recs : Known(h, recs[i])
  BY DEF SizingInv, FileOf
<1>3. /\ n \in DOMAIN Wall
      /\ (in.configured = 0 /\ n > 1) =>
            /\ n <= tried(in, recs)
            /\ in.mode # "aggressive" =>
                  n * (Floor[in.corpus] + in.buffers) <= Avail - reservedMB - Shared
  <2> HIDE DEF in, recs
  <2> QED BY <1>2, SlotsAre DEF n
<1>4. /\ run'[h] = [at |-> "running", slots |-> n]
      /\ \A g \in Hosts \ {h} : run'[g] = run[g]
      /\ run' = [g \in Hosts |-> run'[g]]
  <2> HIDE DEF n
  <2> QED BY <1>1 DEF SizingInv
<1> HIDE DEF n
<1>5. RunIs(h)'
  BY <1>3, <1>4 DEF RunIs
<1>6. Fits(h)'
  BY <1>1, <1>3, <1>4 DEF Fits
<1>7. Grows(h)'
  <2> SUFFICES ASSUME n > Start[suite], in.configured = 0
               PROVE  \E r \in ran[h] : /\ r.corpus = in.corpus /\ r.lane = in.lane
                                        /\ n <= growth(in.mode) * r.slots
    BY <1>1, <1>4 DEF Grows
  <2>1. n \in Nat /\ Start[suite] \in Nat \ {0}
    <3>1. Wall \in Seq(Nat) /\ Start[suite] \in Nat \ {0}
      BY <1>2, SizingAssumption DEF NumbersGiven
    <3> QED BY <1>3, <3>1
  <2>2. n <= tried(in, recs)
    BY <1>3, <2>1
  <2>3. PICK p \in peers(in, recs) : tried(in, recs) = growth(in.mode) * p.slots
    <3> HIDE DEF in, recs
    <3>1. tried(in, recs) # Start[suite]
      BY <1>2, <2>1, <2>2
    <3> QED BY <1>2, <3>1, TriedIs
  <2>4. PICK i \in DOMAIN recs : p = recs[i] /\ p.lane = in.lane /\ sameCorpus(in, recs, p)
    <3> HIDE DEF in, recs
    <3> QED BY <1>2, PeersAre
  <2>5. PICK k \in DOMAIN Cases : Evidence(h, recs[i], k)
    BY <1>2 DEF Known
  <2>6. k = in.corpus
    <3> HIDE DEF in, recs
    <3> QED BY <1>2, <2>4, <2>5, SameIsSame
  <2>7. [corpus |-> in.corpus, lane |-> in.lane, slots |-> p.slots] \in ran[h]
    <3> HIDE DEF in, recs
    <3> QED BY <2>4, <2>5, <2>6 DEF Evidence
  <2> HIDE DEF in, recs
  <2> QED BY <2>2, <2>3, <2>7
<1>8. FileOf(file)'
  BY <1>1 DEF SizingInv, FileOf, Known, Evidence
<1> QED BY <1>1, <1>4, <1>5, <1>6, <1>7, <1>8, OthersStay DEF SizingInv

\* A run that ended: its record is evidence of it.
LEMMA FinishSafe ==
    ASSUME SizingInv, NEW h \in Hosts, Finish(h)
    PROVE  SizingInv'
<1>1. PICK hang \in BOOLEAN, missed \in BOOLEAN, s \in {0, Shared} :
         run' = [run EXCEPT ![h] = [at |-> "saving", slots |-> @.slots,
                   rec |-> Stop(h, Floor[conf[h].corpus] - (IF missed THEN Missed ELSE 0), hang, s),
                   read |-> file]]
  BY DEF Finish
<1> DEFINE less == IF missed THEN Missed ELSE 0
           n == run[h].slots
           mark == [corpus |-> conf[h].corpus, lane |-> conf[h].lane, slots |-> n]
<1>2. /\ suite' = suite /\ conf' = conf /\ file' = file /\ run[h].at = "running"
      /\ ran' = [ran EXCEPT ![h] = @ \union {mark}]
  BY DEF Finish
<1>3. /\ suite \in DOMAIN Shipped /\ conf \in [Hosts -> Confs] /\ FileOf(file)
      /\ conf[h] \in Confs /\ conf[h].corpus \in DOMAIN Cases
  BY SizingAssumption DEF SizingInv, NumbersGiven
<1>4. n \in DOMAIN Wall
  BY <1>2 DEF SizingInv, RunIs, None
<1>5. less \in {0, Missed}
  OBVIOUS
<1>6. PICK rec \in Record :
         /\ rec = Stop(h, Floor[conf[h].corpus] - less, hang, s)
         /\ rec.path = Path[suite][conf[h].corpus]
         /\ rec.cases = Cases[conf[h].corpus] /\ rec.lane = conf[h].lane
         /\ rec.slots = n
         /\ rec.perSlot - rec.buffers = Floor[conf[h].corpus] - less
  <2> HIDE DEF less
  <2> QED BY <1>3, <1>4, <1>5, StopIs
<1>7. /\ run'[h] = [at |-> "saving", slots |-> n, rec |-> rec, read |-> file]
      /\ \A g \in Hosts \ {h} : run'[g] = run[g]
      /\ run' = [g \in Hosts |-> run'[g]]
  BY <1>1, <1>6 DEF SizingInv
<1>8. /\ ran' = [g \in Hosts |-> ran'[g]] /\ mark \in ran'[h] /\ ran[h] \subseteq ran'[h]
      /\ \A g \in Hosts \ {h} : ran'[g] = ran[g]
  <2> HIDE DEF mark
  <2> QED BY <1>2 DEF SizingInv
<1>9. Known(h, rec)'
  <2>1. Floor[conf[h].corpus] \in Nat /\ Missed \in Nat
    BY <1>3, SizingAssumption DEF NumbersGiven
  <2>2. rec.perSlot - rec.buffers \in {Floor[conf[h].corpus], Floor[conf[h].corpus] - Missed}
    BY <1>5, <1>6, <2>1
  <2>3. \E k \in DOMAIN Cases :
           /\ rec.path = Path[suite][k] /\ rec.cases = Cases[k]
           /\ [corpus |-> k, lane |-> rec.lane, slots |-> rec.slots] \in ran'[h]
           /\ rec.perSlot - rec.buffers \in {Floor[k], Floor[k] - Missed}
    BY <1>3, <1>6, <1>8, <2>2
  <2> QED BY <1>2, <2>3 DEF Known, Evidence
<1>10. \A g \in Hosts : ran[g] \subseteq ran'[g]
  BY <1>8
<1>11. FileOf(file)'
  <2>1. PICK f : f = file
    OBVIOUS
  <2>2. FileOf(f)'
    BY <1>2, <1>3, <1>10, <2>1, FileStays
  <2> QED BY <1>2, <2>1, <2>2 DEF FileOf
<1>12. RunIs(h)'
  <2>1. file \in [Hosts -> Seq(Record)]
    BY <1>3 DEF FileOf
  <2>2. Known(h, run[h].rec)'
    BY <1>7, <1>9 DEF Known, Evidence
  <2>3. FileOf(run[h].read)'
    BY <1>2, <1>7, <1>11 DEF FileOf
  <2>4. (\E x \in DOMAIN Wall, r \in Record, f \in [Hosts -> Seq(Record)] :
           run[h] = [at |-> "saving", slots |-> x, rec |-> r, read |-> f])'
    BY <1>4, <1>7, <2>1
  <2> QED BY <2>2, <2>3, <2>4 DEF RunIs
<1>13. Fits(h)' /\ Grows(h)'
  BY <1>7 DEF Fits, Grows
<1> HIDE DEF mark, less
<1> QED BY <1>2, <1>7, <1>8, <1>11, <1>12, <1>13, OthersStay

\* A machine that is idle keeps nothing to show.
LEMMA IdleSafe ==
    ASSUME SizingInv, NEW h \in Hosts, run' = [run EXCEPT ![h] = None],
           suite' = suite, conf' = conf, ran' = ran, FileOf(file)'
    PROVE  SizingInv'
<1>1. /\ run' = [g \in Hosts |-> run'[g]] /\ run'[h] = None
      /\ ran' = [g \in Hosts |-> ran'[g]]
      /\ \A g \in Hosts \ {h} : run'[g] = run[g] /\ ran'[g] = ran[g]
  BY DEF SizingInv
<1>2. RunIs(h)' /\ Fits(h)' /\ Grows(h)'
  BY <1>1 DEF RunIs, Fits, Grows, None
<1> QED BY <1>1, <1>2, OthersStay

\* A run is saved into what was read of the file when it ended.
LEMMA SavingIs ==
    ASSUME SizingInv, NEW h \in Hosts, Rename(h)
    PROVE  /\ run[h].at = "saving" /\ FileOf(file)'
           /\ file'[h][1] = run[h].rec
           /\ \A g \in Hosts \ {h} : file'[g] = run[h].read[g]
<1>1. run[h].at = "saving" /\ file' = Trim([run[h].read EXCEPT ![h] = <<run[h].rec>> \o @])
      /\ suite' = suite /\ ran' = ran
  BY DEF Rename
<1>2. FileOf(run[h].read) /\ Known(h, run[h].rec)
  BY <1>1 DEF SizingInv, RunIs, None
<1>3. PICK f, r : f = run[h].read /\ r = run[h].rec
  OBVIOUS
<1>4. PICK e, g : e = [f EXCEPT ![h] = <<r>> \o @] /\ g = Trim(e)
  OBVIOUS
<1>5. FileOf(g) /\ g[h][1] = r /\ \A x \in Hosts \ {h} : g[x] = f[x]
  <2>1. /\ f \in [Hosts -> Seq(Record)] /\ r \in Record
        /\ \A x \in Hosts : Len(f[x]) <= Keep /\ \A i \in DOMAIN f[x] : Known(x, f[x][i])
    BY <1>2, <1>3 DEF FileOf, Known
  <2>2. /\ e \in [Hosts -> Seq(Record)] /\ e[h] = <<r>> \o f[h]
        /\ \A x \in Hosts \ {h} : e[x] = f[x]
    <3>1. <<r>> \in Seq(Record) /\ f[h] \in Seq(Record)
      BY <2>1
    <3>2. <<r>> \o f[h] \in Seq(Record)
      BY <3>1
    <3> QED BY <1>4, <2>1, <3>2
  <2>3. /\ e[h][1] = r /\ Len(e[h]) > 0
        /\ \A i \in DOMAIN e[h] : e[h][i] = r \/ \E j \in DOMAIN f[h] : e[h][i] = f[h][j]
    <3>1. f[h] \in Seq(Record) /\ Len(f[h]) \in Nat
      BY <2>1
    <3>2. Len(e[h]) = 1 + Len(f[h]) /\ DOMAIN e[h] = 1..(1 + Len(f[h]))
      BY <2>1, <2>2, <3>1
    <3>3. ASSUME NEW i \in DOMAIN e[h]
          PROVE  e[h][i] = r \/ \E j \in DOMAIN f[h] : e[h][i] = f[h][j]
      <4>1. CASE i = 1
        BY <2>1, <2>2, <3>1, <4>1
      <4>2. CASE i # 1
        <5>1. i - 1 \in DOMAIN f[h]
          BY <3>1, <3>2, <4>2
        <5>2. e[h][i] = f[h][i - 1]
          BY <2>1, <2>2, <3>1, <3>2, <4>2
        <5> QED BY <5>1, <5>2
      <4> QED BY <4>1, <4>2
    <3>4. e[h][1] = r
      BY <2>1, <2>2, <3>1
    <3> QED BY <3>1, <3>2, <3>3, <3>4
  <2>4. ASSUME NEW x \in Hosts, NEW i \in DOMAIN e[x] PROVE Known(x, e[x][i])
    <3>1. CASE x = h
      BY <1>2, <1>3, <2>3, <2>1, <3>1
    <3>2. CASE x # h
      BY <2>1, <2>2, <3>2
    <3> QED BY <3>1, <3>2
  <2>5. g \in [Hosts -> Seq(Record)]
    BY <1>4, <2>2, TrimIs
  <2>6. ASSUME NEW x \in Hosts
        PROVE  Len(g[x]) <= Keep /\ \A i \in DOMAIN g[x] : Known(x, g[x][i])
    <3>1. /\ Len(g[x]) <= Keep
          /\ \A i \in DOMAIN g[x] : i \in DOMAIN e[x] /\ g[x][i] = e[x][i]
      <4>1. e \in [Hosts -> Seq(Record)]
        BY <2>2
      <4>2. /\ Len(Trim(e)[x]) <= Keep
            /\ \A i \in DOMAIN Trim(e)[x] : i \in DOMAIN e[x] /\ Trim(e)[x][i] = e[x][i]
        BY <4>1, TrimIs, Zenon
      <4> QED BY <1>4, <4>2, Zenon
    <3> QED BY <2>4, <3>1
  <2>7. FileOf(g)
    BY <2>5, <2>6 DEF FileOf
  <2>8. g[h][1] = r
    <3>1. Len(g[h]) > 0 /\ g[h] \in Seq(Record)
      BY <1>4, <2>2, <2>3, <2>5, TrimIs
    <3>2. 1 \in DOMAIN g[h]
      BY <3>1
    <3>3. g[h][1] = e[h][1]
      <4>1. e \in [Hosts -> Seq(Record)]
        BY <2>2
      <4>2. \A i \in DOMAIN Trim(e)[h] : Trim(e)[h][i] = e[h][i]
        BY <4>1, TrimIs, Zenon
      <4> QED BY <1>4, <3>2, <4>2, Zenon
    <3> QED BY <2>3, <3>3
  <2>9. ASSUME NEW x \in Hosts \ {h} PROVE g[x] = f[x]
    BY <1>4, <2>1, <2>2, TrimIs
  <2> QED BY <2>7, <2>8, <2>9
<1>6. file' = g
  BY <1>1, <1>3, <1>4
<1>7. FileOf(file)'
  <2>1. \A x \in Hosts : ran[x] \subseteq ran'[x]
    BY <1>1
  <2>2. FileOf(g)'
    BY <1>1, <1>5, <2>1, FileStays
  <2> QED BY <1>6, <2>2 DEF FileOf
<1> QED BY <1>1, <1>3, <1>5, <1>6, <1>7

LEMMA ReconfigureSafe ==
    ASSUME SizingInv, NEW h \in Hosts, Reconfigure(h)
    PROVE  SizingInv'
<1>1. /\ suite' = suite /\ file' = file /\ run' = run /\ ran' = ran /\ run[h].at = "idle"
      /\ \E c \in Confs : conf' = [conf EXCEPT ![h] = c]
  BY DEF Reconfigure
<1>2. conf' \in [Hosts -> Confs] /\ \A g \in Hosts \ {h} : conf'[g] = conf[g]
  BY <1>1 DEF SizingInv
<1>3. FileOf(file)'
  BY <1>1 DEF SizingInv, FileOf, Known, Evidence
<1>4. ASSUME NEW g \in Hosts PROVE RunIs(g)' /\ Fits(g)' /\ Grows(g)'
  <2>1. RunIs(g) /\ Fits(g) /\ Grows(g)
    BY PerHost DEF SizingInv
  <2>2. RunIs(g)'
    BY <1>1, <2>1, RunStays
  <2>3. CASE g = h
    BY <1>1, <2>2, <2>3 DEF Fits, Grows
  <2>4. CASE g # h
    BY <1>1, <1>2, <2>1, <2>2, <2>4 DEF Fits, Grows
  <2> QED BY <2>3, <2>4
<1>5. FitsMemory' /\ GrowsOnEvidence'
  BY <1>4 DEF FitsMemory, GrowsOnEvidence, Fits, Grows
<1> QED BY <1>1, <1>2, <1>3, <1>4, <1>5 DEF SizingInv

LEMMA SizingStep == SizingInv /\ [Next]_vars => SizingInv'
<1> SUFFICES ASSUME SizingInv, [Next]_vars PROVE SizingInv'
  OBVIOUS
<1>1. ASSUME NEW h \in Hosts, Begin(h) PROVE SizingInv'
  BY <1>1, BeginSafe
<1>2. ASSUME NEW h \in Hosts, Finish(h) PROVE SizingInv'
  BY <1>2, FinishSafe
<1>3. ASSUME NEW h \in Hosts, Rename(h) PROVE SizingInv'
  BY <1>3, SavingIs, IdleSafe DEF Rename
<1>4. ASSUME NEW h \in Hosts, Quit(h) PROVE SizingInv'
  <2>1. FileOf(file)'
    BY <1>4 DEF Quit, SizingInv, FileOf, Known, Evidence
  <2> QED BY <1>4, <2>1, IdleSafe DEF Quit
<1>5. ASSUME NEW h \in Hosts, Reconfigure(h) PROVE SizingInv'
  BY <1>5, ReconfigureSafe
<1>6. CASE UNCHANGED vars
  <2>1. suite' = suite /\ file' = file /\ run' = run /\ conf' = conf /\ ran' = ran
    BY <1>6 DEF vars
  <2>2. FileOf(file)'
    BY <2>1 DEF SizingInv, FileOf, Known, Evidence
  <2>3. \A h \in Hosts : RunIs(h)'
    BY <2>1, RunStays DEF SizingInv
  <2>4. FitsMemory' /\ GrowsOnEvidence'
    BY <2>1 DEF SizingInv, FitsMemory, GrowsOnEvidence
  <2> QED BY <2>1, <2>2, <2>3, <2>4 DEF SizingInv
<1> QED BY <1>1, <1>2, <1>3, <1>4, <1>5, <1>6 DEF Next, Go

LEMMA SizingAlways == Spec => []SizingInv
BY SizingInit, SizingStep, PTL DEF Spec

-----------------------------------------------------------------------------
(* The theorems.                                                           *)

\* A run that is not aggressive and whose count nobody wrote down leaves the
\* machine its reserve, whatever the runs before it were of, were configured
\* with, or had in memory (Slots, budgetFor, adjusted, Meter.Stop).
THEOREM FitsTheMemory == Spec => []FitsMemory
BY SizingAlways, PTL DEF SizingInv

\* It goes past a count that its machine ended a run of the corpus with, on the
\* lane, by the mode's factor at most (tried, peers, sameCorpus, Load).
THEOREM GrowsOnWhatEnded == Spec => []GrowsOnEvidence
BY SizingAlways, PTL DEF SizingInv

\* A save adds the machine's run and gives back the other machines what the file
\* held of them when it was read (Save).
THEOREM SavesOnlyItsOwn == Spec => SavesItsOwn
<1> DEFINE A == \A h \in Hosts : (run[h].at = "saving" /\ file' # file /\ run'[h].at = "idle") =>
                  /\ \A g \in Hosts \ {h} : Load(file', g) = Load(run[h].read, g)
                  /\ Load(file', h)[1] = run[h].rec
<1>1. ASSUME SizingInv, [Next]_vars PROVE [A]_vars
  <2>1. SUFFICES ASSUME NEW h \in Hosts, run[h].at = "saving", file' # file, run'[h].at = "idle"
                 PROVE  /\ \A g \in Hosts \ {h} : file'[g] = run[h].read[g]
                        /\ file'[h][1] = run[h].rec
    BY DEF Load
  <2>2. PICK g \in Hosts : Rename(g)
    BY <1>1, <2>1 DEF Next, Go, Begin, Finish, Quit, Reconfigure, vars
  <2>3. g = h
    BY <1>1, <2>1, <2>2 DEF Rename, SizingInv
  <2> QED BY <1>1, <2>2, <2>3, SavingIs
<1> QED BY <1>1, SizingAlways, PTL DEF Spec, SavesItsOwn
=============================================================================
