---------------------------------- MODULE Sizing ----------------------------------
(***************************************************************************)
(* How many slots a run takes, and what it writes down for the next run    *)
(* (internal/sizing: Slots, Meter, Load, Save; slotsFor and record of the  *)
(* three suites).  Machines that share a home directory share the file of  *)
(* a suite's runs; each is sized by its own.  Memory is in megabytes.      *)
(***************************************************************************)
EXTENDS Integers, Sequences, FiniteSets, SequencesExt, FiniteSetsExt

CONSTANTS
    Hosts,      \* the machines that share the suite's file
    Guests,     \* those of them that run the suite now and then
    Cases,      \* [corpus |-> number of cases]
    Path,       \* [suite |-> [corpus |-> its scenario path]]: two may share one
    Blind,      \* the suites that are sized before their cases are known (shell)
    Floor,      \* [corpus |-> what a slot costs, its buffers apart]
    Missed,     \* what the samples may miss of it
    Confs,      \* configurations: the corpus, the lane its slots write to, the
                \* engine's buffers (data and log), the mode `parallel` names,
                \* and parallel_slots, 0 when it is not written
    Avail,      \* the memory free when a run is sized
    Shared,     \* scenario_ram_mb: set aside for the run's writes
    CPUs,
    Shipped,    \* [suite |-> its shipped figure for a slot, 0 when it has none]
    Start,      \* [suite |-> the slots of a first run]
    Wall,       \* [slots |-> seconds a run of the corpus takes with them]
    CaseS, LongestUnitS,
    Keep,       \* runs the file remembers of each machine
    PeersWindow,\* runs the growth and the knee look at
    Trouble     \* bound: runs of guests, runs that a hang lengthens or whose peak
                \* the samples miss, runs that die, changes of configuration

VARIABLES
    suite,      \* the suite whose runs these are
    file,       \* the suite's runs: [host |-> its runs, newest first]
    run,        \* [host |-> the run it is in]
    conf,       \* [host |-> what its configuration says]
    ran,        \* [host |-> the runs it has ended and meant to record]
    trouble     \* what is left of the bound

vars == <<suite, file, run, conf, ran, trouble>>

reservedMB == 2048

\* math.Round(mb * 1.15)
withMargin(mb) == (115 * mb + 50) \div 100

\* Two counts are within a tenth of each other.
Near(a, b) == (a - b) * 10 <= b /\ (b - a) * 10 <= b

\* Numbers are numbers, and a run of any count the machine allows takes a time.
NumbersGiven ==
    /\ {Missed, Avail, Shared, CaseS, LongestUnitS} \subseteq Nat
    /\ {Keep, PeersWindow} \subseteq Nat \ {0}
    /\ Wall \in Seq(Nat) /\ CPUs \in DOMAIN Wall
    /\ Cases \in [DOMAIN Cases -> Nat \ {0}] /\ Floor \in [DOMAIN Cases -> Nat]
    /\ Shipped \in [DOMAIN Shipped -> Nat] /\ Start \in [DOMAIN Shipped -> Nat \ {0}]
    /\ \A c \in Confs :
          /\ c.corpus \in DOMAIN Cases /\ c.buffers \in Nat \ {0}
          /\ c.configured \in {0} \union DOMAIN Wall
          /\ c.mode \in {"conservative", "measured", "aggressive"}

\* Corpora on one path differ in size by more than a tenth, and the suite knows
\* its size.
CorporaTold ==
    \A s \in DOMAIN Shipped : \A k, l \in DOMAIN Cases :
        k # l /\ Path[s][k] = Path[s][l] => s \notin Blind /\ ~Near(Cases[k], Cases[l])

\* The larger corpus has the heavier case; the margin makes good what the samples
\* miss, and a shipped figure is enough.
CostsCovered ==
    /\ \A k, l \in DOMAIN Cases : Cases[k] >= Cases[l] => Floor[k] >= Floor[l]
    /\ \A c \in Confs :
          LET slot == Floor[c.corpus] + c.buffers
          IN  /\ withMargin(slot - Missed) >= slot
              /\ \A s \in DOMAIN Shipped : Shipped[s] = 0 \/ Shipped[s] >= slot

ASSUME SizingAssumption == NumbersGiven /\ CorporaTold /\ CostsCovered

\* The count the corpus is fastest with on this machine.
Best == CHOOSE n \in DOMAIN Wall : \A m \in DOMAIN Wall : Wall[n] <= Wall[m]
None == [at |-> "idle", slots |-> 0]

---------------------------------------------------------------------------------
(* The decision, from the machine's own runs, newest first. *)

\* Load: the machine's runs, newest first.
Load(f, h) == f[h]

factored(mb, mode) ==
    CASE mode = "conservative" -> 2 * mb
      [] mode = "aggressive"   -> (8 * mb) \div 10
      [] OTHER                 -> mb

growth(mode) == CASE mode = "conservative" -> 1 [] mode = "aggressive" -> 4 [] OTHER -> 2

\* The cases of the run, as far as they are known when it is sized.
casesOf(in) == IF suite \in Blind THEN 0 ELSE Cases[in.corpus]
pathOf(in) == Path[suite][in.corpus]

\* How large the corpus is; for a run that does not know, the newest run of the
\* path that does says so.
sizeOf(in, recs) ==
    LET told == {i \in DOMAIN recs : recs[i].path = pathOf(in) /\ recs[i].cases > 0}
    IN  IF casesOf(in) > 0 THEN casesOf(in)
        ELSE IF told = {} THEN 0 ELSE recs[Min(told)].cases

\* The path, and a count within a tenth.
sameCorpus(in, recs, r) ==
    /\ r.path = pathOf(in)
    /\ sizeOf(in, recs) = 0 \/ r.cases = 0 \/ Near(r.cases, sizeOf(in, recs))

adjusted_F(r, in) == r.perSlot

\* A slot is a floor and the two buffers: a run with other buffers still says
\* what the floor is.
adjusted(r, in) ==
    IF r.perSlot <= 0 THEN 0
    ELSE IF r.buffers > 0 /\ in.buffers > 0 THEN r.perSlot - r.buffers + in.buffers
    ELSE r.perSlot

MaxOr0(S) == IF S = {} THEN 0 ELSE Max(S)

\* What one slot is allowed: the most that a run of as large a corpus has cost.
budgetFor(in, recs) ==
    LET cost(i)  == adjusted(recs[i], in)
        covers   == {i \in DOMAIN recs : \/ sameCorpus(in, recs, recs[i])
                                         \/ casesOf(in) > 0 /\ recs[i].cases >= casesOf(in)}
        covering == MaxOr0({cost(i) : i \in covers})
        any      == MaxOr0({cost(i) : i \in DOMAIN recs})
    IN  IF covering > 0 THEN withMargin(covering)
        ELSE IF Shipped[suite] = 0 THEN 0
        ELSE IF withMargin(any) > Shipped[suite] THEN withMargin(any)
        ELSE Shipped[suite]

\* The recent runs of this corpus on this lane, the newest of each slot count.
peers(in, recs) ==
    LET alike    == {i \in DOMAIN recs : /\ recs[i].lane = in.lane /\ recs[i].slots > 0
                                         /\ sameCorpus(in, recs, recs[i])}
        newer(i) == {j \in alike : j < i}
    IN  {recs[i] : i \in {k \in alike : /\ Cardinality(newer(k)) < PeersWindow
                                       /\ \A j \in newer(k) : recs[j].slots # recs[k].slots}}

tried_F(in, recs) ==
    LET most == MaxOr0({recs[i].slots : i \in DOMAIN recs})
    IN  IF most = 0 THEN Start[suite] ELSE most * growth(in.mode)

\* How far past what this machine has run this corpus with, on this lane.
tried(in, recs) ==
    LET most == MaxOr0({r.slots : r \in peers(in, recs)})
    IN  IF most = 0 THEN Max({Start[suite], 1}) ELSE most * growth(in.mode)

knee_F(in, recs) ==
    LET runs == {r \in Range(recs) : r.lane = in.lane /\ sameCorpus(in, recs, r)}
        best == CHOOSE r \in runs : \A q \in runs : r.wall <= q.wall
    IN  IF runs # {} THEN {best.slots} ELSE {}

\* The bounds `knee` adds: the fewest slots within 5% of the fastest run, when a
\* run with more slots is there to compare with.
knee(in, recs) ==
    LET runs    == {r \in peers(in, recs) : r.wall > 0}
        fastest == Min({r.wall : r \in runs})
        best    == Min({r.slots : r \in {q \in runs : q.wall * 100 <= fastest * 105}})
    IN  IF Cardinality(runs) >= 2 /\ \E r \in runs : r.slots > best THEN {best} ELSE {}

\* Past this many slots the longest case decides the wall time.
corpusBound(in, recs) ==
    LET told  == {i \in DOMAIN recs : recs[i].caseS > 0 /\ recs[i].longest > 0}
        same  == {i \in told : sameCorpus(in, recs, recs[i])}
        other == {i \in told : casesOf(in) > 0 /\ recs[i].cases > 0}
        r     == recs[Min(IF same # {} THEN same ELSE other)]
    IN  IF same # {} THEN {r.caseS \div r.longest}
        ELSE IF other # {} THEN {((r.caseS * casesOf(in)) \div r.cases) \div r.longest}
        ELSE {}

Slots(in, recs) ==
    LET budget == factored(budgetFor(in, recs), in.mode)
        per    == IF budget < 1 THEN 1 ELSE budget
        bounds == {(Avail - reservedMB - Shared) \div per, CPUs, tried(in, recs)}
                  \union ({casesOf(in)} \ {0})
                  \union (IF in.mode = "aggressive" THEN {} ELSE knee(in, recs))
                  \union corpusBound(in, recs)
    IN  IF in.configured > 0 THEN in.configured
        ELSE IF budgetFor(in, recs) <= 0 \/ Min(bounds) < 1 THEN 1 ELSE Min(bounds)

---------------------------------------------------------------------------------
(* A run: sized, measured, and written down when it ended whole. *)

\* Save's trimming: each machine's oldest runs beyond Keep go.
Trim(f) == [h \in Hosts |-> SubSeq(f[h], 1, Min({Len(f[h]), Keep}))]

Init ==
    /\ suite \in DOMAIN Shipped
    /\ file = [h \in Hosts |-> <<>>]
    /\ \E c \in Confs : conf = [h \in Hosts |-> c]
    /\ run = [h \in Hosts |-> None]
    /\ ran = [h \in Hosts |-> {}]
    /\ trouble = Trouble

\* The operator writes another configuration between two runs.
Reconfigure(h) ==
    /\ run[h].at = "idle" /\ trouble > 0
    /\ \E c \in Confs \ {conf[h]} : conf' = [conf EXCEPT ![h] = c]
    /\ trouble' = trouble - 1
    /\ UNCHANGED <<suite, file, run, ran>>

\* slotsFor, the line that says why, and StartMeter.
Begin(h) ==
    /\ run[h].at = "idle"
    /\ h \in Guests => trouble > 0
    /\ trouble' = trouble - (IF h \in Guests THEN 1 ELSE 0)
    /\ run' = [run EXCEPT ![h] = [at |-> "running", slots |-> Slots(conf[h], Load(file, h))]]
    /\ UNCHANGED <<suite, file, conf, ran>>

\* Meter.Stop and the fields a suite adds.  At the lowest point each slot cost
\* `cost`, and s of the fall was the run's writes, which no slot is charged for.
Stop(h, cost, hang, s) ==
    LET n == run[h].slots  c == conf[h]
        peak == n * (cost + c.buffers) + s
        own  == IF s < peak THEN s ELSE peak
    IN  [path |-> pathOf(c), lane |-> c.lane, buffers |-> c.buffers, slots |-> n,
         cases |-> Cases[c.corpus], wall |-> Wall[n] + (IF hang THEN 1000 ELSE 0),
         caseS |-> CaseS, longest |-> LongestUnitS,
         perSlot |-> IF peak > own THEN (peak - own) \div n ELSE 0]

\* The run ended whole: the record is made and the file read, to be written back.
Finish(h) ==
    /\ run[h].at = "running"
    /\ \E hang, missed \in BOOLEAN, s \in {0, Shared} :
          /\ hang \/ missed => trouble > 0
          /\ trouble' = trouble - (IF hang \/ missed THEN 1 ELSE 0)
          /\ run' = [run EXCEPT ![h] = [at |-> "saving", slots |-> @.slots,
                                        rec |-> Stop(h, Floor[conf[h].corpus] - (IF missed THEN Missed ELSE 0), hang, s), read |-> file]]
    /\ ran' = [ran EXCEPT ![h] = @ \union {[corpus |-> conf[h].corpus, lane |-> conf[h].lane,
                                            slots |-> run[h].slots]}]
    /\ UNCHANGED <<suite, file, conf>>

Rename_F(h) ==
    /\ run[h].at = "saving"
    /\ file' = Trim([g \in Hosts |-> IF g = h THEN <<run[h].rec>> \o file[h] ELSE <<>>])
    /\ run' = [run EXCEPT ![h] = None]
    /\ UNCHANGED <<suite, conf, ran, trouble>>

\* Save writes beside the file and renames over it.
Rename(h) ==
    /\ run[h].at = "saving"
    /\ file' = Trim([run[h].read EXCEPT ![h] = <<run[h].rec>> \o @])
    /\ run' = [run EXCEPT ![h] = None]
    /\ UNCHANGED <<suite, conf, ran, trouble>>

\* A run that was interrupted, failed, was continued, or was killed while saving
\* leaves the file as it was.
Quit(h) ==
    /\ run[h].at # "idle" /\ trouble > 0
    /\ trouble' = trouble - 1
    /\ run' = [run EXCEPT ![h] = None]
    /\ UNCHANGED <<suite, file, conf, ran>>

Go(h) == Begin(h) \/ Finish(h) \/ Rename(h)
Next == \E h \in Hosts : Go(h) \/ Quit(h) \/ Reconfigure(h)

\* A host goes on running the suite, and a run that is not killed ends and saves.
\* Go(h) is enabled in every state, so this is its weak fairness.
Fairness == \A h \in Hosts \ Guests : []<><<run[h] # run'[h]>>_vars
Spec == Init /\ [][Next]_vars /\ Fairness

---------------------------------------------------------------------------------
(* Properties. *)

\* A run asks for no more memory than there is: with the heaviest slot the corpus
\* is known to have, at the buffers the run is configured with, its slots and its
\* writes leave the reserve to the machine -- whatever the runs before it were
\* of, were configured with, or had in memory (Slots, budgetFor, adjusted, Meter).
\* An aggressive run asks for a fifth more on purpose, and a count that is written
\* down is taken as it is.
FitsMemory ==
    \A h \in Hosts :
        (run[h].at = "running" /\ run[h].slots > 1 /\ conf[h].mode # "aggressive" /\ conf[h].configured = 0)
          => run[h].slots * (Floor[conf[h].corpus] + conf[h].buffers)
               <= Avail - reservedMB - Shared

\* A run goes past what its machine has ended a run of this corpus with, on this
\* lane, by the mode's factor at most: never on another machine's runs, another
\* lane's, or another corpus's (tried, peers, Load).
GrowsOnEvidence ==
    \A h \in Hosts :
        (run[h].at = "running" /\ run[h].slots > Start[suite] /\ conf[h].configured = 0)
          => \E r \in ran[h] : /\ r.corpus = conf[h].corpus /\ r.lane = conf[h].lane
                               /\ run[h].slots <= growth(conf[h].mode) * r.slots

\* A save keeps what the file held of the other machines when it was read, and
\* adds this run to this machine's last ones (Save).
SavesItsOwn ==
    [][\A h \in Hosts : (run[h].at = "saving" /\ file' # file /\ run'[h].at = "idle") =>
          /\ \A g \in Hosts \ {h} : Load(file', g) = Load(run[h].read, g)
          /\ Load(file', h)[1] = run[h].rec]_vars

\* A knee is asked about again: a count that a hang or another job made look slow
\* ages out of the window, and the machine runs at least its best count again and
\* again (peers); conservative, or a count that is written down, does not grow.
AsksAgain == \A h \in Hosts \ Guests :
    []<>(run[h].at = "running" /\ (\/ run[h].slots >= Best
                                    \/ conf[h].mode = "conservative" \/ conf[h].configured > 0))
====
