----------------------------- MODULE QueueProofs -----------------------------
(***************************************************************************)
(* The queue in its settings: what DispatchProofs shows of each machine by *)
(* itself holds of the run that has them all, for any slots, cases,        *)
(* directories and lanes they are given.                                   *)
(***************************************************************************)
EXTENDS QueueSettings, TLAPS

\* The run without lanes, of which DispatchProofs speaks as well.
B == INSTANCE DispatchProofs WITH Registries <- {}, Starts <- {}, Rank <- <<>>

\* Finite sets and their sizes are the same there as here.
LEMMA BaseSets ==
    \A X : /\ IsFiniteSet(X) = B!IsFiniteSet(X) /\ Cardinality(X) = B!Cardinality(X)
          /\ InOrder(X) = B!InOrder(X)
<1>1. \A X : IsFiniteSet(X) = B!IsFiniteSet(X)
  BY DEF IsFiniteSet, B!IsFiniteSet
<1>2. \A X : Cardinality(X) = B!Cardinality(X)
  BY DEF Cardinality, B!Cardinality
<1>3. \A X : InOrder(X) = B!InOrder(X)
  BY <1>2 DEF InOrder, B!InOrder
<1> QED BY <1>1, <1>2, <1>3

\* What it is given is what the queue here is given, ...
LEMMA BaseGiven == B!DispatchAssumption
<1>1. Case = B!Case /\ Lane = B!Lane
  BY DEF Case, B!Case, Lane, B!Lane
<1> QED BY <1>1, BaseSets, DispatchAssumption DEF B!DispatchAssumption

\* ... it begins as this one does, ...
LEMMA BaseInit == Init => B!Init
  BY DEF Init, B!Init, Lane, B!Lane, Case, B!Case, NoSlot, B!NoSlot

\* ... and a step of this one is one of it.
LEMMA BaseStep == [Next]_vars => [B!Next]_(B!vars)
<1>1. ASSUME NEW s \in Slots, ClaimHeld(s) PROVE B!ClaimHeld(s)
  BY <1>1, BaseSets
     DEF ClaimHeld, B!ClaimHeld, Asking, B!Asking, Hand, B!Hand,
         AttemptOf, B!AttemptOf, Unqueue, B!Unqueue, firstPassVars,
         B!firstPassVars, envVars, B!envVars, seenVars, B!seenVars,
         retryVars, B!retryVars, slotVars, B!slotVars, vars, B!vars
<1>2. ASSUME NEW s \in Slots, ClaimFirst(s) PROVE B!ClaimFirst(s)
  BY <1>2, BaseSets
     DEF ClaimFirst, B!ClaimFirst, Asking, B!Asking, Case, B!Case,
         IsFirst, B!IsFirst, Admissible, B!Admissible, Take, B!Take,
         Hand, B!Hand, retryVars, B!retryVars, envVars, B!envVars,
         seenVars, B!seenVars, HardAdmits, B!HardAdmits, SoftAdmits,
         B!SoftAdmits, slotVars, B!slotVars, vars, B!vars,
         firstPassVars, B!firstPassVars
<1>3. ASSUME NEW s \in Slots, ClaimScan(s) PROVE B!ClaimScan(s)
  BY <1>3, BaseSets
     DEF ClaimScan, B!ClaimScan, Asking, B!Asking, Case, B!Case,
         IsFirst, B!IsFirst, Scannable, B!Scannable, Siblings,
         B!Siblings, Hand, B!Hand, retryVars, B!retryVars, envVars,
         B!envVars, seenVars, B!seenVars, LaneMatch, B!LaneMatch,
         slotVars, B!slotVars, vars, B!vars, firstPassVars,
         B!firstPassVars
<1>4. ASSUME NEW s \in Slots, ClaimRetry(s) PROVE B!ClaimRetry(s)
  BY <1>4, BaseSets
     DEF ClaimRetry, B!ClaimRetry, Asking, B!Asking, FirstPassOver,
         B!FirstPassOver, ExhaustCursor, B!ExhaustCursor, Quiet,
         B!Quiet, IsFirst, B!IsFirst, RetryFor, B!RetryFor, Without,
         B!Without, Unqueue, B!Unqueue, Hand, B!Hand, AttemptOf,
         B!AttemptOf, envVars, B!envVars, seenVars, B!seenVars,
         Scannable, B!Scannable, Case, B!Case, LaneMatch, B!LaneMatch,
         slotVars, B!slotVars, vars, B!vars, firstPassVars,
         B!firstPassVars, retryVars, B!retryVars
<1>5. ASSUME NEW s \in Slots, Depart(s) PROVE B!Depart(s)
  BY <1>5, BaseSets
     DEF Depart, B!Depart, Asking, B!Asking, FirstPassOver,
         B!FirstPassOver, ExhaustCursor, B!ExhaustCursor, Quiet,
         B!Quiet, RetryFor, B!RetryFor, retryVars, B!retryVars,
         envVars, B!envVars, seenVars, B!seenVars, Scannable,
         B!Scannable, Case, B!Case, LaneMatch, B!LaneMatch, slotVars,
         B!slotVars, vars, B!vars, firstPassVars, B!firstPassVars
<1>6. ASSUME NEW s \in Slots, ClaimStopped(s) PROVE B!ClaimStopped(s)
  BY <1>6, BaseSets
     DEF ClaimStopped, B!ClaimStopped, firstPassVars, B!firstPassVars,
         retryVars, B!retryVars, envVars, B!envVars, seenVars,
         B!seenVars, slotVars, B!slotVars, vars, B!vars
<1>7. ASSUME NEW s \in Slots, Begin(s) PROVE B!Begin(s)
  BY <1>7, BaseSets
     DEF Begin, B!Begin, firstPassVars, B!firstPassVars, retryVars,
         B!retryVars, envVars, B!envVars, seenVars, B!seenVars,
         slotVars, B!slotVars, vars, B!vars
<1>8. ASSUME NEW s \in Slots, Fail(s) PROVE B!Fail(s)
  BY <1>8, BaseSets
     DEF Fail, B!Fail, Finish, B!Finish, firstPassVars,
         B!firstPassVars, envVars, B!envVars, Release, B!Release,
         Unqueue, B!Unqueue, retryVars, B!retryVars, slotVars,
         B!slotVars, seenVars, B!seenVars, vars, B!vars, Landed,
         B!Landed
<1>9. ASSUME NEW s \in Slots, Abort(s) PROVE B!Abort(s)
  BY <1>9, BaseSets
     DEF Abort, B!Abort, firstPassVars, B!firstPassVars, retryVars,
         B!retryVars, seenVars, B!seenVars, envVars, B!envVars,
         slotVars, B!slotVars, vars, B!vars
<1>10. ASSUME NEW s \in Slots, Stop(s) PROVE B!Stop(s)
  BY <1>10, BaseSets
     DEF Stop, B!Stop, firstPassVars, B!firstPassVars, retryVars,
         B!retryVars, seenVars, B!seenVars, envVars, B!envVars,
         slotVars, B!slotVars, vars, B!vars
<1>11. ASSUME NEW s \in Slots, NEW outcome \in Outcome, Complete(s, outcome)
      PROVE  B!Complete(s, outcome)
  BY <1>11, BaseSets
     DEF Complete, B!Complete, Retrying, B!Retrying, Release,
         B!Release, Enqueue, B!Enqueue, Finish, B!Finish,
         firstPassVars, B!firstPassVars, envVars, B!envVars, Landed,
         B!Landed, OwnerAsks, B!OwnerAsks, Unqueue, B!Unqueue,
         retryVars, B!retryVars, slotVars, B!slotVars, seenVars,
         B!seenVars, vars, B!vars, NoSlot, B!NoSlot
<1>12. Cancel => B!Cancel
  BY BaseSets
     DEF Cancel, B!Cancel, firstPassVars, B!firstPassVars, retryVars,
         B!retryVars, slotVars, B!slotVars, seenVars, B!seenVars,
         envVars, B!envVars, vars, B!vars
<1>13. Usage => B!Usage
  BY BaseSets
     DEF Usage, B!Usage, firstPassVars, B!firstPassVars, retryVars,
         B!retryVars, slotVars, B!slotVars, seenVars, B!seenVars,
         envVars, B!envVars, vars, B!vars
<1>14. Over => B!Over
  BY BaseSets
     DEF Over, B!Over, AllGone, B!AllGone, vars, B!vars, firstPassVars,
         B!firstPassVars, retryVars, B!retryVars, envVars, B!envVars,
         slotVars, B!slotVars, seenVars, B!seenVars
<1>15. (UNCHANGED vars => UNCHANGED B!vars) /\ B!Outcome = Outcome
  BY DEF vars, B!vars, firstPassVars, B!firstPassVars, retryVars,
         B!retryVars, envVars, B!envVars, slotVars, B!slotVars,
         seenVars, B!seenVars, Outcome, B!Outcome
<1>16. ASSUME NEW s \in Slots, Step(s) PROVE B!Step(s)
  <2>1. CASE Claim(s)
    BY <2>1, <1>1, <1>2, <1>3, <1>4, <1>5, <1>6, Zenon DEF Claim, B!Step, B!Claim
  <2>2. CASE \E outcome \in Outcome : Complete(s, outcome)
    BY <2>2, <1>11, <1>15, Zenon DEF B!Step
  <2>3. CASE Begin(s) \/ Fail(s) \/ Abort(s) \/ Stop(s)
    BY <2>3, <1>7, <1>8, <1>9, <1>10, Zenon DEF B!Step
  <2> QED BY <1>16, <2>1, <2>2, <2>3, Zenon DEF Step
<1>17. Next => B!Next
  BY <1>12, <1>13, <1>14, <1>16, Zenon DEF Next, B!Next
<1> QED BY <1>15, <1>17, Zenon

\* Each setting has the invariants of its machine for as long as it is the one
\* that moves.
SettingsInv ==
    /\ B!QueueInv
    /\ machine = "lanes" => L!QueueInv /\ L!LanesInv
    /\ machine = "corpus" => K!CorpusInv
    /\ machine = "sql" => S!RunInv

\* Every machine begins with its invariants.
LEMMA SettingsInit == MCInit => SettingsInv
<1> SUFFICES ASSUME MCInit PROVE SettingsInv
  OBVIOUS
<1>1. ASSUME machine = "lanes" PROVE L!QueueInv /\ L!LanesInv
  BY <1>1, SettingsAssumption, L!BeforeInit, L!LanesInit DEF MCInit
<1>2. ASSUME machine = "corpus" PROVE K!CorpusInv
  BY <1>2, SettingsAssumption, K!CorpusInvInit DEF MCInit
<1>3. ASSUME machine = "sql" PROVE S!RunInv
  BY <1>3, SettingsAssumption, S!RunInvInit DEF MCInit
<1>4. B!QueueInv
  BY BaseGiven, BaseInit, B!BeforeInit DEF MCInit
<1> QED BY <1>1, <1>2, <1>3, <1>4 DEF SettingsInv

\* The setting does not change, and only its own machine moves.
LEMMA OneMoves ==
    ASSUME [SettingsNext]_mcVars
    PROVE  /\ machine' = machine
           /\ [Next]_(vars)
           /\ machine = "lanes" => [L!Next]_(L!vars)
           /\ machine = "corpus" => [K!CorpusNext]_(K!allVars)
           /\ machine = "sql" => [S!RunNext]_(S!sqlVars)
           /\ machine # "corpus" => UNCHANGED restVars
<1>1. CASE SharedStep
  BY <1>1 DEF SharedStep
<1>2. CASE LanesStep
  BY <1>2 DEF LanesStep
<1>3. CASE CorpusStep
  BY <1>3 DEF CorpusStep
<1>4. CASE SqlDoes(S!RunNext)
  BY <1>4 DEF SqlDoes
<1>5. CASE UNCHANGED mcVars
  <2>1. UNCHANGED <<machine, vars, laneVars, restVars, sqlVars>>
    BY <1>5 DEF mcVars
  <2>2. UNCHANGED L!vars
    BY <2>1 DEF laneVars, L!vars, L!firstPassVars, L!retryVars, L!envVars, L!slotVars, L!seenVars
  <2>3. UNCHANGED K!allVars
    BY <2>1 DEF laneVars, restVars, K!allVars, K!corpusVars, K!keptVars, K!finishVars,
                K!vars, K!firstPassVars, K!retryVars, K!envVars, K!slotVars, K!seenVars
  <2>4. UNCHANGED S!sqlVars
    BY <2>1 DEF laneVars, sqlVars, S!sqlVars, S!runVars, S!startVars, S!endVars,
                S!vars, S!firstPassVars, S!retryVars, S!envVars, S!slotVars, S!seenVars
  <2> QED BY <2>1, <2>2, <2>3, <2>4
<1> QED BY <1>1, <1>2, <1>3, <1>4, <1>5 DEF SettingsNext

\* Whichever it is keeps them.
LEMMA SettingsStep == SettingsInv /\ [SettingsNext]_mcVars => SettingsInv'
<1> SUFFICES ASSUME SettingsInv, [SettingsNext]_mcVars PROVE SettingsInv'
  OBVIOUS
<1>1. ASSUME machine = "lanes" PROVE (L!QueueInv /\ L!LanesInv)'
  BY <1>1, OneMoves, SettingsAssumption, L!BeforeStep, L!LanesPreserved DEF SettingsInv
<1>2. ASSUME machine = "corpus" PROVE K!CorpusInv'
  BY <1>2, OneMoves, SettingsAssumption, K!CorpusInvStep DEF SettingsInv
<1>3. ASSUME machine = "sql" PROVE S!RunInv'
  BY <1>3, OneMoves, SettingsAssumption, S!RunInvStep DEF SettingsInv
<1>4. B!QueueInv'
  BY BaseGiven, OneMoves, BaseStep, B!BeforeStep DEF SettingsInv
<1> QED BY <1>1, <1>2, <1>3, <1>4, OneMoves DEF SettingsInv

-----------------------------------------------------------------------------
\* In the run with lanes every case is kept, a directory is with one slot, no slot
\* is sent away from a case it could take, and the end the queue reports is the
\* end (ClaimFor, scan, enqueue, Finished).
THEOREM LanesKeptThere == SettingsSpec => []OnLanesKept
<1>1. SettingsInv => OnLanesKept
  BY SettingsAssumption, L!LanesFollow DEF SettingsInv, OnLanesKept
<1> QED BY <1>1, SettingsInit, SettingsStep, PTL DEF SettingsSpec

\* In the shell run a directory's count is of its cases that have not retired,
\* everything is reclaimed by the end, and no case meets the name of a database
\* that is gone (Corpus.Retire, PruneRegistryScript).
THEOREM CorpusTrueThere == SettingsSpec => []CorpusTrue
<1>1. SettingsInv => CorpusTrue
  BY SettingsAssumption, K!CountsFollow, K!RegistryFollows
     DEF SettingsInv, CorpusTrue, K!CorpusTrue
<1> QED BY <1>1, SettingsInit, SettingsStep, PTL DEF SettingsSpec

\* And a case's files outlive it for as long as a sibling may run.
THEOREM KeptForSiblingsThere == SettingsSpec => KeptForSiblings
<1>1. SettingsInv /\ [SettingsNext]_mcVars =>
          [\A f \in files \ files' :
              \/ K!In(WithCorpus.dir[f[2]]) \subseteq lDone
              \/ \E s \in WithCorpus.slots : lPc[s] = "run" /\ lTcase[s] = f[2]
              \/ closed']_(K!allVars)
  <2> SUFFICES ASSUME SettingsInv, [SettingsNext]_mcVars, NEW f \in files \ files'
               PROVE  \/ K!In(WithCorpus.dir[f[2]]) \subseteq lDone
                      \/ \E s \in WithCorpus.slots : lPc[s] = "run" /\ lTcase[s] = f[2]
                      \/ closed'
    OBVIOUS
  <2>1. machine = "corpus"
    BY OneMoves DEF restVars
  <2>2. K!QueueInv /\ K!CountInv /\ [K!CorpusNext]_(K!allVars)
    BY <2>1, OneMoves DEF SettingsInv, K!CorpusInv
  <2> QED BY <2>2, SettingsAssumption, K!KeptStep
<1> QED BY <1>1, SettingsInit, SettingsStep, PTL
       DEF SettingsSpec, KeptForSiblings, K!KeptForSiblings

\* In the SQL run servers come up in turn, no case is missed, and a run that lost
\* one does not pass (runSlot, Run).
THEOREM SqlSoundThere == SettingsSpec => []SqlSound
<1>1. SettingsInv => SqlSound
  BY SettingsAssumption, S!SqlFollows DEF SettingsInv, SqlSound
<1> QED BY <1>1, SettingsInit, SettingsStep, PTL DEF SettingsSpec

-----------------------------------------------------------------------------
\* In the run with lanes a step of the queue is a step of CaseQueue's.
LEMMA LanesStepsQueue ==
    SettingsInv /\ [SettingsNext]_mcVars => [LQ!QueueNext]_(LQ!queueVars)
<1> SUFFICES ASSUME SettingsInv, [SettingsNext]_mcVars PROVE [LQ!QueueNext]_(LQ!queueVars)
  OBVIOUS
<1>1. CASE machine # "lanes"
  BY <1>1, OneMoves DEF LQ!queueVars
<1>2. CASE machine = "lanes"
  <2>1. [L!Q!QueueNext]_(L!Q!queueVars)
    BY <1>2, OneMoves, SettingsAssumption, L!QueueStep DEF SettingsInv
  <2>2. machine' = machine
    BY OneMoves
  <2> QED BY <1>2, <2>1, <2>2
          DEF LQ!QueueNext, LQ!queueVars, LQ!HandOut, LQ!PutAway, LQ!PutBack,
              L!Q!QueueNext, L!Q!queueVars, L!Q!HandOut, L!Q!PutAway, L!Q!PutBack
<1> QED BY <1>1, <1>2

\* Without lanes and with them the queue is CaseQueue's: a case is with one slot
\* at a time, and never handed out again once Complete has put it away.
THEOREM QueueImplementedThere == SettingsSpec => QueuesImplemented
<1>1. MCInit => Q!QueueInit /\ LQ!QueueInit
  <2> SUFFICES ASSUME MCInit PROVE Q!QueueInit /\ LQ!QueueInit
    OBVIOUS
  <2>1. Q!QueueInit
    <3>1. {tcase[s] : s \in Slots} \subseteq {0} /\ done = {} /\ 0 \notin Case
      BY DispatchAssumption DEF MCInit, Init, Case
    <3> QED BY <3>1 DEF Q!QueueInit
  <2>2. ASSUME machine = "lanes" PROVE LQ!QueueInit
    <3>1. {lTcase[s] : s \in OnLanes.slots} \subseteq {0} /\ lDone = {} /\ 0 \notin L!Case
      BY <2>2, SettingsAssumption DEF MCInit, L!Init, L!Case, L!DispatchAssumption
    <3> QED BY <2>2, <3>1 DEF LQ!QueueInit
  <2>3. ASSUME machine # "lanes" PROVE LQ!QueueInit
    BY <2>3 DEF LQ!QueueInit
  <2> QED BY <2>1, <2>2, <2>3
<1>2. SettingsInv /\ [SettingsNext]_mcVars => [Q!QueueNext]_(Q!queueVars)
  <2> SUFFICES ASSUME SettingsInv, [SettingsNext]_mcVars PROVE [Q!QueueNext]_(Q!queueVars)
    OBVIOUS
  <2>1. [B!Q!QueueNext]_(B!Q!queueVars)
    BY BaseGiven, OneMoves, BaseStep, B!QueueStep DEF SettingsInv
  <2> QED BY <2>1
          DEF Q!QueueNext, Q!queueVars, Q!HandOut, Q!PutAway, Q!PutBack, B!Case, Case,
              B!Q!QueueNext, B!Q!queueVars, B!Q!HandOut, B!Q!PutAway, B!Q!PutBack
<1> QED BY <1>1, <1>2, LanesStepsQueue, SettingsInit, SettingsStep, PTL
       DEF SettingsSpec, QueuesImplemented, ImplementsCaseQueue, Q!QueueSpec, LQ!QueueSpec
=============================================================================
