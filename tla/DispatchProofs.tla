--------------------------- MODULE DispatchProofs ---------------------------
(***************************************************************************)
(* What the queue of Dispatch guarantees for any list, any slots and lanes *)
(* and any retry limit: its cases are kept, a retry without lanes is late  *)
(* and alone, a directory is one slot's, nobody is sent away too early,    *)
(* the end is the end, and the whole is the queue of CaseQueue.            *)
(*                                                                         *)
(* And of the two runs that drain it.  Of the shell run's corpus: a        *)
(* directory's count is of its cases that have not retired, a case's files *)
(* outlive it while a sibling may run, all is reclaimed by the end, and no *)
(* case meets the name of a database that is gone.  Of the SQL run:        *)
(* servers come up in turn, no case is lost without an error, and a run    *)
(* that returns none has recorded every case.                              *)
(***************************************************************************)
EXTENDS DispatchPromise, Corpus, SqlRun, FiniteSetTheorems, TLAPS

-----------------------------------------------------------------------------
(* Sequences.                                                               *)

\* Appending adds one element, and keeps a list duplicate-free if it is new.
LEMMA AppendRng ==
    ASSUME NEW S, NEW q \in Seq(S), NEW c \in S
    PROVE  /\ Append(q, c) \in Seq(S)
           /\ Rng(Append(q, c)) = Rng(q) \cup {c}
           /\ Once(q) /\ c \notin Rng(q) => Once(Append(q, c))
<1>1. /\ Append(q, c) \in Seq(S)
      /\ DOMAIN Append(q, c) = 1..(Len(q) + 1)
      /\ \A i \in 1..Len(q) : Append(q, c)[i] = q[i]
      /\ Append(q, c)[Len(q) + 1] = c
      /\ DOMAIN q = 1..Len(q) /\ Len(q) \in Nat
  OBVIOUS
<1>2. Rng(Append(q, c)) = Rng(q) \cup {c}
  <2>1. Rng(Append(q, c)) \subseteq Rng(q) \cup {c}
    BY <1>1 DEF Rng
  <2>2. Rng(q) \subseteq Rng(Append(q, c))
    BY <1>1 DEF Rng
  <2>3. c \in Rng(Append(q, c))
    <3>1. Len(q) + 1 \in DOMAIN Append(q, c)
      BY <1>1
    <3> QED BY <3>1, <1>1 DEF Rng
  <2> QED BY <2>1, <2>2, <2>3
<1>3. Once(q) /\ c \notin Rng(q) => Once(Append(q, c))
  BY <1>1 DEF Once, Rng
<1> QED BY <1>1, <1>2, <1>3

\* Taking the head of a duplicate-free list removes exactly that element.
LEMMA TailRng ==
    ASSUME NEW S, NEW q \in Seq(S), q # <<>>
    PROVE  /\ Head(q) \in S /\ Tail(q) \in Seq(S)
           /\ Rng(q) = Rng(Tail(q)) \cup {Head(q)}
           /\ Once(q) => Once(Tail(q)) /\ Head(q) \notin Rng(Tail(q))
<1>1. /\ Head(q) \in S /\ Tail(q) \in Seq(S)
      /\ Len(q) \in Nat \ {0} /\ DOMAIN q = 1..Len(q)
      /\ Len(Tail(q)) = Len(q) - 1 /\ DOMAIN Tail(q) = 1..(Len(q) - 1)
      /\ \A i \in 1..(Len(q) - 1) : Tail(q)[i] = q[i + 1]
      /\ Head(q) = q[1]
  OBVIOUS
<1>2. Rng(q) = Rng(Tail(q)) \cup {Head(q)}
  <2>1. Rng(Tail(q)) \subseteq Rng(q)
    BY <1>1 DEF Rng
  <2>2. Head(q) \in Rng(q)
    BY <1>1 DEF Rng
  <2>3. ASSUME NEW i \in DOMAIN q PROVE q[i] \in Rng(Tail(q)) \cup {Head(q)}
    <3>1. CASE i = 1
      BY <3>1, <1>1
    <3>2. CASE i # 1
      <4>1. i - 1 \in DOMAIN Tail(q) /\ Tail(q)[i - 1] = q[i]
        BY <3>2, <1>1
      <4> QED BY <4>1 DEF Rng
    <3> QED BY <3>1, <3>2
  <2> QED BY <2>1, <2>2, <2>3 DEF Rng
<1>3. Once(q) => Once(Tail(q)) /\ Head(q) \notin Rng(Tail(q))
  BY <1>1 DEF Once, Rng
<1> QED BY <1>1, <1>2, <1>3

\* So does taking any one element out.
LEMMA WithoutRng ==
    ASSUME NEW S, NEW q \in Seq(S), NEW i \in DOMAIN q
    PROVE  /\ q[i] \in S /\ Without(q, i) \in Seq(S)
           /\ Once(q) => /\ Once(Without(q, i))
                         /\ Rng(Without(q, i)) = Rng(q) \ {q[i]}
<1>1. /\ Len(q) \in Nat /\ DOMAIN q = 1..Len(q) /\ i \in 1..Len(q)
      /\ \A j \in 1..Len(q) : q[j] \in S
  OBVIOUS
<1>2. /\ DOMAIN Without(q, i) = 1..(Len(q) - 1)
      /\ \A j \in 1..(Len(q) - 1) :
            Without(q, i)[j] = IF j < i THEN q[j] ELSE q[j + 1]
  BY DEF Without
<1>3. Without(q, i) \in [1..(Len(q) - 1) -> S] /\ Len(q) - 1 \in Nat
  BY <1>1 DEF Without
<1>4. Without(q, i) \in Seq(S)
  BY <1>3
<1>5. ASSUME Once(q)
      PROVE  Once(Without(q, i)) /\ Rng(Without(q, i)) = Rng(q) \ {q[i]}
  <2>1. Once(Without(q, i))
    BY <1>5, <1>1, <1>2 DEF Once
  <2>2. Rng(Without(q, i)) \subseteq Rng(q) \ {q[i]}
    BY <1>5, <1>1, <1>2 DEF Once, Rng
  <2>3. ASSUME NEW j \in DOMAIN q, j # i PROVE q[j] \in Rng(Without(q, i))
    <3>1. CASE j < i
      <4>1. j \in DOMAIN Without(q, i) /\ Without(q, i)[j] = q[j]
        BY <3>1, <1>1, <1>2
      <4> QED BY <4>1 DEF Rng
    <3>2. CASE j > i
      <4>1. j - 1 \in DOMAIN Without(q, i) /\ Without(q, i)[j - 1] = q[j]
        BY <3>2, <1>1, <1>2
      <4> QED BY <4>1 DEF Rng
    <3> QED BY <3>1, <3>2, <2>3, <1>1
  <2> QED BY <2>1, <2>2, <2>3 DEF Rng
<1> QED BY <1>1, <1>4, <1>5

\* The ordered enumeration of a finite set of cases lists each of them once.
LEMMA InOrderRng ==
    ASSUME NEW S, S \subseteq Nat, IsFiniteSet(S), NEW q \in InOrder(S)
    PROVE  q \in Seq(S) /\ Rng(q) = S /\ Once(q)
<1>1. Cardinality(S) \in Nat
  BY FS_CardinalityType
<1>2. /\ q \in [1..Cardinality(S) -> S]
      /\ \A i, j \in 1..Cardinality(S) : i < j => q[i] < q[j]
      /\ \A c \in S : \E i \in 1..Cardinality(S) : q[i] = c
  BY DEF InOrder
<1>3. q \in Seq(S)
  BY <1>1, <1>2
<1>4. Rng(q) = S
  BY <1>2 DEF Rng
<1>5. Once(q)
  <2> SUFFICES ASSUME NEW i \in 1..Cardinality(S), NEW j \in 1..Cardinality(S),
                      q[i] = q[j], i # j
               PROVE  FALSE
    BY <1>2 DEF Once
  <2>1. i < j \/ j < i
    BY <1>1
  <2>2. q[i] \in Nat /\ q[j] \in Nat
    BY <1>2
  <2> QED BY <2>1, <2>2, <1>2
<1> QED BY <1>3, <1>4, <1>5

\* The cases of a directory still to be taken are finitely many numbers.
LEMMA SiblingsFinite ==
    ASSUME NEW c \in Case
    PROVE  /\ Siblings(c) \subseteq Case \ taken
           /\ IsFiniteSet(Siblings(c)) /\ Siblings(c) \subseteq Nat
           /\ c \notin Siblings(c)
<1>1. IsFiniteSet(Case)
  BY FS_Interval, DispatchAssumption DEF Case
<1>2. Siblings(c) \subseteq Case \ taken /\ c \notin Siblings(c)
  BY DispatchAssumption DEF Siblings, Case
<1> QED BY <1>1, <1>2, FS_Subset, DispatchAssumption DEF Case

-----------------------------------------------------------------------------
(* Typing, and where a slot's ticket is by its control state.               *)

\* A slot has a ticket exactly while it runs one; only in a cancelled run does a
\* slot leave with its ticket (an SQL slot by way of `failed'), and only a
\* stopped or cancelled run lets a slot go without telling it that nothing is
\* left.
TicketInv ==
    \A s \in Slots :
        /\ pc[s] \in {"claimed", "run"} => tcase[s] # 0
        /\ pc[s] = "claim" => tcase[s] = 0
        /\ pc[s] \in {"failed", "aborting"} /\ tcase[s] # 0 => cancelled = TRUE
        /\ tcase[s] = 0 => tretry[s] = 0
        /\ s \in departed => pc[s] = "gone"

GoneInv ==
    \A s \in Slots : pc[s] = "gone" =>
        /\ tcase[s] # 0 => cancelled = TRUE
        /\ s \in departed \/ stopped = TRUE \/ cancelled = TRUE

TypeInv == TypeOK /\ TicketInv /\ GoneInv

LEMMA TypeInit == Init => TypeInv
<1> SUFFICES ASSUME Init PROVE TypeInv
  OBVIOUS
<1>1. 1 \in 1..(N + 1) /\ 0 \in 0..N /\ 0 \in 0..MaxRetry
  BY DispatchAssumption
<1>2. QueueOK
  BY <1>1 DEF Init, QueueOK
<1>3. RetryOK
  BY <1>1 DEF Init, RetryOK
<1>4. EnvOK
  BY DEF Init, EnvOK
<1>5. SlotOK
  BY <1>1 DEF Init, SlotOK, PC
<1>6. TicketInv /\ GoneInv
  BY DEF Init, TicketInv, GoneInv
<1> QED BY <1>2, <1>3, <1>4, <1>5, <1>6 DEF TypeInv, TypeOK

\* What handing out a case does to the slots.
LEMMA TypeHand ==
    ASSUME NEW s \in Slots, NEW c \in Case, NEW retry \in 0..MaxRetry,
           SlotOK, TicketInv, GoneInv, inFlight \in Nat, Asking(s), Hand(s, c, retry),
           UNCHANGED <<tried, done, departed, stopped, cancelled>>
    PROVE  SlotOK' /\ TicketInv' /\ GoneInv' /\ inFlight' \in Nat
<1>1. c \in 0..N /\ c # 0
  BY DispatchAssumption DEF Case
<1>2. SlotOK' /\ inFlight' \in Nat
  BY <1>1 DEF SlotOK, PC, Hand
<1>3. TicketInv'
  BY <1>1 DEF TicketInv, SlotOK, Asking, Hand
<1>4. GoneInv'
  BY <1>1 DEF GoneInv, SlotOK, Asking, Hand
<1> QED BY <1>2, <1>3, <1>4

\* What completing a ticket does to the slots.
LEMMA TypeRelease ==
    ASSUME NEW s \in Slots, TypeInv, pc[s] = "run", Release(s),
           NEW next \in {"claim", "failed"}, pc' = [pc EXCEPT ![s] = next],
           done' \subseteq done \cup {tcase[s]},
           UNCHANGED <<departed, stopped, cancelled>>
    PROVE  /\ tcase[s] \in Case
           /\ SlotOK' /\ TicketInv' /\ GoneInv' /\ inFlight' \in Nat
           /\ running' \subseteq running
<1>1. tcase[s] \in Case
  BY DispatchAssumption DEF TypeInv, TypeOK, SlotOK, TicketInv, Case
<1>2. 0 \in 0..N /\ 0 \in 0..MaxRetry
  BY DispatchAssumption
<1>3. SlotOK'
  BY <1>1, <1>2 DEF TypeInv, TypeOK, SlotOK, PC, Release
<1>4. inFlight' \in Nat /\ running' \subseteq running
  BY DEF TypeInv, TypeOK, QueueOK, Release, Landed
<1>5. TicketInv'
  BY DEF TypeInv, TypeOK, TicketInv, SlotOK, Release
<1>6. GoneInv'
  BY DEF TypeInv, TypeOK, GoneInv, SlotOK, Release
<1> QED BY <1>1, <1>3, <1>4, <1>5, <1>6

\* Everything a slot does keeps the types and the tickets.
LEMMA TypeStep == TypeInv /\ [Next]_vars => TypeInv'
<1> SUFFICES ASSUME TypeInv, [Next]_vars PROVE TypeInv'
  OBVIOUS
<1>0. QueueOK /\ RetryOK /\ EnvOK /\ SlotOK /\ TicketInv /\ GoneInv
  BY DEF TypeInv, TypeOK
<1>q. SUFFICES QueueOK' /\ RetryOK' /\ EnvOK' /\ SlotOK' /\ TicketInv' /\ GoneInv'
  BY DEF TypeInv, TypeOK
<1> DEFINE Goal == QueueOK' /\ RetryOK' /\ EnvOK' /\ SlotOK' /\ TicketInv' /\ GoneInv'
<1>1. ASSUME NEW s \in Slots, ClaimHeld(s) PROVE Goal
  <2>1. Head(held[s]) \in Case /\ Tail(held[s]) \in Seq(Case)
    BY <1>0, <1>1, TailRng DEF ClaimHeld, RetryOK
  <2>2. retryCount[Head(held[s])] \in 0..MaxRetry
    BY <1>0, <2>1 DEF RetryOK
  <2>3. SlotOK' /\ TicketInv' /\ GoneInv' /\ inFlight' \in Nat
    BY <1>0, <1>1, <2>1, <2>2, TypeHand
       DEF ClaimHeld, AttemptOf, QueueOK, envVars, seenVars
  <2>4. QueueOK' /\ RetryOK'
    BY <1>0, <1>1, <2>1, <2>3
       DEF ClaimHeld, Unqueue, QueueOK, RetryOK, firstPassVars
  <2>5. EnvOK'
    BY <1>0, <1>1 DEF ClaimHeld, EnvOK, envVars
  <2> QED BY <2>3, <2>4, <2>5
<1>2. ASSUME NEW s \in Slots, ClaimFirst(s) PROVE Goal
  <2> PICK c \in Case : Take(c) /\ running' = running \cup {c} /\ Hand(s, c, 0)
    BY <1>2 DEF ClaimFirst
  <2>1. 0 \in 0..MaxRetry
    BY DispatchAssumption
  <2>2. SlotOK' /\ TicketInv' /\ GoneInv' /\ inFlight' \in Nat
    BY <1>0, <1>2, <2>1, TypeHand DEF ClaimFirst, QueueOK, envVars, seenVars
  <2>3. QueueOK' /\ RetryOK'
    BY <1>0, <1>2, <2>2 DEF ClaimFirst, Take, QueueOK, RetryOK, retryVars
  <2>4. EnvOK'
    BY <1>0, <1>2 DEF ClaimFirst, EnvOK, envVars
  <2> QED BY <2>2, <2>3, <2>4
<1>3. ASSUME NEW s \in Slots, ClaimScan(s) PROVE Goal
  <2> PICK c \in Case :
         /\ taken' = taken \cup {c} \cup Siblings(c)
         /\ cursor' = [cursor EXCEPT ![SlotLane[s]] = c + 1]
         /\ owner' = [d \in Case |-> IF Dir[d] = Dir[c] THEN s ELSE owner[d]]
         /\ \E q \in InOrder(Siblings(c)) : held' = [held EXCEPT ![s] = q]
         /\ running' = running \cup {c}
         /\ Hand(s, c, 0)
    BY <1>3 DEF ClaimScan
  <2> PICK q \in InOrder(Siblings(c)) : held' = [held EXCEPT ![s] = q]
    OBVIOUS
  <2>1. Siblings(c) \subseteq Case
    BY SiblingsFinite
  <2>2. q \in Seq(Case)
    <3>1. q \in Seq(Siblings(c))
      BY SiblingsFinite, InOrderRng
    <3> QED BY <3>1, <2>1
  <2>3. c + 1 \in 1..(N + 1) /\ 0 \in 0..MaxRetry
    BY DispatchAssumption DEF Case
  <2>4. SlotOK' /\ TicketInv' /\ GoneInv' /\ inFlight' \in Nat
    BY <1>0, <1>3, <2>3, TypeHand DEF ClaimScan, QueueOK, envVars, seenVars
  <2>5. QueueOK'
    BY <1>0, <1>3, <2>1, <2>3, <2>4 DEF ClaimScan, QueueOK
  <2>6. RetryOK'
    BY <1>0, <1>3, <2>2 DEF ClaimScan, RetryOK, retryVars
  <2>7. EnvOK'
    BY <1>0, <1>3 DEF ClaimScan, EnvOK, envVars
  <2> QED BY <2>4, <2>5, <2>6, <2>7
<1>4. ASSUME NEW s \in Slots, ClaimRetry(s) PROVE Goal
  <2> PICK i \in DOMAIN retryQueue :
         /\ retryQueue' = Without(retryQueue, i)
         /\ Unqueue(retryQueue[i])
         /\ Hand(s, retryQueue[i], AttemptOf(retryQueue[i]))
    BY <1>4 DEF ClaimRetry
  <2>1. retryQueue[i] \in Case /\ Without(retryQueue, i) \in Seq(Case)
    BY <1>0, WithoutRng DEF RetryOK
  <2>2. retryCount[retryQueue[i]] \in 0..MaxRetry
    BY <1>0, <2>1 DEF RetryOK
  <2>3. cursor' \in [Lane -> 1..(N + 1)]
    <3>1. N + 1 \in 1..(N + 1)
      BY DispatchAssumption
    <3> QED BY <1>0, <1>4, <3>1 DEF ClaimRetry, ExhaustCursor, QueueOK
  <2>4. SlotOK' /\ TicketInv' /\ GoneInv' /\ inFlight' \in Nat
    BY <1>0, <1>4, <2>1, <2>2, TypeHand
       DEF ClaimRetry, AttemptOf, QueueOK, envVars, seenVars
  <2>5. QueueOK' /\ RetryOK'
    BY <1>0, <1>4, <2>1, <2>3, <2>4 DEF ClaimRetry, Unqueue, QueueOK, RetryOK
  <2>6. EnvOK'
    BY <1>0, <1>4 DEF ClaimRetry, EnvOK, envVars
  <2> QED BY <2>4, <2>5, <2>6
<1>5. ASSUME NEW s \in Slots, Depart(s) PROVE Goal
  <2>1. cursor' \in [Lane -> 1..(N + 1)]
    <3>1. N + 1 \in 1..(N + 1)
      BY DispatchAssumption
    <3> QED BY <1>0, <1>5, <3>1 DEF Depart, ExhaustCursor, QueueOK
  <2>2. QueueOK' /\ RetryOK'
    BY <1>0, <1>5, <2>1 DEF Depart, QueueOK, RetryOK, retryVars
  <2>3. EnvOK'
    BY <1>0, <1>5 DEF Depart, EnvOK, envVars
  <2>4. SlotOK'
    BY <1>0, <1>5 DEF Depart, SlotOK, PC, seenVars
  <2>5. TicketInv'
    BY <1>0, <1>5 DEF Depart, Asking, TicketInv, SlotOK, envVars
  <2>6. GoneInv'
    BY <1>0, <1>5 DEF Depart, Asking, GoneInv, TicketInv, SlotOK, envVars
  <2> QED BY <2>2, <2>3, <2>4, <2>5, <2>6
<1>6. ASSUME NEW s \in Slots, ClaimStopped(s) \/ Begin(s) \/ Abort(s) \/ Stop(s)
      PROVE  Goal
  <2>1. QueueOK' /\ RetryOK'
    BY <1>0, <1>6 DEF ClaimStopped, Begin, Abort, Stop, QueueOK, RetryOK,
                      firstPassVars, retryVars
  <2>2. EnvOK'
    BY <1>0, <1>6 DEF ClaimStopped, Begin, Abort, Stop, EnvOK, envVars
  <2>3. SlotOK'
    BY <1>0, <1>6 DEF ClaimStopped, Begin, Abort, Stop, SlotOK, PC, seenVars
  <2>4. TicketInv'
    BY <1>0, <1>6 DEF ClaimStopped, Begin, Abort, Stop, SlotOK, TicketInv, envVars
  <2>5. GoneInv'
    BY <1>0, <1>6 DEF ClaimStopped, Begin, Abort, Stop, SlotOK, TicketInv, GoneInv,
                      EnvOK, envVars
  <2> QED BY <2>1, <2>2, <2>3, <2>4, <2>5
<1>7. ASSUME NEW s \in Slots, NEW outcome \in Outcome, Complete(s, outcome)
      PROVE  Goal
  <2>1. /\ pc[s] = "run" /\ Release(s) /\ pc' = [pc EXCEPT ![s] = "claim"]
        /\ done' \subseteq done \cup {tcase[s]}
        /\ UNCHANGED <<departed, stopped, cancelled, full, taken, cursor, owner>>
    BY <1>7 DEF Complete, Finish, firstPassVars, envVars
  <2>2. /\ tcase[s] \in Case
        /\ SlotOK' /\ TicketInv' /\ GoneInv' /\ inFlight' \in Nat
        /\ running' \subseteq running
    BY <2>1, TypeRelease
  <2>3. QueueOK'
    BY <1>0, <2>1, <2>2 DEF QueueOK
  <2>4. EnvOK'
    BY <1>0, <2>1 DEF EnvOK
  <2>5. RetryOK'
    <3>1. CASE Retrying(outcome, tretry[s])
      <4>1. tretry[s] + 1 \in 0..MaxRetry
        BY <1>0, <3>1, DispatchAssumption DEF Retrying, SlotOK
      <4>2. Enqueue(tcase[s], tretry[s] + 1)
        BY <1>7, <3>1 DEF Complete
      <4>3. \A q \in Seq(Case) : Append(q, tcase[s]) \in Seq(Case)
        BY <2>2
      <4>4. retryCount' \in [Case -> 0..MaxRetry] /\ queued' \subseteq Case
        BY <1>0, <2>2, <4>1, <4>2 DEF RetryOK, Enqueue
      <4>5. held' \in [Slots -> Seq(Case)]
        BY <1>0, <4>2, <4>3 DEF RetryOK, Enqueue
      <4>6. retryQueue' \in Seq(Case)
        BY <1>0, <4>2, <4>3 DEF RetryOK, Enqueue
      <4> QED BY <4>4, <4>5, <4>6 DEF RetryOK
    <3>2. CASE ~ Retrying(outcome, tretry[s])
      <4>1. 0 \in 0..MaxRetry
        BY DispatchAssumption
      <4> QED BY <1>0, <1>7, <2>2, <3>2, <4>1
                 DEF Complete, Finish, Unqueue, RetryOK
    <3> QED BY <3>1, <3>2
  <2> QED BY <2>2, <2>3, <2>4, <2>5
<1>8. ASSUME NEW s \in Slots, Fail(s) PROVE Goal
  <2>1. /\ pc[s] = "run" /\ Release(s) /\ pc' = [pc EXCEPT ![s] = "failed"]
        /\ done' \subseteq done \cup {tcase[s]}
        /\ UNCHANGED <<departed, stopped, cancelled, full, taken, cursor, owner,
                       held, retryQueue>>
    BY <1>8 DEF Fail, Finish, firstPassVars, envVars
  <2>2. /\ tcase[s] \in Case
        /\ SlotOK' /\ TicketInv' /\ GoneInv' /\ inFlight' \in Nat
        /\ running' \subseteq running
    BY <2>1, TypeRelease
  <2>3. QueueOK'
    BY <1>0, <2>1, <2>2 DEF QueueOK
  <2>4. EnvOK'
    BY <1>0, <2>1 DEF EnvOK
  <2>5. RetryOK'
    <3>1. 0 \in 0..MaxRetry
      BY DispatchAssumption
    <3> QED BY <1>0, <1>8, <2>1, <2>2, <3>1 DEF Fail, Finish, Unqueue, RetryOK
  <2> QED BY <2>2, <2>3, <2>4, <2>5
<1>9. CASE Cancel \/ Usage
  <2>1. QueueOK' /\ RetryOK'
    BY <1>0, <1>9 DEF Cancel, Usage, QueueOK, RetryOK, firstPassVars, retryVars
  <2>2. EnvOK'
    BY <1>0, <1>9 DEF Cancel, Usage, EnvOK
  <2>3. SlotOK' /\ TicketInv'
    BY <1>0, <1>9 DEF Cancel, Usage, SlotOK, TicketInv, slotVars, seenVars
  <2>4. GoneInv'
    BY <1>0, <1>9 DEF Cancel, Usage, GoneInv, slotVars
  <2> QED BY <2>1, <2>2, <2>3, <2>4
<1>10. CASE Over \/ UNCHANGED vars
  <2>1. UNCHANGED vars
    BY <1>10 DEF Over
  <2>2. QueueOK' /\ RetryOK'
    BY <1>0, <2>1 DEF vars, QueueOK, RetryOK, firstPassVars, retryVars
  <2>3. EnvOK' /\ SlotOK'
    BY <1>0, <2>1 DEF vars, EnvOK, SlotOK, envVars, slotVars, seenVars
  <2>4. TicketInv' /\ GoneInv'
    BY <1>0, <2>1 DEF vars, TicketInv, GoneInv, envVars, slotVars
  <2> QED BY <2>2, <2>3, <2>4
<1> QED BY <1>1, <1>2, <1>3, <1>4, <1>5, <1>6, <1>7, <1>8, <1>9, <1>10
           DEF Next, Step, Claim

\* The fields of the queue have their types in every reachable state.
THEOREM TypeCorrect == Spec => []TypeOK
<1>1. TypeInv => TypeOK
  BY DEF TypeInv
<1> QED BY <1>1, TypeInit, TypeStep, PTL DEF Spec

-----------------------------------------------------------------------------
(* Every case is in exactly one place.                                      *)

\* `queued' names only cases that do wait somewhere, so enqueue()'s early
\* return never drops one.
QueuedInv == \A c \in queued : InHeld(c) \/ c \in Rng(retryQueue)

PlaceInv == Conservation /\ Exclusive /\ QueuedInv

LEMMA PlaceInit == Init => PlaceInv
BY DEF Init, PlaceInv, Conservation, Exclusive, NoDuplicates, SlotsApart, InOnePlace,
       QueuedInv, Once, Rng, InHeld, InTicket

\* A case that leaves held[s] or the retry queue, or the waiting list, for the
\* ticket of a slot that has none.
LEMMA PlaceHand ==
    ASSUME NEW s \in Slots, NEW c \in Case, TypeInv, PlaceInv, tcase[s] = 0,
           tcase' = [tcase EXCEPT ![s] = c], done' = done,
           taken' = taken \cup {c}, queued' \subseteq queued \ {c},
           NoDuplicates',
           \A t \in Slots : Rng(held'[t]) = Rng(held[t]) \ {c},
           Rng(retryQueue') = Rng(retryQueue) \ {c},
           c \notin done, ~ InTicket(c)
    PROVE  PlaceInv'
<1>1. /\ tcase \in [Slots -> 0..N] /\ c # 0
      /\ \A t \in Slots : tcase'[t] = IF t = s THEN c ELSE tcase[t]
  BY DispatchAssumption DEF TypeInv, TypeOK, SlotOK, Case
<1>2. \A d \in Case : InHeld(d)' <=> InHeld(d) /\ d # c
  BY DEF InHeld
<1>3. \A d \in Case : InTicket(d)' <=> InTicket(d) \/ d = c
  BY <1>1 DEF InTicket, Case
<1>4. Conservation'
  BY <1>2, <1>3 DEF PlaceInv, Conservation
<1>5. SlotsApart'
  BY <1>1 DEF PlaceInv, Exclusive, SlotsApart, InTicket
<1>6. \A d \in Case : InOnePlace(d)'
  BY <1>2, <1>3 DEF PlaceInv, Exclusive, InOnePlace
<1>7. QueuedInv'
  <2>1. queued \subseteq Case
    BY DEF TypeInv, TypeOK, RetryOK
  <2> QED BY <1>2, <2>1 DEF PlaceInv, QueuedInv
<1> QED BY <1>4, <1>5, <1>6, <1>7 DEF PlaceInv, Exclusive

\* A case that leaves a ticket for one place: a slot's held cases, the retry
\* queue or the cases that are done.
LEMMA PlaceRelease ==
    ASSUME NEW s \in Slots, TypeInv, PlaceInv, NEW c \in Case, tcase[s] = c,
           tcase' = [tcase EXCEPT ![s] = 0], taken' = taken, NoDuplicates',
           \A t \in Slots : Rng(held'[t]) \ {c} = Rng(held[t]) \ {c},
           Rng(retryQueue') \ {c} = Rng(retryQueue) \ {c},
           done' \ {c} = done \ {c},
           \A t, u \in Slots : c \in Rng(held'[t]) \cap Rng(held'[u]) => t = u,
           \/ InHeld(c)' \/ c \in Rng(retryQueue') \/ c \in done',
           InHeld(c)' => c \notin Rng(retryQueue') \cup done',
           c \in Rng(retryQueue') => c \notin done',
           queued' \subseteq queued \cup {c}, queued' \cap done' \subseteq done
    PROVE  PlaceInv'
<1>1. /\ c \in taken /\ c \notin done /\ InTicket(c)
      /\ ~ InHeld(c) /\ c \notin Rng(retryQueue)
  BY DEF PlaceInv, Exclusive, InOnePlace, InTicket
<1>2. /\ tcase \in [Slots -> 0..N] /\ 0 \notin Case
      /\ \A t \in Slots : tcase'[t] = IF t = s THEN 0 ELSE tcase[t]
  BY DispatchAssumption DEF TypeInv, TypeOK, SlotOK, Case
<1>3. \A d \in Case : d # c =>
         /\ InHeld(d)' <=> InHeld(d)
         /\ d \in Rng(retryQueue') <=> d \in Rng(retryQueue)
         /\ d \in done' <=> d \in done
  BY DEF InHeld
<1>4. \A d \in Case : InTicket(d)' <=> InTicket(d) /\ d # c
  BY <1>2 DEF InTicket, PlaceInv, Exclusive, SlotsApart
<1>5. Conservation'
  <2> SUFFICES ASSUME NEW d \in Case
               PROVE  \/ d \notin taken' \/ d \in done'
                      \/ InTicket(d)' \/ InHeld(d)' \/ d \in Rng(retryQueue')
    BY DEF Conservation
  <2>1. CASE d = c
    BY <2>1 DEF InHeld
  <2>2. CASE d # c
    BY <2>2, <1>3, <1>4 DEF PlaceInv, Conservation
  <2> QED BY <2>1, <2>2
<1>6. SlotsApart'
  <2>1. \A t, u \in Slots : t # u => Rng(held'[t]) \cap Rng(held'[u]) = {}
    BY DEF PlaceInv, Exclusive, SlotsApart
  <2>2. \A t, u \in Slots : t # u /\ tcase'[t] # 0 => tcase'[t] # tcase'[u]
    BY <1>2 DEF PlaceInv, Exclusive, SlotsApart
  <2> QED BY <2>1, <2>2 DEF SlotsApart
<1>7. \A d \in Case : InOnePlace(d)'
  <2> SUFFICES ASSUME NEW d \in Case PROVE InOnePlace(d)'
    OBVIOUS
  <2>1. CASE d = c
    BY <2>1, <1>1, <1>4 DEF InOnePlace, InHeld
  <2>2. CASE d # c
    BY <2>2, <1>3, <1>4 DEF PlaceInv, Exclusive, InOnePlace
  <2> QED BY <2>1, <2>2
<1>8. QueuedInv'
  <2> SUFFICES ASSUME NEW d \in queued'
               PROVE  InHeld(d)' \/ d \in Rng(retryQueue')
    BY DEF QueuedInv
  <2>1. queued \subseteq Case
    BY DEF TypeInv, TypeOK, RetryOK
  <2>2. CASE d = c
    BY <2>2, <1>1 DEF InHeld
  <2>3. CASE d # c
    BY <2>1, <2>3, <1>3 DEF PlaceInv, QueuedInv
  <2> QED BY <2>2, <2>3
<1> QED BY <1>5, <1>6, <1>7, <1>8 DEF PlaceInv, Exclusive

\* Steps that move no case.
LEMMA PlaceStays ==
    ASSUME PlaceInv, UNCHANGED <<taken, held, retryQueue, queued, tcase, done>>
    PROVE  PlaceInv'
BY DEF PlaceInv, Conservation, Exclusive, NoDuplicates, SlotsApart, InOnePlace,
       QueuedInv, InHeld, InTicket

LEMMA PlaceStep == TypeInv /\ PlaceInv /\ [Next]_vars => PlaceInv'
<1> SUFFICES ASSUME TypeInv, PlaceInv, [Next]_vars PROVE PlaceInv'
  OBVIOUS
<1>0. QueueOK /\ RetryOK /\ SlotOK /\ TicketInv /\ NoDuplicates
  BY DEF TypeInv, TypeOK, PlaceInv, Exclusive
<1>1. ASSUME NEW s \in Slots, ClaimHeld(s) PROVE PlaceInv'
  <2> DEFINE c == Head(held[s])
  <2>1. /\ held[s] \in Seq(Case) /\ held[s] # <<>>
        /\ held' = [held EXCEPT ![s] = Tail(held[s])] /\ retryQueue' = retryQueue
        /\ tcase[s] = 0 /\ tcase' = [tcase EXCEPT ![s] = c]
        /\ queued' = queued \ {c} /\ taken' = taken /\ done' = done
    BY <1>0, <1>1 DEF ClaimHeld, Asking, Hand, Unqueue, RetryOK, TicketInv,
                      firstPassVars, seenVars
  <2>2. /\ c \in Case /\ Rng(held[s]) = Rng(Tail(held[s])) \cup {c}
        /\ Once(Tail(held[s])) /\ c \notin Rng(Tail(held[s]))
    BY <1>0, <2>1, TailRng DEF NoDuplicates
  <2>3. InHeld(c) /\ \A t \in Slots : t # s => c \notin Rng(held[t])
    BY <2>2 DEF InHeld, PlaceInv, Exclusive, SlotsApart
  <2>4. c \notin Rng(retryQueue) /\ c \notin done /\ ~ InTicket(c) /\ c \in taken
    BY <2>2, <2>3 DEF PlaceInv, Exclusive, InOnePlace
  <2>5. \A t \in Slots : held'[t] = IF t = s THEN Tail(held[s]) ELSE held[t]
    BY <1>0, <2>1 DEF RetryOK
  <2>6. \A t \in Slots : Rng(held'[t]) = Rng(held[t]) \ {c}
    BY <2>2, <2>3, <2>5
  <2>7. NoDuplicates'
    BY <1>0, <2>1, <2>2, <2>5 DEF NoDuplicates
  <2> HIDE DEF c
  <2> QED BY <2>1, <2>2, <2>4, <2>6, <2>7, PlaceHand
<1>2. ASSUME NEW s \in Slots, ClaimFirst(s) PROVE PlaceInv'
  <2> PICK c \in Case : /\ IsFirst(c, Admissible) /\ Take(c) /\ Hand(s, c, 0)
    BY <1>2 DEF ClaimFirst
  <2>1. c \notin taken
    BY DEF IsFirst, Admissible
  <2>2. /\ c \notin done /\ ~ InTicket(c) /\ ~ InHeld(c) /\ c \notin Rng(retryQueue)
    BY <2>1 DEF PlaceInv, Exclusive, InOnePlace
  <2>3. c \notin queued
    BY <2>2 DEF PlaceInv, QueuedInv
  <2>4. /\ held' = held /\ retryQueue' = retryQueue /\ queued' = queued
        /\ done' = done /\ taken' = taken \cup {c}
        /\ tcase[s] = 0 /\ tcase' = [tcase EXCEPT ![s] = c]
    BY <1>0, <1>2 DEF ClaimFirst, Asking, Hand, Take, TicketInv, retryVars, seenVars
  <2>5. \A t \in Slots : Rng(held'[t]) = Rng(held[t]) \ {c}
    BY <2>2, <2>4 DEF InHeld
  <2>6. NoDuplicates'
    BY <1>0, <2>4 DEF NoDuplicates
  <2> QED BY <2>2, <2>3, <2>4, <2>5, <2>6, PlaceHand
<1>3. ASSUME NEW s \in Slots, ClaimScan(s) PROVE PlaceInv'
  <2> PICK c \in Case :
         /\ IsFirst(c, Scannable(SlotLane[s]))
         /\ taken' = taken \cup {c} \cup Siblings(c)
         /\ \E q \in InOrder(Siblings(c)) : held' = [held EXCEPT ![s] = q]
         /\ Hand(s, c, 0)
    BY <1>3 DEF ClaimScan
  <2> PICK q \in InOrder(Siblings(c)) : held' = [held EXCEPT ![s] = q]
    OBVIOUS
  <2>1. /\ retryQueue' = retryQueue /\ queued' = queued /\ done' = done
        /\ tcase[s] = 0 /\ tcase' = [tcase EXCEPT ![s] = c] /\ held[s] = <<>>
    BY <1>0, <1>3 DEF ClaimScan, Asking, Hand, TicketInv, retryVars, seenVars
  <2>2. c \notin taken
    BY DEF IsFirst, Scannable
  <2>3. Rng(q) = Siblings(c) /\ Once(q)
    BY SiblingsFinite, InOrderRng
  <2>4. Siblings(c) \subseteq Case \ taken /\ c \notin Siblings(c)
    BY SiblingsFinite
  <2>5. Rng(held[s]) = {}
    BY <2>1 DEF Rng
  <2>6. \A t \in Slots : held'[t] = IF t = s THEN q ELSE held[t]
    BY <1>0 DEF RetryOK
  <2>7. \A t \in Slots :
           Rng(held'[t]) = Rng(held[t]) \cup (IF t = s THEN Siblings(c) ELSE {})
    BY <2>3, <2>5, <2>6
  <2>8. /\ tcase \in [Slots -> 0..N] /\ c # 0
        /\ \A t \in Slots : tcase'[t] = IF t = s THEN c ELSE tcase[t]
    BY <1>0, <2>1, DispatchAssumption DEF SlotOK, Case
  <2>9. \A d \in Case : InHeld(d)' <=> InHeld(d) \/ d \in Siblings(c)
    BY <2>7 DEF InHeld
  <2>10. \A d \in Case : InTicket(d)' <=> InTicket(d) \/ d = c
    BY <2>1, <2>8, DispatchAssumption DEF InTicket, Case
  <2>11. Conservation'
    BY <2>1, <2>9, <2>10 DEF PlaceInv, Conservation
  <2>12. NoDuplicates'
    BY <1>0, <2>1, <2>3, <2>6 DEF NoDuplicates
  <2>13. \A d \in Case \ taken :
            ~ InTicket(d) /\ ~ InHeld(d) /\ d \notin Rng(retryQueue) /\ d \notin done
    BY DEF PlaceInv, Exclusive, InOnePlace
  <2>14. SlotsApart'
    <3>1. \A t, u \in Slots : t # u => Rng(held'[t]) \cap Rng(held'[u]) = {}
      BY <2>4, <2>7, <2>13 DEF InHeld, PlaceInv, Exclusive, SlotsApart
    <3>2. \A t, u \in Slots : t # u /\ tcase'[t] # 0 => tcase'[t] # tcase'[u]
      BY <2>2, <2>8, <2>13 DEF InTicket, PlaceInv, Exclusive, SlotsApart
    <3> QED BY <3>1, <3>2 DEF SlotsApart
  <2>15. \A d \in Case : InOnePlace(d)'
    BY <2>1, <2>2, <2>4, <2>9, <2>10, <2>13 DEF PlaceInv, Exclusive, InOnePlace
  <2>16. QueuedInv'
    BY <1>0, <2>1, <2>9 DEF RetryOK, PlaceInv, QueuedInv
  <2> QED BY <2>11, <2>12, <2>14, <2>15, <2>16 DEF PlaceInv, Exclusive
<1>4. ASSUME NEW s \in Slots, ClaimRetry(s) PROVE PlaceInv'
  <2> PICK i \in DOMAIN retryQueue :
         /\ retryQueue' = Without(retryQueue, i)
         /\ Unqueue(retryQueue[i])
         /\ Hand(s, retryQueue[i], AttemptOf(retryQueue[i]))
    BY <1>4 DEF ClaimRetry
  <2> DEFINE c == retryQueue[i]
  <2>1. /\ c \in Case /\ Once(retryQueue')
        /\ Rng(retryQueue') = Rng(retryQueue) \ {c}
    BY <1>0, WithoutRng DEF RetryOK, NoDuplicates
  <2>2. c \in Rng(retryQueue)
    BY DEF Rng
  <2>3. ~ InTicket(c) /\ ~ InHeld(c) /\ c \in taken /\ c \notin done
    BY <2>1, <2>2 DEF PlaceInv, Exclusive, InOnePlace
  <2>4. /\ held' = held /\ taken' = taken /\ done' = done /\ queued' = queued \ {c}
        /\ tcase[s] = 0 /\ tcase' = [tcase EXCEPT ![s] = c]
    BY <1>0, <1>4 DEF ClaimRetry, Asking, Hand, Unqueue, TicketInv, seenVars
  <2>5. \A t \in Slots : Rng(held'[t]) = Rng(held[t]) \ {c}
    BY <2>3, <2>4 DEF InHeld
  <2>6. NoDuplicates'
    BY <1>0, <2>1, <2>4 DEF NoDuplicates
  <2> HIDE DEF c
  <2> QED BY <2>1, <2>3, <2>4, <2>5, <2>6, PlaceHand
<1>5. ASSUME NEW s \in Slots, Depart(s) \/ ClaimStopped(s) \/ Begin(s) \/ Abort(s) \/ Stop(s)
      PROVE  PlaceInv'
  BY <1>5, PlaceStays DEF Depart, ClaimStopped, Begin, Abort, Stop, firstPassVars,
                          retryVars, seenVars
<1>6. ASSUME NEW s \in Slots, NEW outcome \in Outcome, Complete(s, outcome)
      PROVE  PlaceInv'
  <2> PICK c \in Case : tcase[s] = c
    BY <1>0, <1>6, DispatchAssumption DEF Complete, SlotOK, TicketInv, Case
  <2>1. taken' = taken /\ tcase' = [tcase EXCEPT ![s] = 0]
    BY <1>6 DEF Complete, Finish, Release, firstPassVars
  <2>2. /\ ~ InHeld(c) /\ c \notin Rng(retryQueue) /\ c \notin done /\ c \notin queued
        /\ \A t \in Slots : c \notin Rng(held[t])
    BY DEF PlaceInv, Exclusive, InOnePlace, QueuedInv, InTicket, InHeld
  <2>3. CASE ~ Retrying(outcome, tretry[s])
    <3>1. /\ held' = held /\ retryQueue' = retryQueue
          /\ done' = done \cup {c} /\ queued' = queued \ {c}
      BY <1>6, <2>3 DEF Complete, Finish, Unqueue
    <3>2. NoDuplicates'
      BY <1>0, <3>1 DEF NoDuplicates
    <3>3. ~ InHeld(c)'
      BY <2>2, <3>1 DEF InHeld
    <3> QED BY <2>1, <2>2, <3>1, <3>2, <3>3, PlaceRelease
  <2>4. CASE Retrying(outcome, tretry[s])
    <3>1. Enqueue(c, tretry[s] + 1) /\ done' = done
      BY <1>6, <2>4 DEF Complete
    <3>2. CASE OwnerAsks(c)
      <4> DEFINE o == owner[c]
      <4>1. /\ o \in Slots /\ retryQueue' = retryQueue
            /\ held' = [held EXCEPT ![o] = Append(held[o], c)]
            /\ queued' = queued \cup {c}
        BY <1>0, <2>2, <3>1, <3>2 DEF Enqueue, OwnerAsks, QueueOK
      <4>2. /\ Rng(Append(held[o], c)) = Rng(held[o]) \cup {c}
            /\ Once(Append(held[o], c))
        BY <1>0, <2>2, <4>1, AppendRng DEF RetryOK, NoDuplicates
      <4>3. \A t \in Slots :
               held'[t] = IF t = o THEN Append(held[o], c) ELSE held[t]
        BY <1>0, <4>1 DEF RetryOK
      <4>4. \A t \in Slots :
               Rng(held'[t]) = IF t = o THEN Rng(held[t]) \cup {c} ELSE Rng(held[t])
        BY <4>2, <4>3
      <4>5. NoDuplicates'
        BY <1>0, <4>1, <4>2, <4>3 DEF NoDuplicates
      <4>6. InHeld(c)'
        <5>1. o \in Slots
          BY <4>1
        <5>2. held'[o] = Append(held[o], c)
          BY <5>1, <4>3
        <5>3. c \in Rng(held'[o])
          BY <5>2, <4>2
        <5> HIDE DEF o
        <5> QED BY <5>1, <5>3 DEF InHeld
      <4>7. \A t, u \in Slots : c \in Rng(held'[t]) \cap Rng(held'[u]) => t = u
        BY <2>2, <4>4
      <4>8. \A t \in Slots : Rng(held'[t]) \ {c} = Rng(held[t]) \ {c}
        BY <4>4
      <4> HIDE DEF o
      <4> QED BY <2>1, <2>2, <3>1, <4>1, <4>5, <4>6, <4>7, <4>8, PlaceRelease
    <3>3. CASE ~ OwnerAsks(c)
      <4>1. /\ held' = held /\ retryQueue' = Append(retryQueue, c)
            /\ queued' = queued \cup {c}
        BY <2>2, <3>1, <3>3 DEF Enqueue
      <4>2. /\ Rng(retryQueue') = Rng(retryQueue) \cup {c}
            /\ Once(retryQueue')
        BY <1>0, <2>2, <4>1, AppendRng DEF RetryOK, NoDuplicates
      <4>3. NoDuplicates'
        BY <1>0, <4>1, <4>2 DEF NoDuplicates
      <4>4. ~ InHeld(c)'
        BY <2>2, <4>1 DEF InHeld
      <4> QED BY <2>1, <2>2, <3>1, <4>1, <4>2, <4>3, <4>4, PlaceRelease
    <3> QED BY <3>2, <3>3
  <2> QED BY <2>3, <2>4
<1>7. ASSUME NEW s \in Slots, Fail(s) PROVE PlaceInv'
  <2> PICK c \in Case : tcase[s] = c
    BY <1>0, <1>7, DispatchAssumption DEF Fail, SlotOK, TicketInv, Case
  <2>1. /\ taken' = taken /\ held' = held /\ retryQueue' = retryQueue
        /\ tcase' = [tcase EXCEPT ![s] = 0]
        /\ done' = done \cup {c} /\ queued' = queued \ {c}
    BY <1>7 DEF Fail, Finish, Release, Unqueue, firstPassVars
  <2>2. /\ ~ InHeld(c) /\ c \notin Rng(retryQueue) /\ c \notin done
        /\ \A t \in Slots : c \notin Rng(held[t])
    BY DEF PlaceInv, Exclusive, InOnePlace, InTicket, InHeld
  <2>3. NoDuplicates' /\ ~ InHeld(c)'
    BY <1>0, <2>1, <2>2 DEF NoDuplicates, InHeld
  <2> QED BY <2>1, <2>2, <2>3, PlaceRelease
<1>8. CASE Cancel \/ Usage \/ Over \/ UNCHANGED vars
  BY <1>8, PlaceStays DEF Cancel, Usage, Over, vars, firstPassVars, retryVars, slotVars,
                          seenVars
<1> QED BY <1>1, <1>2, <1>3, <1>4, <1>5, <1>6, <1>7, <1>8 DEF Next, Step, Claim

\* The queue neither loses a case nor hands it out twice: every case is waiting,
\* held, queued for a retry, on a ticket or done, whatever the slots do.
THEOREM NothingLost == Spec => []Conservation
<1>1. PlaceInv => Conservation
  BY DEF PlaceInv
<1> QED BY <1>1, TypeInit, TypeStep, PlaceInit, PlaceStep, PTL DEF Spec

\* ... and in no two of those places, nor on two tickets.
THEOREM NothingTwice == Spec => []Exclusive
<1>1. PlaceInv => Exclusive
  BY DEF PlaceInv
<1> QED BY <1>1, TypeInit, TypeStep, PlaceInit, PlaceStep, PTL DEF Spec

-----------------------------------------------------------------------------
(* inFlight counts the tickets that are out.                                *)

Out == {s \in Slots : tcase[s] # 0}

LEMMA OutFinite == IsFiniteSet(Out) /\ Cardinality(Out) \in Nat
BY DispatchAssumption, FS_Subset, FS_CardinalityType DEF Out

\* A set with one element has no two.
LEMMA OnlyOne ==
    ASSUME NEW S, IsFiniteSet(S), Cardinality(S) = 1, NEW a \in S, NEW b \in S
    PROVE  a = b
<1>1. IsFiniteSet(S \ {a}) /\ Cardinality(S \ {a}) = 0
  BY FS_RemoveElement
<1>2. S \ {a} = {}
  BY <1>1, FS_EmptySet
<1> QED BY <1>2

LEMMA CountInit == Init => InFlightCounts
<1> SUFFICES ASSUME Init PROVE InFlightCounts
  OBVIOUS
<1>1. {s \in Slots : tcase[s] # 0} = {}
  BY DEF Init
<1> QED BY <1>1, FS_EmptySet DEF Init, InFlightCounts

LEMMA CountHand ==
    ASSUME NEW s \in Slots, NEW c \in Case, NEW retry, TypeInv, InFlightCounts,
           tcase[s] = 0, Hand(s, c, retry)
    PROVE  InFlightCounts'
<1>1. Out' = Out \cup {s} /\ s \notin Out
  BY DispatchAssumption DEF Out, Hand, TypeInv, TypeOK, SlotOK, Case
<1>2. Cardinality(Out') = Cardinality(Out) + 1
  BY <1>1, OutFinite, FS_AddElement
<1> QED BY <1>2 DEF InFlightCounts, Hand, Out

LEMMA CountRelease ==
    ASSUME NEW s \in Slots, TypeInv, InFlightCounts, tcase[s] # 0, Release(s)
    PROVE  InFlightCounts' /\ inFlight' = inFlight - 1
<1>1. Out' = Out \ {s} /\ s \in Out
  BY DEF Out, Release, TypeInv, TypeOK, SlotOK
<1>2. Cardinality(Out') = Cardinality(Out) - 1
  BY <1>1, OutFinite, FS_RemoveElement
<1>3. Cardinality(Out) # 0
  BY <1>1, OutFinite, FS_EmptySet
<1> QED BY <1>2, <1>3, OutFinite DEF InFlightCounts, Release, Landed, Out

LEMMA CountStep == TypeInv /\ InFlightCounts /\ [Next]_vars => InFlightCounts'
<1> SUFFICES ASSUME TypeInv, InFlightCounts, [Next]_vars PROVE InFlightCounts'
  OBVIOUS
<1>0. RetryOK /\ SlotOK /\ TicketInv
  BY DEF TypeInv, TypeOK
<1>1. ASSUME NEW s \in Slots, ClaimHeld(s) PROVE InFlightCounts'
  <2>1. Head(held[s]) \in Case /\ tcase[s] = 0
    BY <1>0, <1>1, TailRng DEF ClaimHeld, Asking, RetryOK, TicketInv
  <2> QED BY <1>1, <2>1, CountHand DEF ClaimHeld
<1>2. ASSUME NEW s \in Slots, ClaimFirst(s) \/ ClaimScan(s) PROVE InFlightCounts'
  <2>1. tcase[s] = 0
    BY <1>0, <1>2 DEF ClaimFirst, ClaimScan, Asking, TicketInv
  <2> QED BY <1>2, <2>1, CountHand DEF ClaimFirst, ClaimScan
<1>3. ASSUME NEW s \in Slots, ClaimRetry(s) PROVE InFlightCounts'
  <2> PICK i \in DOMAIN retryQueue : Hand(s, retryQueue[i], AttemptOf(retryQueue[i]))
    BY <1>3 DEF ClaimRetry
  <2>1. retryQueue[i] \in Case /\ tcase[s] = 0
    BY <1>0, <1>3 DEF ClaimRetry, Asking, RetryOK, TicketInv
  <2> QED BY <2>1, CountHand
<1>4. ASSUME NEW s \in Slots, Depart(s) \/ ClaimStopped(s) \/ Begin(s) \/ Abort(s) \/ Stop(s)
      PROVE  InFlightCounts'
  BY <1>4 DEF Depart, ClaimStopped, Begin, Abort, Stop, InFlightCounts
<1>5. ASSUME NEW s \in Slots, NEW outcome \in Outcome, Complete(s, outcome) \/ Fail(s)
      PROVE  InFlightCounts'
  <2>1. tcase[s] # 0 /\ Release(s)
    BY <1>0, <1>5 DEF Complete, Fail, Finish, TicketInv
  <2> QED BY <2>1, CountRelease
<1>6. CASE Cancel \/ Usage \/ Over \/ UNCHANGED vars
  BY <1>6 DEF Cancel, Usage, Over, vars, slotVars, InFlightCounts
<1> QED BY <1>1, <1>2, <1>3, <1>4, <1>5, <1>6 DEF Next, Step, Claim, Outcome

\* inFlight is exactly the number of tickets out, so `nothing is running' is
\* what it says.
THEOREM InFlightExact == Spec => []InFlightCounts
BY TypeInit, TypeStep, CountInit, CountStep, PTL DEF Spec

-----------------------------------------------------------------------------
(* Without lanes: a retry is late and alone.                                *)

\* Nothing is ever held, and a ticket for a retry is the only one out, with the
\* whole first pass behind it.
QuietInv ==
    /\ \A s \in Slots : held[s] = <<>>
    /\ Rng(retryQueue) \cup done \subseteq tried
    /\ \A s \in Slots : tretry[s] > 0 => taken = Case /\ tried = Case /\ inFlight = 1

QueueInv == TypeInv /\ PlaceInv /\ InFlightCounts

LEMMA BeforeInit == Init => QueueInv
BY TypeInit, PlaceInit, CountInit DEF QueueInv

LEMMA BeforeStep == QueueInv /\ [Next]_vars => QueueInv'
BY TypeStep, PlaceStep, CountStep DEF QueueInv

LEMMA QuietInit == Init => QuietInv
<1> SUFFICES ASSUME Init PROVE QuietInv
  OBVIOUS
<1>1. \A s \in Slots : held[s] = <<>> /\ tretry[s] = 0
  BY DEF Init
<1>2. Rng(retryQueue) = {} /\ done = {}
  BY DEF Init, Rng
<1> QED BY <1>1, <1>2 DEF QuietInv

LEMMA QuietStep ==
    ASSUME ~ Lanes
    PROVE  QueueInv /\ QuietInv /\ [Next]_vars => QuietInv'
<1> SUFFICES ASSUME QueueInv, QuietInv, [Next]_vars PROVE QuietInv'
  OBVIOUS
<1>0. RetryOK /\ SlotOK /\ QueueOK /\ TicketInv /\ InFlightCounts /\ Conservation
  BY DEF QueueInv, TypeInv, TypeOK, PlaceInv
<1>1. ASSUME NEW s \in Slots, ClaimHeld(s) \/ ClaimScan(s) PROVE FALSE
  BY <1>1 DEF ClaimHeld, ClaimScan, QuietInv
<1>2. ASSUME NEW s \in Slots, ClaimFirst(s) PROVE QuietInv'
  <2>1. taken # Case
    BY <1>2 DEF ClaimFirst, IsFirst, Admissible
  <2>2. \A t \in Slots : ~ (tretry[t] > 0)
    BY <2>1 DEF QuietInv
  <2>3. \A t \in Slots : ~ (tretry'[t] > 0)
    BY <1>0, <1>2, <2>2 DEF ClaimFirst, Hand, SlotOK
  <2>4. /\ held' = held /\ retryQueue' = retryQueue /\ done' = done /\ tried' = tried
    BY <1>2 DEF ClaimFirst, retryVars, seenVars
  <2> QED BY <2>3, <2>4 DEF QuietInv
<1>3. ASSUME NEW s \in Slots, ClaimRetry(s) PROVE QuietInv'
  <2> PICK i \in DOMAIN retryQueue :
         /\ retryQueue' = Without(retryQueue, i)
         /\ Hand(s, retryQueue[i], AttemptOf(retryQueue[i]))
    BY <1>3 DEF ClaimRetry
  <2>1. /\ taken = Case /\ inFlight = 0 /\ held' = held /\ taken' = taken
        /\ tried' = tried /\ done' = done
    BY <1>3 DEF ClaimRetry, FirstPassOver, Quiet, seenVars
  <2>2. Out = {}
    BY <1>0, <2>1, OutFinite, FS_EmptySet DEF InFlightCounts, Out
  <2>3. \A t \in Slots : tcase[t] = 0 /\ tretry[t] = 0
    BY <1>0, <2>2 DEF Out, TicketInv
  <2>4. \A c \in Case : ~ InTicket(c) /\ ~ InHeld(c)
    BY <2>3, DispatchAssumption DEF InTicket, InHeld, QuietInv, Rng, Case
  <2>5. tried = Case
    BY <1>0, <2>1, <2>4 DEF Conservation, QuietInv, SlotOK
  <2>6. inFlight' = 1 /\ \A t \in Slots : t # s => tretry'[t] = 0
    BY <1>0, <2>1, <2>3 DEF Hand, SlotOK
  <2>7. Rng(retryQueue') \cup done' \subseteq tried'
    <3>1. Rng(retryQueue') \subseteq Case
      BY WithoutRng, <1>0 DEF RetryOK, Rng
    <3> QED BY <1>0, <2>1, <2>5, <3>1 DEF SlotOK
  <2> QED BY <2>1, <2>5, <2>6, <2>7 DEF QuietInv
<1>4. ASSUME NEW s \in Slots, Depart(s) \/ ClaimStopped(s) \/ Begin(s) \/ Abort(s) \/ Stop(s)
      PROVE  QuietInv'
  BY <1>4 DEF Depart, ClaimStopped, Begin, Abort, Stop, QuietInv, firstPassVars,
              retryVars, seenVars
<1>5. ASSUME NEW s \in Slots, NEW outcome \in Outcome, Complete(s, outcome) \/ Fail(s)
      PROVE  QuietInv'
  <2>1. tcase[s] \in Case /\ Release(s) /\ taken' = taken
    BY <1>0, <1>5, DispatchAssumption
       DEF Complete, Fail, Finish, TicketInv, SlotOK, Case, firstPassVars
  <2>2. tried' = tried \cup {tcase[s]}
        /\ \A t \in Slots : tretry'[t] = IF t = s THEN 0 ELSE tretry[t]
    BY <1>0, <2>1 DEF Release, SlotOK
  <2>3. \A t \in Slots : ~ (tretry'[t] > 0)
    <3> SUFFICES ASSUME NEW t \in Slots, tretry'[t] > 0 PROVE FALSE
      OBVIOUS
    <3>1. t # s /\ tretry[t] > 0
      BY <2>2
    <3>2. inFlight = 1 /\ tcase[t] # 0 /\ tcase[s] # 0
      BY <1>0, <2>1, <3>1, DispatchAssumption DEF QuietInv, TicketInv, Case
    <3>3. t \in Out /\ s \in Out /\ Cardinality(Out) = 1
      BY <1>0, <3>2 DEF Out, InFlightCounts
    <3> QED BY <3>1, <3>3, OnlyOne, OutFinite
  <2>4. held' = held
    BY <1>5 DEF Complete, Fail, Enqueue, OwnerAsks
  <2>5. done' \subseteq done \cup {tcase[s]}
    BY <1>5 DEF Complete, Fail, Finish
  <2>6. Rng(retryQueue') \subseteq Rng(retryQueue) \cup {tcase[s]}
    <3>1. \/ retryQueue' = retryQueue
          \/ retryQueue' = Append(retryQueue, tcase[s])
      BY <1>5 DEF Complete, Fail, Enqueue, OwnerAsks
    <3>2. retryQueue \in Seq(Case) /\ tcase[s] \in Case
      BY <1>0, <2>1 DEF RetryOK
    <3>3. Rng(Append(retryQueue, tcase[s])) = Rng(retryQueue) \cup {tcase[s]}
      BY <3>2, AppendRng
    <3> QED BY <3>1, <3>3
  <2>7. \A t \in Slots : held'[t] = <<>>
    BY <1>0, <2>4 DEF QuietInv
  <2>8. Rng(retryQueue') \cup done' \subseteq tried'
    BY <1>0, <2>2, <2>5, <2>6 DEF QuietInv
  <2> QED BY <2>3, <2>7, <2>8 DEF QuietInv
<1>6. CASE Cancel \/ Usage \/ Over \/ UNCHANGED vars
  BY <1>6 DEF Cancel, Usage, Over, vars, firstPassVars, retryVars, slotVars, seenVars,
              QuietInv
<1> QED BY <1>1, <1>2, <1>3, <1>4, <1>5, <1>6 DEF Next, Step, Claim, Outcome

\* Without lanes a retry runs alone -- no other slot has a ticket -- and only
\* when every case has been tried once.
THEOREM RetriesComeLastAndAlone == ASSUME ~ Lanes PROVE Spec => []RetriesWait
<1>1. QuietInv => RetriesWait
  BY DEF QuietInv, RetriesWait, RetryQuiet, FirstPassFirst
<1> QED BY <1>1, BeforeInit, BeforeStep, QuietInit, QuietStep, PTL DEF Spec

\* The queue is sound whatever the slots do: a case the run was given is in
\* exactly one place, none is held twice, and the in-flight count is the
\* tickets out.
THEOREM QueueIsSound == Spec => []QueueSound
BY TypeCorrect, NothingLost, NothingTwice, InFlightExact, PTL DEF QueueSound

-----------------------------------------------------------------------------
(* Lanes and their ends.                                                    *)

\* A scan takes a directory whole, so whoever takes a later case of one finds
\* none of it with another slot.
TakenTogether ==
    Lanes => \A c, d \in Case : Dir[c] = Dir[d] /\ c \in taken => d \in taken

\* The last slot to go leaves no retry behind.
LastDrains == AllGone /\ ~stopped /\ ~cancelled => retryQueue = <<>>

LanesInv == CursorSound /\ TakenTogether /\ LanesApart /\ FalseMeansOver /\ LastDrains

\* At the beginning nothing is taken, and nobody has been sent away.
LEMMA LanesInit == Init => LanesInv
<1> SUFFICES ASSUME Init PROVE LanesInv
  OBVIOUS
<1>1. CursorSound /\ TakenTogether /\ FalseMeansOver /\ LastDrains
  BY DispatchAssumption DEF Init, CursorSound, TakenTogether, FalseMeansOver, LastDrains, Case, Lane
<1>2. LanesApart
  BY DEF Init, LanesApart, DirectoryOnOneSlot, RetryQueueUnused, Rng
<1> QED BY <1>1, <1>2 DEF LanesInv

\* A case that is held or runs was taken.
LEMMA PlacedIsTaken ==
    ASSUME QueueInv, NEW s \in Slots, NEW c \in Rng(held[s]) \cup {tcase[s]}, c # 0
    PROVE  c \in Case /\ c \in taken
<1>1. c \in Case
  <2>1. held[s] \in Seq(Case) /\ tcase[s] \in 0..N
    BY DEF QueueInv, TypeInv, TypeOK, RetryOK, SlotOK
  <2>2. CASE c = tcase[s]
    BY <2>1, <2>2, DispatchAssumption DEF Case
  <2>3. CASE c \in Rng(held[s])
    BY <2>1, <2>3 DEF Rng
  <2> QED BY <2>2, <2>3
<1>2. InTicket(c) \/ InHeld(c)
  BY DEF InTicket, InHeld
<1> QED BY <1>1, <1>2 DEF QueueInv, PlaceInv, Exclusive, InOnePlace

\* A slot that still claims has not been told that the run is over for it.
LEMMA AskingIsHere ==
    ASSUME QueueInv, NEW s \in Slots, pc[s] # "gone" PROVE s \notin departed
  BY DEF QueueInv, TypeInv, TicketInv

\* A first case of a lane's scan is the first of its whole directory.
LEMMA ScanTakesWhole ==
    ASSUME QueueInv, LanesInv, NEW s \in Slots, NEW c \in Case, IsFirst(c, Scannable(SlotLane[s])),
           NEW e \in Case, e <= c, LaneMatch(e, SlotLane[s])
    PROVE  e \in taken \/ e = c
<1>1. SlotLane[s] \in Lane /\ cursor[SlotLane[s]] \in Nat /\ e \in Nat /\ c \in Nat
  BY DispatchAssumption DEF QueueInv, TypeInv, TypeOK, QueueOK, Case
<1>2. CASE e < cursor[SlotLane[s]]
  BY <1>1, <1>2 DEF LanesInv, CursorSound
<1>3. CASE e >= cursor[SlotLane[s]] /\ e \notin taken
  <2>1. e \in Scannable(SlotLane[s])
    BY <1>3 DEF Scannable
  <2>2. c <= e
    BY <2>1 DEF IsFirst
  <2> QED BY <2>2, <1>1
<1> QED BY <1>1, <1>2, <1>3

\* A lane with nothing left to scan has had all its cases taken.
LEMMA NothingLeft ==
    ASSUME QueueInv, LanesInv, NEW l \in Lane, Scannable(l) = {},
           NEW e \in Case, LaneMatch(e, l)
    PROVE  e \in taken
<1>1. cursor[l] \in Nat /\ e \in Nat
  BY DispatchAssumption DEF QueueInv, TypeInv, TypeOK, QueueOK, Case
<1>2. CASE e < cursor[l]
  BY <1>2 DEF LanesInv, CursorSound
<1>3. CASE e >= cursor[l]
  BY <1>3 DEF Scannable
<1> QED BY <1>1, <1>2, <1>3

\* Taking cases changes neither what cursors have passed nor whom false sent
\* away, if the cursors stand and nothing is held for a slot that left.
LEMMA TakingKeeps ==
    ASSUME QueueInv, LanesInv, UNCHANGED <<cursor, departed>>, taken \subseteq taken',
           \A t \in departed : held'[t] = held[t]
    PROVE  CursorSound' /\ FalseMeansOver'
  BY DEF LanesInv, CursorSound, FalseMeansOver, LaneMatch

\* A claim that hands out a case leaves the lanes what they are.
LEMMA LanesHand ==
    ASSUME QueueInv, LanesInv, NEW s \in Slots,
           ClaimHeld(s) \/ ClaimFirst(s) \/ ClaimScan(s) \/ ClaimRetry(s)
    PROVE  LanesInv'
<1>0. s \notin departed /\ pc[s] = "claim"
  BY AskingIsHere DEF ClaimHeld, ClaimFirst, ClaimScan, ClaimRetry, Asking
<1>t. /\ pc \in [Slots -> PC] /\ tcase \in [Slots -> 0..N]
      /\ held \in [Slots -> Seq(Case)] /\ retryQueue \in Seq(Case) /\ taken \subseteq Case
      /\ cursor \in [Lane -> 1..(N + 1)] /\ departed \subseteq Slots
      /\ owner \in [Case -> Slots \cup {NoSlot}]
  BY DEF QueueInv, TypeInv, TypeOK, QueueOK, RetryOK, SlotOK
<1>l. LastDrains'
  <2>1. pc'[s] = "claimed"
    BY <1>t DEF ClaimHeld, ClaimFirst, ClaimScan, ClaimRetry, Hand
  <2> QED BY <2>1 DEF LastDrains, AllGone
<1>1. CASE ClaimHeld(s)
  <2> DEFINE c == Head(held[s])
  <2>1. /\ Rng(held[s]) = Rng(Tail(held[s])) \cup {c}
        /\ tcase' = [tcase EXCEPT ![s] = c] /\ held' = [held EXCEPT ![s] = Tail(@)]
        /\ UNCHANGED <<taken, cursor, owner, retryQueue, departed>>
    BY <1>1, <1>t, TailRng DEF ClaimHeld, Hand, firstPassVars
  <2>2. CursorSound' /\ FalseMeansOver'
    BY <2>1, <1>0, <1>t, TakingKeeps
  <2>3. TakenTogether' /\ RetryQueueUnused'
    BY <2>1 DEF LanesInv, LanesApart, TakenTogether, RetryQueueUnused
  <2>4. DirectoryOnOneSlot'
    <3>1. \A t \in Slots : Rng(held'[t]) \cup {tcase'[t]} \subseteq Rng(held[t]) \cup {tcase[t]}
      BY <2>1, <1>t
    <3> QED BY <3>1, <2>1 DEF LanesInv, LanesApart, DirectoryOnOneSlot
  <2> QED BY <2>2, <2>3, <2>4, <1>l DEF LanesInv, LanesApart
<1>2. CASE ClaimFirst(s)
  <2>1. ~ Lanes /\ taken \subseteq taken' /\ UNCHANGED <<cursor, held, departed>>
    BY <1>2 DEF ClaimFirst, Take
  <2>2. CursorSound' /\ FalseMeansOver'
    BY <2>1, TakingKeeps
  <2> QED BY <2>1, <2>2, <1>l DEF LanesInv, TakenTogether, LanesApart, DirectoryOnOneSlot,
                                  RetryQueueUnused
<1>3. CASE ClaimScan(s)
  <2> PICK c \in Case :
         /\ IsFirst(c, Scannable(SlotLane[s]))
         /\ taken' = taken \cup {c} \cup Siblings(c)
         /\ cursor' = [cursor EXCEPT ![SlotLane[s]] = c + 1]
         /\ owner' = [d \in Case |-> IF Dir[d] = Dir[c] THEN s ELSE owner[d]]
         /\ \E q \in InOrder(Siblings(c)) : held' = [held EXCEPT ![s] = q]
         /\ Hand(s, c, 0)
    BY <1>3 DEF ClaimScan
  <2> PICK q \in InOrder(Siblings(c)) : held' = [held EXCEPT ![s] = q]
    OBVIOUS
  <2>1. /\ Lanes /\ UNCHANGED <<retryQueue, departed>>
        /\ tcase' = [tcase EXCEPT ![s] = c]
    BY <1>3 DEF ClaimScan, retryVars, Hand
  <2>2. Rng(q) = Siblings(c)
    BY SiblingsFinite, InOrderRng
  <2>3. LaneMatch(c, SlotLane[s]) /\ c \notin taken /\ c \in Nat /\ SlotLane[s] \in Lane
    BY DispatchAssumption DEF IsFirst, Scannable, Case
  <2>4. \A e \in Case : e <= c /\ LaneMatch(e, SlotLane[s]) => e \in taken'
    BY ScanTakesWhole
  <2>5. \A e \in Case : Dir[e] = Dir[c] => e \in taken'
    <3> SUFFICES ASSUME NEW e \in Case, Dir[e] = Dir[c] PROVE e \in taken'
      OBVIOUS
    <3>1. LaneMatch(e, SlotLane[s]) /\ e \in Nat
      BY <2>3, DispatchAssumption DEF LaneMatch, Case
    <3>2. CASE e <= c
      BY <3>1, <3>2, <2>4
    <3>3. CASE e > c
      BY <3>3 DEF Siblings
    <3> QED BY <3>1, <3>2, <3>3, <2>3
  <2>6. CursorSound'
    <3> SUFFICES ASSUME NEW l \in Lane, NEW e \in Case, e < cursor'[l], LaneMatch(e, l)
                 PROVE  e \in taken'
      BY DEF CursorSound, LaneMatch
    <3>1. CASE l = SlotLane[s]
      <4>1. e <= c
        BY <3>1, <2>3, <1>t, DispatchAssumption DEF Case
      <4> QED BY <4>1, <3>1, <2>4
    <3>2. CASE l # SlotLane[s]
      BY <3>2, <1>t DEF LanesInv, CursorSound
    <3> QED BY <3>1, <3>2
  <2>7. TakenTogether'
    <3> SUFFICES ASSUME NEW d \in Case, NEW e \in Case, Dir[d] = Dir[e], d \in taken'
                 PROVE  e \in taken'
      BY DEF TakenTogether
    <3>1. CASE d \in taken
      BY <3>1, <2>1 DEF LanesInv, TakenTogether
    <3>2. CASE Dir[d] = Dir[c]
      BY <3>2, <2>5
    <3> QED BY <3>1, <3>2 DEF Siblings
  <2>8. DirectoryOnOneSlot'
    <3> SUFFICES ASSUME NEW t \in Slots, NEW x \in Rng(held'[t]) \cup {tcase'[t]}, x # 0,
                        NEW d \in Case, Dir[d] = Dir[x]
                 PROVE  owner'[d] = t
      BY DEF DirectoryOnOneSlot
    <3>1. CASE t = s
      <4>1. x \in Siblings(c) \cup {c}
        BY <3>1, <2>1, <2>2, <1>t
      <4>2. Dir[x] = Dir[c]
        BY <4>1 DEF Siblings
      <4> QED BY <4>2, <3>1
    <3>2. CASE t # s
      <4>1. x \in Rng(held[t]) \cup {tcase[t]}
        BY <3>2, <2>1, <1>t
      <4>2. x \in Case /\ x \in taken
        BY <4>1, PlacedIsTaken
      <4>3. Dir[x] # Dir[c]
        BY <4>2, <2>1, <2>3 DEF LanesInv, TakenTogether
      <4>4. owner[d] = t
        BY <4>1, <2>1 DEF LanesInv, LanesApart, DirectoryOnOneSlot
      <4> QED BY <4>3, <4>4
    <3> QED BY <3>1, <3>2
  <2>9. RetryQueueUnused' /\ FalseMeansOver'
    BY <1>0, <1>t, <2>1 DEF LanesInv, LanesApart, RetryQueueUnused, FalseMeansOver, LaneMatch
  <2> QED BY <2>6, <2>7, <2>8, <2>9, <1>l DEF LanesInv, LanesApart
<1>4. CASE ClaimRetry(s)
  <2>1. ~ Lanes
    BY <1>4 DEF ClaimRetry, LanesInv, LanesApart, RetryQueueUnused
  <2>2. UNCHANGED <<taken, cursor, held, departed>>
    BY <1>4, <2>1 DEF ClaimRetry, ExhaustCursor
  <2>3. CursorSound' /\ FalseMeansOver'
    BY <2>2, TakingKeeps
  <2> QED BY <2>1, <2>3, <1>l DEF LanesInv, TakenTogether, LanesApart, DirectoryOnOneSlot,
                                  RetryQueueUnused
<1> QED BY <1>1, <1>2, <1>3, <1>4

\* A slot is told that nothing is left only where that is so, and the last to be
\* told has drained the retries.
LEMMA LanesDepart ==
    ASSUME QueueInv, LanesInv, NEW s \in Slots, Depart(s)
    PROVE  LanesInv'
<1>t. /\ pc \in [Slots -> PC] /\ retryQueue \in Seq(Case) /\ departed \subseteq Slots
      /\ cursor \in [Lane -> 1..(N + 1)] /\ SlotLane[s] \in Lane
      /\ stopped \in BOOLEAN /\ cancelled \in BOOLEAN
  BY DispatchAssumption DEF QueueInv, TypeInv, TypeOK, QueueOK, RetryOK, SlotOK, EnvOK
<1>1. /\ pc[s] = "claim" /\ FirstPassOver(s) /\ ExhaustCursor(s) /\ (Quiet => RetryFor(s) = {})
      /\ departed' = departed \cup {s} /\ pc' = [pc EXCEPT ![s] = "gone"]
      /\ UNCHANGED <<taken, owner, held, retryQueue, stopped, cancelled, tcase>>
  BY DEF Depart, Asking, retryVars, envVars
<1>2. CursorSound'
  <2> SUFFICES ASSUME NEW l \in Lane, NEW e \in Case, e < cursor'[l], LaneMatch(e, l)
               PROVE  e \in taken
    BY <1>1 DEF CursorSound, LaneMatch
  <2>1. CASE Lanes /\ l = SlotLane[s]
    BY <1>1, <2>1, NothingLeft DEF FirstPassOver
  <2>2. CASE ~ (Lanes /\ l = SlotLane[s])
    BY <1>1, <1>t, <2>2 DEF ExhaustCursor, LanesInv, CursorSound
  <2> QED BY <2>1, <2>2
<1>3. TakenTogether' /\ LanesApart'
  BY <1>1 DEF LanesInv, TakenTogether, LanesApart, DirectoryOnOneSlot, RetryQueueUnused
<1>4. FalseMeansOver'
  <2>1. held[s] = <<>> /\ \A c \in Case \ taken : Lanes /\ ~ LaneMatch(c, SlotLane[s])
    BY <1>1, <1>t, NothingLeft DEF FirstPassOver
  <2> QED BY <1>1, <2>1 DEF LanesInv, FalseMeansOver, LaneMatch
<1>5. LastDrains'
  <2> SUFFICES ASSUME AllGone', ~ stopped, ~ cancelled PROVE retryQueue = <<>>
    BY <1>1 DEF LastDrains
  <2>1. \A t \in Slots : tcase[t] = 0
    BY <1>1, <1>t DEF QueueInv, TypeInv, TicketInv, GoneInv, AllGone
  <2>2. inFlight = 0
    BY <2>1, FS_EmptySet DEF QueueInv, InFlightCounts
  <2>3. RetryFor(s) = {}
    BY <1>1, <2>2 DEF Quiet
  <2>4. CASE Lanes
    BY <2>4 DEF LanesInv, LanesApart, RetryQueueUnused
  <2>5. CASE ~ Lanes
    <3>1. DOMAIN retryQueue = {}
      BY <2>3, <2>5 DEF RetryFor
    <3> QED BY <3>1, <1>t
  <2> QED BY <2>4, <2>5
<1> QED BY <1>2, <1>3, <1>4, <1>5 DEF LanesInv

\* A case that failed goes back to its own directory's slot, which still asks.
LEMMA LanesComplete ==
    ASSUME QueueInv, LanesInv, NEW s \in Slots, NEW outcome \in Outcome,
           Complete(s, outcome) \/ Fail(s)
    PROVE  LanesInv'
<1>t. /\ pc \in [Slots -> PC] /\ tcase \in [Slots -> 0..N] /\ held \in [Slots -> Seq(Case)]
      /\ owner \in [Case -> Slots \cup {NoSlot}] /\ departed \subseteq Slots
  BY DEF QueueInv, TypeInv, TypeOK, QueueOK, RetryOK, SlotOK
<1>1. /\ pc[s] = "run" /\ pc'[s] # "gone" /\ tcase' = [tcase EXCEPT ![s] = 0]
      /\ UNCHANGED <<taken, cursor, owner, departed>>
  BY <1>t DEF Complete, Fail, Release, Finish, firstPassVars
<1>2. tcase[s] \in Case
  BY <1>1, DispatchAssumption DEF QueueInv, TypeInv, TypeOK, SlotOK, TicketInv, Case
<1>3. LastDrains'
  BY <1>1 DEF LastDrains, AllGone
<1>4. /\ \/ held' = held
         \/ Lanes /\ held' = [held EXCEPT ![s] = Append(@, tcase[s])]
      /\ Lanes => retryQueue' = retryQueue
  <2>1. CASE Enqueue(tcase[s], tretry[s] + 1)
    <3>1. CASE Lanes
      <4>1. owner[tcase[s]] = s
        BY <1>2, <3>1, DispatchAssumption DEF LanesInv, LanesApart, DirectoryOnOneSlot, Case
      <4>2. s # NoSlot /\ s \notin departed
        BY <1>1, AskingIsHere, DispatchAssumption DEF NoSlot
      <4>3. OwnerAsks(tcase[s])
        BY <3>1, <4>1, <4>2 DEF OwnerAsks
      <4> QED BY <2>1, <3>1, <4>1, <4>3 DEF Enqueue
    <3>2. CASE ~ Lanes
      BY <2>1, <3>2 DEF Enqueue, OwnerAsks
    <3> QED BY <3>1, <3>2
  <2>2. CASE UNCHANGED <<held, retryQueue>>
    BY <2>2
  <2> QED BY <2>1, <2>2 DEF Complete, Fail
<1>5. \A t \in Slots : Rng(held'[t]) \cup {tcase'[t]} \subseteq Rng(held[t]) \cup {tcase[t], 0}
  <2>1. Rng(Append(held[s], tcase[s])) = Rng(held[s]) \cup {tcase[s]}
    BY <1>t, <1>2, AppendRng
  <2> QED BY <1>1, <1>4, <1>t, <2>1
<1>6. DirectoryOnOneSlot' /\ RetryQueueUnused' /\ TakenTogether'
  BY <1>1, <1>4, <1>5 DEF LanesInv, LanesApart, DirectoryOnOneSlot, RetryQueueUnused, TakenTogether
<1>7. CursorSound' /\ FalseMeansOver'
  <2>1. s \notin departed
    BY <1>1, AskingIsHere
  <2>2. \A t \in departed : held'[t] = held[t]
    BY <1>4, <1>t, <2>1
  <2> QED BY <1>1, <2>2, TakingKeeps
<1> QED BY <1>3, <1>6, <1>7 DEF LanesInv, LanesApart

\* Every step keeps the lanes.
LEMMA LanesPreserved == QueueInv /\ LanesInv /\ [Next]_vars => LanesInv'
<1> SUFFICES ASSUME QueueInv, LanesInv, [Next]_vars PROVE LanesInv'
  OBVIOUS
<1>1. ASSUME NEW s \in Slots, ClaimHeld(s) \/ ClaimFirst(s) \/ ClaimScan(s) \/ ClaimRetry(s)
      PROVE  LanesInv'
  BY <1>1, LanesHand
<1>2. ASSUME NEW s \in Slots, Depart(s) PROVE LanesInv'
  BY <1>2, LanesDepart
<1>3. ASSUME NEW s \in Slots, ClaimStopped(s) \/ Begin(s) \/ Abort(s) \/ Stop(s)
      PROVE  LanesInv'
  <2>1. UNCHANGED <<taken, cursor, owner, held, retryQueue, departed, tcase>>
    BY <1>3 DEF ClaimStopped, Begin, Abort, Stop, firstPassVars, retryVars
  <2>2. CursorSound' /\ FalseMeansOver' /\ TakenTogether' /\ LanesApart'
    BY <2>1 DEF LanesInv, CursorSound, FalseMeansOver, TakenTogether, LanesApart,
                DirectoryOnOneSlot, RetryQueueUnused, LaneMatch
  <2>3. LastDrains'
    <3>1. pc'[s] # "gone" \/ stopped' \/ cancelled'
      BY <1>3 DEF ClaimStopped, Begin, Abort, Stop, envVars, QueueInv, TypeInv, TypeOK, SlotOK
    <3> QED BY <3>1 DEF LastDrains, AllGone
  <2> QED BY <2>2, <2>3 DEF LanesInv
<1>4. ASSUME NEW s \in Slots, NEW outcome \in Outcome, Complete(s, outcome) \/ Fail(s)
      PROVE  LanesInv'
  BY <1>4, LanesComplete
<1>5. CASE Cancel \/ Usage \/ Over \/ UNCHANGED vars
  <2>1. /\ UNCHANGED <<taken, cursor, owner, held, retryQueue, departed, tcase, pc, stopped>>
        /\ cancelled => cancelled'
    BY <1>5 DEF Cancel, Usage, Over, vars, firstPassVars, retryVars, slotVars, envVars
  <2>2. CursorSound' /\ FalseMeansOver' /\ TakenTogether' /\ LanesApart'
    BY <2>1 DEF LanesInv, CursorSound, FalseMeansOver, TakenTogether, LanesApart,
                DirectoryOnOneSlot, RetryQueueUnused, LaneMatch
  <2>3. LastDrains'
    BY <2>1 DEF LanesInv, LastDrains, AllGone
  <2> QED BY <2>2, <2>3 DEF LanesInv
<1> QED BY <1>1, <1>2, <1>3, <1>4, <1>5 DEF Next, Step, Claim, Outcome

\* When everybody has left of their own accord, or the queue says it has
\* finished, each case has a verdict.
LEMMA TheEnd == QueueInv /\ LanesInv => EndIsDone
<1> SUFFICES ASSUME QueueInv, LanesInv PROVE EndIsDone
  OBVIOUS
<1>t. done \subseteq Case /\ taken \subseteq Case
  BY DEF QueueInv, TypeInv, TypeOK, SlotOK, QueueOK
<1>1. ASSUME taken = Case, retryQueue = <<>>, \A s \in Slots : tcase[s] = 0 /\ held[s] = <<>>
      PROVE  done = Case
  <2>1. \A c \in Case : ~ InTicket(c) /\ ~ InHeld(c) /\ c \notin Rng(retryQueue)
    BY <1>1, DispatchAssumption DEF InTicket, InHeld, Rng, Case
  <2> QED BY <1>1, <1>t, <2>1 DEF QueueInv, PlaceInv, Conservation
<1>2. RunComplete
  <2> SUFFICES ASSUME AllGone, ~ stopped, ~ cancelled PROVE done = Case
    BY DEF RunComplete
  <2>1. \A s \in Slots : s \in departed /\ tcase[s] = 0
    BY DEF AllGone, QueueInv, TypeInv, GoneInv
  <2>2. \A s \in Slots : held[s] = <<>>
    BY <2>1 DEF LanesInv, FalseMeansOver
  <2>3. ASSUME NEW c \in Case PROVE c \in taken
    <3> PICK s \in Slots : SlotLane[s] \in {"any", DirLane[Dir[c]]}
      BY DispatchAssumption
    <3>1. LaneMatch(c, SlotLane[s])
      BY DEF LaneMatch
    <3> QED BY <2>1, <3>1 DEF LanesInv, FalseMeansOver
  <2>4. retryQueue = <<>>
    BY DEF LanesInv, LastDrains
  <2> QED BY <1>1, <1>t, <2>1, <2>2, <2>3, <2>4
<1>3. FinishedMeansDone
  <2> SUFFICES ASSUME Finished, ~ stopped PROVE done = Case
    BY DEF FinishedMeansDone
  <2>1. Out = {}
    BY OutFinite, FS_EmptySet DEF Finished, QueueInv, InFlightCounts, Out
  <2> QED BY <1>1, <2>1 DEF Finished, Out
<1> QED BY <1>2, <1>3 DEF EndIsDone

\* So the queue with lanes is what it promises.
LEMMA LanesFollow == QueueInv /\ LanesInv => LanesKept
<1> SUFFICES ASSUME QueueInv, LanesInv PROVE LanesKept
  OBVIOUS
<1>1. QueueSound
  BY DEF QueueInv, TypeInv, PlaceInv, QueueSound
<1>2. LanesApart /\ NothingPassedOver /\ EndIsDone
  BY TheEnd DEF LanesInv, NothingPassedOver
<1> QED BY <1>1, <1>2 DEF LanesKept

\* For any lanes and slots: a directory stays with the slot that claimed it
\* first and no retry of it ever misses that slot, no scan passes over a case,
\* false means that the run is over for whoever is told so, and when the last
\* slot leaves unstopped, or Finished() says so, every case has its verdict.
THEOREM LanesAreKept == Spec => []LanesKept
BY LanesFollow, BeforeInit, BeforeStep, LanesInit, LanesPreserved, PTL DEF Spec

-----------------------------------------------------------------------------
(* The queue of CaseQueue.                                                  *)

\* A case that waits -- in the list, held for a slot, or for its retry -- is on
\* nobody's ticket and not done with.
LEMMA WaitingIsFree ==
    ASSUME QueueInv, NEW c \in Case, c \notin taken \/ InHeld(c) \/ c \in Rng(retryQueue)
    PROVE  c \notin done /\ ~ InTicket(c)
  BY DEF QueueInv, PlaceInv, Exclusive, InOnePlace

\* A slot with no ticket is given one: the case moves from left to out.
LEMMA QueueHand ==
    ASSUME QueueInv, NEW s \in Slots, NEW c \in Case, NEW retry, tcase[s] = 0,
           Hand(s, c, retry), done' = done, c \notin done, ~ InTicket(c)
    PROVE  Q!HandOut(c)
<1>1. /\ c # 0 /\ 0 \notin Case
      /\ \A t \in Slots : tcase'[t] = IF t = s THEN c ELSE tcase[t]
  BY DispatchAssumption DEF Hand, QueueInv, TypeInv, TypeOK, SlotOK, Case
<1>2. {tcase'[t] : t \in Slots} \ {0} = ({tcase[t] : t \in Slots} \ {0}) \cup {c}
  BY <1>1
<1>3. (Case \ done') \ {tcase'[t] : t \in Slots}
         = ((Case \ done) \ {tcase[t] : t \in Slots}) \ {c}
  BY <1>1
<1>4. c \in (Case \ done) \ {tcase[t] : t \in Slots}
  BY DEF InTicket
<1> QED BY <1>2, <1>3, <1>4 DEF Q!HandOut

\* A ticket is completed: the case moves from out to over, or back to left.
LEMMA QueueRelease ==
    ASSUME QueueInv, NEW s \in Slots, NEW c \in Case, tcase[s] = c, Release(s),
           done' = done \/ done' = done \cup {c}
    PROVE  Q!PutAway(c) \/ Q!PutBack(c)
<1>1. c # 0 /\ 0 \notin Case
  BY DispatchAssumption DEF Case
<1>2. \A t \in Slots : /\ tcase'[t] = IF t = s THEN 0 ELSE tcase[t]
                       /\ t # s => tcase[t] # c
  BY <1>1 DEF Release, QueueInv, TypeInv, TypeOK, SlotOK, PlaceInv, Exclusive, SlotsApart
<1>3. c \notin done /\ c \in {tcase[t] : t \in Slots} \ {0}
  BY <1>1 DEF QueueInv, PlaceInv, Exclusive, InOnePlace, InTicket
<1>4. {tcase'[t] : t \in Slots} \ {0} = ({tcase[t] : t \in Slots} \ {0}) \ {c}
  BY <1>1, <1>2
<1>5. CASE done' = done
  <2>1. (Case \ done') \ {tcase'[t] : t \in Slots}
           = ((Case \ done) \ {tcase[t] : t \in Slots}) \cup {c}
    BY <1>1, <1>2, <1>3, <1>5
  <2> QED BY <1>1, <1>3, <1>4, <1>5, <2>1 DEF Q!PutBack
<1>6. CASE done' = done \cup {c}
  <2>1. (Case \ done') \ {tcase'[t] : t \in Slots}
           = (Case \ done) \ {tcase[t] : t \in Slots}
    BY <1>1, <1>2, <1>3, <1>6
  <2> QED BY <1>1, <1>3, <1>4, <1>6, <2>1 DEF Q!PutAway
<1> QED BY <1>5, <1>6

\* Every step of the queue is one of CaseQueue, or changes nothing it sees.
LEMMA QueueStep == QueueInv /\ [Next]_vars => [Q!QueueNext]_Q!queueVars
<1> SUFFICES ASSUME QueueInv, [Next]_vars PROVE [Q!QueueNext]_Q!queueVars
  OBVIOUS
<1>t. /\ tcase \in [Slots -> 0..N] /\ held \in [Slots -> Seq(Case)]
      /\ retryQueue \in Seq(Case) /\ TicketInv
  BY DEF QueueInv, TypeInv, TypeOK, RetryOK, SlotOK
<1>1. ASSUME NEW s \in Slots, NEW c \in Case, NEW retry, pc[s] = "claim",
             Hand(s, c, retry), done' = done,
             c \notin taken \/ InHeld(c) \/ c \in Rng(retryQueue)
      PROVE  Q!QueueNext
  BY <1>1, <1>t, WaitingIsFree, QueueHand DEF TicketInv, Q!QueueNext
<1>2. ASSUME NEW s \in Slots, ClaimHeld(s) PROVE Q!QueueNext
  <2> DEFINE c == Head(held[s])
  <2>1. c \in Case /\ InHeld(c)
    BY <1>2, <1>t, TailRng DEF ClaimHeld, InHeld
  <2> QED BY <1>1, <1>2, <2>1 DEF ClaimHeld, Asking, seenVars
<1>3. ASSUME NEW s \in Slots, ClaimFirst(s) PROVE Q!QueueNext
  <2> PICK c \in Case : IsFirst(c, Admissible) /\ Hand(s, c, 0)
    BY <1>3 DEF ClaimFirst
  <2>1. c \notin taken
    BY DEF IsFirst, Admissible
  <2> QED BY <1>1, <1>3, <2>1 DEF ClaimFirst, Asking, seenVars
<1>4. ASSUME NEW s \in Slots, ClaimScan(s) PROVE Q!QueueNext
  <2> PICK c \in Case : IsFirst(c, Scannable(SlotLane[s])) /\ Hand(s, c, 0)
    BY <1>4 DEF ClaimScan
  <2>1. c \notin taken
    BY DEF IsFirst, Scannable
  <2> QED BY <1>1, <1>4, <2>1 DEF ClaimScan, Asking, seenVars
<1>5. ASSUME NEW s \in Slots, ClaimRetry(s) PROVE Q!QueueNext
  <2> PICK i \in DOMAIN retryQueue : Hand(s, retryQueue[i], AttemptOf(retryQueue[i]))
    BY <1>5 DEF ClaimRetry
  <2>1. retryQueue[i] \in Case /\ retryQueue[i] \in Rng(retryQueue)
    BY <1>t DEF Rng
  <2> QED BY <1>1, <1>5, <2>1 DEF ClaimRetry, Asking, seenVars
<1>6. ASSUME NEW s \in Slots, NEW outcome \in Outcome, Complete(s, outcome) \/ Fail(s)
      PROVE  Q!QueueNext
  <2>1. /\ pc[s] = "run" /\ Release(s)
        /\ done' = done \/ done' = done \cup {tcase[s]}
    BY <1>6 DEF Complete, Fail, Finish
  <2>2. tcase[s] \in Case
    BY <2>1, <1>t, DispatchAssumption DEF TicketInv, Case
  <2> PICK c \in Case : c = tcase[s]
    BY <2>2
  <2>3. Q!PutAway(c) \/ Q!PutBack(c)
    BY <2>1, QueueRelease
  <2> QED BY <2>3 DEF Q!QueueNext
<1>7. ASSUME NEW s \in Slots, Depart(s) \/ ClaimStopped(s) \/ Begin(s) \/ Abort(s) \/ Stop(s)
      PROVE  UNCHANGED <<tcase, done>>
  BY <1>7 DEF Depart, ClaimStopped, Begin, Abort, Stop, seenVars
<1>8. CASE Cancel \/ Usage \/ Over \/ UNCHANGED vars
  <2> UNCHANGED <<tcase, done>>
    BY <1>8 DEF Cancel, Usage, Over, vars, slotVars, seenVars
  <2> QED BY DEF Q!queueVars
<1>9. UNCHANGED <<tcase, done>> => UNCHANGED Q!queueVars
  BY DEF Q!queueVars
<1> QED BY <1>2, <1>3, <1>4, <1>5, <1>6, <1>7, <1>8, <1>9 DEF Next, Step, Claim, Outcome

\* Cursors, held cases, owners, retries and policies come to no more than a queue
\* that hands a case to one slot at a time and, once Complete has put it away,
\* never again: every behaviour of Dispatch is one of CaseQueue.
THEOREM QueueIsImplemented == Spec => ImplementsCaseQueue
<1>1. Init => Q!QueueInit
  <2> SUFFICES ASSUME Init PROVE Q!QueueInit
    OBVIOUS
  <2>1. {tcase[s] : s \in Slots} \subseteq {0} /\ done = {} /\ 0 \notin Case
    BY DispatchAssumption DEF Init, Case
  <2> QED BY <2>1 DEF Q!QueueInit
<1> QED BY <1>1, BeforeInit, BeforeStep, QueueStep, PTL
       DEF Spec, ImplementsCaseQueue, Q!QueueSpec

-----------------------------------------------------------------------------
(* Admission without lanes.                                                 *)

\* A case starts its first attempt only where ClaimFirst takes it, from the list,
\* and there what it starts is admissible.
LEMMA StartsAdmitted ==
    ASSUME ~ Lanes, QueueInv, [Next]_vars
    PROVE  \/ running' \subseteq running
           \/ \E c \in Admissible : running' = running \cup {c}
<1>1. ASSUME NEW s \in Slots, ClaimFirst(s)
      PROVE  \E c \in Admissible : running' = running \cup {c}
  BY <1>1 DEF ClaimFirst, IsFirst
<1>2. ASSUME NEW s \in Slots, ClaimScan(s) PROVE FALSE
  BY <1>2 DEF ClaimScan
<1>3. ASSUME NEW s \in Slots,
             \/ ClaimHeld(s) \/ ClaimRetry(s) \/ Depart(s) \/ ClaimStopped(s)
             \/ Begin(s) \/ Abort(s) \/ Stop(s)
      PROVE  running' = running
  BY <1>3 DEF ClaimHeld, ClaimRetry, Depart, ClaimStopped, Begin, Abort, Stop
<1>4. ASSUME NEW s \in Slots, NEW outcome \in Outcome, Complete(s, outcome) \/ Fail(s)
      PROVE  running' \subseteq running
  BY <1>4 DEF Complete, Fail, Finish, Release
<1>5. CASE Cancel \/ Usage \/ Over \/ UNCHANGED vars
  BY <1>5 DEF Cancel, Usage, Over, vars
<1> QED BY <1>1, <1>2, <1>3, <1>4, <1>5 DEF Next, Step, Claim, Outcome

\* Without lanes no first attempt starts over the gate's mark unless nothing is
\* running, and none of the heavy cases starts beyond the cap while a case that
\* is not heavy still waits.
THEOREM AdmissionIsKept == ASSUME ~ Lanes PROVE Spec => AdmissionHolds
<1>1. QueueInv /\ [Next]_vars =>
          [running' \ running # {} => ~ (Gate /\ full) \/ running = {}]_vars
  <2> SUFFICES ASSUME QueueInv, [Next]_vars, running' \ running # {}
               PROVE  ~ (Gate /\ full) \/ running = {}
    OBVIOUS
  <2>1. Admissible # {}
    BY StartsAdmitted
  <2> QED BY <2>1, Zenon DEF Admissible, HardAdmits
<1>2. QueueInv /\ [Next]_vars =>
          [\A c \in running' \ running :
              \/ c \notin Heavy
              \/ Cardinality(running \cap Heavy) < HeavyMax
              \/ Case \ taken \subseteq Heavy]_vars
  <2> SUFFICES ASSUME QueueInv, [Next]_vars, NEW c \in running' \ running, c \in Heavy,
                      ~ (Cardinality(running \cap Heavy) < HeavyMax)
               PROVE  Case \ taken \subseteq Heavy
    OBVIOUS
  <2>1. c \in Admissible
    BY StartsAdmitted
  <2>2. ~ SoftAdmits(c)
    BY DEF SoftAdmits
  <2>3. {d \in Case \ taken : HardAdmits /\ SoftAdmits(d)} = {}
    BY <2>1, <2>2, Zenon DEF Admissible
  <2>4. HardAdmits
    <3> SUFFICES ASSUME ~ HardAdmits PROVE FALSE
      OBVIOUS
    <3>1. running = {}
      BY <2>1, Zenon DEF Admissible
    <3>2. Cardinality(running \cap Heavy) = 0
      BY <3>1, FS_EmptySet
    <3> QED BY <3>2, DispatchAssumption
  <2> QED BY <2>3, <2>4 DEF SoftAdmits
<1> QED BY <1>1, <1>2, BeforeInit, BeforeStep, PTL
       DEF Spec, AdmissionHolds, GateHolds, HeavyCapHolds
-----------------------------------------------------------------------------
(* The corpus behind the queue.                                             *)


\* A step of the run with its corpus is a step of the queue, or leaves it alone.
LEMMA CorpusStepsQueue == [CorpusNext]_allVars => [Next]_vars
  BY DEF CorpusNext, CorpusStep, CorpusClaim, CorpusBegin, CreateDB, DeleteDB, CorpusComplete,
         Retire, Prune, CorpusEnv, CloseCorpus, CorpusOver, allVars, Next, Step

\* So all that was shown of the queue holds of it here.
LEMMA CorpusQueueStep ==
    ASSUME QueueInv, LanesInv, [CorpusNext]_allVars PROVE QueueInv' /\ LanesInv'
  BY CorpusStepsQueue, BeforeStep, LanesPreserved

\* The cases of a directory, and the slots retiring one of them, are finitely
\* many.
Retiring(d) == {s \in Slots : post[s] = "retire" /\ ended[s] \in In(d)}
Unretired(d) == In(d) \ done

LEMMA CountsFinite ==
    ASSUME NEW d
    PROVE  /\ IsFiniteSet(Unretired(d)) /\ Cardinality(Unretired(d)) \in Nat
           /\ IsFiniteSet(Retiring(d)) /\ Cardinality(Retiring(d)) \in Nat
<1>1. IsFiniteSet(Case) /\ Unretired(d) \subseteq Case
  BY FS_Interval, DispatchAssumption DEF Case, Unretired, In
<1>2. IsFiniteSet(Slots) /\ Retiring(d) \subseteq Slots
  BY DispatchAssumption DEF Retiring
<1> QED BY <1>1, <1>2, FS_Subset, FS_CardinalityType

-----------------------------------------------------------------------------
(* Counts.                                                                  *)

\* CorpusTypeOK but for the count.
KeptOK ==
    /\ files \subseteq Overlays(Slots) \X Case
    /\ entries \subseteq Slots \X Case
    /\ post \in [Slots -> {"none", "retire", "prune"}]
    /\ ended \in [Slots -> Case \cup {0}]
    /\ inside \in BOOLEAN /\ closed \in BOOLEAN /\ failed \in BOOLEAN
    /\ pending \in [Dirs(Case) -> Nat]

\* finish() has something left to do only between a completion and the slot's
\* next claim, for a case that is done with.
PostInv ==
    \A s \in Slots : post[s] # "none" => pc[s] = "claim" /\ ended[s] \in done

Counted ==
    \A d \in Dirs(Case) : pending[d] = Cardinality(Unretired(d)) + Cardinality(Retiring(d))

CountInv == KeptOK /\ PostInv /\ Counted

\* The plan counts every case, and none has retired.
LEMMA CountedInit == CorpusInit /\ Registries \subseteq BOOLEAN => CountInv
<1> SUFFICES ASSUME CorpusInit, Registries \subseteq BOOLEAN PROVE CountInv
  OBVIOUS
<1>1. \A d \in Dirs(Case) : Unretired(d) = In(d) /\ Retiring(d) = {}
  BY DEF CorpusInit, Init, Unretired, Retiring
<1>2. \A d \in Dirs(Case) : Cardinality(In(d)) \in Nat
  BY <1>1, CountsFinite
<1>3. pending \in [Dirs(Case) -> Nat]
  BY <1>2 DEF CorpusInit
<1>4. Counted
  <2> SUFFICES ASSUME NEW d \in Dirs(Case)
               PROVE  pending[d] = Cardinality(Unretired(d)) + Cardinality(Retiring(d))
    BY DEF Counted
  <2>1. Cardinality(Unretired(d)) = Cardinality(In(d)) /\ Cardinality(Retiring(d)) = 0
    BY <1>1, FS_EmptySet
  <2> QED BY <1>2, <2>1 DEF CorpusInit
<1>5. KeptOK /\ PostInv
  BY <1>3 DEF CorpusInit, KeptOK, PostInv
<1> QED BY <1>4, <1>5 DEF CountInv

\* What neither completes nor retires a case leaves the counts alone.
LEMMA CountsStay ==
    ASSUME CountInv, UNCHANGED <<pending, post, ended, done>> PROVE Counted'
  BY DEF CountInv, Counted, Unretired, Retiring, In

\* Complete for the last time: the case moves from one side of the count to the
\* other.
LEMMA CountComplete ==
    ASSUME QueueInv, CountInv, NEW s \in Slots, NEW outcome \in Outcome,
           CorpusComplete(s, outcome)
    PROVE  CountInv'
<1> DEFINE c == tcase[s]
<1>t. /\ pc \in [Slots -> PC] /\ tcase \in [Slots -> 0..N] /\ TicketInv
      /\ post \in [Slots -> {"none", "retire", "prune"}] /\ ended \in [Slots -> Case \cup {0}]
  BY DEF QueueInv, TypeInv, TypeOK, SlotOK, CountInv, KeptOK
<1>1. /\ pc[s] = "run" /\ pc' = [pc EXCEPT ![s] = "claim"] /\ Complete(s, outcome)
      /\ UNCHANGED <<inside, pending, files, entries, closed, failed>>
  BY DEF CorpusComplete, Complete, keptVars
<1>2. c \in Case /\ c \notin done
  <2>1. c \in Case
    BY <1>1, <1>t, DispatchAssumption DEF TicketInv, Case
  <2> QED BY <2>1 DEF QueueInv, PlaceInv, Exclusive, InOnePlace, InTicket
<1>3. post[s] = "none"
  BY <1>1, <1>t DEF CountInv, PostInv
<1>4. CASE Retires(s, outcome)
  <2>1. /\ done' = done \cup {c}
        /\ post' = [post EXCEPT ![s] = "retire"] /\ ended' = [ended EXCEPT ![s] = c]
    BY <1>1, <1>4 DEF CorpusComplete, Complete, Finish, Retires
  <2>2. KeptOK'
    BY <1>1, <1>2, <2>1 DEF CountInv, KeptOK, Overlays, Overlay, Dirs
  <2>3. PostInv'
    BY <1>1, <1>t, <2>1 DEF CountInv, PostInv
  <2>4. ASSUME NEW d \in Dirs(Case)
        PROVE  pending'[d] = Cardinality(Unretired(d)') + Cardinality(Retiring(d)')
    <3>0. pending'[d] = Cardinality(Unretired(d)) + Cardinality(Retiring(d))
      BY <1>1 DEF CountInv, Counted
    <3>1. CASE c \in In(d)
      <4>1. Unretired(d)' = Unretired(d) \ {c} /\ c \in Unretired(d)
        BY <1>2, <2>1, <3>1 DEF Unretired, In
      <4>2. Retiring(d)' = Retiring(d) \cup {s} /\ s \notin Retiring(d)
        BY <1>t, <1>3, <2>1, <3>1 DEF Retiring, In
      <4>3. Cardinality(Unretired(d) \ {c}) = Cardinality(Unretired(d)) - 1
        BY <4>1, CountsFinite, FS_RemoveElement
      <4>4. Cardinality(Retiring(d) \cup {s}) = Cardinality(Retiring(d)) + 1
        BY <4>2, CountsFinite, FS_AddElement
      <4> QED BY <3>0, <4>1, <4>2, <4>3, <4>4, CountsFinite
    <3>2. CASE c \notin In(d)
      <4>1. Unretired(d)' = Unretired(d)
        BY <2>1, <3>2 DEF Unretired, In
      <4>2. Retiring(d)' = Retiring(d)
        BY <1>t, <1>3, <2>1, <3>2 DEF Retiring, In
      <4> QED BY <3>0, <4>1, <4>2
    <3> QED BY <3>1, <3>2
  <2> QED BY <2>2, <2>3, <2>4 DEF CountInv, Counted, Dirs
<1>5. CASE ~ Retires(s, outcome)
  <2>1. UNCHANGED <<done, post, ended>>
    BY <1>1, <1>5 DEF CorpusComplete, Complete, Retires, finishVars
  <2>2. PostInv'
    BY <1>1, <1>t, <1>3, <2>1 DEF CountInv, PostInv
  <2> QED BY <1>1, <2>1, <2>2, CountsStay
          DEF CountInv, KeptOK, Overlays, Overlay, Dirs
<1> QED BY <1>4, <1>5

\* The case retires: its count goes, and what there was to count with it.
LEMMA CountRetire ==
    ASSUME QueueInv, CountInv, NEW s \in Slots, Retire(s)
    PROVE  /\ CountInv'
           /\ LastOf(Dir[ended[s]]) => In(Dir[ended[s]]) \subseteq done
<1>t. /\ post \in [Slots -> {"none", "retire", "prune"}] /\ ended \in [Slots -> Case \cup {0}]
      /\ pending \in [Dirs(Case) -> Nat] /\ post[s] = "retire" /\ ended[s] \in done
      /\ done \subseteq Case /\ UNCHANGED <<pc, done, inside, entries, closed>>
  BY DEF QueueInv, TypeInv, TypeOK, SlotOK, CountInv, KeptOK, PostInv, Retire, vars, slotVars, seenVars
<1>0. ended[s] \in Case /\ Dir[ended[s]] \in Dirs(Case)
  BY <1>t DEF Dirs
<1> PICK e \in Dirs(Case) : e = Dir[ended[s]]
  BY <1>0
<1>1. ended[s] \in In(e) /\ e \in Dirs(Case)
  BY <1>0 DEF In
<1>2. s \in Retiring(e) /\ Cardinality(Retiring(e) \ {s}) = Cardinality(Retiring(e)) - 1
      /\ Cardinality(Retiring(e)) # 0
  <2>1. s \in Retiring(e)
    BY <1>1, <1>t DEF Retiring
  <2> QED BY <2>1, CountsFinite, FS_RemoveElement, FS_EmptySet
<1>3. pending[e] = Cardinality(Unretired(e)) + Cardinality(Retiring(e))
  BY <1>1 DEF CountInv, Counted
<1>4. ASSUME post'[s] # "retire", \A t \in Slots \ {s} : post'[t] = post[t] /\ ended'[t] = ended[t]
      PROVE  /\ Retiring(e)' = Retiring(e) \ {s}
             /\ \A d \in Dirs(Case) : d # e => Retiring(d)' = Retiring(d)
  BY <1>1, <1>4, <1>t DEF Retiring, In
<1>5. \A d \in Dirs(Case) : Unretired(d)' = Unretired(d)
  BY <1>t DEF Unretired, In
<1>6. CASE ~ LastOf(e)
  <2>1. /\ pending' = [pending EXCEPT ![e] = @ - 1]
        /\ post' = [post EXCEPT ![s] = "none"] /\ ended' = [ended EXCEPT ![s] = 0]
        /\ UNCHANGED <<files, failed>>
    BY <1>6 DEF Retire
  <2>2. pending[e] - 1 \in Nat
    BY <1>6, <1>1, <1>t DEF LastOf
  <2>3. KeptOK'
    BY <1>t, <1>1, <2>1, <2>2 DEF CountInv, KeptOK, Overlays, Overlay, Dirs
  <2>4. PostInv'
    BY <1>t, <2>1 DEF CountInv, PostInv
  <2>5. Retiring(e)' = Retiring(e) \ {s} /\ \A d \in Dirs(Case) : d # e => Retiring(d)' = Retiring(d)
    BY <1>4, <1>t, <2>1
  <2>6. ASSUME NEW d \in Dirs(Case)
        PROVE  pending'[d] = Cardinality(Unretired(d)') + Cardinality(Retiring(d)')
    <3>1. CASE d = e
      BY <3>1, <1>1, <1>2, <1>3, <1>5, <1>t, <2>1, <2>5, CountsFinite
    <3>2. CASE d # e
      BY <3>2, <1>5, <1>t, <2>1, <2>5 DEF CountInv, Counted
    <3> QED BY <3>1, <3>2
  <2> QED BY <1>6, <2>3, <2>4, <2>6 DEF CountInv, Counted, Dirs
<1>7. CASE LastOf(e)
  <2>1. /\ pending' = [pending EXCEPT ![e] = 0]
        /\ post' = [post EXCEPT ![s] = "prune"] /\ UNCHANGED ended
        /\ files' \subseteq files /\ failed' \in {failed, TRUE}
    BY <1>7 DEF Retire
  <2>2. Cardinality(Unretired(e)) = 0 /\ Cardinality(Retiring(e)) = 1
    BY <1>7, <1>2, <1>3, CountsFinite DEF LastOf
  <2>3. In(e) \subseteq done
    <3>1. Unretired(e) = {}
      BY <2>2, CountsFinite, FS_EmptySet
    <3> QED BY <3>1 DEF Unretired
  <2>4. KeptOK'
    BY <1>t, <1>1, <2>1 DEF CountInv, KeptOK, Overlays, Overlay, Dirs
  <2>5. PostInv'
    BY <1>t, <2>1 DEF CountInv, PostInv
  <2>6. Retiring(e)' = Retiring(e) \ {s} /\ \A d \in Dirs(Case) : d # e => Retiring(d)' = Retiring(d)
    BY <1>4, <1>t, <2>1
  <2>7. ASSUME NEW d \in Dirs(Case)
        PROVE  pending'[d] = Cardinality(Unretired(d)') + Cardinality(Retiring(d)')
    <3>1. CASE d = e
      BY <3>1, <1>1, <1>2, <1>5, <1>t, <2>1, <2>2, <2>6, CountsFinite
    <3>2. CASE d # e
      BY <3>2, <1>5, <1>t, <2>1, <2>6 DEF CountInv, Counted
    <3> QED BY <3>1, <3>2
  <2> QED BY <2>3, <2>4, <2>5, <2>7 DEF CountInv, Counted, Dirs
<1> QED BY <1>6, <1>7

\* A slot that has pruned has no more to do for the case.
LEMMA CountPrune ==
    ASSUME QueueInv, CountInv, NEW s \in Slots, Prune(s) PROVE CountInv'
<1>t. /\ post \in [Slots -> {"none", "retire", "prune"}] /\ ended \in [Slots -> Case \cup {0}]
      /\ post[s] = "prune" /\ post' = [post EXCEPT ![s] = "none"]
      /\ ended' = [ended EXCEPT ![s] = 0] /\ entries' \subseteq entries /\ failed' \in {failed, TRUE}
      /\ UNCHANGED <<pc, done, inside, pending, files, closed>>
  BY DEF CountInv, KeptOK, Prune, vars, slotVars, seenVars
<1>1. KeptOK'
  BY <1>t DEF CountInv, KeptOK, Overlays, Overlay, Dirs
<1>2. PostInv'
  BY <1>t DEF CountInv, PostInv
<1>3. \A d \in Dirs(Case) : Unretired(d)' = Unretired(d) /\ Retiring(d)' = Retiring(d)
  BY <1>t DEF Unretired, Retiring, In
<1> QED BY <1>1, <1>2, <1>3, <1>t DEF CountInv, Counted, Dirs

\* Every step keeps the counts.
LEMMA CountsStep ==
    ASSUME QueueInv, CountInv, [CorpusNext]_allVars PROVE CountInv'
<1>t. /\ pc \in [Slots -> PC] /\ tcase \in [Slots -> 0..N] /\ TicketInv
  BY DEF QueueInv, TypeInv, TypeOK, SlotOK
<1>1. ASSUME NEW s \in Slots, CorpusClaim(s) PROVE CountInv'
  <2>1. post[s] = "none" /\ UNCHANGED <<done, corpusVars>>
    BY <1>1 DEF CorpusClaim, Idle, Claim, ClaimHeld, ClaimFirst, ClaimScan, ClaimRetry, Depart,
                ClaimStopped, seenVars
  <2>2. \A t \in Slots : t # s => pc'[t] = pc[t]
    BY <1>1, <1>t DEF CorpusClaim, Claim, ClaimHeld, ClaimFirst, ClaimScan, ClaimRetry, Depart,
                ClaimStopped, Hand
  <2>3. PostInv'
    BY <2>1, <2>2 DEF CountInv, PostInv, corpusVars, finishVars
  <2> QED BY <2>1, <2>3, CountsStay
          DEF CountInv, KeptOK, corpusVars, keptVars, finishVars, Overlays, Overlay, Dirs
<1>2. ASSUME NEW s \in Slots, CorpusBegin(s) PROVE CountInv'
  <2>1. /\ entries' \subseteq entries /\ UNCHANGED <<done, pending, files, finishVars, closed, failed>>
        /\ pc[s] = "claimed" /\ \A t \in Slots : t # s => pc'[t] = pc[t]
    BY <1>2, <1>t DEF CorpusBegin, Begin, Restored, seenVars
  <2>2. PostInv'
    BY <2>1 DEF CountInv, PostInv, finishVars
  <2> QED BY <2>1, <2>2, CountsStay DEF CountInv, KeptOK, finishVars, Overlays, Overlay, Dirs
<1>3. ASSUME NEW s \in Slots, CreateDB(s) \/ DeleteDB(s) PROVE CountInv'
  <2>1. tcase[s] \in Case
    BY <1>3, <1>t, DispatchAssumption DEF CreateDB, DeleteDB, TicketInv, Case
  <2>2. /\ files' \subseteq files \cup {<<Overlay(s), tcase[s]>>}
        /\ entries' \subseteq entries \cup {<<s, tcase[s]>>}
        /\ UNCHANGED <<pc, done, pending, finishVars, closed, failed>>
    BY <1>3 DEF CreateDB, DeleteDB, vars, slotVars, seenVars
  <2>3. PostInv'
    BY <2>2 DEF CountInv, PostInv, finishVars
  <2>4. <<Overlay(s), tcase[s]>> \in Overlays(Slots) \X Case /\ <<s, tcase[s]>> \in Slots \X Case
    BY <2>1 DEF Overlays
  <2> QED BY <2>2, <2>3, <2>4, CountsStay DEF CountInv, KeptOK, finishVars, Overlays, Overlay, Dirs
<1>4. ASSUME NEW s \in Slots, NEW outcome \in Outcome, CorpusComplete(s, outcome) PROVE CountInv'
  BY <1>4, CountComplete
<1>5. ASSUME NEW s \in Slots, Retire(s) \/ Prune(s) PROVE CountInv'
  BY <1>5, CountRetire, CountPrune
<1>6. CASE CorpusEnv \/ CloseCorpus \/ UNCHANGED allVars
  <2>1. /\ files' \subseteq files /\ closed' \in {closed, TRUE}
        /\ UNCHANGED <<pc, done, pending, entries, finishVars, failed>>
    BY <1>6 DEF CorpusEnv, Cancel, Usage, CloseCorpus, allVars, corpusVars, keptVars, vars,
                slotVars, seenVars
  <2>2. PostInv'
    BY <2>1 DEF CountInv, PostInv, finishVars
  <2> QED BY <2>1, <2>2, CountsStay DEF CountInv, KeptOK, finishVars, Overlays, Overlay, Dirs
<1> QED BY <1>1, <1>2, <1>3, <1>4, <1>5, <1>6 DEF CorpusNext, CorpusStep, CorpusOver, Outcome

\* A case that is not done with keeps the count of its directory above zero.
LEMMA UndoneCounts ==
    ASSUME CountInv, NEW c \in Case, c \notin done PROVE pending[Dir[c]] > 0
<1> DEFINE d == Dir[c]
<1>1. d \in Dirs(Case) /\ c \in Unretired(d)
  BY DEF Dirs, Unretired, In
<1>2. Cardinality(Unretired(d)) # 0
  BY <1>1, CountsFinite, FS_EmptySet
<1>3. pending[d] = Cardinality(Unretired(d)) + Cardinality(Retiring(d))
  BY <1>1 DEF CountInv, Counted
<1>4. Cardinality(Unretired(d)) \in Nat /\ Cardinality(Retiring(d)) \in Nat
  BY CountsFinite
<1> QED BY <1>2, <1>3, <1>4

\* A case's files and its name in the registry go where the code says they go:
\* by its own hand, with its directory, or with the run.
LEMMA KeptStep ==
    ASSUME QueueInv, CountInv, [CorpusNext]_allVars, NEW f \in files \ files'
    PROVE  \/ In(Dir[f[2]]) \subseteq done
           \/ \E s \in Slots : pc[s] = "run" /\ tcase[s] = f[2]
           \/ closed'
<1>1. ASSUME NEW s \in Slots, Retire(s) PROVE In(Dir[f[2]]) \subseteq done
  <2>1. LastOf(Dir[ended[s]]) /\ f \in Dropped(s, Dir[ended[s]])
    BY <1>1 DEF Retire
  <2>2. Dir[f[2]] = Dir[ended[s]]
    BY <2>1 DEF Dropped, In
  <2> QED BY <1>1, <2>1, <2>2, CountRetire
<1>2. ASSUME NEW s \in Slots, DeleteDB(s)
      PROVE  \E t \in Slots : pc[t] = "run" /\ tcase[t] = f[2]
  BY <1>2 DEF DeleteDB
<1>3. CASE CloseCorpus
  BY <1>3 DEF CloseCorpus
<1>4. ASSUME NEW s \in Slots,
             \/ CorpusClaim(s) \/ CorpusBegin(s) \/ CreateDB(s) \/ Prune(s)
             \/ \E outcome \in Outcome : CorpusComplete(s, outcome)
      PROVE  FALSE
  BY <1>4 DEF CorpusClaim, CorpusBegin, CreateDB, Prune, CorpusComplete, corpusVars, keptVars
<1>5. CASE CorpusEnv \/ UNCHANGED allVars
  BY <1>5 DEF CorpusEnv, allVars, corpusVars, keptVars
<1> QED BY <1>1, <1>2, <1>3, <1>4, <1>5 DEF CorpusNext, CorpusStep, CorpusOver

-----------------------------------------------------------------------------
(* Whose files, and what the registry names.                                *)

\* A directory has one owner; and a run with its corpus is never stopped.
OwnerInv ==
    /\ \A c, e \in Case : Dir[c] = Dir[e] => owner[c] = owner[e]
    /\ ~ stopped

\* With lanes what a slot holds is of directories it owns.  While a directory's
\* count is not yet zero its files may be there; afterwards they are not.
FilesInv ==
    /\ Lanes => /\ \A f \in files : owner[f[2]] = f[1] /\ f[2] \in taken
                /\ \A e \in entries : owner[e[2]] = e[1] /\ e[2] \in taken
                /\ \A s \in Slots : post[s] # "none" => owner[ended[s]] = s
    /\ ~ failed => \A f \in files : pending[Dir[f[2]]] > 0

\* What a registry names is of directories that are still there, or about to be
\* pruned from it; and one that the reset restores names the running case only.
RegistryInv ==
    /\ inside => \A s \in Slots : pc[s] = "run" =>
                    \A e \in entries : e[1] = s => e[2] = tcase[s]
    /\ Lanes /\ ~ failed => \A e \in entries :
          \/ pending[Dir[e[2]]] > 0
          \/ post[e[1]] = "prune" /\ Dir[ended[e[1]]] = Dir[e[2]]

CorpusInv == QueueInv /\ LanesInv /\ CountInv /\ OwnerInv /\ FilesInv /\ RegistryInv

\* The corpus begins empty.
LEMMA CorpusInvInit == CorpusInit /\ Registries \subseteq BOOLEAN => CorpusInv
<1> SUFFICES ASSUME CorpusInit, Registries \subseteq BOOLEAN PROVE CorpusInv
  OBVIOUS
<1>1. Init
  BY DEF CorpusInit
<1>2. OwnerInv
  BY <1>1 DEF Init, OwnerInv
<1>3. FilesInv /\ RegistryInv
  BY DEF CorpusInit, FilesInv, RegistryInv
<1> QED BY <1>1, <1>2, <1>3, BeforeInit, LanesInit, CountedInit DEF CorpusInv

\* A directory is given its owner when it is taken, and keeps it.
LEMMA OwnersStay ==
    ASSUME QueueInv, LanesInv, OwnerInv, [Next]_vars, stopped' = stopped
    PROVE  /\ OwnerInv'
           /\ taken \subseteq taken'
           /\ Lanes => \A e \in Case : e \in taken => owner'[e] = owner[e]
<1>1. ASSUME NEW s \in Slots, ClaimScan(s)
      PROVE  /\ OwnerInv' /\ taken \subseteq taken'
             /\ Lanes => \A e \in Case : e \in taken => owner'[e] = owner[e]
  <2> PICK c \in Case :
         /\ IsFirst(c, Scannable(SlotLane[s]))
         /\ taken' = taken \cup {c} \cup Siblings(c)
         /\ owner' = [d \in Case |-> IF Dir[d] = Dir[c] THEN s ELSE owner[d]]
    BY <1>1 DEF ClaimScan
  <2>1. c \notin taken
    BY DEF IsFirst, Scannable
  <2>2. Lanes => \A e \in Case : e \in taken => Dir[e] # Dir[c]
    BY <2>1 DEF LanesInv, TakenTogether
  <2> QED BY <2>2 DEF OwnerInv
<1>2. ASSUME NEW s \in Slots, ClaimHeld(s) \/ ClaimFirst(s) \/ ClaimRetry(s) \/ Depart(s)
      PROVE  owner' = owner /\ taken \subseteq taken'
  BY <1>2 DEF ClaimHeld, ClaimFirst, ClaimRetry, Depart, Take, firstPassVars
<1>3. ASSUME NEW s \in Slots,
             \/ ClaimStopped(s) \/ Begin(s) \/ Abort(s) \/ Stop(s) \/ Fail(s)
             \/ \E outcome \in Outcome : Complete(s, outcome)
      PROVE  owner' = owner /\ taken' = taken
  BY <1>3 DEF ClaimStopped, Begin, Abort, Stop, Fail, Complete, firstPassVars
<1>4. CASE Cancel \/ Usage \/ Over \/ UNCHANGED vars
  BY <1>4 DEF Cancel, Usage, Over, vars, firstPassVars, OwnerInv
<1>5. owner' = owner => OwnerInv'
  BY DEF OwnerInv
<1> QED BY <1>1, <1>2, <1>3, <1>4, <1>5 DEF Next, Step, Claim, OwnerInv

\* No step of the run stops its queue.
LEMMA NotStopped == [CorpusNext]_allVars => stopped' = stopped
  BY DEF CorpusNext, CorpusStep, CorpusClaim, Claim, ClaimHeld, ClaimFirst, ClaimScan, ClaimRetry,
         Depart, ClaimStopped, CorpusBegin, Begin, CreateDB, DeleteDB, CorpusComplete, Complete,
         Retire, Prune, CorpusEnv, Cancel, Usage, CloseCorpus, CorpusOver, allVars, vars, envVars

\* What writes or drops nothing, and moves no slot to or from its case, leaves
\* files and registries what they are said to be.
LEMMA FilesStay ==
    ASSUME CorpusInv, KeptOK', taken \subseteq taken',
           Lanes => \A e \in Case : e \in taken => owner'[e] = owner[e],
           UNCHANGED <<inside, pending, post, ended, failed>>,
           files' \subseteq files, entries' \subseteq entries,
           \A s \in Slots : pc'[s] = "run" => pc[s] = "run" /\ tcase'[s] = tcase[s]
    PROVE  FilesInv' /\ RegistryInv'
<1>1. /\ \A f \in files : f[2] \in Case
      /\ \A e \in entries : e[2] \in Case /\ e[1] \in Slots
      /\ \A s \in Slots : post[s] # "none" => ended[s] \in Case /\ ended[s] \in taken
  BY DEF CorpusInv, CountInv, KeptOK, PostInv, QueueInv, TypeInv, TypeOK, SlotOK, PlaceInv,
         Exclusive, InOnePlace
<1>2. FilesInv'
  BY <1>1 DEF CorpusInv, FilesInv
<1>3. RegistryInv'
  BY <1>1 DEF CorpusInv, RegistryInv
<1> QED BY <1>2, <1>3

\* Whose directory, and of which type, what a slot has in hand is.
LEMMA InHand ==
    ASSUME CorpusInv
    PROVE  /\ \A f \in files : f[1] \in Overlays(Slots) /\ f[2] \in Case
           /\ \A e \in entries : e[1] \in Slots /\ e[2] \in Case
           /\ \A s \in Slots : post[s] # "none" => /\ ended[s] \in Case /\ Dir[ended[s]] \in Dirs(Case)
                                                   /\ pc[s] = "claim"
           /\ \A s \in Slots : pc[s] = "run" =>
                 /\ tcase[s] \in Case /\ tcase[s] \in taken /\ tcase[s] \notin done
                 /\ pending[Dir[tcase[s]]] > 0
                 /\ Lanes => owner[tcase[s]] = s
<1>1. /\ \A f \in files : f[1] \in Overlays(Slots) /\ f[2] \in Case
      /\ \A e \in entries : e[1] \in Slots /\ e[2] \in Case
  BY DEF CorpusInv, CountInv, KeptOK
<1>2. \A s \in Slots : post[s] # "none" => /\ ended[s] \in Case /\ Dir[ended[s]] \in Dirs(Case)
                                           /\ pc[s] = "claim"
  BY DEF CorpusInv, CountInv, PostInv, QueueInv, TypeInv, TypeOK, SlotOK, Dirs
<1>3. ASSUME NEW s \in Slots, pc[s] = "run"
      PROVE  /\ tcase[s] \in Case /\ tcase[s] \in taken /\ tcase[s] \notin done
             /\ pending[Dir[tcase[s]]] > 0
             /\ Lanes => owner[tcase[s]] = s
  <2>1. tcase[s] # 0
    BY <1>3 DEF CorpusInv, QueueInv, TypeInv, TicketInv
  <2>2. tcase[s] \in Case /\ tcase[s] \in taken
    BY <2>1, PlacedIsTaken DEF CorpusInv
  <2>3. tcase[s] \notin done
    BY <2>2 DEF CorpusInv, QueueInv, PlaceInv, Exclusive, InOnePlace, InTicket
  <2>4. pending[Dir[tcase[s]]] > 0
    BY <2>2, <2>3, UndoneCounts DEF CorpusInv
  <2>5. Lanes => owner[tcase[s]] = s
    BY <2>1, <2>2 DEF CorpusInv, LanesInv, LanesApart, DirectoryOnOneSlot
  <2> QED BY <2>2, <2>3, <2>4, <2>5
<1> QED BY <1>1, <1>2, <1>3

\* The reset before a case, and what the case writes.
LEMMA FilesRun ==
    ASSUME CorpusInv, NEW s \in Slots, CorpusBegin(s) \/ CreateDB(s)
    PROVE  FilesInv' /\ RegistryInv'
<1>t. pc \in [Slots -> PC]
  BY DEF CorpusInv, QueueInv, TypeInv, TypeOK, SlotOK
<1>1. CASE CorpusBegin(s)
  <2>1. /\ pc[s] = "claimed" /\ pc' = [pc EXCEPT ![s] = IF cancelled THEN "gone" ELSE "run"]
        /\ entries' = IF cancelled THEN entries ELSE Restored(s)
        /\ UNCHANGED <<taken, owner, tcase, pending, files, inside, post, ended, failed>>
    BY <1>1 DEF CorpusBegin, Begin, firstPassVars, finishVars
  <2>2. entries' \subseteq entries
    BY <2>1 DEF Restored
  <2>3. FilesInv'
    BY <2>1, <2>2 DEF CorpusInv, FilesInv
  <2>4. inside => \A t \in Slots : pc'[t] = "run" =>
                    \A e \in entries' : e[1] = t => e[2] = tcase[t]
    <3>1. ASSUME NEW t \in Slots, t # s, pc'[t] = "run" PROVE pc[t] = "run"
      BY <3>1, <2>1, <1>t
    <3>2. inside /\ pc'[s] = "run" => \A e \in entries' : e[1] # s
      BY <2>1, <1>t DEF Restored
    <3> QED BY <3>1, <3>2, <2>2 DEF CorpusInv, RegistryInv
  <2> QED BY <2>1, <2>2, <2>3, <2>4 DEF CorpusInv, RegistryInv
<1>2. CASE CreateDB(s)
  <2>1. /\ pc[s] = "run"
        /\ files' = files \cup {<<Overlay(s), tcase[s]>>}
        /\ entries' = entries \cup {<<s, tcase[s]>>}
        /\ UNCHANGED <<taken, owner, pc, tcase, pending, inside, post, ended, failed>>
    BY <1>2 DEF CreateDB, vars, firstPassVars, slotVars, finishVars
  <2>2. /\ tcase[s] \in Case /\ tcase[s] \in taken /\ pending[Dir[tcase[s]]] > 0
        /\ Lanes => owner[tcase[s]] = s
    BY <2>1, InHand
  <2>3. FilesInv'
    BY <2>1, <2>2 DEF CorpusInv, FilesInv, Overlay
  <2>4. RegistryInv'
    <3>1. \A t \in Slots : pc[t] = "run" /\ t # s => tcase[t] # tcase[s]
      BY <2>1, <2>2, InHand, DispatchAssumption
         DEF CorpusInv, QueueInv, PlaceInv, Exclusive, SlotsApart, Case
    <3> QED BY <2>1, <2>2, <3>1 DEF CorpusInv, RegistryInv
  <2> QED BY <2>3, <2>4
<1> QED BY <1>1, <1>2

\* A case that has ended is its slot's to retire.
LEMMA FilesComplete ==
    ASSUME CorpusInv, NEW s \in Slots, NEW outcome \in Outcome, CorpusComplete(s, outcome)
    PROVE  FilesInv' /\ RegistryInv'
<1>1. /\ pc[s] = "run" /\ pc' = [pc EXCEPT ![s] = "claim"] /\ tcase' = [tcase EXCEPT ![s] = 0]
      /\ UNCHANGED <<taken, owner, inside, pending, files, entries, failed>>
  BY DEF CorpusComplete, Complete, Release, Finish, firstPassVars, keptVars
<1>2. /\ Lanes => owner[tcase[s]] = s
      /\ post[s] = "none"
  BY <1>1, InHand, Zenon
<1>3. /\ pc \in [Slots -> PC] /\ tcase \in [Slots -> 0..N]
      /\ post \in [Slots -> {"none", "retire", "prune"}] /\ ended \in [Slots -> Case \cup {0}]
  BY DEF CorpusInv, QueueInv, TypeInv, TypeOK, SlotOK, CountInv, KeptOK
<1>4. \/ post' = [post EXCEPT ![s] = "retire"] /\ ended' = [ended EXCEPT ![s] = tcase[s]]
      \/ UNCHANGED <<post, ended>>
  BY DEF CorpusComplete, finishVars
<1>5. /\ \A t \in Slots : t # s => post'[t] = post[t] /\ ended'[t] = ended[t]
      /\ post'[s] # "none" => ended'[s] = tcase[s]
      /\ \A t \in Slots : pc'[t] = "run" => pc[t] = "run" /\ tcase'[t] = tcase[t]
  BY <1>1, <1>2, <1>3, <1>4
<1>6. FilesInv'
  BY <1>1, <1>2, <1>5 DEF CorpusInv, FilesInv
<1>7. RegistryInv'
  BY <1>1, <1>2, <1>5, InHand DEF CorpusInv, RegistryInv
<1> QED BY <1>6, <1>7

\* The last case of a directory takes the directory's files with it, whichever
\* overlay they are in; the registry still names them, in its own slot.
LEMMA FilesRetire ==
    ASSUME CorpusInv, NEW s \in Slots, Retire(s)
    PROVE  FilesInv' /\ RegistryInv'
<1>0. /\ post[s] = "retire" /\ UNCHANGED <<taken, owner, pc, tcase, inside, entries>>
      /\ post \in [Slots -> {"none", "retire", "prune"}] /\ ended \in [Slots -> Case \cup {0}]
      /\ pending \in [Dirs(Case) -> Nat] /\ failed \in BOOLEAN
  BY DEF Retire, vars, firstPassVars, slotVars, CorpusInv, CountInv, KeptOK
<1>t. /\ \A f \in files : f[2] \in Case /\ Dir[f[2]] \in Dirs(Case)
      /\ \A e \in entries : e[1] \in Slots /\ e[2] \in Case /\ Dir[e[2]] \in Dirs(Case)
  BY InHand DEF Dirs
<1>1. Dir[ended[s]] \in Dirs(Case) /\ ended[s] \in Case
  BY <1>0, InHand
<1> PICK d \in Dirs(Case) : d = Dir[ended[s]]
  BY <1>1
<1>2. Lanes => /\ owner[ended[s]] = s
               /\ \A c \in Case : Dir[c] = d => owner[c] = s
  BY <1>0, <1>1 DEF CorpusInv, FilesInv, OwnerInv
<1>3. CASE ~ LastOf(d)
  <2>1. /\ pending' = [pending EXCEPT ![d] = @ - 1]
        /\ post' = [post EXCEPT ![s] = "none"] /\ ended' = [ended EXCEPT ![s] = 0]
        /\ UNCHANGED <<files, failed>>
    BY <1>3 DEF Retire
  <2>2. \A b \in Dirs(Case) : pending[b] > 0 => pending'[b] > 0
    BY <1>0, <1>3, <2>1 DEF LastOf
  <2>3. \A t \in Slots : post'[t] # "none" => t # s /\ post'[t] = post[t] /\ ended'[t] = ended[t]
    BY <1>0, <2>1
  <2>4. FilesInv'
    BY <1>0, <1>t, <2>1, <2>2, <2>3 DEF CorpusInv, FilesInv
  <2>5. ASSUME NEW t \in Slots, post[t] = "prune" PROVE post'[t] = "prune" /\ ended'[t] = ended[t]
    BY <1>0, <2>1, <2>5
  <2>6. RegistryInv'
    BY <1>0, <1>t, <2>1, <2>2, <2>5 DEF CorpusInv, RegistryInv
  <2> QED BY <2>4, <2>6
<1>4. CASE LastOf(d)
  <2>1. /\ pending' = [pending EXCEPT ![d] = 0]
        /\ post' = [post EXCEPT ![s] = "prune"] /\ ended' = ended
        /\ \/ files' = files \ Dropped(s, d) /\ UNCHANGED failed
           \/ failed' = TRUE /\ UNCHANGED files
    BY <1>4 DEF Retire
  <2>2. \A b \in Dirs(Case) : b # d => pending'[b] = pending[b]
    BY <1>0, <2>1
  <2>3. ASSUME ~ failed', NEW f \in files' PROVE Dir[f[2]] # d
    <3>1. f \in files /\ f \notin Dropped(s, d)
      BY <2>1, <2>3
    <3>2. f[1] = Overlay(s) => f[2] \notin In(d)
      BY <3>1 DEF Dropped
    <3>3. Dir[f[2]] = d => f[1] = Overlay(s)
      BY <1>2, <1>t, <3>1, InHand DEF Overlays, Overlay, CorpusInv, FilesInv
    <3> QED BY <1>t, <3>1, <3>2, <3>3 DEF In
  <2>4. files' \subseteq files /\ (~ failed' => ~ failed)
    BY <1>0, <2>1
  <2>5. \A t \in Slots : post'[t] = (IF t = s THEN "prune" ELSE post[t])
    BY <1>0, <2>1
  <2>6. FilesInv'
    <3>1. Lanes => \A t \in Slots : post'[t] # "none" => owner[ended[t]] = t
      BY <1>0, <1>2, <2>5 DEF CorpusInv, FilesInv
    <3>2. ~ failed' => \A f \in files' : pending'[Dir[f[2]]] > 0
      BY <1>t, <2>2, <2>3, <2>4 DEF CorpusInv, FilesInv
    <3> QED BY <1>0, <2>1, <2>4, <3>1, <3>2 DEF CorpusInv, FilesInv
  <2>7. RegistryInv'
    <3> SUFFICES ASSUME Lanes, ~ failed', NEW e \in entries
                 PROVE  \/ pending'[Dir[e[2]]] > 0
                        \/ post'[e[1]] = "prune" /\ Dir[ended[e[1]]] = Dir[e[2]]
      BY <1>0, <2>1 DEF CorpusInv, RegistryInv
    <3>1. CASE Dir[e[2]] = d
      <4>1. e[1] = s
        BY <1>2, <1>t, <3>1 DEF CorpusInv, FilesInv
      <4> QED BY <3>1, <4>1, <2>5
    <3>2. CASE Dir[e[2]] # d
      <4>1. \/ pending[Dir[e[2]]] > 0
            \/ post[e[1]] = "prune" /\ Dir[ended[e[1]]] = Dir[e[2]]
        BY <2>4 DEF CorpusInv, RegistryInv
      <4> QED BY <4>1, <3>2, <1>t, <2>2, <2>5
    <3> QED BY <3>1, <3>2
  <2> QED BY <2>6, <2>7
<1> QED BY <1>3, <1>4

\* And the prune takes their names.
LEMMA FilesPrune ==
    ASSUME CorpusInv, NEW s \in Slots, Prune(s)
    PROVE  FilesInv' /\ RegistryInv'
<1>0. /\ post[s] = "prune" /\ UNCHANGED <<taken, owner, pc, tcase, inside, pending, files>>
      /\ post' = [post EXCEPT ![s] = "none"] /\ ended' = [ended EXCEPT ![s] = 0]
      /\ \/ entries' = entries \ Pruned(s, Dir[ended[s]]) /\ UNCHANGED failed
         \/ failed' = TRUE /\ UNCHANGED entries
      /\ post \in [Slots -> {"none", "retire", "prune"}] /\ ended \in [Slots -> Case \cup {0}]
      /\ failed \in BOOLEAN
  BY DEF Prune, vars, firstPassVars, slotVars, CorpusInv, CountInv, KeptOK
<1>1. entries' \subseteq entries /\ (~ failed' => ~ failed)
  BY <1>0
<1>2. \A t \in Slots : t # s => post'[t] = post[t] /\ ended'[t] = ended[t]
  BY <1>0
<1>3. FilesInv'
  <2>1. post'[s] = "none"
    BY <1>0
  <2> QED BY <1>0, <1>1, <1>2, <2>1 DEF CorpusInv, FilesInv
<1>4. RegistryInv'
  <2>1. ASSUME Lanes, ~ failed', NEW e \in entries'
        PROVE  \/ pending[Dir[e[2]]] > 0
               \/ post'[e[1]] = "prune" /\ Dir[ended'[e[1]]] = Dir[e[2]]
    <3>1. e[1] \in Slots /\ e[2] \in Case
      BY <1>1, InHand
    <3>2. e \notin Pruned(s, Dir[ended[s]])
      BY <1>0, <2>1
    <3>3. e[1] = s => Dir[e[2]] # Dir[ended[s]]
      BY <1>1, <3>1, <3>2 DEF Pruned, In
    <3>4. \/ pending[Dir[e[2]]] > 0
          \/ post[e[1]] = "prune" /\ Dir[ended[e[1]]] = Dir[e[2]]
      BY <1>1, <2>1 DEF CorpusInv, RegistryInv
    <3> QED BY <3>1, <3>3, <3>4, <1>2
  <2> QED BY <1>0, <1>1, <2>1 DEF CorpusInv, RegistryInv
<1> QED BY <1>3, <1>4

\* Every step of the run with its corpus keeps all of it.
LEMMA CorpusInvStep == CorpusInv /\ [CorpusNext]_allVars => CorpusInv'
<1> SUFFICES ASSUME CorpusInv, [CorpusNext]_allVars PROVE CorpusInv'
  OBVIOUS
<1>1. QueueInv' /\ LanesInv' /\ CountInv'
  BY CorpusQueueStep, CountsStep DEF CorpusInv
<1>2. /\ OwnerInv' /\ taken \subseteq taken'
      /\ Lanes => \A e \in Case : e \in taken => owner'[e] = owner[e]
  BY CorpusStepsQueue, NotStopped, OwnersStay DEF CorpusInv
<1>3. FilesInv' /\ RegistryInv'
  <2>t. pc \in [Slots -> PC] /\ tcase \in [Slots -> 0..N]
    BY DEF CorpusInv, QueueInv, TypeInv, TypeOK, SlotOK
  <2>1. ASSUME NEW s \in Slots, CorpusClaim(s) PROVE FilesInv' /\ RegistryInv'
    <3>1. UNCHANGED <<inside, pending, post, ended, failed, files, entries>>
      BY <2>1 DEF CorpusClaim, corpusVars, keptVars, finishVars
    <3>2. \A t \in Slots : pc'[t] = "run" => pc[t] = "run" /\ tcase'[t] = tcase[t]
      BY <2>1, <2>t DEF CorpusClaim, Claim, ClaimHeld, ClaimFirst, ClaimScan, ClaimRetry, Depart,
                        ClaimStopped, Hand, Asking
    <3> QED BY <3>1, <3>2, <1>1, <1>2, FilesStay DEF CountInv
  <2>2. ASSUME NEW s \in Slots, CorpusBegin(s) \/ CreateDB(s) PROVE FilesInv' /\ RegistryInv'
    BY <2>2, FilesRun
  <2>3. ASSUME NEW s \in Slots, NEW outcome \in Outcome, CorpusComplete(s, outcome)
        PROVE  FilesInv' /\ RegistryInv'
    BY <2>3, FilesComplete
  <2>4. ASSUME NEW s \in Slots, Retire(s) \/ Prune(s) PROVE FilesInv' /\ RegistryInv'
    BY <2>4, FilesRetire, FilesPrune
  <2>5. CASE \/ \E s \in Slots : DeleteDB(s)
             \/ CorpusEnv \/ CloseCorpus \/ UNCHANGED allVars
    <3>1. /\ UNCHANGED <<inside, pending, post, ended, failed, pc, tcase>>
          /\ files' \subseteq files /\ entries' \subseteq entries
      BY <2>5 DEF DeleteDB, CorpusEnv, Cancel, Usage, CloseCorpus, allVars, corpusVars, keptVars,
                  finishVars, vars, slotVars
    <3> QED BY <3>1, <1>1, <1>2, FilesStay DEF CountInv
  <2> QED BY <2>1, <2>2, <2>3, <2>4, <2>5 DEF CorpusNext, CorpusStep, CorpusOver, Outcome
<1> QED BY <1>1, <1>2, <1>3 DEF CorpusInv

-----------------------------------------------------------------------------
(* What follows.                                                            *)

\* A directory whose cases are all done with, in a run whose slots are idle,
\* counts none.
LEMMA DoneCountsNone ==
    ASSUME CorpusInv, done = Case, \A s \in Slots : Idle(s), ~ failed
    PROVE  files = {}
<1>1. ASSUME NEW d \in Dirs(Case) PROVE pending[d] = 0
  <2>1. Unretired(d) = {} /\ Retiring(d) = {}
    BY DEF Unretired, Retiring, In, Idle
  <2> QED BY <2>1, FS_EmptySet DEF CorpusInv, CountInv, Counted
<1>2. ASSUME NEW f \in files PROVE FALSE
  <2>1. f[2] \in Case
    BY DEF CorpusInv, CountInv, KeptOK
  <2>2. Dir[f[2]] \in Dirs(Case)
    BY <2>1 DEF Dirs
  <2> PICK d \in Dirs(Case) : d = Dir[f[2]]
    BY <2>2
  <2>3. pending[d] = 0 /\ pending[d] > 0
    BY <1>1 DEF CorpusInv, FilesInv
  <2> QED BY <2>3
<1> QED BY <1>2

\* So the counts are what they are said to be, and come to nothing at the end.
LEMMA CountsFollow == CorpusInv => CountsSound
<1> SUFFICES ASSUME CorpusInv PROVE CountsSound
  OBVIOUS
<1>1. CorpusTypeOK
  BY DEF CorpusInv, CountInv, KeptOK, Counted, Unretired, Retiring, CorpusTypeOK
<1>2. AllReclaimed
  <2> SUFFICES ASSUME AllGone, \A s \in Slots : Idle(s), ~ cancelled, ~ failed
               PROVE  files = {}
    BY DEF AllReclaimed
  <2>1. done = Case
    BY TheEnd DEF CorpusInv, OwnerInv, EndIsDone, RunComplete
  <2> QED BY <2>1, DoneCountsNone
<1> QED BY <1>1, <1>2 DEF CountsSound

\* A registry names what is there: its own slot has pruned what that slot
\* reclaimed, or the reset has put it back.
LEMMA RegistryFollows ==
    ASSUME CorpusInv, Lanes \/ inside PROVE RegistryTrue
<1> SUFFICES ASSUME NEW s \in Slots, pc[s] = "run", ~ failed,
                    NEW c \in Case, <<s, c>> \in entries
             PROVE  pending[Dir[c]] > 0
  BY DEF RegistryTrue
<1> DEFINE e == <<s, c>>
<1>1. e \in entries /\ e[1] = s /\ e[2] = c
  OBVIOUS
<1>2. CASE Lanes
  <2>1. post[s] = "none"
    BY DEF CorpusInv, CountInv, PostInv
  <2> QED BY <1>1, <1>2, <2>1 DEF CorpusInv, RegistryInv
<1>3. CASE inside
  <2>1. c = tcase[s]
    BY <1>1, <1>3 DEF CorpusInv, RegistryInv
  <2>2. c \notin done
    BY <2>1 DEF CorpusInv, QueueInv, PlaceInv, Exclusive, InOnePlace, InTicket
  <2> QED BY <2>2, UndoneCounts DEF CorpusInv
<1> QED BY <1>2, <1>3

\* Every directory's count is of its cases that have not retired, and a run that
\* ends with every slot out, uncancelled and no delete of it failed, holds no
\* file of any case.
THEOREM CountsAreSound ==
    ASSUME Registries \subseteq BOOLEAN PROVE CorpusSpec => []CountsSound
  BY CorpusInvInit, CorpusInvStep, CountsFollow, PTL DEF CorpusSpec

\* And no case runs in a slot whose registry names a database that is gone: with
\* lanes, since the slot that reclaimed it has pruned it; without, only where
\* the reset restores the registry, for another slot may have been the last.
THEOREM CorpusIsTrue ==
    ASSUME Registries \subseteq BOOLEAN, Lanes \/ Registries = {TRUE}
    PROVE  CorpusSpec => []CorpusTrue
<1>1. CorpusInit => Lanes \/ inside
  BY DEF CorpusInit
<1>2. (Lanes \/ inside) /\ [CorpusNext]_allVars => (Lanes \/ inside)'
  BY DEF CorpusNext, CorpusStep, CorpusClaim, CorpusBegin, CreateDB, DeleteDB, CorpusComplete,
         Retire, Prune, CorpusEnv, CloseCorpus, CorpusOver, allVars, corpusVars, keptVars,
         finishVars
<1>3. CorpusInv /\ (Lanes \/ inside) => CorpusTrue
  BY CountsFollow, RegistryFollows DEF CorpusTrue
<1> QED BY <1>1, <1>2, <1>3, CorpusInvInit, CorpusInvStep, PTL DEF CorpusSpec

\* A case's files outlive it for as long as a sibling may run: they go by its
\* own hand, when every case of the directory is done with, or with the run.
THEOREM KeptWhileNeeded ==
    ASSUME Registries \subseteq BOOLEAN PROVE CorpusSpec => KeptForSiblings
<1>1. CorpusInv /\ [CorpusNext]_allVars =>
          [\A f \in files \ files' :
              \/ In(Dir[f[2]]) \subseteq done
              \/ \E s \in Slots : pc[s] = "run" /\ tcase[s] = f[2]
              \/ closed']_allVars
  BY KeptStep DEF CorpusInv
<1> QED BY <1>1, CorpusInvInit, CorpusInvStep, PTL DEF CorpusSpec, KeptForSiblings

-----------------------------------------------------------------------------
(* The SQL run.                                                             *)


\* The places are numbered from 1 with no gap, and every slot asks for any lane
\* (sqlsuite gives its queue an affinity and no lanes).
Places ==
    /\ Rank \in [Slots -> Nat \ {0}]
    /\ \A s, t \in Slots : Rank[s] = Rank[t] => s = t
    /\ \A s \in Slots : Rank[s] > 1 => Before(s) # {}
    /\ \A s \in Slots : SlotLane[s] = "any"

-----------------------------------------------------------------------------
(* The queue underneath.                                                    *)

\* A slot that leaves a cancelled run keeps its ticket, and the rest is as it
\* was.
LEMMA QueueCancelled ==
    ASSUME QueueInv, LanesInv, NEW s \in Slots, LoopCancelled(s)
    PROVE  QueueInv' /\ LanesInv'
<1>0. /\ pc' = [pc EXCEPT ![s] = "failed"] /\ pc[s] = "claimed" /\ cancelled
      /\ UNCHANGED <<firstPassVars, held, retryVars, inFlight, running, departed, envVars, tcase,
                     tretry, seenVars>>
  BY DEF LoopCancelled
<1>1. /\ UNCHANGED <<taken, cursor, owner, held, retryQueue, retryCount, queued>>
      /\ UNCHANGED <<inFlight, running, departed, stopped, full, cancelled>>
      /\ UNCHANGED <<tcase, tretry, tried, done>>
  BY <1>0 DEF firstPassVars, retryVars, envVars, seenVars
<1>2. TypeOK'
  BY <1>0, <1>1 DEF QueueInv, TypeInv, TypeOK, QueueOK, RetryOK, EnvOK, SlotOK, PC
<1>3. TicketInv' /\ GoneInv'
  <2>1. pc \in [Slots -> PC] /\ cancelled \in BOOLEAN /\ TicketInv /\ GoneInv
    BY DEF QueueInv, TypeInv, TypeOK, SlotOK, EnvOK
  <2> QED BY <2>1, <1>0, <1>1 DEF TicketInv, GoneInv
<1>4. PlaceInv'
  BY <1>1, PlaceStays DEF QueueInv
<1>5. InFlightCounts'
  BY <1>1 DEF QueueInv, InFlightCounts
<1>6. LanesInv'
  BY <1>0, <1>1 DEF LanesInv, CursorSound, TakenTogether, LanesApart, DirectoryOnOneSlot,
                    RetryQueueUnused, FalseMeansOver, LastDrains
<1> QED BY <1>2, <1>3, <1>4, <1>5, <1>6 DEF QueueInv, TypeInv

\* Every other step of the run is a step of the queue, or leaves it alone.
LEMMA RunStepsQueue ==
    [RunNext]_sqlVars => [Next]_vars \/ \E s \in Slots : LoopCancelled(s)
<1> SUFFICES ASSUME [RunNext]_sqlVars, ~ \E s \in Slots : LoopCancelled(s) PROVE [Next]_vars
  OBVIOUS
<1>1. ASSUME NEW s \in Slots, RunStep(s) PROVE [Next]_vars
  <2>1. CASE LoopClaim(s) \/ LoopRun(s) \/ LoopEnds(s)
    BY <2>1 DEF LoopClaim, LoopRun, LoopEnds, Next, Step
  <2>2. CASE LoopCase(s) \/ \E e \in {"gone", "record"} : LoopFails(s, e)
    BY <2>2 DEF LoopCase, LoopFails, Next, Step, Outcome
  <2>3. CASE TakeTurn(s) \/ LeaveWaiting(s) \/ Serve(s) \/ Ready(s) \/ NotReady(s)
    BY <2>3 DEF TakeTurn, LeaveWaiting, Serve, Ready, NotReady
  <2> QED BY <1>1, <2>1, <2>2, <2>3 DEF RunStep
<1>2. CASE EndSetup \/ EndFailed \/ EndWell \/ Ended \/ UNCHANGED sqlVars
  BY <1>2 DEF EndSetup, EndFailed, EndWell, Ended, sqlVars
<1>3. CASE Signal
  BY <1>3 DEF Signal, Next
<1> QED BY <1>1, <1>2, <1>3 DEF RunNext

\* So all that was shown of the queue holds of it under the SQL run.
LEMMA RunQueueStep ==
    ASSUME QueueInv, LanesInv, [RunNext]_sqlVars PROVE QueueInv' /\ LanesInv'
  BY RunStepsQueue, QueueCancelled, BeforeStep, LanesPreserved

-----------------------------------------------------------------------------
(* The slots, and what each has come to.                                    *)

\* RunTypeOK without the queue's part.
OwnOK ==
    /\ together \in Starts
    /\ phase \in [Slots -> Phase] /\ served \subseteq Slots
    /\ startErr \subseteq Slots /\ begun \in BOOLEAN
    /\ recorded \subseteq Case /\ errs \in [Slots -> Error]
    /\ rec \in {"open", "kept", "discarded"}
    /\ ret \in {"none", "setup", "error", "ok"}
    /\ blamed \in Slots \cup {NoSlot} /\ down \subseteq Slots
    /\ \A s \in startErr : phase[s] = "out"

\* Only a slot in its loop asks the queue, and it leaves the loop sent away by
\* the queue or with an error.
LoopInv ==
    \A s \in Slots :
        /\ phase[s] # "loop" => pc[s] = "claim" /\ held[s] = <<>>
        /\ pc[s] = "gone" => s \in departed \/ stopped \/ errs[s] # "none"
        /\ pc[s] \in {"failed", "aborting"} => errs[s] # "none"
        /\ pc[s] \in {"failed", "aborting", "gone"} /\ tcase[s] # 0 => errs[s] # "none"

\* Nothing is tried again: no case waits for a retry, and one the queue has let
\* go of unrecorded left an error behind, as did whoever stopped the queue.
LossInv ==
    /\ retryQueue = <<>>
    /\ recorded # done => Failed # {}
    /\ stopped => Failed # {}

\* In a run that is not cancelled, a slot that is past its turn is past that of
\* every slot before it.
TurnInv ==
    ~ together /\ ~ cancelled => \A s \in Slots :
        /\ s \in served => phase[s] \notin {"wait", "serve"}
        /\ phase[s] # "wait" => \A t \in Slots : Rank[t] < Rank[s] => t \in served

\* The run returns when every slot is back.
ReturnInv == (ret # "none" => AllBack) /\ OkMeansAll

RunInv ==
    /\ QueueInv /\ LanesInv
    /\ OwnOK /\ LoopInv /\ LossInv /\ TurnInv /\ SkippedUnneeded /\ ReturnInv

\* The run begins with nobody up.
LEMMA RunInvInit == RunInit => RunInv
<1> SUFFICES ASSUME RunInit PROVE RunInv
  OBVIOUS
<1>1. Init
  BY DEF RunInit
<1>2. OwnOK
  BY DEF RunInit, OwnOK, Phase, Error
<1>3. LoopInv /\ LossInv
  BY <1>1 DEF RunInit, Init, LoopInv, LossInv
<1>4. TurnInv /\ SkippedUnneeded /\ ReturnInv
  BY DEF RunInit, TurnInv, SkippedUnneeded, ReturnInv, OkMeansAll
<1> QED BY <1>1, <1>2, <1>3, <1>4, BeforeInit, LanesInit DEF RunInv

\* A slot that comes up, or does not, touches no case.
LEMMA ComingUp ==
    ASSUME Places, RunInv, NEW s \in Slots,
           TakeTurn(s) \/ LeaveWaiting(s) \/ Serve(s) \/ Ready(s) \/ NotReady(s)
    PROVE  OwnOK' /\ LoopInv' /\ LossInv' /\ TurnInv' /\ SkippedUnneeded' /\ ReturnInv'
<1>t. /\ phase \in [Slots -> Phase] /\ served \subseteq Slots /\ startErr \subseteq Slots
      /\ \A t \in startErr : phase[t] = "out"
      /\ phase[s] \in {"wait", "serve", "java"}
      /\ UNCHANGED <<vars, together, recorded, errs, rec, ret, blamed, down>>
  BY DEF RunInv, OwnOK, TakeTurn, LeaveWaiting, Serve, Ready, NotReady, startVars, endVars
<1>v. UNCHANGED <<taken, held, retryQueue, departed, stopped, cancelled, pc, tcase, done>>
  BY <1>t DEF vars, firstPassVars, retryVars, envVars, slotVars, seenVars
<1>1. /\ phase' = [phase EXCEPT ![s] = phase'[s]] /\ phase'[s] \in Phase
      /\ served' \in {served, served \cup {s}}
      /\ \/ startErr' = startErr
         \/ startErr' = startErr \cup {s} /\ phase'[s] = "out"
      /\ begun' \in {begun, TRUE}
  BY <1>t DEF TakeTurn, LeaveWaiting, Serve, Ready, NotReady, MoveTo, Served, Phase, startVars
<1>2. OwnOK'
  <2>1. phase' \in [Slots -> Phase]
    BY <1>t, <1>1
  <2>2. \A t \in startErr' : phase'[t] = "out"
    BY <1>t, <1>1
  <2> QED BY <1>t, <1>1, <2>1, <2>2 DEF RunInv, OwnOK
<1>3. pc[s] = "claim" /\ held[s] = <<>>
  BY <1>t DEF RunInv, LoopInv
<1>4. LoopInv'
  <2>1. \A t \in Slots : t # s => phase'[t] = phase[t]
    BY <1>t, <1>1
  <2> QED BY <1>t, <1>v, <1>3, <2>1 DEF RunInv, LoopInv
<1>5. LossInv'
  BY <1>t, <1>v DEF RunInv, LossInv, Failed
<1>6. ret = "none"
  BY <1>t, <1>3 DEF RunInv, ReturnInv, AllBack, Back
<1>7. ReturnInv'
  BY <1>t, <1>6 DEF ReturnInv, OkMeansAll
<1>8. SkippedUnneeded'
  <2> SUFFICES ASSUME NEW t \in Slots, phase'[t] = "out", t \notin startErr', ~ cancelled
               PROVE  taken = Case \/ stopped
    BY <1>v DEF SkippedUnneeded
  <2>1. CASE t # s
    <3>1. phase[t] = "out" /\ t \notin startErr
      BY <1>t, <1>1, <2>1
    <3> QED BY <3>1 DEF RunInv, SkippedUnneeded
  <2>2. CASE t = s
    <3>1. TakeTurn(s) /\ Drained
      BY <1>t, <2>2 DEF TakeTurn, LeaveWaiting, Serve, Ready, NotReady, MoveTo
    <3> QED BY <3>1 DEF Drained
  <2> QED BY <2>1, <2>2
<1>9. TurnInv'
  <2> SUFFICES ASSUME ~ together, ~ cancelled, NEW t \in Slots
               PROVE  /\ t \in served' => phase'[t] \notin {"wait", "serve"}
                      /\ phase'[t] # "wait" =>
                            \A u \in Slots : Rank[u] < Rank[t] => u \in served'
    BY <1>t, <1>v DEF TurnInv
  <2>1. /\ t \in served => phase[t] \notin {"wait", "serve"}
        /\ phase[t] # "wait" => \A u \in Slots : Rank[u] < Rank[t] => u \in served
    BY DEF RunInv, TurnInv
  <2>2. CASE t # s
    BY <1>t, <1>1, <2>1, <2>2
  <2>3. CASE t = s
    <3>1. s \in served' => phase'[s] \notin {"wait", "serve"}
      BY <1>t, <2>1, <2>3 DEF TakeTurn, LeaveWaiting, Serve, Ready, NotReady, MoveTo, Served,
                             startVars
    <3>2. ASSUME NEW u \in Slots, Rank[u] < Rank[s] PROVE u \in served
      <4>1. CASE phase[s] # "wait"
        BY <2>1, <2>3, <3>2, <4>1
      <4>2. CASE phase[s] = "wait"
        <5>1. Before(s) \subseteq served
          BY <4>2, <1>t DEF TakeTurn, LeaveWaiting, Serve, Ready, NotReady, MyTurn
        <5>2. Rank[u] \in Nat \ {0} /\ Rank[s] \in Nat \ {0}
          BY DEF Places
        <5> PICK b \in Before(s) : TRUE
          BY <3>2, <5>2 DEF Places
        <5>3. b \in Slots /\ Rank[b] \in Nat \ {0} /\ Rank[b] + 1 = Rank[s] /\ b \in served
          BY <5>1 DEF Before, Places
        <5>4. phase[b] # "wait"
          BY <5>3 DEF RunInv, TurnInv
        <5>5. CASE Rank[u] < Rank[b]
          BY <5>3, <5>4, <5>5 DEF RunInv, TurnInv
        <5>6. CASE Rank[u] = Rank[b]
          BY <5>3, <5>6 DEF Places
        <5> QED BY <3>2, <5>2, <5>3, <5>5, <5>6
      <4> QED BY <4>1, <4>2
    <3> QED BY <1>1, <2>3, <3>1, <3>2
  <2> QED BY <2>2, <2>3
<1> QED BY <1>2, <1>4, <1>5, <1>7, <1>8, <1>9

\* What a slot in its loop does to its own place and error, its verdicts and the
\* queue's end leaves the run's invariants as they are, when it does no more.
LEMMA Looping ==
    ASSUME RunInv, OwnOK', NEW s \in Slots, phase[s] = "loop", pc[s] # "gone",
           UNCHANGED <<startVars, rec, ret, blamed, retryQueue>>,
           taken \subseteq taken', departed \subseteq departed', cancelled => cancelled',
           stopped => stopped', taken' \subseteq Case,
           stopped' => stopped \/ errs[s] # "none",
           errs'[s] = "none" => errs[s] = "none",
           recorded' # done' => recorded # done \/ errs'[s] # "none",
           \A t \in Slots \ {s} : /\ pc'[t] = pc[t] /\ errs'[t] = errs[t] /\ held'[t] = held[t]
                                  /\ tcase'[t] = tcase[t],
           pc'[s] = "gone" => s \in departed' \/ stopped' \/ errs'[s] # "none",
           pc'[s] \in {"failed", "aborting"} => errs'[s] # "none",
           pc'[s] = "gone" /\ tcase'[s] # 0 => errs'[s] # "none"
    PROVE  LoopInv' /\ LossInv' /\ TurnInv' /\ SkippedUnneeded' /\ ReturnInv'
<1>1. UNCHANGED <<together, phase, served, startErr, begun>>
  BY DEF startVars
<1>2. LoopInv'
  BY <1>1 DEF RunInv, LoopInv
<1>3. \A t \in Slots : errs[t] # "none" => errs'[t] # "none"
  OBVIOUS
<1>4. LossInv'
  BY <1>3 DEF RunInv, LossInv, Failed
<1>5. TurnInv'
  BY <1>1 DEF RunInv, TurnInv
<1>6. SkippedUnneeded'
  BY <1>1 DEF RunInv, SkippedUnneeded
<1>7. ReturnInv'
  <2>1. ret = "none"
    BY DEF RunInv, ReturnInv, AllBack, Back
  <2> QED BY <2>1 DEF ReturnInv, OkMeansAll
<1> QED BY <1>2, <1>4, <1>5, <1>6, <1>7

\* A slot that asks the queue is given a case, or sent away by it.
LEMMA LoopAsks ==
    ASSUME RunInv, QueueInv', NEW s \in Slots, LoopClaim(s)
    PROVE  OwnOK' /\ LoopInv' /\ LossInv' /\ TurnInv' /\ SkippedUnneeded' /\ ReturnInv'
<1>0. /\ phase[s] = "loop" /\ Claim(s) /\ retryQueue = <<>>
      /\ UNCHANGED <<startVars, recorded, errs, rec, ret, blamed, down>>
  BY DEF LoopClaim, runVars, endVars, RunInv, LossInv
<1>t. /\ pc \in [Slots -> PC] /\ tcase \in [Slots -> 0..N] /\ held \in [Slots -> Seq(Case)]
      /\ taken' \subseteq Case /\ TicketInv
  BY DEF RunInv, QueueInv, TypeInv, TypeOK, QueueOK, RetryOK, SlotOK
<1>1. OwnOK'
  BY <1>0 DEF RunInv, OwnOK, startVars
<1>2. ~ ClaimRetry(s)
  BY <1>0 DEF ClaimRetry
<1>3. CASE ClaimHeld(s) \/ ClaimFirst(s) \/ ClaimScan(s)
  <2>1. /\ pc[s] = "claim" /\ pc' = [pc EXCEPT ![s] = "claimed"]
        /\ \E c : tcase' = [tcase EXCEPT ![s] = c]
        /\ taken \subseteq taken'
        /\ \E q : held' = [held EXCEPT ![s] = q] \/ held' = held
        /\ UNCHANGED <<retryQueue, departed, stopped, cancelled, done>>
    BY <1>3 DEF ClaimHeld, ClaimFirst, ClaimScan, Asking, Hand, Take, retryVars, envVars, seenVars,
                firstPassVars
  <2>2. \A t \in Slots \ {s} : /\ pc'[t] = pc[t] /\ errs'[t] = errs[t] /\ held'[t] = held[t]
                               /\ tcase'[t] = tcase[t]
    BY <1>0, <1>t, <2>1
  <2>3. pc'[s] = "claimed"
    BY <1>t, <2>1
  <2> QED BY <1>0, <1>1, <1>t, <2>1, <2>2, <2>3, Looping
<1>4. CASE Depart(s) \/ ClaimStopped(s)
  <2>1. /\ pc[s] = "claim" /\ pc' = [pc EXCEPT ![s] = "gone"]
        /\ departed \subseteq departed' /\ (s \in departed' \/ stopped)
        /\ UNCHANGED <<taken, held, retryQueue, stopped, cancelled, tcase, done>>
    BY <1>4 DEF Depart, ClaimStopped, Asking, retryVars, envVars, seenVars, firstPassVars
  <2>2. \A t \in Slots \ {s} : /\ pc'[t] = pc[t] /\ errs'[t] = errs[t] /\ held'[t] = held[t]
                               /\ tcase'[t] = tcase[t]
    BY <1>0, <1>t, <2>1
  <2>3. pc'[s] = "gone" /\ tcase'[s] = 0
    BY <1>t, <2>1 DEF TicketInv
  <2> QED BY <1>0, <1>1, <1>t, <2>1, <2>2, <2>3, Looping
<1> QED BY <1>0, <1>2, <1>3, <1>4 DEF Claim

\* A slot that runs its case, records its verdict, or leaves with an error.
LEMMA LoopRuns ==
    ASSUME RunInv, QueueInv', NEW s \in Slots,
           \/ LoopRun(s) \/ LoopCancelled(s) \/ LoopCase(s) \/ LoopEnds(s)
           \/ \E e \in {"gone", "record"} : LoopFails(s, e)
    PROVE  OwnOK' /\ LoopInv' /\ LossInv' /\ TurnInv' /\ SkippedUnneeded' /\ ReturnInv'
<1>t. /\ pc \in [Slots -> PC] /\ tcase \in [Slots -> 0..N] /\ taken \subseteq Case
      /\ done \subseteq Case /\ errs \in [Slots -> Error] /\ down \subseteq Slots
      /\ recorded \subseteq Case /\ cancelled \in BOOLEAN /\ stopped \in BOOLEAN
  BY DEF RunInv, QueueInv, TypeInv, TypeOK, QueueOK, SlotOK, EnvOK, OwnOK
<1>1. CASE LoopRun(s)
  <2>1. /\ phase[s] = "loop" /\ pc[s] = "claimed" /\ pc' = [pc EXCEPT ![s] = "run"]
        /\ UNCHANGED <<startVars, recorded, errs, rec, ret, blamed, down>>
        /\ UNCHANGED <<taken, held, retryQueue, departed, stopped, cancelled, tcase, done>>
    BY <1>1 DEF LoopRun, Begin, runVars, endVars, firstPassVars, retryVars, envVars, seenVars
  <2>2. OwnOK'
    BY <2>1 DEF RunInv, OwnOK, startVars
  <2>3. pc'[s] = "run" /\ \A t \in Slots \ {s} : pc'[t] = pc[t]
    BY <1>t, <2>1
  <2> QED BY <1>t, <2>1, <2>2, <2>3, Looping
<1>2. CASE LoopCancelled(s)
  <2>1. /\ phase[s] = "loop" /\ pc[s] = "claimed" /\ pc' = [pc EXCEPT ![s] = "failed"]
        /\ errs' = [errs EXCEPT ![s] = "ctx"] /\ down' = down \cup {s}
        /\ UNCHANGED <<startVars, recorded, rec, ret, blamed>>
        /\ UNCHANGED <<taken, held, retryQueue, departed, stopped, cancelled, tcase, done>>
    BY <1>2 DEF LoopCancelled, endVars, firstPassVars, retryVars, envVars, seenVars
  <2>2. OwnOK'
    BY <1>t, <2>1 DEF RunInv, OwnOK, startVars, Error
  <2>3. /\ pc'[s] = "failed" /\ errs'[s] # "none"
        /\ \A t \in Slots \ {s} : pc'[t] = pc[t] /\ errs'[t] = errs[t]
    BY <1>t, <2>1
  <2> QED BY <1>t, <2>1, <2>2, <2>3, Looping
<1>3. CASE LoopCase(s)
  <2>1. /\ phase[s] = "loop" /\ pc[s] = "run" /\ pc' = [pc EXCEPT ![s] = "claim"]
        /\ tcase' = [tcase EXCEPT ![s] = 0]
        /\ recorded' = recorded \cup {tcase[s]} /\ done' = done \cup {tcase[s]}
        /\ UNCHANGED <<startVars, errs, rec, ret, blamed, down>>
        /\ UNCHANGED <<taken, held, retryQueue, departed, stopped, cancelled>>
    BY <1>3 DEF LoopCase, Complete, Finish, Release, Retrying, endVars, firstPassVars, envVars
  <2>2. OwnOK'
    <3>1. recorded' \subseteq Case
      BY <1>t, <2>1 DEF QueueInv, TypeInv, TypeOK, SlotOK
    <3> QED BY <2>1, <3>1 DEF RunInv, OwnOK, startVars
  <2>3. /\ pc'[s] = "claim"
        /\ \A t \in Slots \ {s} : pc'[t] = pc[t] /\ tcase'[t] = tcase[t]
    BY <1>t, <2>1
  <2>4. recorded' # done' => recorded # done
    BY <2>1
  <2> QED BY <1>t, <2>1, <2>2, <2>3, <2>4, Looping
<1>4. ASSUME NEW e \in {"gone", "record"}, LoopFails(s, e)
      PROVE  OwnOK' /\ LoopInv' /\ LossInv' /\ TurnInv' /\ SkippedUnneeded' /\ ReturnInv'
  <2>1. /\ phase[s] = "loop" /\ pc[s] = "run" /\ pc' = [pc EXCEPT ![s] = "failed"]
        /\ tcase' = [tcase EXCEPT ![s] = 0]
        /\ errs' = [errs EXCEPT ![s] = e] /\ down' \in {down, down \cup {s}}
        /\ UNCHANGED <<startVars, recorded, rec, ret, blamed>>
        /\ UNCHANGED <<taken, held, retryQueue, departed, stopped, cancelled>>
    BY <1>4 DEF LoopFails, Fail, Finish, Release, endVars, firstPassVars, envVars
  <2>2. OwnOK'
    BY <1>t, <2>1 DEF RunInv, OwnOK, startVars, Error
  <2>3. /\ pc'[s] = "failed" /\ errs'[s] # "none"
        /\ \A t \in Slots \ {s} : pc'[t] = pc[t] /\ errs'[t] = errs[t] /\ tcase'[t] = tcase[t]
    BY <1>t, <2>1
  <2> QED BY <1>t, <2>1, <2>2, <2>3, Looping
<1>5. CASE LoopEnds(s)
  <2>1. /\ phase[s] = "loop" /\ pc[s] \in {"failed", "aborting"}
        /\ \/ pc' = [pc EXCEPT ![s] = "aborting"] /\ cancelled' = TRUE /\ stopped' = stopped
           \/ pc' = [pc EXCEPT ![s] = "gone"] /\ cancelled' = cancelled /\ stopped' = TRUE
        /\ UNCHANGED <<startVars, recorded, errs, rec, ret, blamed, down>>
        /\ UNCHANGED <<taken, held, retryQueue, departed, tcase, done>>
    BY <1>5 DEF LoopEnds, Abort, Stop, runVars, endVars, firstPassVars, retryVars, seenVars
  <2>2. OwnOK'
    BY <2>1 DEF RunInv, OwnOK, startVars
  <2>3. /\ pc'[s] \in {"aborting", "gone"} /\ errs[s] # "none"
        /\ \A t \in Slots \ {s} : pc'[t] = pc[t]
    BY <1>t, <2>1 DEF RunInv, LoopInv
  <2> QED BY <1>t, <2>1, <2>2, <2>3, Looping
<1> QED BY <1>1, <1>2, <1>3, <1>4, <1>5

\* When every slot is back and none has an error, every case has been handed
\* out, unless the run was cancelled, and every one handed out is done with.
LEMMA AllBackIsDone ==
    ASSUME Places, RunInv, AllBack, startErr # Slots, Failed = {}
    PROVE  recorded = (IF cancelled THEN taken ELSE Case)
<1>1. recorded = done /\ retryQueue = <<>> /\ ~ stopped
  BY DEF RunInv, LossInv
<1>2. \A s \in Slots : errs[s] = "none"
  BY DEF Failed
<1>t. /\ TicketInv /\ Conservation /\ Exclusive /\ taken \subseteq Case /\ done \subseteq Case
      /\ CursorSound /\ FalseMeansOver
  BY DEF RunInv, QueueInv, TypeInv, TypeOK, QueueOK, SlotOK, PlaceInv, LanesInv
<1>3. ASSUME NEW s \in Slots
      PROVE  /\ tcase[s] = 0 /\ held[s] = <<>>
             /\ phase[s] = "out" \/ s \in departed
  <2>1. CASE phase[s] # "loop"
    BY <1>t, <2>1 DEF RunInv, LoopInv, TicketInv, AllBack, Back
  <2>2. CASE phase[s] = "loop"
    <3>1. pc[s] = "gone"
      BY <2>2 DEF AllBack, Back
    <3>2. s \in departed /\ tcase[s] = 0
      BY <1>1, <1>2, <3>1 DEF RunInv, LoopInv
    <3> QED BY <3>2, <1>t DEF FalseMeansOver
  <2> QED BY <2>1, <2>2
<1>4. done = taken
  <2>1. \A c \in Case : ~ InTicket(c) /\ ~ InHeld(c) /\ c \notin Rng(retryQueue)
    BY <1>1, <1>3, DispatchAssumption DEF InTicket, InHeld, Rng, Case
  <2>2. taken \subseteq done
    BY <1>t, <2>1 DEF Conservation
  <2>3. done \subseteq taken
    BY <1>t DEF Exclusive, InOnePlace
  <2> QED BY <2>2, <2>3
<1>5. ASSUME ~ cancelled PROVE taken = Case
  <2> PICK s \in Slots : s \notin startErr
    BY DEF RunInv, OwnOK
  <2>1. CASE phase[s] = "out"
    BY <1>1, <1>5, <2>1 DEF RunInv, SkippedUnneeded
  <2>2. CASE s \in departed
    BY <1>t, <2>2 DEF FalseMeansOver, LaneMatch, Places
  <2> QED BY <1>3, <2>1, <2>2
<1> QED BY <1>1, <1>4, <1>5

\* The run returns.
LEMMA Returning ==
    ASSUME Places, RunInv, EndSetup \/ EndFailed \/ EndWell
    PROVE  OwnOK' /\ LoopInv' /\ LossInv' /\ TurnInv' /\ SkippedUnneeded' /\ ReturnInv'
<1>0. /\ AllBack /\ UNCHANGED <<vars, startVars, recorded, errs, down>>
      /\ \/ rec' = "discarded" /\ ret' = "setup" /\ blamed' = blamed
         \/ rec' = rec /\ ret' = "error" /\ blamed' \in Slots
         \/ rec' = "kept" /\ ret' = "ok" /\ blamed' = blamed
  BY DEF EndSetup, EndFailed, EndWell, Died, Failed
<1>1. UNCHANGED <<together, phase, served, startErr, begun>>
      /\ UNCHANGED <<taken, held, retryQueue, departed, stopped, cancelled, pc, tcase, done>>
  BY <1>0 DEF startVars, vars, firstPassVars, retryVars, envVars, slotVars, seenVars
<1>2. OwnOK'
  BY <1>0, <1>1 DEF RunInv, OwnOK
<1>3. LoopInv' /\ LossInv' /\ TurnInv' /\ SkippedUnneeded'
  BY <1>0, <1>1 DEF RunInv, LoopInv, LossInv, Failed, TurnInv, SkippedUnneeded
<1>4. AllBack'
  BY <1>0, <1>1 DEF AllBack, Back
<1>5. ASSUME ret' = "ok" PROVE ReturnInv'
  <2>1. EndWell
    BY <1>0, <1>5 DEF EndSetup, EndFailed, EndWell
  <2>2. startErr # Slots /\ Failed = {}
    BY <2>1 DEF EndWell
  <2> QED BY <1>0, <1>1, <1>4, <2>2, AllBackIsDone DEF ReturnInv, OkMeansAll
<1>6. ASSUME ret' # "ok" PROVE ReturnInv'
  BY <1>4, <1>6 DEF ReturnInv, OkMeansAll
<1> QED BY <1>2, <1>3, <1>5, <1>6

\* Every step of the run keeps all of it.
LEMMA RunInvStep == Places => (RunInv /\ [RunNext]_sqlVars => RunInv')
<1> SUFFICES ASSUME Places, RunInv, [RunNext]_sqlVars PROVE RunInv'
  OBVIOUS
<1>1. QueueInv' /\ LanesInv'
  BY RunQueueStep DEF RunInv
<1> DEFINE Rest == OwnOK' /\ LoopInv' /\ LossInv' /\ TurnInv' /\ SkippedUnneeded' /\ ReturnInv'
<1>2. ASSUME NEW s \in Slots, RunStep(s) PROVE Rest
  BY <1>1, <1>2, ComingUp, LoopAsks, LoopRuns DEF RunStep
<1>3. ASSUME EndSetup \/ EndFailed \/ EndWell PROVE Rest
  BY <1>3, Returning
<1>4. ASSUME Signal PROVE Rest
  <2>1. /\ UNCHANGED <<startVars, recorded, errs, rec, ret, blamed, down>>
        /\ ret = "none" /\ cancelled' = TRUE
        /\ UNCHANGED <<taken, held, retryQueue, departed, stopped, pc, tcase, done>>
    BY <1>4 DEF Signal, Cancel, endVars, firstPassVars, retryVars, slotVars, seenVars
  <2>2. UNCHANGED <<together, phase, served, startErr, begun>>
    BY <2>1 DEF startVars
  <2> QED BY <2>1, <2>2 DEF RunInv, OwnOK, LoopInv, LossInv, Failed, TurnInv, SkippedUnneeded,
                          ReturnInv, OkMeansAll
<1>5. ASSUME Ended \/ UNCHANGED sqlVars PROVE Rest
  <2>1. UNCHANGED <<vars, together, phase, served, startErr, begun, recorded, errs, rec, ret,
                    blamed, down>>
    BY <1>5 DEF Ended, sqlVars, runVars, startVars, endVars
  <2>2. UNCHANGED <<taken, held, retryQueue, departed, stopped, cancelled, pc, tcase, done>>
    BY <2>1 DEF vars, firstPassVars, retryVars, envVars, slotVars, seenVars
  <2> QED BY <2>1, <2>2 DEF RunInv, OwnOK, LoopInv, LossInv, Failed, TurnInv, SkippedUnneeded,
                            ReturnInv, AllBack, Back, OkMeansAll
<1> QED BY <1>1, <1>2, <1>3, <1>4, <1>5 DEF RunNext, RunInv

\* So the run is what it promises.
LEMMA SqlFollows == Places => (RunInv => SqlSound)
<1> SUFFICES ASSUME Places, RunInv PROVE SqlSound
  OBVIOUS
<1>1. RunTypeOK
  BY DEF RunInv, QueueInv, TypeInv, OwnOK, RunTypeOK
<1>2. OneServer
  <2> SUFFICES ASSUME ~ together, ~ cancelled, NEW s \in Slots, NEW t \in Slots,
                      phase[s] = "serve", phase[t] = "serve"
               PROVE  s = t
    BY DEF OneServer
  <2>1. ~ (Rank[s] < Rank[t]) /\ ~ (Rank[t] < Rank[s])
    BY DEF RunInv, TurnInv
  <2> QED BY <2>1 DEF Places
<1> QED BY <1>1, <1>2 DEF SqlSound, ServersInTurn, NothingMissed, NoSilentLoss, RunInv,
                          ReturnInv, LossInv

\* Servers come up in turn, a run that returns no error has recorded every case
\* -- or, cancelled, every case it handed out -- a slot that skips its start is
\* not missed, and a case without a verdict makes the run an error.
THEOREM SqlIsSound == ASSUME Places PROVE RunSpec => []SqlSound
  BY SqlFollows, RunInvInit, RunInvStep, PTL DEF RunSpec
=============================================================================
