------------------------------ MODULE Dispatch ------------------------------
(***************************************************************************)
(* The case queue of internal/dispatch and the slots that drain it.        *)
(*                                                                         *)
(* A run hands N cases to a fixed set of slots.  Every queue operation of  *)
(* the code runs under one mutex, so each is one action here: one attempt  *)
(* of ClaimFor (claimOnce), Complete, Stop.  Between them the slots        *)
(* interleave freely, a signal may cancel the run, and the measured        *)
(* resource behind the admission gate may fill and empty.                  *)
(*                                                                         *)
(* A case is its position in the list given to New, so `the first case     *)
(* that ...' is the least number that ....  take() removes a case from the *)
(* window and keeps the rest in order, and scan() marks cases taken by     *)
(* index: both leave `the cases not yet taken, in list order', which is    *)
(* Case \ taken.                                                           *)
(***************************************************************************)
EXTENDS Integers, Sequences, FiniteSets

CONSTANTS
    Slots,      \* the slots that claim cases
    N,          \* how many cases the run has
    Dir,        \* Dir[c]: the cases/ directory case c lives in (dirOf)
    Lanes,      \* Assign or Affinity was called: directories stay with a slot
    DirLane,    \* DirLane[d]: the lane directory d was assigned, fast by default
    SlotLane,   \* SlotLane[s]: the lane slot s claims from
    MaxRetry,   \* testcase_retry_num
    Gate,       \* a hard policy (Headroom) is set
    Heavy,      \* the cases the soft policy (HeavyCap) names; {} when it is nil
    HeavyMax,   \* how many of them it lets run at once
    MayStop,    \* the runner calls Stop when a slot fails (sqlsuite does)
    MayCancel   \* the run's context may be cancelled

Case == 1..N

Lane == {"any", "fast", "slow"}

ASSUME DispatchAssumption ==
    /\ IsFiniteSet(Slots) /\ Slots # {} /\ "none" \notin Slots
    /\ N \in Nat /\ MaxRetry \in Nat /\ HeavyMax \in Nat \ {0}
    /\ Lanes \in BOOLEAN /\ Gate \in BOOLEAN
    /\ MayStop \in BOOLEAN /\ MayCancel \in BOOLEAN
    /\ DOMAIN Dir = Case
    /\ \A c \in Case : DirLane[Dir[c]] \in {"fast", "slow"}
    /\ SlotLane \in [Slots -> Lane]
    /\ Heavy \subseteq Case
    \* planLanes gives both lanes at least one slot, and a slot without lanes
    \* asks for LaneAny.
    /\ \A c \in Case : \E s \in Slots : SlotLane[s] \in {"any", DirLane[Dir[c]]}

VARIABLES
    taken,      \* cases the first pass has handed out or set aside
    cursor,     \* cursor[l]: where a scan for lane l resumes
    owner,      \* owner[c]: the slot that owns c's directory, "none" before
    held,       \* held[s]: cases kept for slot s, oldest first
    retryQueue, \* failed cases waiting for another attempt, oldest first
    retryCount, \* retryCount[c]: the attempt c waits for, 0 when it has none
    queued,     \* cases waiting in held or retryQueue for a retry
    inFlight,   \* how many cases are running
    running,    \* the first-pass cases in flight, which the policies judge by
    departed,   \* slots that were told there is nothing left
    stopped,    \* Stop was called
    full,       \* the gate's resource is over its high-water mark
    cancelled,  \* the run's context is done
    pc,         \* pc[s]: where slot s is in its worker loop
    tcase,      \* tcase[s]: the case of the ticket s holds, 0 when it has none
    tretry,     \* tretry[s]: that ticket's Retry
    tried,      \* cases whose first attempt has ended (observation)
    done        \* cases completed and not to be tried again (observation)

firstPassVars == <<taken, cursor, owner>>
retryVars == <<retryQueue, retryCount, queued>>
envVars == <<stopped, full, cancelled>>
slotVars == <<pc, tcase, tretry>>
seenVars == <<tried, done>>
vars == <<firstPassVars, held, retryVars, inFlight, running, departed,
          envVars, slotVars, seenVars>>

NoSlot == "none"

-----------------------------------------------------------------------------
(* Helpers.  A definition whose name ends in _F is a seeded fault: the one *)
(* that follows it with a plausible bug.  No specification uses it.        *)

\* The first case of a set, in list order.
IsFirst(c, S) == c \in S /\ \A d \in S : c <= d

LaneMatch(c, lane) == lane = "any" \/ DirLane[Dir[c]] = lane

HardAdmits_F == ~ (Gate /\ full /\ running = {})

\* Headroom.Admit: nothing new while the resource is over its mark.
HardAdmits == ~ (Gate /\ full)

SoftAdmits_F(c) ==
    c \notin Heavy \/ Cardinality(running \cap Heavy) <= HeavyMax

\* HeavyCap.Admit: at most HeavyMax of the heavy cases at once.
SoftAdmits(c) ==
    c \notin Heavy \/ Cardinality(running \cap Heavy) < HeavyMax

Admissible_F ==
    LET both == {c \in Case \ taken : HardAdmits /\ SoftAdmits(c)}
    IN  IF both # {} THEN both ELSE {c \in Case \ taken : HardAdmits}

\* admissible(): what both rules allow, else what the constraint allows, else
\* -- only when nothing is running -- whatever is next.
Admissible ==
    LET waiting == Case \ taken
        both    == {c \in waiting : HardAdmits /\ SoftAdmits(c)}
        hard    == {c \in waiting : HardAdmits}
    IN  IF both # {} THEN both
        ELSE IF hard # {} THEN hard
        ELSE IF running = {} THEN waiting
        ELSE {}

\* What scan(slot, lane) looks through: from the lane's cursor on.
Scannable(lane) ==
    {c \in Case : c >= cursor[lane] /\ c \notin taken /\ LaneMatch(c, lane)}

Siblings_F(c) == {d \in Case : d >= c /\ d \notin taken /\ Dir[d] = Dir[c]}

\* The rest of c's directory, which scan() holds for the slot that takes c.
Siblings(c) == {d \in Case : d > c /\ d \notin taken /\ Dir[d] = Dir[c]}

\* The sequences that list S once each, in list order: there is exactly one.
InOrder(S) ==
    {q \in [1..Cardinality(S) -> S] :
        /\ \A i, j \in 1..Cardinality(S) : i < j => q[i] < q[j]
        /\ \A c \in S : \E i \in 1..Cardinality(S) : q[i] = c}

\* The positions of retryQueue a slot may take from, in its lane.
RetryFor(s) ==
    {i \in DOMAIN retryQueue : Lanes => LaneMatch(retryQueue[i], SlotLane[s])}

\* A queue without its i-th element.
Without(q, i) ==
    [j \in 1..(Len(q) - 1) |-> IF j < i THEN q[j] ELSE q[j + 1]]

FirstPassOver_F(s) ==
    IF Lanes THEN Scannable(SlotLane[s]) = {} ELSE Admissible = {}

\* The first pass has nothing for slot s: nothing is held for it and the list
\* has no case its lane may take.
FirstPassOver(s) ==
    /\ held[s] = <<>>
    /\ IF Lanes THEN Scannable(SlotLane[s]) = {} ELSE taken = Case

ExhaustCursor_F(s) ==
    cursor' = IF Lanes THEN [l \in Lane |-> N + 1] ELSE cursor

\* A scan that finds nothing leaves its cursor at the end of the list.
ExhaustCursor(s) ==
    cursor' = IF Lanes THEN [cursor EXCEPT ![SlotLane[s]] = N + 1] ELSE cursor

Quiet_F == inFlight <= 1

\* Retries wait until nothing is running.
Quiet == inFlight = 0

AttemptOf_F(c) == 0

\* The Retry of the ticket a waiting case is handed out with.
AttemptOf(c) == retryCount[c]

Unqueue_F(c) == UNCHANGED queued

\* delete(q.queued, c)
Unqueue(c) == queued' = queued \ {c}

\* take() without its copy: the window moves past its first case.
Take_F(c) ==
    \E d \in Case : IsFirst(d, Case \ taken) /\ taken' = taken \cup {d}

\* take(): c leaves the window and the rest keeps its order.
Take(c) == taken' = taken \cup {c}

\* The slot has a ticket: ClaimFor returned c.
Hand(s, c, retry) ==
    /\ pc' = [pc EXCEPT ![s] = "claimed"]
    /\ tcase' = [tcase EXCEPT ![s] = c]
    /\ tretry' = [tretry EXCEPT ![s] = retry]
    /\ inFlight' = inFlight + 1

-----------------------------------------------------------------------------
(* claimOnce.  A refusal by the policy while cases remain is none of these *)
(* actions: the claimant sleeps admissionPoll and asks again.              *)

Asking(s) == pc[s] = "claim" /\ ~stopped

\* A case held for this slot comes first.
ClaimHeld(s) ==
    /\ Asking(s)
    /\ held[s] # <<>>
    /\ LET c == Head(held[s]) IN
       /\ Hand(s, c, AttemptOf(c))
       /\ Unqueue(c)
    /\ held' = [held EXCEPT ![s] = Tail(@)]
    /\ UNCHANGED <<firstPassVars, retryQueue, retryCount, running, departed,
                   envVars, seenVars>>

\* Without lanes: the first waiting case the policy admits.
ClaimFirst(s) ==
    /\ Asking(s)
    /\ held[s] = <<>>
    /\ ~Lanes
    /\ \E c \in Case :
       /\ IsFirst(c, Admissible)
       /\ Take(c)
       /\ running' = running \cup {c}
       /\ Hand(s, c, 0)
    /\ UNCHANGED <<cursor, owner, held, retryVars, departed, envVars, seenVars>>

\* With lanes: the first unclaimed case of the lane, and with it the rest of
\* its directory, held for this slot.
ClaimScan(s) ==
    /\ Asking(s)
    /\ held[s] = <<>>
    /\ Lanes
    /\ \E c \in Case :
       /\ IsFirst(c, Scannable(SlotLane[s]))
       /\ taken' = taken \cup {c} \cup Siblings(c)
       /\ cursor' = [cursor EXCEPT ![SlotLane[s]] = c + 1]
       /\ owner' = [d \in Case |-> IF Dir[d] = Dir[c] THEN s ELSE owner[d]]
       /\ \E q \in InOrder(Siblings(c)) : held' = [held EXCEPT ![s] = q]
       /\ running' = running \cup {c}
       /\ Hand(s, c, 0)
    /\ UNCHANGED <<retryVars, departed, envVars, seenVars>>

\* The first pass is over for this slot and nothing else is running: the
\* oldest retry of its lane.
ClaimRetry(s) ==
    /\ Asking(s)
    /\ FirstPassOver(s)
    /\ ExhaustCursor(s)
    /\ Quiet
    /\ \E i \in DOMAIN retryQueue :
       /\ IsFirst(i, RetryFor(s))
       /\ retryQueue' = Without(retryQueue, i)
       /\ Unqueue(retryQueue[i])
       /\ Hand(s, retryQueue[i], AttemptOf(retryQueue[i]))
    /\ UNCHANGED <<taken, owner, held, retryCount, running, departed, envVars,
                   seenVars>>

\* Nothing for this slot, now or later: claimOnce answers false, the worker's
\* loop returns and the slot never asks again.
Depart(s) ==
    /\ Asking(s)
    /\ FirstPassOver(s)
    /\ ExhaustCursor(s)
    /\ Quiet => RetryFor(s) = {}
    /\ departed' = departed \cup {s}
    /\ pc' = [pc EXCEPT ![s] = "gone"]
    /\ UNCHANGED <<taken, owner, held, retryVars, inFlight, running, envVars,
                   tcase, tretry, seenVars>>

ClaimStopped_F(s) == pc[s] = "claim" /\ stopped /\ UNCHANGED vars

\* A stopped queue answers false without marking the slot departed.
ClaimStopped(s) ==
    /\ pc[s] = "claim"
    /\ stopped
    /\ pc' = [pc EXCEPT ![s] = "gone"]
    /\ UNCHANGED <<firstPassVars, held, retryVars, inFlight, running, departed,
                   envVars, tcase, tretry, seenVars>>

Claim(s) ==
    \/ ClaimHeld(s)
    \/ ClaimFirst(s)
    \/ ClaimScan(s)
    \/ ClaimRetry(s)
    \/ Depart(s)
    \/ ClaimStopped(s)

-----------------------------------------------------------------------------
(* The worker loop around the queue.                                       *)

\* The worker has a ticket and looks at its context.  A cancelled run returns
\* there and then, with the ticket never completed.
Begin(s) ==
    /\ pc[s] = "claimed"
    /\ pc' = [pc EXCEPT ![s] = IF cancelled THEN "gone" ELSE "run"]
    /\ UNCHANGED <<firstPassVars, held, retryVars, inFlight, running, departed,
                   envVars, tcase, tretry, seenVars>>

OwnerAsks_F(c) == Lanes /\ owner[c] # NoSlot /\ owner[c] \in departed

\* The slot that owns c's directory will ask again.
OwnerAsks(c) == Lanes /\ owner[c] # NoSlot /\ owner[c] \notin departed

\* enqueue(): the case waits for its next attempt, at the slot that owns its
\* directory if that slot still asks, otherwise in the general queue.
Enqueue(c, retry) ==
    /\ retryCount' = [retryCount EXCEPT ![c] = retry]
    /\ queued' = queued \cup {c}
    /\ IF c \in queued
       THEN UNCHANGED <<held, retryQueue>>
       ELSE IF OwnerAsks(c)
       THEN /\ held' = [held EXCEPT ![owner[c]] = Append(@, c)]
            /\ UNCHANGED retryQueue
       ELSE /\ retryQueue' = Append(retryQueue, c)
            /\ UNCHANGED held

Outcome == {"ok", "nok", "core"}

Retrying_F(outcome, retry) == outcome = "nok" /\ retry <= MaxRetry

\* A failure without a core and with retries left is tried again.
Retrying(outcome, retry) == outcome = "nok" /\ retry < MaxRetry

Landed_F == IF inFlight > 1 THEN inFlight - 1 ELSE inFlight

Landed == IF inFlight > 0 THEN inFlight - 1 ELSE inFlight

\* What every Complete does to the ticket slot s holds.
Release(s) ==
    /\ tcase' = [tcase EXCEPT ![s] = 0]
    /\ tretry' = [tretry EXCEPT ![s] = 0]
    /\ inFlight' = Landed
    /\ running' = running \ {tcase[s]}
    /\ tried' = tried \cup {tcase[s]}

\* Complete with nothing to try again.
Finish(s, c) ==
    /\ Release(s)
    /\ retryCount' = [retryCount EXCEPT ![c] = 0]
    /\ Unqueue(c)
    /\ done' = done \cup {c}

\* Complete(t, success, hasCore).
Complete(s, outcome) ==
    /\ pc[s] = "run"
    /\ pc' = [pc EXCEPT ![s] = "claim"]
    /\ \/ /\ Retrying(outcome, tretry[s])
          /\ Release(s)
          /\ Enqueue(tcase[s], tretry[s] + 1)
          /\ UNCHANGED done
       \/ /\ ~ Retrying(outcome, tretry[s])
          /\ Finish(s, tcase[s])
          /\ UNCHANGED <<held, retryQueue>>
    /\ UNCHANGED <<firstPassVars, departed, envVars>>

\* sqlsuite: a slot whose executor died completes its ticket as a pass ...
Fail(s) ==
    /\ MayStop
    /\ pc[s] = "run"
    /\ pc' = [pc EXCEPT ![s] = "failed"]
    /\ Finish(s, tcase[s])
    /\ UNCHANGED <<firstPassVars, held, retryQueue, departed, envVars>>

\* ... and its goroutine cancels the run's context, and then stops the queue.
Abort(s) ==
    /\ pc[s] = "failed"
    /\ pc' = [pc EXCEPT ![s] = "aborting"]
    /\ cancelled' = TRUE
    /\ UNCHANGED <<firstPassVars, held, retryVars, inFlight, running, departed,
                   stopped, full, tcase, tretry, seenVars>>

Stop(s) ==
    /\ pc[s] = "aborting"
    /\ pc' = [pc EXCEPT ![s] = "gone"]
    /\ stopped' = TRUE
    /\ UNCHANGED <<firstPassVars, held, retryVars, inFlight, running, departed,
                   full, cancelled, tcase, tretry, seenVars>>

-----------------------------------------------------------------------------
(* The environment.                                                        *)

\* SIGINT or SIGTERM: signal.NotifyContext cancels the run's context.
Cancel ==
    /\ MayCancel
    /\ ~cancelled
    /\ cancelled' = TRUE
    /\ UNCHANGED <<firstPassVars, held, retryVars, inFlight, running, departed,
                   stopped, full, slotVars, seenVars>>

\* What the gate measures crosses its mark, either way.
Usage ==
    /\ Gate
    /\ full' = ~full
    /\ UNCHANGED <<firstPassVars, held, retryVars, inFlight, running, departed,
                   stopped, cancelled, slotVars, seenVars>>

AllGone == \A s \in Slots : pc[s] = "gone"

\* The run is over: wg.Wait returned.
Over == AllGone /\ UNCHANGED vars

Init ==
    /\ taken = {}
    /\ cursor = [l \in Lane |-> 1]
    /\ owner = [c \in Case |-> NoSlot]
    /\ held = [s \in Slots |-> <<>>]
    /\ retryQueue = <<>>
    /\ retryCount = [c \in Case |-> 0]
    /\ queued = {}
    /\ inFlight = 0
    /\ running = {}
    /\ departed = {}
    /\ stopped = FALSE /\ full = FALSE /\ cancelled = FALSE
    /\ pc = [s \in Slots |-> "claim"]
    /\ tcase = [s \in Slots |-> 0]
    /\ tretry = [s \in Slots |-> 0]
    /\ tried = {} /\ done = {}

Step(s) ==
    \/ Claim(s)
    \/ Begin(s)
    \/ \E outcome \in Outcome : Complete(s, outcome)
    \/ Fail(s)
    \/ Abort(s)
    \/ Stop(s)

Next == (\E s \in Slots : Step(s)) \/ Cancel \/ Usage \/ Over

Spec == Init /\ [][Next]_vars

\* Every slot is a goroutine in a loop: it keeps taking steps while it can.
\* That a case it runs comes back is the timeout monitor's business.
Fairness ==
    \A s \in Slots :
        /\ WF_vars(Claim(s))
        /\ WF_vars(Begin(s))
        /\ WF_vars(\E outcome \in Outcome : Complete(s, outcome))
        /\ WF_vars(Abort(s) \/ Stop(s))

FairSpec == Spec /\ Fairness

\* As if every poll were lucky: a claim the gate lets through again and again
\* does not miss it.  Stronger than the code; a hang under it is no accident of
\* timing.
LuckySpec == FairSpec /\ \A s \in Slots : SF_vars(Claim(s))

-----------------------------------------------------------------------------
(* Derived state and the queue's two questions.                            *)

Rng(q) == {q[i] : i \in DOMAIN q}

Finished_F ==
    stopped \/ (retryQueue = <<>> /\ inFlight = 0 /\ taken = Case)

\* Finished(): all work is done.
Finished ==
    \/ stopped
    \/ /\ retryQueue = <<>>
       /\ inFlight = 0
       /\ \A s \in Slots : held[s] = <<>>
       /\ taken = Case

Drained_F == stopped \/ (retryQueue = <<>> /\ inFlight = 0)

\* Drained(): a claimant arriving now would find nothing to take.
Drained == stopped \/ (retryQueue = <<>> /\ taken = Case)

-----------------------------------------------------------------------------
(* Properties.                                                             *)

PC == {"claim", "claimed", "run", "failed", "aborting", "gone"}

QueueOK ==
    /\ taken \subseteq Case
    /\ cursor \in [Lane -> 1..(N + 1)]
    /\ owner \in [Case -> Slots \cup {NoSlot}]
    /\ running \subseteq Case
    /\ departed \subseteq Slots
    /\ inFlight \in Nat

RetryOK ==
    /\ held \in [Slots -> Seq(Case)]
    /\ retryQueue \in Seq(Case)
    /\ retryCount \in [Case -> 0..MaxRetry]
    /\ queued \subseteq Case

EnvOK == stopped \in BOOLEAN /\ full \in BOOLEAN /\ cancelled \in BOOLEAN

SlotOK ==
    /\ pc \in [Slots -> PC]
    /\ tcase \in [Slots -> 0..N]
    /\ tretry \in [Slots -> 0..MaxRetry]
    /\ tried \subseteq Case
    /\ done \subseteq Case

\* The fields of Queue and the slots' tickets have their types.
TypeOK == QueueOK /\ RetryOK /\ EnvOK /\ SlotOK

Once(q) == \A i, j \in DOMAIN q : q[i] = q[j] => i = j
InTicket(c) == \E s \in Slots : tcase[s] = c
InHeld(c) == \E s \in Slots : c \in Rng(held[s])

\* Nothing is lost: a case still waits, is held for a slot, waits for a retry,
\* is on somebody's ticket, or is done with.
Conservation ==
    \A c \in Case :
        \/ c \notin taken \/ c \in done
        \/ InTicket(c) \/ InHeld(c) \/ c \in Rng(retryQueue)

NoDuplicates == Once(retryQueue) /\ \A s \in Slots : Once(held[s])

SlotsApart ==
    \A s, t \in Slots : s # t =>
        /\ tcase[s] # 0 => tcase[s] # tcase[t]
        /\ Rng(held[s]) \cap Rng(held[t]) = {}

InOnePlace(c) ==
    /\ InTicket(c) => ~ (InHeld(c) \/ c \in Rng(retryQueue))
    /\ InHeld(c) => c \notin Rng(retryQueue)
    /\ c \notin taken \/ c \in done =>
          ~ (InTicket(c) \/ InHeld(c) \/ c \in Rng(retryQueue))
    /\ c \in done => c \in taken

\* And nothing is in two places: no case runs on two slots at once, is offered
\* while it runs, or runs again after its verdict.
Exclusive == NoDuplicates /\ SlotsApart /\ \A c \in Case : InOnePlace(c)

\* inFlight, which decides when retries start, counts the tickets that are out,
\* including those a cancelled slot walked away with.
InFlightCounts == inFlight = Cardinality({s \in Slots : tcase[s] # 0})

\* The queue keeps its cases: each is somewhere, in one place only, and counted
\* (ClaimFor, scan, Complete, enqueue).
QueueSound == TypeOK /\ Conservation /\ Exclusive /\ InFlightCounts

\* The package comment: `every case is tried once, and only when the whole
\* first pass is done does anything get retried'.
FirstPassFirst == \A s \in Slots : tretry[s] > 0 => tried = Case

\* The comment on inFlight: `a retry is only handed out when it is zero, which
\* is what makes the retry pass quiet'.
RetryQuiet == \A s \in Slots : tretry[s] > 0 => inFlight = 1

\* Without lanes a retry comes after the first pass and runs alone.
RetriesWait == FirstPassFirst /\ RetryQuiet

\* shell.go: `the ceiling is a constraint: nothing may cross it' -- nothing new
\* starts over the mark unless nothing is running.
GateHolds ==
    [][running' \ running # {} => ~ (Gate /\ full) \/ running = {}]_vars

\* The heavy cap bends only where there is nothing else to take.
HeavyCapHolds ==
    [][\A c \in running' \ running :
          \/ c \notin Heavy
          \/ Cardinality(running \cap Heavy) < HeavyMax
          \/ Case \ taken \subseteq Heavy]_vars

\* The mark and the cap together: what a first attempt must pass to start.
AdmissionHolds == GateHolds /\ HeavyCapHolds

\* The run ends.
Termination == <>AllGone

-----------------------------------------------------------------------------
(* What a comment or a document says and the code does not have.           *)

\* dispatch.go: the comment on Stop: it `is how a cancelled context reaches a worker between
\* claims'.  A cancelled run ends.
CancelEnds == cancelled ~> AllGone
=============================================================================
