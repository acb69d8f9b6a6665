----------------------------- MODULE CtlProofs -----------------------------
(***************************************************************************)
(* What holds of the isolation controller for every number of clients,     *)
(* every set of scripts and every deadline: a client it has written off    *)
(* has no process any more, and no run leaves one behind; what it believes *)
(* of a client is so; and a run that ends well has run its script.  And    *)
(* what holds of the suite that runs such cases, for every corpus, any     *)
(* number of slots and of dying servers, wherever a run is interrupted or  *)
(* killed.                                                                 *)
(***************************************************************************)
EXTENDS IsolationParts, FiniteSetTheorems, WellFoundedInduction, TLAPS

StateOK == state \in [Clients -> {"running", "ready", "finished"}]

AliveOK == alive \in [Clients -> BOOLEAN]

\* Only a run that is over has a status, and then every client is finished;
\* before the clients are started none is.
Ended ==
    /\ at = "over" => \A c \in Clients : Gone(c)
    /\ ret # -1 => at = "over"
    /\ at = "start" => \A c \in Clients : ~ Gone(c)

GoneInv == StateOK /\ AliveOK /\ FinishedMeansGone /\ Ended

\* A run's status and the controller's view of its clients are untouched by
\* the script statements that only move the reader on.
Quiet == UNCHANGED <<state, alive, ret>>

\* close() leaves what GoneInv says of the clients true.
LEMMA CloseKeeps ==
    ASSUME NEW S, StateOK, AliveOK, FinishedMeansGone, Close(S)
    PROVE  /\ StateOK' /\ AliveOK' /\ FinishedMeansGone'
           /\ \A c \in Clients : c \in S => Gone(c)'
<1> DEFINE gone == {c \in S : ~ Gone(c)}
<1>1. state' = [c \in Clients |-> IF c \in gone THEN "finished" ELSE state[c]]
      /\ alive' = [c \in Clients |-> alive[c] /\ c \notin gone]
  BY DEF Close
<1>2. StateOK'
  BY <1>1, SMT DEF StateOK
<1>3. AliveOK'
  BY <1>1, Zenon DEF AliveOK
<1>4. \A c \in Clients : alive'[c] <=> alive[c] /\ c \notin gone
  BY <1>1, Zenon
<1>5. \A c \in Clients : Gone(c)' <=> c \in gone \/ Gone(c)
  BY <1>1, SMT DEF Gone
<1>6. FinishedMeansGone'
  BY <1>4, <1>5, Zenon DEF FinishedMeansGone
<1>7. \A c \in Clients : c \in S => Gone(c)'
  BY <1>5
<1> QED BY <1>2, <1>3, <1>6, <1>7

\* Return closes every client, so the run it ends satisfies GoneInv.
LEMMA ReturnKeeps ==
    ASSUME NEW status, GoneInv, Return(status)
    PROVE  GoneInv'
<1>1. Close(Clients) /\ at' = "over"
  BY DEF Return, CloseAll
<1>2. StateOK' /\ AliveOK' /\ FinishedMeansGone' /\ \A c \in Clients : Gone(c)'
  BY <1>1, CloseKeeps DEF GoneInv
<1>3. Ended'
  BY <1>1, <1>2 DEF Ended
<1> QED BY <1>2, <1>3 DEF GoneInv

\* A step that leaves the clients alone and neither ends nor begins the run.
LEMMA QuietKeeps ==
    ASSUME GoneInv, Quiet, at' # "start", at' = "over" => at = "over",
           at = "over" => at' = "over"
    PROVE  GoneInv'
  BY DEF GoneInv, StateOK, AliveOK, FinishedMeansGone, Ended, Gone, Quiet

\* A step of a client process can only end it.
LEMMA ClientKeeps ==
    ASSUME GoneInv, UNCHANGED <<state, at, ret>>, AliveOK',
           \A c \in Clients : alive'[c] => alive[c]
    PROVE  GoneInv'
  BY DEF GoneInv, StateOK, AliveOK, FinishedMeansGone, Ended, Gone

\* The loop of endOfInput closes at most the client it is at.
LEMMA EndWithKeeps ==
    ASSUME GoneInv, NEW c, EndWith(c), UNCHANGED ret,
           at # "over", at # "start"
    PROVE  GoneInv'
<1>1. at' = "end"
  BY DEF EndWith, Await
<1>2. CASE Close({c})
  <2>1. StateOK' /\ AliveOK' /\ FinishedMeansGone'
    BY <1>2, CloseKeeps DEF GoneInv
  <2>2. Ended'
    BY <1>1 DEF GoneInv, Ended
  <2> QED BY <2>1, <2>2 DEF GoneInv
<1>3. CASE UNCHANGED <<state, alive>>
  BY <1>1, <1>3, QuietKeeps DEF Quiet
<1> QED BY <1>2, <1>3 DEF EndWith

LEMMA InitGone == Init => GoneInv
  BY DEF Init, GoneInv, StateOK, AliveOK, FinishedMeansGone, Ended, Gone

LEMMA ControllerGone == GoneInv /\ Controller => GoneInv'
<1> SUFFICES ASSUME GoneInv, Controller PROVE GoneInv'
  OBVIOUS
<1> USE DEF Waiting, Waits
<1>1. CASE Select
  BY <1>1, QuietKeeps DEF Select, Quiet, procVars, knownVars
<1>2. CASE Read
  <2>1. PICK c \in Clients : ReadOutput(c) \/ ReadEnd(c) \/ ReadError(c)
    BY <1>2 DEF Read
  <2>2. CASE ReadOutput(c)
    <3>1. UNCHANGED <<at, ret, alive>> /\ at \in Waits
      BY <2>2 DEF ReadOutput, procVars
    <3>2. StateOK' /\ \A d \in Clients : Gone(d)' => Gone(d)
      BY <2>2 DEF ReadOutput, GoneInv, StateOK, Gone
    <3>3. AliveOK' /\ FinishedMeansGone'
      BY <3>1, <3>2 DEF GoneInv, AliveOK, FinishedMeansGone
    <3>4. Ended'
      BY <3>1 DEF GoneInv, Ended
    <3> QED BY <3>2, <3>3, <3>4 DEF GoneInv
  <2>3. CASE ReadEnd(c)
    <3>1. Close({c}) /\ UNCHANGED <<at, ret>> /\ at \in Waits
      BY <2>3 DEF ReadEnd
    <3>2. StateOK' /\ AliveOK' /\ FinishedMeansGone'
      BY <3>1, CloseKeeps DEF GoneInv
    <3>3. Ended'
      BY <3>1 DEF GoneInv, Ended
    <3> QED BY <3>2, <3>3 DEF GoneInv
  <2>4. CASE ReadError(c)
    BY <2>4, QuietKeeps DEF ReadError, Quiet, procVars, knownVars
  <2> QED BY <2>1, <2>2, <2>3, <2>4
<1>3. CASE Reap
  <2>1. UNCHANGED <<at, ret, alive>> /\ at \in Waits
    BY <1>3 DEF Reap, procVars
  <2>2. StateOK' /\ AliveOK' /\ FinishedMeansGone'
    BY <1>3, <2>1 DEF Reap, GoneInv, StateOK, AliveOK, FinishedMeansGone, Gone
  <2>3. Ended'
    BY <2>1 DEF GoneInv, Ended
  <2> QED BY <2>2, <2>3 DEF GoneInv
<1>4. CASE Warn
  BY <1>4, QuietKeeps DEF Warn, TimedOut, Quiet, procVars, knownVars
<1>5. CASE GiveUp \/ StartFails \/ Refuse \/ SendFails \/ EndOver
  BY <1>5, ReturnKeeps DEF GiveUp, StartFails, Refuse, SendFails, EndOver
<1>6. CASE PauseOver
  BY <1>6, QuietKeeps DEF PauseOver, TimedOut, Continue, Quiet, procVars, knownVars
<1>7. CASE Start
  <2>1. at = "start" /\ at' = "init" /\ UNCHANGED <<ret, state>>
        /\ alive' = [c \in Clients |-> TRUE]
    BY <1>7 DEF Start, Await, knownVars
  <2> QED BY <2>1 DEF GoneInv, StateOK, AliveOK, FinishedMeansGone, Ended, Gone
<1>8. CASE InitNext
  BY <1>8, QuietKeeps DEF InitNext, Await, Continue, Quiet, procVars, knownVars
<1>9. CASE Skip \/ SendIgnored
  BY <1>9, QuietKeeps DEF Skip, SendIgnored, Fetching, Quiet, procVars, knownVars,
     waitVars
<1>10. CASE Wait \/ SendWait
  <2>1. Quiet /\ at = "fetch"
    BY <1>10 DEF Wait, SendWait, Fetching, Quiet, procVars, knownVars
  <2>2. at' \in {"ready", "blocked", "unblocked", "send"}
    BY <1>10 DEF Wait, SendWait, Await
  <2> QED BY <2>1, <2>2, QuietKeeps
<1>11. CASE WaitOver \/ Pause
  BY <1>11, QuietKeeps DEF WaitOver, Pause, Fetching, Continue, Quiet, procVars,
     knownVars
<1>12. CASE Send
  <2>1. at = "send" /\ at' = "fetch" /\ UNCHANGED <<ret, alive>>
        /\ state' = [state EXCEPT ![who] = "running"]
    BY <1>12 DEF Send, Continue, procVars
  <2>2. StateOK' /\ AliveOK' /\ FinishedMeansGone'
    BY <2>1 DEF GoneInv, StateOK, AliveOK, FinishedMeansGone, Gone
  <2>3. Ended'
    BY <2>1 DEF GoneInv, Ended
  <2> QED BY <2>2, <2>3 DEF GoneInv
<1>13. CASE EndOfInput
  BY <1>13, EndWithKeeps DEF EndOfInput
<1>14. CASE EndNext
  <2> DEFINE c == IF step = "next" THEN who ELSE who + 1
  <2>1. EndWith(c) /\ at = "end" /\ UNCHANGED ret
    BY <1>14 DEF EndNext
  <2> QED BY <2>1, EndWithKeeps
<1> QED BY <1>1, <1>2, <1>3, <1>4, <1>5, <1>6, <1>7, <1>8, <1>9, <1>10, <1>11,
           <1>12, <1>13, <1>14 DEF Controller

\* Clients die, answer and block by themselves; they are never started again.
LEMMA ExternalGone == GoneInv /\ External => GoneInv'
<1> SUFFICES ASSUME GoneInv, External PROVE GoneInv'
  OBVIOUS
<1>1. CASE ProbeDies
  <2>1. UNCHANGED <<state, at, ret, alive>>
    BY <1>1 DEF ProbeDies, waitVars, knownVars, procVars
  <2>2. AliveOK' /\ \A d \in Clients : alive'[d] => alive[d]
    BY <2>1 DEF GoneInv, AliveOK
  <2> QED BY <2>1, <2>2, ClientKeeps
<1>2. CASE \E c \in Clients :
               Take(c) \/ Answer(c) \/ AnswerHalf(c) \/ Lock(c) \/ Crash(c)
  <2>1. PICK c \in Clients :
            Take(c) \/ Answer(c) \/ AnswerHalf(c) \/ Lock(c) \/ Crash(c)
    BY <1>2
  <2>2. UNCHANGED <<state, at, ret>>
    BY <2>1, Zenon DEF Take, Answer, AnswerHalf, Lock, Crash, waitVars, knownVars
  <2>3. UNCHANGED alive \/ alive' = [alive EXCEPT ![c] = FALSE]
    BY <2>1, Zenon DEF Take, Answer, AnswerHalf, Lock, Crash
  <2>4. AliveOK' /\ \A d \in Clients : alive'[d] => alive[d]
    BY <2>3 DEF GoneInv, AliveOK
  <2> QED BY <2>2, <2>4, ClientKeeps
<1> QED BY <1>1, <1>2 DEF External

LEMMA GoneStep == GoneInv /\ [Next]_vars => GoneInv'
<1> SUFFICES ASSUME GoneInv, [Next]_vars PROVE GoneInv'
  OBVIOUS
<1>1. CASE Controller
  BY <1>1, ControllerGone
<1>2. CASE External
  BY <1>2, ExternalGone
<1>3. CASE UNCHANGED vars
  <2>1. UNCHANGED <<state, alive, at, ret>>
    BY <1>3 DEF vars, waitVars, knownVars, procVars
  <2> QED BY <2>1 DEF GoneInv, StateOK, AliveOK, FinishedMeansGone, Ended, Gone
<1> QED BY <1>1, <1>2, <1>3, Zenon DEF Next, Over

\* The inductive invariant: every client the controller counts as finished has
\* no process, a run that is over has finished them all, and one that has not
\* begun has finished none -- without which Start could revive one.
THEOREM GoneInvariant == Spec => []GoneInv
  BY InitGone, GoneStep, PTL DEF Spec

\* reap(), close() and the deferred killAll: a client is marked finished only
\* when its process is gone, so a statement ignored for it is one nobody could
\* have answered; and from wherever Run returns, and with whatever status, no
\* client process of the case is left.
THEOREM NoneLeftBehind == Spec => []NoneForgotten
<1>1. GoneInv => NoneForgotten
  BY DEF GoneInv, NoneForgotten, NoClientLeft, Ended, FinishedMeansGone
<1> QED BY <1>1, GoneInvariant, PTL

-----------------------------------------------------------------------------
(* What the controller believes, and what it has been told.                *)

\* Where the marker ends are in what a client has said and nobody has read.
Tails(p) == {i \in DOMAIN p : p[i] = "tail"}

\* Every answer came in one piece.
Paired(p) == \A i \in DOMAIN p : p[i] = "tail" => i > 1 /\ p[i - 1] = "head"

Idle(c) == inbox[c] = <<>> /\ doing[c] = 0 /\ outPipe[c] = <<>>

\* Among the statements before the n-th: the ones that ask client c for
\* answers, the answers they ask for, and whether one of them told it to quit.
Asked(c, n) ==
    {i \in DOMAIN script :
        /\ i < n
        /\ script[i].op = "send" /\ script[i].client = c
        /\ \A j \in 1..i :
              ~ (script[j].op = "send" /\ script[j].client = c /\ script[j].quit)}

WantedTo(c, n) == UNION {{i} \X (1..script[i].count) : i \in Asked(c, n)}

Told(c, n) ==
    \E j \in DOMAIN script :
        j < n /\ script[j].op = "send" /\ script[j].client = c /\ script[j].quit

\* What the line in a client's stdin will make it answer.
Due(c) ==
    IF inbox[c] # <<>> /\ ~ Head(inbox[c]).quit THEN Head(inbox[c]).count ELSE 0

\* A line waits only for a client that is idle, and an answer that is not long
\* comes in one piece.
PipesInv(c) ==
    /\ Len(inbox[c]) <= 1
    /\ inbox[c] # <<>> => doing[c] = 0 /\ outPipe[c] = <<>>
    /\ script \notin Long => ~ half[c] /\ Paired(outPipe[c])

\* The client endOfInput waits for may have been written its `quit'.
Leaving(c) == at = "end" /\ who = c /\ step # "next"

BeliefInv(c) ==
    /\ state[c] = "ready" =>
          /\ doing[c] = 0 /\ outPipe[c] = <<>>
          /\ inbox[c] # <<>> => Leaving(c) /\ Head(inbox[c]).quit
    /\ state[c] = "running" =>
          /\ pending[c] >= Outstanding(c)
          /\ alive[c] /\ script \notin Long => pending[c] = Outstanding(c)

\* A client that was told to quit says nothing more; and, unless one died by
\* itself, only those that were told have gone.
ToldInv(c) ==
    /\ Told(c, next) =>
          \/ Gone(c)
          \/ /\ state[c] = "running" /\ doing[c] = 0 /\ outPipe[c] = <<>>
             /\ inbox[c] # <<>> => Head(inbox[c]).quit
    /\ inbox[c] # <<>> /\ at # "end" => (Head(inbox[c]).quit => Told(c, next))
    /\ ~ crashed /\ at \notin {"start", "end"} /\ ~ alive[c] => Told(c, next)

\* Unless one died by itself, one that has gone owed nothing, and each has
\* answered or will answer exactly what the statements so far asked of it.
CountInv(c) ==
    /\ IsFiniteSet(WantedTo(c, next))
    /\ ~ crashed /\ at # "start" =>
          /\ ~ alive[c] => Idle(c)
          /\ answered[c] + doing[c] + Due(c) = 1 + Cardinality(WantedTo(c, next))

ClientInv(c) == PipesInv(c) /\ BeliefInv(c) /\ ToldInv(c) /\ CountInv(c)

\* Where the controller is.
PlaceInv ==
    /\ step = "next" => at \in {"end", "over"}
    /\ at \in Waits \ {"pause"} /\ step # "next" => who \in Clients
    /\ at = "send" => /\ next <= Len(script)
                      /\ Cmd.op = "send" /\ Cmd.client = who
    /\ at = "end" => /\ next = Len(script) + 1
                     /\ \A c \in Clients : c < who => Gone(c)

\* What the last select found is still there to be read, of clients that have
\* not been written off since.
ScanInv ==
    at # "over" /\ step = "read" =>
        \A c \in Clients, fd \in {"out", "err"} :
            <<c, fd>> \in toRead =>
                ~ Gone(c) /\ (fd = "out" => outPipe[c] # <<>> \/ ~ alive[c])

FreshInv ==
    at = "start" =>
        /\ next = 1
        /\ \A c \in Clients :
              /\ state[c] = "running" /\ pending[c] = 1 /\ Idle(c)
              /\ answered[c] = 0 /\ ~ alive[c] /\ ~ half[c]

CtlInv ==
    /\ TypeOK /\ GoneInv /\ PlaceInv /\ ScanInv /\ FreshInv /\ RunComplete
    /\ at # "over" => \A c \in Clients : ClientInv(c)

-----------------------------------------------------------------------------
(* What is in a pipe.                                                      *)

LEMMA PipeSets ==
    ASSUME NEW p \in Seq(Halves)
    PROVE  /\ IsFiniteSet(Tails(p)) /\ Cardinality(Tails(p)) \in Nat
           /\ Markers(p) \in Nat
<1> DEFINE marks == {i \in 1..(Len(p) - 1) : p[i] = "head" /\ p[i + 1] = "tail"}
<1>1. Len(p) \in Nat /\ DOMAIN p = 1..Len(p)
  OBVIOUS
<1>2. IsFiniteSet(1..Len(p)) /\ IsFiniteSet(1..(Len(p) - 1))
  BY <1>1, FS_Interval
<1>3. Tails(p) \in SUBSET (1..Len(p)) /\ marks \in SUBSET (1..(Len(p) - 1))
  BY <1>1 DEF Tails
<1>4. IsFiniteSet(Tails(p)) /\ IsFiniteSet(marks)
  BY <1>2, <1>3, FS_Subset
<1>5. Cardinality(Tails(p)) \in Nat /\ Cardinality(marks) \in Nat
  BY <1>4, FS_CardinalityType
<1> QED BY <1>4, <1>5 DEF Markers

\* A chunk has a marker for each tail in it, but for the tails whose head an
\* earlier read took.
LEMMA MarkersOfTails ==
    ASSUME NEW p \in Seq(Halves)
    PROVE  /\ Markers(p) <= Cardinality(Tails(p))
           /\ Paired(p) => Markers(p) = Cardinality(Tails(p))
<1> DEFINE marks == {i \in 1..(Len(p) - 1) : p[i] = "head" /\ p[i + 1] = "tail"}
           f == [i \in marks |-> i + 1]
<1>1. Len(p) \in Nat /\ DOMAIN p = 1..Len(p)
  OBVIOUS
<1>2. \A i \in marks : i \in Int /\ i + 1 \in Tails(p)
  BY <1>1 DEF Tails
<1>3. f \in Injection(marks, Tails(p))
  <2>1. f \in [marks -> Tails(p)]
    BY <1>2
  <2>2. \A a, b \in marks : f[a] = f[b] => a = b
    BY <1>2
  <2> QED BY <2>1, <2>2 DEF Injection, IsInjective
<1>4. IsFiniteSet(Tails(p))
  BY PipeSets
<1> HIDE DEF marks, f
<1>5. /\ Cardinality(marks) <= Cardinality(Tails(p))
      /\ Cardinality(marks) = Cardinality(Tails(p)) <=> f \in Surjection(marks, Tails(p))
  BY <1>3, <1>4, FS_Injection
<1> USE DEF marks, f
<1>6. ASSUME Paired(p) PROVE f \in Surjection(marks, Tails(p))
  <2>1. ASSUME NEW t \in Tails(p) PROVE \E i \in marks : f[i] = t
    <3>1. t \in 1..Len(p) /\ p[t] = "tail" /\ t > 1 /\ p[t - 1] = "head"
      BY <1>1, <1>6, <2>1 DEF Tails, Paired
    <3>2. t - 1 \in 1..(Len(p) - 1) /\ p[(t - 1) + 1] = "tail"
      BY <1>1, <3>1
    <3>3. t - 1 \in marks /\ f[t - 1] = t
      BY <3>1, <3>2
    <3> QED BY <3>3
  <2> QED BY <2>1, <1>3 DEF Surjection, Injection, IsInjective
<1> QED BY <1>5, <1>6 DEF Markers

LEMMA OneLine ==
    ASSUME NEW S, NEW q \in Seq(S), Len(q) <= 1, q # <<>>
    PROVE  Tail(q) = <<>>
<1>1. Len(q) = 1
  <2>1. Len(q) \in Nat /\ (Len(q) = 0 => q = <<>>)
    OBVIOUS
  <2> QED BY <2>1
<1>2. Tail(q) \in Seq(S) /\ Len(Tail(q)) = 0
  BY <1>1
<1> QED BY <1>2

LEMMA EmptyPipe == Tails(<<>>) = {} /\ Cardinality(Tails(<<>>)) = 0 /\ Paired(<<>>)
<1>1. Tails(<<>>) = {} /\ Paired(<<>>)
  BY DEF Tails, Paired
<1> QED BY <1>1, FS_EmptySet, Zenon

\* What an answer adds to a pipe.
LEMMA PipeGrows ==
    ASSUME NEW p \in Seq(Halves)
    PROVE  /\ p \o <<"tail">> \in Seq(Halves)
           /\ Cardinality(Tails(p \o <<"tail">>)) = Cardinality(Tails(p)) + 1
           /\ p \o <<"head", "tail">> \in Seq(Halves)
           /\ Cardinality(Tails(p \o <<"head", "tail">>)) = Cardinality(Tails(p)) + 1
           /\ Paired(p) => Paired(p \o <<"head", "tail">>)
           /\ Append(p, "head") \in Seq(Halves)
           /\ Tails(Append(p, "head")) = Tails(p)
<1>1. Len(p) \in Nat /\ DOMAIN p = 1..Len(p) /\ IsFiniteSet(Tails(p))
  BY PipeSets
<1> DEFINE q == p \o <<"tail">>
           r == p \o <<"head", "tail">>
<1>4. /\ q \in Seq(Halves) /\ Len(q) = Len(p) + 1 /\ DOMAIN q = 1..Len(q)
      /\ \A i \in 1..Len(p) : q[i] = p[i]
      /\ q[Len(p) + 1] = "tail"
  BY <1>1 DEF Halves
<1>5. /\ r \in Seq(Halves) /\ Len(r) = Len(p) + 2 /\ DOMAIN r = 1..Len(r)
      /\ \A i \in 1..Len(p) : r[i] = p[i]
      /\ r[Len(p) + 1] = "head" /\ r[Len(p) + 2] = "tail"
  BY <1>1 DEF Halves
<1> HIDE DEF q, r
<1>6. Tails(q) = Tails(p) \cup {Len(p) + 1} /\ Len(p) + 1 \notin Tails(p)
  BY <1>1, <1>4 DEF Tails
<1>7. Tails(r) = Tails(p) \cup {Len(p) + 2} /\ Len(p) + 2 \notin Tails(p)
  BY <1>1, <1>5 DEF Tails
<1>8. Paired(p) => Paired(r)
  BY <1>1, <1>5 DEF Paired
<1>9. Append(p, "head") \in Seq(Halves) /\ Tails(Append(p, "head")) = Tails(p)
  BY <1>1 DEF Tails, Halves
<1>10. /\ Cardinality(Tails(q)) = Cardinality(Tails(p)) + 1
       /\ Cardinality(Tails(r)) = Cardinality(Tails(p)) + 1
  <2>1. \A x : x \notin Tails(p) =>
            Cardinality(Tails(p) \cup {x}) = Cardinality(Tails(p)) + 1
    BY <1>1, FS_AddElement, Zenon
  <2> QED BY <1>6, <1>7, <2>1, Zenon
<1> QED BY <1>4, <1>5, <1>8, <1>9, <1>10 DEF q, r

-----------------------------------------------------------------------------
(* What the statements before the n-th asked for.                          *)

LEMMA ScriptType ==
    ASSUME TypeOK
    PROVE  /\ script \in Seq(Command) /\ Len(script) \in Nat
           /\ DOMAIN script = 1..Len(script) /\ next \in Nat
           /\ \A i \in DOMAIN script : script[i] \in Command
  BY CtlAssumption DEF TypeOK, ControlOK

LEMMA AllAsked ==
    ASSUME TypeOK, NEW c
    PROVE  Wanted(c) = WantedTo(c, Len(script) + 1)
<1>1. \A i \in DOMAIN script : i < Len(script) + 1
  BY ScriptType
<1> QED BY <1>1, Zenon DEF Wanted, WantedTo, Asked

LEMMA NothingAsked ==
    ASSUME TypeOK, NEW c
    PROVE  /\ ~ Told(c, 1)
           /\ IsFiniteSet(WantedTo(c, 1)) /\ Cardinality(WantedTo(c, 1)) = 0
<1>1. \A i \in DOMAIN script : ~ (i < 1)
  BY ScriptType
<1>2. Asked(c, 1) = {} /\ ~ Told(c, 1)
  BY <1>1 DEF Asked, Told
<1>3. WantedTo(c, 1) = {}
  BY <1>2 DEF WantedTo
<1> QED BY <1>2, <1>3, FS_EmptySet

\* A statement that is not for c asks nothing of it ...
LEMMA NotAsked ==
    ASSUME TypeOK, NEW c, next <= Len(script),
           ~ (script[next].op = "send" /\ script[next].client = c)
    PROVE  /\ Told(c, next + 1) <=> Told(c, next)
           /\ WantedTo(c, next + 1) = WantedTo(c, next)
<1>1. \A i \in DOMAIN script : i < next + 1 <=> i < next \/ i = next
  BY ScriptType
<1>2. Told(c, next + 1) <=> Told(c, next)
  BY <1>1 DEF Told
<1>3. Asked(c, next + 1) = Asked(c, next)
  BY <1>1 DEF Asked
<1> QED BY <1>2, <1>3 DEF WantedTo

\* ... nor does one it will not see, being told to quit before.
LEMMA AskedTooLate ==
    ASSUME TypeOK, NEW c, Told(c, next)
    PROVE  Told(c, next + 1) /\ WantedTo(c, next + 1) = WantedTo(c, next)
<1>1. /\ \A i \in DOMAIN script : i < next + 1 <=> i < next \/ i = next
      /\ \A i, j \in DOMAIN script : j < i => j \in 1..i
  BY ScriptType
<1>2. PICK j \in DOMAIN script :
          j < next /\ script[j].op = "send" /\ script[j].client = c /\ script[j].quit
  BY DEF Told
<1>3. Told(c, next + 1)
  BY <1>1, <1>2, Zenon DEF Told
<1>4. next \in DOMAIN script => j \in 1..next
  BY <1>1, <1>2
<1>5. Asked(c, next + 1) = Asked(c, next)
  BY <1>1, <1>2, <1>4 DEF Asked
<1> QED BY <1>3, <1>5 DEF WantedTo

\* One that is for a client not told to quit asks for its count, unless it
\* tells the client to quit.
LEMMA AskedNow ==
    ASSUME TypeOK, NEW c, next <= Len(script), ~ Told(c, next),
           script[next].op = "send", script[next].client = c,
           IsFiniteSet(WantedTo(c, next))
    PROVE  /\ Told(c, next + 1) <=> script[next].quit
           /\ IsFiniteSet(WantedTo(c, next + 1))
           /\ Cardinality(WantedTo(c, next + 1)) =
                Cardinality(WantedTo(c, next))
                + (IF script[next].quit THEN 0 ELSE script[next].count)
<1>0. next \in DOMAIN script /\ script[next] \in Command
  BY ScriptType DEF TypeOK, ControlOK
<1>1. \A i \in DOMAIN script : i < next + 1 <=> i < next \/ i = next
  BY ScriptType
<1>2. Told(c, next + 1) <=> script[next].quit
  BY <1>0, <1>1 DEF Told
<1>3. CASE script[next].quit
  <2>1. next \in 1..next
    BY ScriptType, <1>0
  <2>2. Asked(c, next + 1) = Asked(c, next)
    BY <1>1, <1>3, <2>1 DEF Asked
  <2>3. WantedTo(c, next + 1) = WantedTo(c, next)
    BY <2>2 DEF WantedTo
  <2>4. Cardinality(WantedTo(c, next)) \in Nat
    BY FS_CardinalityType
  <2> QED BY <1>2, <1>3, <2>3, <2>4
<1>4. CASE ~ script[next].quit
  <2> DEFINE n == script[next].count
             new == {next} \X (1..n)
  <2>1. \A j \in 1..next :
            ~ (script[j].op = "send" /\ script[j].client = c /\ script[j].quit)
    <3>1. \A j \in 1..next : j \in DOMAIN script /\ (j < next \/ j = next)
      BY ScriptType, <1>0
    <3> QED BY <3>1, <1>4 DEF Told
  <2>2. Asked(c, next + 1) = Asked(c, next) \cup {next} /\ next \notin Asked(c, next)
    BY <1>0, <1>1, <2>1, ScriptType DEF Asked
  <2>3. WantedTo(c, next + 1) = WantedTo(c, next) \cup new
    BY <2>2 DEF WantedTo
  <2>4. WantedTo(c, next) \cap new = {}
    BY <2>2 DEF WantedTo
  <2>5. n \in Nat \ {0}
    BY <1>0 DEF Command
  <2>6. IsFiniteSet(new) /\ Cardinality(new) = n
    <3>1. IsFiniteSet({next}) /\ Cardinality({next}) = 1
      BY FS_Singleton
    <3>2. IsFiniteSet(1..n) /\ Cardinality(1..n) = n
      <4> HIDE DEF n
      <4>1. IsFiniteSet(1..n) /\ Cardinality(1..n) = IF 1 > n THEN 0 ELSE n - 1 + 1
        BY <2>5, FS_Interval
      <4> QED BY <2>5, <4>1
    <3>3. IsFiniteSet(new) /\ Cardinality(new) = Cardinality({next}) * Cardinality(1..n)
      BY <3>1, <3>2, FS_Product
    <3> QED BY <3>1, <3>2, <3>3, <2>5
  <2> HIDE DEF new, n
  <2>7. /\ IsFiniteSet(WantedTo(c, next) \cup new)
        /\ Cardinality(WantedTo(c, next) \cup new) =
             Cardinality(WantedTo(c, next)) + n - Cardinality({})
    BY <2>4, <2>6, FS_Union
  <2>8. Cardinality(WantedTo(c, next)) \in Nat /\ Cardinality({}) = 0
    BY FS_CardinalityType, FS_EmptySet
  <2>9. Cardinality(WantedTo(c, next + 1)) = Cardinality(WantedTo(c, next)) + n
    <3>1. Cardinality(WantedTo(c, next) \cup new) = Cardinality(WantedTo(c, next)) + n
      BY <2>5, <2>7, <2>8
    <3> QED BY <2>3, <3>1, Zenon
  <2> QED BY <1>2, <1>4, <2>3, <2>7, <2>9 DEF n
<1> QED BY <1>3, <1>4

-----------------------------------------------------------------------------
(* Types.                                                                  *)

clientVars == <<inbox, doing, outPipe, answered>>
flagVars == <<long, probe, crashed, tran, alive, locked, half, errPipe>>

LEMMA FlagsKept == FlagsOK /\ UNCHANGED flagVars => FlagsOK'
  BY Zenon DEF FlagsOK, flagVars

LEMMA ClientKept == ClientOK /\ UNCHANGED clientVars => ClientOK'
  BY DEF ClientOK, clientVars

LEMMA CloseTypes ==
    ASSUME TypeOK, NEW S, Close(S)
    PROVE  /\ state' \in [Clients -> {"running", "ready", "finished"}]
           /\ alive' \in [Clients -> BOOLEAN] /\ locked' \in [Clients -> BOOLEAN]
           /\ doing' \in [Clients -> Nat]
<1>1. state' \in [Clients -> {"running", "ready", "finished"}]
  BY DEF Close, TypeOK, ControlOK
<1>2. alive' \in [Clients -> BOOLEAN] /\ locked' \in [Clients -> BOOLEAN]
  BY Zenon DEF Close
<1>3. doing' \in [Clients -> Nat]
  BY DEF Close, TypeOK, ClientOK
<1> QED BY <1>1, <1>2, <1>3

LEMMA ReturnTypes ==
    ASSUME TypeOK, NEW status \in {0, 1}, Return(status)
    PROVE  TypeOK'
<1>1. Close(Clients)
  BY DEF Return, CloseAll
<1>2. ControlOK'
  BY <1>1, CloseTypes DEF Return, TypeOK, ControlOK
<1>3. FlagsOK'
  BY <1>1, CloseTypes, Zenon DEF Return, TypeOK, FlagsOK, pipeVars
<1>4. ClientOK'
  BY <1>1, CloseTypes DEF Return, TypeOK, ClientOK, pipeVars
<1> QED BY <1>2, <1>3, <1>4 DEF TypeOK

LEMMA AwaitTypes ==
    ASSUME TypeOK, NEW kind \in Waits, NEW c \in 1..(K + 1), Await(kind, c)
    PROVE  /\ at' \in Waits /\ step' = "check" /\ who' = c /\ toRead' = toRead
           /\ left' \in 0..(Rounds + DeadlockPause) /\ long' \in BOOLEAN
<1>1. Rounds \in Nat
  BY CtlAssumption
<1>2. /\ at' = kind /\ step' = "check" /\ who' = c /\ toRead' = toRead
      /\ left' = Rounds /\ long' = FALSE
  BY DEF Await
<1>3. left' \in 0..(Rounds + DeadlockPause)
  BY <1>1, <1>2 DEF DeadlockPause
<1> QED BY <1>2, <1>3, Zenon

\* The waits.
LEMMA WaitTypes ==
    ASSUME TypeOK, Select \/ Warn \/ PauseOver \/ Reap \/ Pause
    PROVE  TypeOK'
<1> USE CtlAssumption DEF TypeOK, ControlOK, Waiting, DeadlockPause
<1>1. ClientOK'
  BY ClientKept DEF Select, Warn, PauseOver, Reap, Pause, clientVars,
     pipeVars, procVars
<1>2. FlagsOK'
  <2>1. CASE Warn
    <3>1. long' = TRUE /\ UNCHANGED <<probe, knownVars, pipeVars, procVars>> /\ FlagsOK
      BY <2>1 DEF Warn
    <3> QED BY <3>1, Zenon DEF FlagsOK, knownVars, pipeVars, procVars
  <2>2. CASE Select \/ PauseOver \/ Reap \/ Pause
    <3>1. UNCHANGED flagVars
      BY <2>2 DEF Select, PauseOver, Reap, Pause, Continue, flagVars, knownVars,
         pipeVars, procVars
    <3> QED BY <3>1, FlagsKept
  <2> QED BY <2>1, <2>2
<1>3. CASE Select
  <2>1. toRead' \subseteq Clients \X {"out", "err"}
    BY <1>3 DEF Select, Live
  <2>2. left' \in 0..(Rounds + DeadlockPause) /\ step' \in {"reap", "read"}
    BY <1>3 DEF Select, HasTime
  <2> QED BY <1>1, <1>2, <1>3, <2>1, <2>2 DEF Select, knownVars
<1>4. CASE Warn
  BY <1>1, <1>2, <1>4 DEF Warn, knownVars
<1>5. CASE PauseOver
  BY <1>1, <1>2, <1>5 DEF PauseOver, Continue, knownVars
<1>6. CASE Reap
  <2>1. state' \in [Clients -> {"running", "ready", "finished"}]
    BY <1>6 DEF Reap
  <2> QED BY <1>1, <1>2, <1>6, <2>1 DEF Reap
<1>7. CASE Pause
  BY <1>1, <1>2, <1>7 DEF Pause, Fetching, Advance, knownVars, Waits
<1> QED BY <1>3, <1>4, <1>5, <1>6, <1>7

\* The reads.
LEMMA ReadTypes ==
    ASSUME TypeOK, NEW c \in Clients, ReadOutput(c) \/ ReadEnd(c) \/ ReadError(c)
    PROVE  TypeOK'
<1> USE DEF TypeOK, Waiting
<1>1. toRead' \subseteq Clients \X {"out", "err"} /\ step' \in {"check", "read"}
  BY DEF ReadOutput, ReadEnd, ReadError, ReadNext, ControlOK
<1>2. CASE ReadOutput(c)
  <2>1. outPipe[c] \in Seq(Halves)
    BY DEF ClientOK
  <2>2. Markers(outPipe[c]) \in Nat
    BY <2>1, PipeSets
  <2>3. /\ state' \in [Clients -> {"running", "ready", "finished"}]
        /\ pending' \in [Clients -> Int]
    BY <1>2, <2>2 DEF ReadOutput, ControlOK
  <2>4. ControlOK'
    BY <1>1, <1>2, <2>3 DEF ReadOutput, ControlOK
  <2>5. FlagsOK'
    <3>1. /\ tran' = [tran EXCEPT ![c] = TRUE] /\ FlagsOK
          /\ UNCHANGED <<long, probe, errPipe, procVars>>
      BY <1>2 DEF ReadOutput
    <3> QED BY <3>1, Zenon DEF FlagsOK, procVars
  <2>6. ClientOK'
    <3>1. outPipe' = [outPipe EXCEPT ![c] = <<>>] /\ UNCHANGED <<inbox, doing, answered>>
      BY <1>2 DEF ReadOutput, procVars
    <3>2. outPipe' \in [Clients -> Seq(Halves)]
      BY <3>1 DEF ClientOK
    <3> QED BY <3>1, <3>2 DEF ClientOK
  <2> QED BY <2>4, <2>5, <2>6
<1>3. CASE ReadEnd(c)
  <2>1. Close({c})
    BY <1>3 DEF ReadEnd
  <2>2. ControlOK'
    BY <1>1, <1>3, <2>1, CloseTypes DEF ReadEnd, ControlOK
  <2>3. FlagsOK'
    BY <1>3, <2>1, CloseTypes, Zenon DEF ReadEnd, FlagsOK, pipeVars
  <2>4. ClientOK'
    BY <1>3, <2>1, CloseTypes DEF ReadEnd, ClientOK, pipeVars
  <2> QED BY <2>2, <2>3, <2>4
<1>4. CASE ReadError(c)
  <2>1. ControlOK'
    BY <1>1, <1>4 DEF ReadError, ControlOK, knownVars
  <2>2. FlagsOK'
    <3>1. /\ errPipe' = [errPipe EXCEPT ![c] = FALSE] /\ FlagsOK
          /\ UNCHANGED <<long, probe, knownVars, procVars>>
      BY <1>4 DEF ReadError
    <3> QED BY <3>1, Zenon DEF FlagsOK, knownVars, procVars
  <2>3. ClientOK'
    BY <1>4, ClientKept DEF ReadError, clientVars, procVars
  <2> QED BY <2>1, <2>2, <2>3
<1> QED BY <1>2, <1>3, <1>4


\* The script's statements.
LEMMA FetchTypes ==
    ASSUME TypeOK, Skip \/ Wait \/ SendIgnored \/ SendWait \/ WaitOver
    PROVE  TypeOK'
<1> USE DEF TypeOK, Waiting
<1>1. ClientOK'
  BY ClientKept DEF Skip, Wait, SendIgnored, SendWait, WaitOver, clientVars,
     pipeVars, procVars
<1>2. UNCHANGED <<probe, knownVars, pipeVars, procVars, script, ret, toRead>>
  BY DEF Skip, Wait, SendIgnored, SendWait, WaitOver, Await, Continue, waitVars
<1>3. next' \in 1..(Len(script) + 1)
  BY ScriptType DEF ControlOK, Skip, Wait, SendIgnored, SendWait, WaitOver, Advance,
     Fetching
<1>4. /\ at' \in {"fetch"} \cup Waits /\ step' \in {"check", "read", "reap", "next"}
      /\ left' \in 0..(Rounds + DeadlockPause) /\ who' \in 1..(K + 1)
      /\ long' \in BOOLEAN
  <2>1. CASE Skip \/ SendIgnored
    BY <2>1 DEF Skip, SendIgnored, Fetching, waitVars, ControlOK, FlagsOK
  <2>2. CASE Wait \/ SendWait
    <3>1. PICK kind \in {"ready", "blocked", "unblocked", "send"} :
              Cmd.client \in Clients /\ Await(kind, Cmd.client)
      BY <2>2 DEF Wait, SendWait, InRange
    <3>2. kind \in Waits /\ Cmd.client \in 1..(K + 1)
      BY <3>1, CtlAssumption DEF Waits, Clients
    <3> QED BY <3>1, <3>2, AwaitTypes
  <2>3. CASE WaitOver
    BY <2>3 DEF WaitOver, Continue, ControlOK, FlagsOK
  <2> QED BY <2>1, <2>2, <2>3
<1>5. ControlOK'
  BY <1>2, <1>3, <1>4 DEF ControlOK, knownVars
<1>6. FlagsOK'
  BY <1>2, <1>4, Zenon DEF FlagsOK, knownVars, pipeVars, procVars
<1> QED BY <1>1, <1>5, <1>6

\* The clients' start, a statement sent and the end of the input.
LEMMA StartTypes == ASSUME TypeOK, Start PROVE TypeOK'
<1> USE DEF TypeOK
<1>1. Await("init", 1) /\ "init" \in Waits /\ 1 \in 1..(K + 1)
  BY CtlAssumption DEF Start, Waits
<1>2. /\ at' \in Waits /\ step' = "check" /\ who' = 1 /\ toRead' = toRead
      /\ left' \in 0..(Rounds + DeadlockPause) /\ long' \in BOOLEAN
  BY <1>1, AwaitTypes, Zenon
<1>3. ControlOK'
  BY <1>1, <1>2 DEF Start, ControlOK, knownVars
<1>4. FlagsOK'
  <2>1. /\ alive' = [c \in Clients |-> TRUE] /\ FlagsOK
        /\ UNCHANGED <<knownVars, probe, pipeVars, half, locked, crashed>>
    BY DEF Start
  <2> QED BY <1>2, <2>1, Zenon DEF FlagsOK, knownVars, pipeVars
<1>5. ClientOK'
  BY DEF Start, ClientOK, pipeVars
<1> QED BY <1>3, <1>4, <1>5

LEMMA InitNextTypes == ASSUME TypeOK, InitNext, who \in Clients PROVE TypeOK'
<1> USE DEF TypeOK
<1>1. ClientOK'
  BY ClientKept DEF InitNext, clientVars, pipeVars, procVars
<1>2. /\ at' \in {"fetch"} \cup Waits /\ step' \in {"check", "read", "reap", "next"}
      /\ left' \in 0..(Rounds + DeadlockPause) /\ who' \in 1..(K + 1)
      /\ long' \in BOOLEAN /\ toRead' = toRead
  <2>1. CASE who < K
    <3>1. Await("init", who + 1) /\ "init" \in Waits /\ who + 1 \in 1..(K + 1)
      BY <2>1, CtlAssumption DEF InitNext, Waits, Clients
    <3> QED BY <3>1, AwaitTypes
  <2>2. CASE ~ (who < K)
    BY <2>2 DEF InitNext, Continue, ControlOK, FlagsOK
  <2> QED BY <2>1, <2>2
<1>3. ControlOK'
  BY <1>2 DEF InitNext, ControlOK, knownVars
<1>4. FlagsOK'
  BY <1>2, Zenon DEF InitNext, FlagsOK, knownVars, pipeVars, procVars
<1> QED BY <1>1, <1>3, <1>4

LEMMA SendTypes ==
    ASSUME TypeOK, Send, who \in Clients, next <= Len(script)
    PROVE  TypeOK'
<1> USE DEF TypeOK
<1>1. Cmd \in Command /\ Cmd.count \in Int /\ next + 1 \in 1..(Len(script) + 1)
  <2>1. next \in DOMAIN script /\ next + 1 \in 1..(Len(script) + 1)
    BY ScriptType DEF ControlOK
  <2>2. Cmd \in Command
    BY <2>1, ScriptType DEF Cmd
  <2> QED BY <2>1, <2>2 DEF Command
<1>2. /\ state' \in [Clients -> {"running", "ready", "finished"}]
      /\ pending' \in [Clients -> Int]
  BY <1>1 DEF Send, Expect, ControlOK
<1>3. ControlOK'
  BY <1>1, <1>2 DEF Send, Continue, Advance, ControlOK
<1>4. FlagsOK'
  BY FlagsKept DEF Send, Continue, flagVars, procVars
<1>5. ClientOK'
  <2>1. /\ inbox' = [inbox EXCEPT ![who] = Append(@, Cmd)]
        /\ UNCHANGED <<doing, answered, outPipe>>
    BY DEF Send, procVars
  <2>2. inbox' \in [Clients -> Seq(Command)]
    BY <1>1, <2>1 DEF ClientOK
  <2> QED BY <2>1, <2>2 DEF ClientOK
<1> QED BY <1>3, <1>4, <1>5

LEMMA EndWithTypes ==
    ASSUME TypeOK, NEW c \in Clients, EndWith(c),
           UNCHANGED <<script, next, ret, pending, tran, probe, outPipe, errPipe,
                       half, answered, crashed>>
    PROVE  TypeOK'
<1> USE DEF TypeOK
<1>0. c \in 1..(K + 1) /\ c + 1 \in 1..(K + 1) /\ "end" \in Waits
  BY CtlAssumption DEF Clients, Waits
<1>1. CASE UNCHANGED <<long, left, toRead, state, alive, doing, locked, inbox>>
           /\ at' = "end" /\ who' = c + 1 /\ step' = "next"
  <2>1. ControlOK'
    BY <1>0, <1>1 DEF ControlOK, Waits
  <2>2. FlagsOK'
    BY <1>1, FlagsKept DEF flagVars
  <2>3. ClientOK'
    BY <1>1, ClientKept DEF clientVars
  <2> QED BY <2>1, <2>2, <2>3
<1>2. CASE Close({c}) /\ at' = "end" /\ who' = c + 1 /\ step' = "next"
           /\ UNCHANGED <<long, left, toRead, inbox>>
  <2>1. ControlOK'
    BY <1>0, <1>2, CloseTypes DEF ControlOK, Waits
  <2>2. FlagsOK'
    BY <1>2, CloseTypes, Zenon DEF FlagsOK
  <2>3. ClientOK'
    BY <1>2, CloseTypes DEF ClientOK
  <2> QED BY <2>1, <2>2, <2>3
<1>3. CASE Await("end", c) /\ UNCHANGED <<state, alive, doing, locked>>
           /\ \/ inbox' = [inbox EXCEPT ![c] = Append(@, Quit(c))]
              \/ UNCHANGED inbox
  <2>1. /\ at' \in Waits /\ step' = "check" /\ who' = c /\ toRead' = toRead
        /\ left' \in 0..(Rounds + DeadlockPause) /\ long' \in BOOLEAN
    BY <1>0, <1>3, AwaitTypes, Zenon
  <2>2. ControlOK'
    BY <1>0, <1>3, <2>1 DEF ControlOK
  <2>3. FlagsOK'
    BY <1>3, <2>1, Zenon DEF FlagsOK
  <2>4. ClientOK'
    <3>1. Quit(c) \in Command
      BY DEF Quit, Command, Op, Clients
    <3>2. Append(inbox[c], Quit(c)) \in Seq(Command)
      BY <3>1 DEF ClientOK
    <3>3. inbox' \in [Clients -> Seq(Command)]
      BY <1>3, <3>2 DEF ClientOK
    <3> QED BY <1>3, <3>3 DEF ClientOK
  <2> QED BY <2>2, <2>3, <2>4
<1> QED BY <1>1, <1>2, <1>3 DEF EndWith

LEMMA ProcTypes ==
    ASSUME TypeOK, NEW c \in Clients,
           Take(c) \/ Answer(c) \/ AnswerHalf(c) \/ Lock(c) \/ Crash(c)
    PROVE  TypeOK'
<1> USE DEF TypeOK
<1>1. UNCHANGED <<script, next, waitVars, ret, knownVars, probe>>
  BY Zenon DEF Take, Answer, AnswerHalf, Lock, Crash
<1>2. ControlOK'
  BY <1>1 DEF ControlOK, waitVars, knownVars
<1>3. /\ alive' = alive \/ alive' = [alive EXCEPT ![c] = FALSE]
      /\ half' = half \/ half' = [half EXCEPT ![c] = TRUE] \/ half' = [half EXCEPT ![c] = FALSE]
      /\ \/ locked' = locked \/ locked' = [locked EXCEPT ![c] = FALSE]
         \/ locked' = [locked EXCEPT ![c] = ~ @]
      /\ errPipe' = errPipe \/ \E said \in BOOLEAN : errPipe' = [errPipe EXCEPT ![c] = said]
      /\ crashed' = crashed \/ crashed' = TRUE
  BY Zenon DEF Take, Answer, AnswerHalf, Lock, Crash, pipeVars
<1>4. FlagsOK'
  <2>1. alive' \in [Clients -> BOOLEAN] /\ half' \in [Clients -> BOOLEAN]
    BY <1>3, Zenon DEF FlagsOK
  <2>2. locked' \in [Clients -> BOOLEAN]
    BY <1>3, Zenon DEF FlagsOK
  <2>3. errPipe' \in [Clients -> BOOLEAN]
    BY <1>3, Zenon DEF FlagsOK
  <2> QED BY <1>1, <1>3, <2>1, <2>2, <2>3, Zenon DEF FlagsOK, waitVars, knownVars
<1>5. ClientOK'
  <2>1. CASE Take(c)
    <3>1. inbox[c] \in Seq(Command) /\ inbox[c] # <<>>
      BY <2>1 DEF Take, ClientOK
    <3>2. Head(inbox[c]) \in Command /\ Tail(inbox[c]) \in Seq(Command)
      BY <3>1
    <3>3. Head(inbox[c]).count \in Nat
      BY <3>2 DEF Command
    <3>4. inbox' \in [Clients -> Seq(Command)] /\ doing' \in [Clients -> Nat]
      BY <2>1, <3>2, <3>3 DEF Take, ClientOK
    <3> QED BY <2>1, <3>4 DEF Take, ClientOK
  <2>2. CASE Answer(c)
    <3>1. outPipe[c] \o Owes(c) \in Seq(Halves)
      BY PipeGrows DEF Owes, ClientOK
    <3>2. /\ doing' \in [Clients -> Nat] /\ answered' \in [Clients -> Nat]
          /\ outPipe' \in [Clients -> Seq(Halves)]
      BY <2>2, <3>1 DEF Answer, ClientOK
    <3> QED BY <2>2, <3>2 DEF Answer, ClientOK
  <2>3. CASE AnswerHalf(c)
    <3>1. Append(outPipe[c], "head") \in Seq(Halves)
      BY PipeGrows DEF ClientOK
    <3>2. outPipe' \in [Clients -> Seq(Halves)]
      BY <2>3, <3>1 DEF AnswerHalf, ClientOK
    <3> QED BY <2>3, <3>2 DEF AnswerHalf, ClientOK
  <2>4. CASE Lock(c)
    BY <2>4, ClientKept DEF Lock, clientVars, pipeVars
  <2>5. CASE Crash(c)
    <3>1. doing' = [doing EXCEPT ![c] = 0] /\ UNCHANGED <<inbox, outPipe, answered>>
      BY <2>5 DEF Crash
    <3> QED BY <3>1 DEF ClientOK
  <2> QED BY <2>1, <2>2, <2>3, <2>4, <2>5
<1> QED BY <1>2, <1>4, <1>5

LEMMA TypeStep ==
    ASSUME TypeOK, PlaceInv, [Next]_vars
    PROVE  TypeOK'
<1>1. CASE Controller
  <2>1. CASE Select \/ Warn \/ PauseOver \/ Reap \/ Pause
    BY <2>1, WaitTypes
  <2>2. CASE Read
    BY <2>2, ReadTypes DEF Read
  <2>3. CASE Skip \/ Wait \/ SendIgnored \/ SendWait \/ WaitOver
    BY <2>3, FetchTypes
  <2>4. CASE GiveUp \/ StartFails \/ Refuse \/ SendFails
    BY <2>4, ReturnTypes DEF GiveUp, StartFails, Refuse, SendFails
  <2>5. CASE EndOver
    BY <2>5, ReturnTypes DEF EndOver
  <2>6. CASE Start
    BY <2>6, StartTypes
  <2>7. CASE InitNext
    BY <2>7, InitNextTypes DEF PlaceInv, InitNext, Waiting, Waits
  <2>8. CASE Send
    BY <2>8, SendTypes DEF PlaceInv, Send, Waiting, Waits
  <2>9. CASE EndOfInput
    <3>1. 1 \in Clients
      BY CtlAssumption DEF Clients
    <3> QED BY <2>9, <3>1, EndWithTypes DEF EndOfInput
  <2>10. CASE EndNext
    <3> DEFINE c == IF step = "next" THEN who ELSE who + 1
    <3>1. c \in Clients /\ EndWith(c)
      <4>1. c <= K /\ EndWith(c) /\ who \in 1..(K + 1)
        BY <2>10 DEF EndNext, TypeOK, ControlOK
      <4> QED BY <4>1, CtlAssumption DEF Clients
    <3> QED BY <2>10, <3>1, EndWithTypes DEF EndNext
  <2> QED BY <1>1, <2>1, <2>2, <2>3, <2>4, <2>5, <2>6, <2>7, <2>8, <2>9, <2>10,
             Zenon DEF Controller
<1>2. CASE External
  <2>1. CASE ProbeDies
    <3>1. ControlOK' /\ ClientOK'
      BY <2>1, ClientKept DEF ProbeDies, TypeOK, ControlOK, clientVars, waitVars,
         knownVars, pipeVars, procVars
    <3>2. FlagsOK'
      BY <2>1, Zenon DEF ProbeDies, TypeOK, FlagsOK, waitVars, knownVars, pipeVars, procVars
    <3> QED BY <3>1, <3>2 DEF TypeOK
  <2>2. CASE \E c \in Clients :
                 Take(c) \/ Answer(c) \/ AnswerHalf(c) \/ Lock(c) \/ Crash(c)
    BY <2>2, ProcTypes, Zenon
  <2> QED BY <1>2, <2>1, <2>2 DEF External
<1>3. CASE UNCHANGED vars
  <2>1. ControlOK' /\ ClientOK'
    BY <1>3, ClientKept DEF TypeOK, ControlOK, vars, clientVars, waitVars, knownVars,
       pipeVars, procVars
  <2>2. FlagsOK'
    BY <1>3, FlagsKept, Zenon DEF TypeOK, flagVars, vars, waitVars, knownVars, pipeVars, procVars
  <2> QED BY <2>1, <2>2 DEF TypeOK
<1> QED BY <1>1, <1>2, <1>3, Zenon DEF Next, Over


-----------------------------------------------------------------------------
(* Where the controller is.                                                *)

\* A run that is over stands still: every client is dead.
LEMMA OverStays == TypeOK /\ GoneInv /\ at = "over" /\ [Next]_vars => UNCHANGED vars
<1> SUFFICES ASSUME TypeOK, GoneInv, at = "over", Next PROVE UNCHANGED vars
  OBVIOUS
<1>1. \A c \in Clients : ~ alive[c]
  BY DEF GoneInv, Ended, FinishedMeansGone
<1>2. ~ External
  BY <1>1 DEF External, ProbeDies, Take, Answer, AnswerHalf, Lock, Crash
<1>3. ~ (Select \/ Read \/ Reap \/ Warn \/ GiveUp \/ PauseOver \/ InitNext \/ WaitOver
         \/ Send \/ SendFails)
  BY DEF Select, Read, ReadOutput, ReadEnd, ReadError, Reap, Warn, GiveUp, PauseOver,
     InitNext, WaitOver, Send, SendFails, TimedOut, Waiting, Waits
<1>4. ~ (Start \/ StartFails \/ Skip \/ Refuse \/ Wait \/ Pause \/ SendIgnored
         \/ SendWait \/ EndOfInput \/ EndNext \/ EndOver)
  BY DEF Start, StartFails, Skip, Refuse, Wait, Pause, SendIgnored, SendWait,
     EndOfInput, EndNext, EndOver, Fetching
<1> QED BY <1>2, <1>3, <1>4 DEF Next, Controller, Over

\* One written off stays written off.
LEMMA CloseGone ==
    ASSUME TypeOK, NEW S, Close(S)
    PROVE  \A c \in Clients : Gone(c) => Gone(c)'
  BY DEF Close, Gone

LEMMA GoneStays ==
    ASSUME TypeOK, ScanInv, [Next]_vars
    PROVE  \A c \in Clients : Gone(c) => Gone(c)'
<1>1. CASE UNCHANGED state
  BY <1>1 DEF Gone
<1>2. CASE \E S : Close(S)
  BY <1>2, CloseGone
<1>3. CASE Reap
  BY <1>3 DEF Reap, Gone
<1>4. CASE Send
  BY <1>4 DEF Send, Gone, TypeOK, ControlOK
<1>5. CASE \E c \in Clients : ReadOutput(c)
  <2>1. PICK c \in Clients : ReadOutput(c)
    BY <1>5
  <2>2. ~ Gone(c)
    BY <2>1 DEF ReadOutput, NextToRead, Waiting, Waits, ScanInv
  <2> QED BY <2>1, <2>2 DEF ReadOutput, Gone, TypeOK, ControlOK
<1>6. CASE Controller
  <2>1. CASE GiveUp \/ StartFails \/ Refuse \/ SendFails \/ EndOver
    BY <1>2, <2>1 DEF GiveUp, StartFails, Refuse, SendFails, EndOver, Return, CloseAll
  <2>2. CASE EndOfInput \/ EndNext
    BY <1>1, <1>2, <2>2 DEF EndOfInput, EndNext, EndWith
  <2>3. CASE Read
    BY <1>1, <1>2, <1>5, <2>3 DEF Read, ReadEnd, ReadError, knownVars
  <2>4. CASE Select \/ Warn \/ PauseOver \/ Start \/ InitNext \/ Skip \/ Wait
             \/ WaitOver \/ Pause \/ SendIgnored \/ SendWait
    BY <1>1, <2>4 DEF Select, Warn, PauseOver, Start, InitNext, Skip, Wait, WaitOver,
       Pause, SendIgnored, SendWait, knownVars
  <2> QED BY <1>3, <1>4, <1>6, <2>1, <2>2, <2>3, <2>4, Zenon DEF Controller
<1>7. CASE External \/ UNCHANGED vars
  BY <1>1, <1>7, Zenon DEF External, ProbeDies, Take, Answer, AnswerHalf, Lock, Crash,
     vars, knownVars
<1> QED BY <1>6, <1>7, Zenon DEF Next, Over

LEMMA EndWithPlace ==
    ASSUME TypeOK, ScanInv, [Next]_vars, NEW c \in Clients, EndWith(c),
           UNCHANGED <<script, next>>, next = Len(script) + 1,
           \A d \in Clients : d < c => Gone(d)
    PROVE  PlaceInv'
<1>1. c \in 1..K /\ K \in Nat
  BY CtlAssumption DEF Clients
<1>2. \A d \in Clients : d \in Nat /\ (d < c + 1 => d < c \/ d = c)
  BY <1>1 DEF Clients
<1>3. \A d \in Clients : Gone(d) => Gone(d)'
  BY GoneStays
<1>4. CASE at' = "end" /\ who' = c + 1 /\ step' = "next" /\ (Gone(c) \/ Close({c}))
  <2>1. Gone(c)'
    BY <1>3, <1>4 DEF Close, Gone
  <2>2. \A d \in Clients : d < who' => Gone(d)'
    BY <1>2, <1>3, <1>4, <2>1
  <2> QED BY <1>4, <2>2 DEF PlaceInv, Waits
<1>5. CASE Await("end", c)
  BY <1>3, <1>5 DEF Await, PlaceInv, Waits
<1> QED BY <1>4, <1>5 DEF EndWith

LEMMA PlaceStep ==
    ASSUME TypeOK, GoneInv, PlaceInv, ScanInv, [Next]_vars
    PROVE  PlaceInv'
<1> USE DEF Waiting
<1>1. CASE UNCHANGED <<script, next, at, who>>
           /\ (step' = step \/ (at \in Waits /\ step # "next" /\ step' # "next"))
  <2>1. \A c \in Clients : Gone(c) => Gone(c)'
    BY GoneStays
  <2> QED BY <1>1, <2>1 DEF PlaceInv, Cmd, Waits
<1>2. CASE at' = "over"
  BY <1>2 DEF PlaceInv, Waits
<1>3. CASE at' = "fetch" /\ step' # "next"
  BY <1>3 DEF PlaceInv, Waits
<1>4. CASE External \/ UNCHANGED vars
  BY <1>1, <1>4, Zenon DEF External, ProbeDies, Take, Answer, AnswerHalf, Lock, Crash,
     vars, waitVars
<1>5. CASE Controller
  <2>1. CASE GiveUp \/ StartFails \/ Refuse \/ SendFails \/ EndOver
    BY <1>2, <2>1 DEF GiveUp, StartFails, Refuse, SendFails, EndOver, Return
  <2>2. CASE Select \/ Read \/ Reap \/ Warn
    BY <1>1, <2>2 DEF Select, Read, ReadOutput, ReadEnd, ReadError, ReadNext, Reap,
       Warn, TimedOut
  <2>3. CASE PauseOver \/ WaitOver \/ Send
    BY <1>3, <2>3 DEF PauseOver, TimedOut, WaitOver, Send, Continue
  <2>4. CASE Skip \/ SendIgnored
    BY <1>3, <2>4 DEF Skip, SendIgnored, Fetching, waitVars, PlaceInv
  <2>5. CASE Start
    BY <2>5, CtlAssumption DEF Start, Await, PlaceInv, Clients, Waits
  <2>6. CASE InitNext
    <3>1. CASE who < K
      <4>1. at' = "init" /\ step' = "check" /\ who' = who + 1
        BY <2>6, <3>1 DEF InitNext, Await
      <4>2. who + 1 \in Clients
        BY <3>1, CtlAssumption DEF Clients, TypeOK, ControlOK
      <4> QED BY <4>1, <4>2 DEF PlaceInv
    <3>2. CASE ~ (who < K)
      BY <1>3, <2>6, <3>2 DEF InitNext, Continue
    <3> QED BY <3>1, <3>2
  <2>7. CASE Wait
    BY <2>7 DEF Wait, Await, InRange, PlaceInv
  <2>8. CASE SendWait
    BY <2>8 DEF SendWait, Fetching, Await, InRange, PlaceInv, Cmd
  <2>9. CASE Pause
    BY <2>9 DEF Pause, PlaceInv
  <2>10. CASE EndOfInput
    <3>1. next = Len(script) + 1
      BY <2>10, ScriptType DEF EndOfInput, TypeOK, ControlOK
    <3>2. 1 \in Clients /\ \A d \in Clients : ~ (d < 1)
      BY CtlAssumption DEF Clients
    <3> QED BY <2>10, <3>1, <3>2, EndWithPlace DEF EndOfInput
  <2>11. CASE EndNext
    <3> DEFINE c == IF step = "next" THEN who ELSE who + 1
    <3>1. /\ c <= K /\ EndWith(c) /\ who \in 1..(K + 1) /\ next = Len(script) + 1
          /\ UNCHANGED <<script, next>> /\ at = "end"
      BY <2>11 DEF EndNext, PlaceInv, TypeOK, ControlOK
    <3>2. c \in Clients
      BY <3>1, CtlAssumption DEF Clients
    <3>3. \A d \in Clients : d < c => Gone(d)
      <4>1. CASE step = "next"
        BY <3>1, <4>1 DEF PlaceInv
      <4>2. CASE step # "next"
        <5>1. Gone(who) /\ c = who + 1
          BY <2>11, <4>2 DEF EndNext, Done
        <5>2. \A d \in Clients : d < who + 1 => d < who \/ d = who
          BY <3>1 DEF Clients
        <5> QED BY <3>1, <5>1, <5>2 DEF PlaceInv
      <4> QED BY <4>1, <4>2
    <3> HIDE DEF c
    <3> QED BY <3>1, <3>2, <3>3, EndWithPlace
  <2> QED BY <1>5, <2>1, <2>2, <2>3, <2>4, <2>5, <2>6, <2>7, <2>8, <2>9, <2>10, <2>11,
             Zenon DEF Controller
<1> QED BY <1>4, <1>5, Zenon DEF Next, Over


LEMMA ScanStep ==
    ASSUME TypeOK, ScanInv, [Next]_vars
    PROVE  ScanInv'
<1> DEFINE Found(c, fd) == ~ Gone(c) /\ (fd = "out" => outPipe[c] # <<>> \/ ~ alive[c])
<1> USE DEF Waiting
<1>1. CASE at' = "over" \/ step' # "read"
  BY <1>1 DEF ScanInv
<1>2. CASE UNCHANGED <<at, step, toRead, state, alive, outPipe>>
  BY <1>2, Zenon DEF ScanInv, Gone
<1>3. CASE Select
  <2>1. \A c \in Clients, fd \in {"out", "err"} :
            <<c, fd>> \in toRead' => ~ Gone(c) /\ (fd = "out" => OutReadable(c))
    BY <1>3 DEF Select, Live
  <2>2. UNCHANGED <<state, alive, outPipe>>
    BY <1>3 DEF Select, knownVars, pipeVars, procVars
  <2> QED BY <2>1, <2>2, Zenon DEF ScanInv, Gone, OutReadable
<1>4. CASE Read
  <2>1. PICK c \in Clients : ReadOutput(c) \/ ReadEnd(c) \/ ReadError(c)
    BY <1>4 DEF Read
  <2>2. /\ at # "over" /\ step = "read" /\ toRead' \subseteq toRead
        /\ \A d \in Clients, fd \in {"out", "err"} : <<d, fd>> \in toRead => Found(d, fd)
    BY <2>1, Zenon DEF ReadOutput, ReadEnd, ReadError, ReadNext, Waits, ScanInv
  <2>3. CASE ReadOutput(c)
    <3>1. /\ ~ Gone(c) /\ UNCHANGED alive /\ <<c, "out">> \notin toRead'
          /\ outPipe' = [outPipe EXCEPT ![c] = <<>>]
          /\ state' = [state EXCEPT ![c] = IF Ready(c, outPipe[c]) THEN "ready" ELSE @]
      BY <2>2, <2>3 DEF ReadOutput, ReadNext, NextToRead, procVars
    <3>2. \A d \in Clients : ~ Gone(d) => ~ Gone(d)'
      BY <3>1 DEF Gone, TypeOK, ControlOK
    <3>3. \A d \in Clients : d # c => outPipe'[d] = outPipe[d]
      BY <3>1 DEF TypeOK, ClientOK
    <3> QED BY <2>2, <3>1, <3>2, <3>3 DEF ScanInv
  <2>4. CASE ReadEnd(c)
    <3>1. Close({c}) /\ UNCHANGED outPipe
          /\ toRead' = toRead \ {<<c, "out">>, <<c, "err">>}
      BY <2>4 DEF ReadEnd, ReadNext, pipeVars
    <3>2. \A d \in Clients : d # c => (Gone(d)' <=> Gone(d)) /\ (alive'[d] <=> alive[d])
      BY <3>1 DEF Close, Gone
    <3>3. \A fd \in {"out", "err"} : <<c, fd>> \notin toRead'
      BY <3>1
    <3> QED BY <2>2, <3>1, <3>2, <3>3 DEF ScanInv
  <2>5. CASE ReadError(c)
    <3>1. UNCHANGED <<state, alive, outPipe>>
      BY <2>5 DEF ReadError, knownVars, procVars
    <3> QED BY <2>2, <3>1, Zenon DEF ScanInv, Gone
  <2> QED BY <2>1, <2>3, <2>4, <2>5
<1>5. CASE External
  <2>1. UNCHANGED <<at, step, toRead, state>>
    BY <1>5, Zenon DEF External, ProbeDies, Take, Answer, AnswerHalf, Lock, Crash,
       waitVars, knownVars
  <2>2. \A c \in Clients : /\ outPipe[c] # <<>> => outPipe'[c] # <<>>
                           /\ ~ alive[c] => ~ alive'[c]
    <3>1. CASE ProbeDies
      BY <3>1 DEF ProbeDies, pipeVars, procVars
    <3>2. CASE \E c \in Clients : Take(c) \/ Lock(c) \/ Crash(c)
      BY <3>2 DEF Take, Lock, Crash, pipeVars, TypeOK, FlagsOK
    <3>3. CASE \E c \in Clients : Answer(c) \/ AnswerHalf(c)
      <4>1. PICK c \in Clients : Answer(c) \/ AnswerHalf(c)
        BY <3>3
      <4>2. PICK said \in Seq(Halves) :
                outPipe' = [outPipe EXCEPT ![c] = said] /\ said # <<>>
        <5>1. CASE Answer(c)
          <6>1. outPipe[c] \o Owes(c) \in Seq(Halves) /\ outPipe[c] \o Owes(c) # <<>>
            <7>1. outPipe[c] \in Seq(Halves)
              BY DEF TypeOK, ClientOK
            <7>2. Owes(c) \in Seq(Halves) /\ Len(Owes(c)) > 0
              <8>1. /\ <<"tail">> \in Seq(Halves) /\ Len(<<"tail">>) = 1
                    /\ <<"head", "tail">> \in Seq(Halves) /\ Len(<<"head", "tail">>) = 2
                BY DEF Halves
              <8>2. Owes(c) = <<"tail">> \/ Owes(c) = <<"head", "tail">>
                BY Zenon DEF Owes
              <8>3. 1 > 0 /\ 2 > 0
                OBVIOUS
              <8> QED BY <8>1, <8>2, <8>3, Zenon
            <7>3. /\ outPipe[c] \o Owes(c) \in Seq(Halves)
                  /\ Len(outPipe[c] \o Owes(c)) = Len(outPipe[c]) + Len(Owes(c))
              BY <7>1, <7>2
            <7> QED BY <7>1, <7>2, <7>3
          <6> QED BY <5>1, <6>1 DEF Answer
        <5>2. CASE AnswerHalf(c)
          <6>1. Append(outPipe[c], "head") \in Seq(Halves)
                /\ Append(outPipe[c], "head") # <<>>
            <7>1. outPipe[c] \in Seq(Halves)
              BY DEF TypeOK, ClientOK
            <7> QED BY <7>1 DEF Halves
          <6> QED BY <5>2, <6>1 DEF AnswerHalf
        <5> QED BY <4>1, <5>1, <5>2
      <4>3. UNCHANGED alive
        BY <4>1 DEF Answer, AnswerHalf
      <4> QED BY <4>2, <4>3 DEF TypeOK, ClientOK
    <3> QED BY <1>5, <3>1, <3>2, <3>3, Zenon DEF External
  <2> QED BY <2>1, <2>2 DEF ScanInv, Gone
<1>6. CASE Controller
  <2>1. CASE GiveUp \/ StartFails \/ Refuse \/ SendFails \/ EndOver \/ Reap \/ Start \/ Wait
             \/ SendWait \/ Pause \/ WaitOver \/ PauseOver \/ Send
    BY <1>1, <2>1 DEF GiveUp, StartFails, Refuse, SendFails, EndOver, Return, Reap, Start,
       Wait, SendWait, Pause, WaitOver, PauseOver, TimedOut, Send, Await, Continue
  <2>2. CASE InitNext \/ EndOfInput \/ EndNext \/ Warn
    BY <1>1, <2>2 DEF InitNext, EndOfInput, EndNext, EndWith, Warn, TimedOut, Await,
       Continue
  <2>3. CASE Skip \/ SendIgnored
    BY <1>2, <2>3 DEF Skip, SendIgnored, waitVars, knownVars, pipeVars, procVars
  <2> QED BY <1>3, <1>4, <1>6, <2>1, <2>2, <2>3, Zenon DEF Controller
<1>7. CASE UNCHANGED vars
  BY <1>2, <1>7 DEF vars, waitVars, knownVars, pipeVars, procVars
<1> QED BY <1>5, <1>6, <1>7, Zenon DEF Next, Over

LEMMA FreshStep ==
    ASSUME TypeOK, FreshInv, [Next]_vars
    PROVE  FreshInv'
<1> SUFFICES ASSUME at' = "start" PROVE FreshInv'
  BY DEF FreshInv
<1>1. ~ Controller
  <2>1. ~ (Select \/ Read \/ Reap \/ Warn \/ WaitOver \/ InitNext)
    BY DEF Select, Read, ReadOutput, ReadEnd, ReadError, Reap, Warn, TimedOut,
       Waiting, Waits, WaitOver, InitNext, Await, Continue
  <2>2. ~ (GiveUp \/ StartFails \/ Refuse \/ SendFails \/ EndOver \/ PauseOver)
    BY DEF GiveUp, StartFails, Refuse, SendFails, EndOver, Return, PauseOver, Continue
  <2>3. ~ (Start \/ Skip \/ Wait \/ Pause \/ SendIgnored \/ SendWait \/ Send \/ EndOfInput
           \/ EndNext)
    BY DEF Start, Skip, Wait, Pause, SendIgnored, SendWait, Send, EndOfInput, EndNext,
       EndWith, Await, Continue, Fetching, waitVars
  <2> QED BY <2>1, <2>2, <2>3, Zenon DEF Controller
<1>2. UNCHANGED <<script, next, at, state, pending, alive, inbox, doing, outPipe, half,
                  answered>>
  <2>1. CASE External
    <3>1. at = "start"
      BY <2>1, Zenon DEF External, ProbeDies, Take, Answer, AnswerHalf, Lock, Crash,
         waitVars
    <3>2. ~ \E c \in Clients : Take(c) \/ Answer(c) \/ AnswerHalf(c) \/ Lock(c) \/ Crash(c)
      BY <3>1 DEF FreshInv, Take, Answer, AnswerHalf, Lock, Crash
    <3> QED BY <2>1, <3>2 DEF External, ProbeDies, waitVars, knownVars, pipeVars, procVars
  <2>2. CASE UNCHANGED vars
    BY <2>2 DEF vars, waitVars, knownVars, pipeVars, procVars
  <2> QED BY <1>1, <2>1, <2>2, Zenon DEF Next, Over
<1> QED BY <1>2, Zenon DEF FreshInv, Idle


-----------------------------------------------------------------------------
(* Each client.  A step concerns one of them, and leaves the others still.  *)

Seen(d) == <<state[d], pending[d], alive[d], inbox[d], doing[d], half[d], outPipe[d],
             answered[d]>>

\* The pieces of the invariant have numbers in them.
LEMMA ClientTypes ==
    ASSUME TypeOK, NEW d \in Clients
    PROVE  /\ doing[d] \in Nat /\ answered[d] \in Nat /\ pending[d] \in Int
           /\ inbox[d] \in Seq(Command) /\ outPipe[d] \in Seq(Halves)
           /\ alive[d] \in BOOLEAN /\ half[d] \in BOOLEAN
           /\ state[d] \in {"running", "ready", "finished"}
           /\ inbox[d] # <<>> => Head(inbox[d]) \in Command /\ Head(inbox[d]).count \in Nat \ {0}
           /\ Due(d) \in Nat
           /\ Outstanding(d) = doing[d] + (IF inbox[d] # <<>> THEN Head(inbox[d]).count ELSE 0)
                               + Cardinality(Tails(outPipe[d]))
           /\ Cardinality(Tails(outPipe[d])) \in Nat
<1>1. /\ doing[d] \in Nat /\ answered[d] \in Nat /\ pending[d] \in Int
      /\ inbox[d] \in Seq(Command) /\ outPipe[d] \in Seq(Halves)
      /\ state[d] \in {"running", "ready", "finished"}
  BY DEF TypeOK, ControlOK, ClientOK
<1>2. alive[d] \in BOOLEAN /\ half[d] \in BOOLEAN
  BY Zenon DEF TypeOK, FlagsOK
<1>3. inbox[d] # <<>> => Head(inbox[d]) \in Command
  BY <1>1
<1>4. inbox[d] # <<>> => Head(inbox[d]).count \in Nat \ {0}
  BY <1>3 DEF Command
<1>5. Due(d) \in Nat
  BY <1>4 DEF Due
<1>6. Outstanding(d) = doing[d] + (IF inbox[d] # <<>> THEN Head(inbox[d]).count ELSE 0)
                       + Cardinality(Tails(outPipe[d]))
  BY DEF Outstanding, Tails
<1>7. Cardinality(Tails(outPipe[d])) \in Nat
  BY <1>1, PipeSets
<1> QED BY <1>1, <1>2, <1>3, <1>4, <1>5, <1>6, <1>7

\* A client nothing happened to: whether it was told, and what was asked of it,
\* has not changed either.
LEMMA StillKeeps ==
    ASSUME NEW d \in Clients, ClientInv(d), UNCHANGED <<script, Seen(d)>>,
           Told(d, next)' <=> Told(d, next), WantedTo(d, next)' = WantedTo(d, next),
           at # "start", at' # "start", at = "end" => at' = "end",
           Leaving(d) => Leaving(d)' \/ state[d] # "ready" \/ inbox[d] = <<>>,
           crashed => crashed'
    PROVE  ClientInv(d)'
<1> USE DEF Seen, ClientInv
<1>1. PipesInv(d)'
  BY Zenon DEF PipesInv
<1>2. Outstanding(d)' = Outstanding(d) /\ Due(d)' = Due(d) /\ (Idle(d)' <=> Idle(d))
      /\ (Gone(d)' <=> Gone(d))
  BY Zenon DEF Outstanding, Due, Idle, Gone
<1>3. BeliefInv(d)'
  BY <1>2, Zenon DEF BeliefInv
<1>4. ToldInv(d)'
  BY <1>2, Zenon DEF ToldInv
<1>5. CountInv(d)'
  BY <1>2, Zenon DEF CountInv
<1> QED BY <1>1, <1>3, <1>4, <1>5

\* A step that does not read the script on.
LEMMA StillHere ==
    ASSUME UNCHANGED <<script, next>>, NEW d
    PROVE  (Told(d, next)' <=> Told(d, next)) /\ WantedTo(d, next)' = WantedTo(d, next)
  BY Zenon DEF Told, WantedTo, Asked

\* A client written off: it was dead before, so it owes what it owed.
LEMMA FinishKeeps ==
    ASSUME TypeOK, NEW d \in Clients, ClientInv(d), ~ alive[d], ~ alive'[d],
           state'[d] = "finished", doing'[d] \in {0, doing[d]},
           UNCHANGED <<script, next, crashed, inbox[d], half[d], outPipe[d], answered[d]>>,
           at # "start", at' # "start", at = "end" => at' = "end"
    PROVE  ClientInv(d)'
<1>1. (Told(d, next)' <=> Told(d, next)) /\ WantedTo(d, next)' = WantedTo(d, next)
  BY StillHere
<1>2. PipesInv(d)'
  BY Zenon DEF ClientInv, PipesInv
<1>3. BeliefInv(d)'
  BY DEF BeliefInv
<1>4. ToldInv(d)'
  BY <1>1 DEF ClientInv, ToldInv, Gone
<1>5. CountInv(d)'
  <2>1. IsFiniteSet(WantedTo(d, next)')
    BY <1>1 DEF ClientInv, CountInv
  <2>2. ASSUME ~ crashed' PROVE Idle(d) /\ doing'[d] = 0
    BY <2>2 DEF ClientInv, CountInv, Idle
  <2>3. ASSUME ~ crashed' PROVE Idle(d)'
    BY <2>2, <2>3 DEF Idle
  <2>4. ASSUME ~ crashed'
        PROVE  answered'[d] + doing'[d] + Due(d)' = 1 + Cardinality(WantedTo(d, next)')
    <3>1. Due(d)' = Due(d)
      BY DEF Due
    <3>2. answered[d] + doing[d] + Due(d) = 1 + Cardinality(WantedTo(d, next))
      BY <2>4 DEF ClientInv, CountInv
    <3> QED BY <1>1, <2>2, <2>4, <3>1, <3>2 DEF Idle
  <2> QED BY <2>1, <2>3, <2>4 DEF CountInv
<1> QED BY <1>2, <1>3, <1>4, <1>5 DEF ClientInv


\* What a read takes: the markers in it are answers given, no more.
LEMMA ReadOutputKeeps ==
    ASSUME TypeOK, ScanInv, NEW c \in Clients, ClientInv(c), ReadOutput(c)
    PROVE  ClientInv(c)'
<1> DEFINE p == outPipe[c]
           n == Cardinality(Tails(p))
<1>1. /\ at = at' /\ at # "over" /\ at # "start" /\ step = "read" /\ step' # "next" /\ who' = who
      /\ UNCHANGED <<script, next, crashed, alive, inbox, doing, half, answered>>
      /\ pending' = [pending EXCEPT ![c] = @ - Markers(p)]
      /\ state' = [state EXCEPT ![c] = IF Ready(c, p) THEN "ready" ELSE @]
      /\ outPipe' = [outPipe EXCEPT ![c] = <<>>] /\ p # <<>>
      /\ <<c, "out">> \in toRead
  BY DEF ReadOutput, ReadNext, NextToRead, Waiting, Waits, procVars
<1>2. p \in Seq(Halves) /\ n \in Nat /\ Markers(p) \in Nat /\ Markers(p) <= n
      /\ (Paired(p) => Markers(p) = n)
  BY ClientTypes, PipeSets, MarkersOfTails
<1>3. /\ outPipe'[c] = <<>> /\ pending'[c] = pending[c] - Markers(p)
      /\ state'[c] = IF Ready(c, p) THEN "ready" ELSE state[c]
  BY <1>1 DEF TypeOK, ControlOK, ClientOK
<1>4. Cardinality(Tails(outPipe'[c])) = 0 /\ Paired(outPipe'[c])
  BY <1>3, EmptyPipe, Zenon
<1>5. state[c] = "running"
  <2>1. ~ Gone(c)
    BY <1>1 DEF ScanInv
  <2> QED BY <1>1, <2>1, ClientTypes DEF ClientInv, BeliefInv, Gone
<1>6. Outstanding(c) = doing[c] + (IF inbox[c] # <<>> THEN Head(inbox[c]).count ELSE 0) + n
  BY ClientTypes
<1>7. Outstanding(c)' = doing[c] + (IF inbox[c] # <<>> THEN Head(inbox[c]).count ELSE 0)
  <2>1. Outstanding(c)' = doing'[c] + (IF inbox'[c] # <<>> THEN Head(inbox'[c]).count ELSE 0)
                          + Cardinality(Tails(outPipe'[c]))
    BY DEF Outstanding, Tails
  <2> QED BY <1>1, <1>4, <2>1, ClientTypes
<1>8. inbox[c] = <<>>
  BY <1>1 DEF ClientInv, PipesInv
<1>9. (Told(c, next)' <=> Told(c, next)) /\ WantedTo(c, next)' = WantedTo(c, next)
  BY <1>1, StillHere
<1>10. PipesInv(c)'
  BY <1>1, <1>4, <1>8, ClientTypes DEF ClientInv, PipesInv
<1>11. BeliefInv(c)'
  <2>1. /\ pending[c] >= Outstanding(c)
        /\ alive[c] /\ script \notin Long => pending[c] = Outstanding(c)
    BY <1>5 DEF ClientInv, BeliefInv
  <2>2. CASE Ready(c, p)
    <3>1. doing[c] = 0
      BY <1>2, <1>6, <1>8, <2>1, <2>2, ClientTypes DEF Ready
    <3> QED BY <1>1, <1>3, <1>8, <2>2, <3>1 DEF BeliefInv
  <2>3. CASE ~ Ready(c, p)
    <3>1. state'[c] = "running"
      BY <1>3, <1>5, <2>3
    <3>2. pending'[c] >= Outstanding(c)'
      BY <1>2, <1>3, <1>6, <1>7, <1>8, <2>1, ClientTypes
    <3>3. script \notin Long => Paired(p)
      BY DEF ClientInv, PipesInv
    <3>4. alive[c] /\ script \notin Long => pending'[c] = Outstanding(c)'
      BY <1>2, <1>3, <1>6, <1>7, <1>8, <2>1, <3>3, ClientTypes
    <3> QED BY <1>1, <3>1, <3>2, <3>4, Zenon DEF BeliefInv
  <2> QED BY <2>2, <2>3
<1>12. ToldInv(c)'
  <2>1. ~ Told(c, next)
    BY <1>1, <1>5 DEF ClientInv, ToldInv, Gone
  <2> QED BY <1>1, <1>8, <1>9, <2>1, Zenon DEF ClientInv, ToldInv
<1>13. CountInv(c)'
  <2>1. ~ crashed => alive[c]
    BY <1>1 DEF ClientInv, CountInv, Idle
  <2>2. Due(c)' = Due(c)
    BY <1>1, Zenon DEF Due
  <2> QED BY <1>1, <1>9, <2>1, <2>2, Zenon DEF ClientInv, CountInv
<1> QED BY <1>10, <1>11, <1>12, <1>13 DEF ClientInv

\* A statement written to a client that is ready, hence idle.
LEMMA SendKeeps ==
    ASSUME TypeOK, PlaceInv, NEW c \in Clients, ClientInv(c), Send, who = c
    PROVE  ClientInv(c)'
<1>1. /\ at = "send" /\ at' = "fetch" /\ next <= Len(script) /\ next' = next + 1
      /\ Cmd.op = "send" /\ Cmd.client = c /\ state[c] = "ready" /\ alive[c]
      /\ pending' = [pending EXCEPT ![c] = Cmd.count]
      /\ state' = [state EXCEPT ![c] = "running"]
      /\ inbox' = [inbox EXCEPT ![c] = Append(@, Cmd)]
      /\ UNCHANGED <<script, crashed, alive, outPipe, doing, half, answered>>
  BY DEF Send, PlaceInv, Continue, Advance, Expect, procVars
<1>2. next \in DOMAIN script /\ Cmd \in Command
  BY <1>1, ScriptType DEF Cmd, TypeOK, ControlOK
<1>3. Cmd.count \in Nat \ {0}
  BY <1>2 DEF Command
<1>4. inbox[c] = <<>> /\ doing[c] = 0 /\ outPipe[c] = <<>>
  BY <1>1 DEF ClientInv, BeliefInv, Leaving
<1>5. inbox'[c] = <<Cmd>> /\ state'[c] = "running" /\ pending'[c] = Cmd.count
  BY <1>1, <1>4 DEF TypeOK, ControlOK, ClientOK
<1>6. inbox'[c] # <<>> /\ Len(inbox'[c]) = 1 /\ Head(inbox'[c]) = Cmd
  BY <1>5
<1>7. ~ Told(c, next)
  BY <1>1 DEF ClientInv, ToldInv, Gone
<1>8. /\ Told(c, next)' <=> Cmd.quit
      /\ IsFiniteSet(WantedTo(c, next)')
      /\ Cardinality(WantedTo(c, next)') =
           Cardinality(WantedTo(c, next)) + (IF Cmd.quit THEN 0 ELSE Cmd.count)
  <2>1. IsFiniteSet(WantedTo(c, next))
    BY DEF ClientInv, CountInv
  <2>2. (Told(c, next)' <=> Told(c, next + 1)) /\ WantedTo(c, next)' = WantedTo(c, next + 1)
    BY <1>1, Zenon DEF Told, WantedTo, Asked
  <2> QED BY <1>1, <1>7, <2>1, <2>2, AskedNow DEF Cmd
<1>9. PipesInv(c)'
  BY <1>1, <1>4, <1>6 DEF ClientInv, PipesInv
<1>10. BeliefInv(c)'
  <2>1. Outstanding(c)' = doing'[c] + (IF inbox'[c] # <<>> THEN Head(inbox'[c]).count ELSE 0)
                          + Cardinality(Tails(outPipe'[c]))
    BY DEF Outstanding, Tails
  <2>2. Cardinality(Tails(outPipe'[c])) = 0
    BY <1>1, <1>4, EmptyPipe, Zenon
  <2>3. doing'[c] = 0 /\ (IF inbox'[c] # <<>> THEN Head(inbox'[c]).count ELSE 0) = Cmd.count
    BY <1>1, <1>4, <1>6, Zenon
  <2>4. Outstanding(c)' = Cmd.count
    BY <1>3, <2>1, <2>2, <2>3
  <2> QED BY <1>3, <1>5, <2>4 DEF BeliefInv
<1>11. ToldInv(c)'
  BY <1>1, <1>4, <1>5, <1>6, <1>8 DEF ToldInv
<1>12. CountInv(c)'
  <2>1. Due(c)' = IF ~ Cmd.quit THEN Cmd.count ELSE 0
    BY <1>6 DEF Due
  <2>2. Cmd.quit \in BOOLEAN
    BY <1>2 DEF Command
  <2>3. ASSUME ~ crashed
        PROVE  answered'[c] + doing'[c] + Due(c)' = 1 + Cardinality(WantedTo(c, next)')
    <3>1. answered[c] + doing[c] + Due(c) = 1 + Cardinality(WantedTo(c, next))
      BY <1>1, <2>3 DEF ClientInv, CountInv
    <3>2. Due(c) = 0 /\ Cardinality(WantedTo(c, next)) \in Nat
      BY <1>4, FS_CardinalityType DEF Due, ClientInv, CountInv
    <3>3. answered'[c] = answered[c] /\ doing'[c] = 0 /\ answered[c] \in Nat
      BY <1>1, <1>4, ClientTypes, Zenon
    <3>4. answered[c] + 0 + 0 = 1 + Cardinality(WantedTo(c, next))
      BY <1>4, <3>1, <3>2
    <3>5. Cardinality(WantedTo(c, next)') = Cardinality(WantedTo(c, next)) + Due(c)'
      BY <1>8, <2>1, <2>2
    <3>6. Due(c)' \in Nat
      BY <1>3, <2>1
    <3> QED BY <3>2, <3>3, <3>4, <3>5, <3>6
  <2> QED BY <1>1, <1>8, <2>3 DEF CountInv
<1> QED BY <1>9, <1>10, <1>11, <1>12 DEF ClientInv


LEMMA SameKeeps ==
    ASSUME NEW d \in Clients, ClientInv(d),
           UNCHANGED <<script, next, at, step, who, crashed, Seen(d)>>
    PROVE  ClientInv(d)'
<1> USE DEF Seen
<1>1. (Told(d, next)' <=> Told(d, next)) /\ WantedTo(d, next)' = WantedTo(d, next)
  BY StillHere
<1>2. PipesInv(d)' <=> PipesInv(d)
  BY Zenon DEF PipesInv
<1>3. BeliefInv(d)' <=> BeliefInv(d)
  BY Zenon DEF BeliefInv, Outstanding, Leaving
<1>4. ToldInv(d)' <=> ToldInv(d)
  BY <1>1, Zenon DEF ToldInv, Gone
<1>5. CountInv(d)' <=> CountInv(d)
  BY <1>1, Zenon DEF CountInv, Due, Idle
<1> QED BY <1>2, <1>3, <1>4, <1>5, Zenon DEF ClientInv

LEMMA StartKeeps ==
    ASSUME TypeOK, FreshInv, Start, NEW d \in Clients
    PROVE  ClientInv(d)'
<1>1. /\ at = "start" /\ at' = "init" /\ alive'[d] /\ doing'[d] = 1 /\ next = 1
      /\ state[d] = "running" /\ pending[d] = 1 /\ Idle(d) /\ answered[d] = 0 /\ ~ half[d]
      /\ UNCHANGED <<script, next, state, pending, inbox, outPipe, half, answered, crashed>>
  BY DEF Start, Await, FreshInv, knownVars, pipeVars
<1>2. /\ ~ Told(d, next)' /\ IsFiniteSet(WantedTo(d, next)')
      /\ Cardinality(WantedTo(d, next)') = 0
  <2>1. (Told(d, next)' <=> Told(d, 1)) /\ WantedTo(d, next)' = WantedTo(d, 1)
    <3>1. next' = 1 /\ script' = script
      BY <1>1
    <3> QED BY <3>1, Zenon DEF Told, WantedTo, Asked
  <2> QED BY <2>1, NothingAsked
<1>3. inbox'[d] = <<>> /\ outPipe'[d] = <<>> /\ Due(d)' = 0
  BY <1>1 DEF Idle, Due
<1>4. Paired(outPipe'[d]) /\ Cardinality(Tails(outPipe'[d])) = 0
  BY <1>3, EmptyPipe, Zenon
<1>5. Outstanding(d)' = 1
  <2>1. Outstanding(d)' = doing'[d] + (IF inbox'[d] # <<>> THEN Head(inbox'[d]).count ELSE 0)
                          + Cardinality(Tails(outPipe'[d]))
    BY DEF Outstanding, Tails
  <2> QED BY <1>1, <1>3, <1>4, <2>1
<1>6. PipesInv(d)'
  BY <1>1, <1>3, <1>4 DEF PipesInv
<1>7. BeliefInv(d)'
  BY <1>1, <1>5 DEF BeliefInv
<1>8. ToldInv(d)'
  BY <1>1, <1>2, <1>3 DEF ToldInv
<1>9. CountInv(d)'
  BY <1>1, <1>2, <1>3 DEF CountInv
<1> QED BY <1>6, <1>7, <1>8, <1>9 DEF ClientInv

\* The client reads its line: a `quit' ends it, anything else it now executes.
LEMMA TakeKeeps ==
    ASSUME TypeOK, GoneInv, NEW c \in Clients, ClientInv(c), at # "start", Take(c)
    PROVE  ClientInv(c)'
<1>1. /\ alive[c] /\ doing[c] = 0 /\ inbox[c] # <<>> /\ inbox'[c] = Tail(inbox[c])
      /\ UNCHANGED <<script, next, at, step, who, state, pending, outPipe, half,
                     answered, crashed>>
  BY DEF Take, waitVars, knownVars, TypeOK, ClientOK
<1>2. /\ Head(inbox[c]).quit => ~ alive'[c] /\ doing'[c] = 0
      /\ ~ Head(inbox[c]).quit => alive'[c] /\ doing'[c] = Head(inbox[c]).count
  BY <1>1, ClientTypes DEF Take, TypeOK, FlagsOK, ClientOK
<1>3. inbox'[c] = <<>> /\ outPipe[c] = <<>>
  <2>1. Len(inbox[c]) <= 1 /\ outPipe[c] = <<>> /\ inbox[c] \in Seq(Command)
    BY <1>1, ClientTypes, Zenon DEF ClientInv, PipesInv
  <2> QED BY <1>1, <2>1, OneLine, Zenon
<1>4. Cardinality(Tails(outPipe[c])) = 0 /\ outPipe'[c] = outPipe[c]
  BY <1>1, <1>3, EmptyPipe, Zenon
<1>5. Head(inbox[c]).count \in Nat \ {0} /\ Head(inbox[c]) \in Command
  BY <1>1, ClientTypes
<1>6. Outstanding(c) = Head(inbox[c]).count
  <2>1. Outstanding(c) = doing[c] + (IF inbox[c] # <<>> THEN Head(inbox[c]).count ELSE 0)
                         + Cardinality(Tails(outPipe[c]))
    BY ClientTypes
  <2> QED BY <1>1, <1>4, <1>5, <2>1
<1>7. Outstanding(c)' = doing'[c]
  <2>1. Outstanding(c)' = doing'[c] + (IF inbox'[c] # <<>> THEN Head(inbox'[c]).count ELSE 0)
                          + Cardinality(Tails(outPipe'[c]))
    BY DEF Outstanding, Tails
  <2>2. doing'[c] \in Nat
    BY <1>2, <1>5 DEF Command
  <2> QED BY <1>3, <1>4, <2>1, <2>2
<1>8. (Told(c, next)' <=> Told(c, next)) /\ WantedTo(c, next)' = WantedTo(c, next)
  BY <1>1, StillHere
<1>9. ~ Gone(c)
  BY <1>1 DEF GoneInv, FinishedMeansGone
<1>10. Head(inbox[c]).quit \in BOOLEAN
  BY <1>5 DEF Command
<1>11. PipesInv(c)'
  BY <1>1, <1>3 DEF ClientInv, PipesInv
<1>12. BeliefInv(c)'
  <2>1. CASE state[c] = "ready"
    BY <1>1, <1>2, <1>3, <2>1 DEF ClientInv, BeliefInv
  <2>2. CASE state[c] = "running"
    BY <1>1, <1>2, <1>5, <1>6, <1>7, <1>10, <2>2, ClientTypes DEF ClientInv, BeliefInv
  <2>3. CASE state[c] = "finished"
    BY <1>9, <2>3 DEF Gone
  <2> QED BY <2>1, <2>2, <2>3, ClientTypes
<1>13. ToldInv(c)'
  BY <1>1, <1>2, <1>3, <1>8, <1>9, <1>10 DEF ClientInv, ToldInv, Gone
<1>14. CountInv(c)'
  <2>1. Due(c) = (IF ~ Head(inbox[c]).quit THEN Head(inbox[c]).count ELSE 0) /\ Due(c)' = 0
    BY <1>1, <1>3 DEF Due
  <2>2. ~ alive'[c] => Idle(c)'
    BY <1>2, <1>3, <1>4, <1>10 DEF Idle
  <2>3. doing'[c] + Due(c)' = doing[c] + Due(c)
    BY <1>1, <1>2, <1>5, <1>10, <2>1
  <2>4. ~ crashed => answered[c] + doing[c] + Due(c) = 1 + Cardinality(WantedTo(c, next))
    BY DEF ClientInv, CountInv
  <2>5. doing'[c] \in Nat /\ Due(c)' \in Nat
    BY <1>2, <1>5, <1>10, <2>1
  <2>6. ~ crashed => answered'[c] + doing'[c] + Due(c)' = 1 + Cardinality(WantedTo(c, next)')
    BY <1>1, <1>8, <2>3, <2>4, <2>5, ClientTypes
  <2> QED BY <1>1, <1>8, <2>2, <2>6, Zenon DEF ClientInv, CountInv
<1> QED BY <1>11, <1>12, <1>13, <1>14 DEF ClientInv


\* It answers: what it owes becomes what there is to read.
LEMMA AnswerKeeps ==
    ASSUME TypeOK, GoneInv, NEW c \in Clients, ClientInv(c), at # "start",
           Answer(c) \/ AnswerHalf(c)
    PROVE  ClientInv(c)'
<1>1. /\ alive[c] /\ doing[c] > 0 /\ doing[c] \in Nat
      /\ UNCHANGED <<script, next, at, step, who, state, pending, inbox, alive, crashed>>
  BY ClientTypes DEF Answer, AnswerHalf, waitVars, knownVars
<1>2. inbox[c] = <<>> /\ state[c] = "running" /\ ~ Told(c, next)
  <2>1. inbox[c] = <<>> /\ state[c] # "ready"
    BY <1>1 DEF ClientInv, PipesInv, BeliefInv
  <2>2. ~ Gone(c)
    BY <1>1 DEF GoneInv, FinishedMeansGone
  <2>3. ~ Told(c, next)
    BY <1>1, <2>2 DEF ClientInv, ToldInv
  <2> QED BY <2>1, <2>2, <2>3, ClientTypes DEF Gone
<1>3. (Told(c, next)' <=> Told(c, next)) /\ WantedTo(c, next)' = WantedTo(c, next)
  BY <1>1, StillHere
<1>4. /\ doing'[c] \in Nat
      /\ doing'[c] + Cardinality(Tails(outPipe'[c]))
           = doing[c] + Cardinality(Tails(outPipe[c]))
      /\ answered'[c] + doing'[c] = answered[c] + doing[c]
      /\ script \notin Long => ~ half'[c] /\ Paired(outPipe'[c])
  <2>1. CASE Answer(c)
    <3>1. /\ outPipe'[c] = outPipe[c] \o Owes(c) /\ doing'[c] = doing[c] - 1
          /\ answered'[c] = answered[c] + 1 /\ ~ half'[c]
      <4>1. ~ half'[c]
        BY <2>1, Zenon DEF Answer, TypeOK, FlagsOK
      <4> QED BY <2>1, <4>1 DEF Answer, TypeOK, ClientOK
    <3>2. Cardinality(Tails(outPipe'[c])) = Cardinality(Tails(outPipe[c])) + 1
      <4>1. Owes(c) = <<"tail">> \/ Owes(c) = <<"head", "tail">>
        BY Zenon DEF Owes
      <4> QED BY <3>1, <4>1, PipeGrows, ClientTypes, Zenon
    <3>3. script \notin Long => Paired(outPipe'[c])
      <4>1. script \notin Long => ~ half[c] /\ Paired(outPipe[c])
        BY DEF ClientInv, PipesInv
      <4>2. script \notin Long => Owes(c) = <<"head", "tail">>
        BY <4>1, Zenon DEF Owes
      <4> QED BY <3>1, <4>1, <4>2, PipeGrows, ClientTypes, Zenon
    <3>4. /\ doing[c] \in Nat /\ answered[c] \in Nat
          /\ Cardinality(Tails(outPipe[c])) \in Nat
      BY ClientTypes
    <3>5. /\ doing'[c] \in Nat
          /\ doing'[c] + Cardinality(Tails(outPipe'[c]))
               = doing[c] + Cardinality(Tails(outPipe[c]))
          /\ answered'[c] + doing'[c] = answered[c] + doing[c]
      <4>1. doing[c] > 0
        BY <1>1
      <4>2. doing[c] - 1 \in Nat
        BY <3>4, <4>1
      <4>3. /\ (doing[c] - 1) + (Cardinality(Tails(outPipe[c])) + 1)
                 = doing[c] + Cardinality(Tails(outPipe[c]))
            /\ (answered[c] + 1) + (doing[c] - 1) = answered[c] + doing[c]
        BY <3>4
      <4> QED BY <3>1, <3>2, <4>2, <4>3, Zenon
    <3> QED BY <3>1, <3>3, <3>5, Zenon
  <2>2. CASE AnswerHalf(c)
    <3>1. /\ outPipe'[c] = Append(outPipe[c], "head") /\ script \in Long
          /\ UNCHANGED <<doing, answered>>
      BY <2>2 DEF AnswerHalf, TypeOK, ClientOK
    <3>2. Tails(outPipe'[c]) = Tails(outPipe[c])
      BY <3>1, PipeGrows, ClientTypes, Zenon
    <3> QED BY <1>1, <3>1, <3>2
  <2> QED BY <2>1, <2>2
<1>5. PipesInv(c)'
  BY <1>1, <1>2, <1>4 DEF ClientInv, PipesInv
<1>6. BeliefInv(c)'
  <2>1. Outstanding(c)' = doing'[c] + (IF inbox'[c] # <<>> THEN Head(inbox'[c]).count ELSE 0)
                          + Cardinality(Tails(outPipe'[c]))
    BY DEF Outstanding, Tails
  <2>2. Outstanding(c) = doing[c] + Cardinality(Tails(outPipe[c]))
    BY <1>2, ClientTypes
  <2>3. outPipe'[c] \in Seq(Halves)
    BY ProcTypes, ClientTypes DEF TypeOK, ClientOK
  <2>4. Cardinality(Tails(outPipe'[c])) \in Nat
    BY <2>3, PipeSets
  <2>5. Outstanding(c)' = doing'[c] + Cardinality(Tails(outPipe'[c]))
    BY <1>1, <1>2, <1>4, <2>1, <2>4
  <2>6. Outstanding(c)' = Outstanding(c)
    BY <1>4, <2>2, <2>5
  <2> QED BY <1>1, <1>2, <2>6, Zenon DEF ClientInv, BeliefInv
<1>7. ToldInv(c)'
  BY <1>1, <1>2, <1>3, Zenon DEF ClientInv, ToldInv
<1>8. CountInv(c)'
  <2>1. Due(c) = 0 /\ Due(c)' = 0
    BY <1>1, <1>2 DEF Due
  <2>2. answered'[c] \in Nat
    BY ProcTypes DEF TypeOK, ClientOK
  <2>3. answered'[c] + doing'[c] + Due(c)' = answered[c] + doing[c] + Due(c)
    BY <1>1, <1>4, <2>1, <2>2, ClientTypes
  <2> QED BY <1>1, <1>3, <2>3, Zenon DEF ClientInv, CountInv
<1> QED BY <1>5, <1>6, <1>7, <1>8 DEF ClientInv

\* It dies by itself: it owes less than it did.
LEMMA CrashKeeps ==
    ASSUME TypeOK, NEW c \in Clients, ClientInv(c), Crash(c)
    PROVE  ClientInv(c)'
<1>1. /\ ~ alive'[c] /\ doing'[c] = 0 /\ crashed'
      /\ UNCHANGED <<script, next, at, step, who, state, pending, inbox, outPipe, half>>
  <2>1. ~ alive'[c]
    BY Zenon DEF Crash, TypeOK, FlagsOK
  <2>2. doing'[c] = 0
    BY DEF Crash, TypeOK, ClientOK
  <2> QED BY <2>1, <2>2, Zenon DEF Crash, waitVars, knownVars
<1>2. (Told(c, next)' <=> Told(c, next)) /\ WantedTo(c, next)' = WantedTo(c, next)
  BY <1>1, StillHere
<1>3. PipesInv(c)'
  BY <1>1 DEF ClientInv, PipesInv
<1>4. BeliefInv(c)'
  <2> DEFINE line == IF inbox[c] # <<>> THEN Head(inbox[c]).count ELSE 0
             tails == Cardinality(Tails(outPipe[c]))
  <2>1. Outstanding(c)' = doing'[c] + (IF inbox'[c] # <<>> THEN Head(inbox'[c]).count ELSE 0)
                          + Cardinality(Tails(outPipe'[c]))
    BY DEF Outstanding, Tails
  <2>2. Outstanding(c)' = 0 + line + tails
    BY <1>1, <2>1, Zenon
  <2>3. Outstanding(c) = doing[c] + line + tails
    BY ClientTypes
  <2>4. line \in Nat /\ tails \in Nat /\ doing[c] \in Nat /\ pending[c] \in Int
    BY ClientTypes
  <2> HIDE DEF line, tails
  <2>5. Outstanding(c)' <= Outstanding(c) /\ Outstanding(c)' \in Int /\ Outstanding(c) \in Int
    BY <2>2, <2>3, <2>4
  <2>6. state[c] = "running" => pending[c] >= Outstanding(c)'
    BY <2>4, <2>5 DEF ClientInv, BeliefInv
  <2> QED BY <1>1, <2>6 DEF ClientInv, BeliefInv, Leaving
<1>5. ToldInv(c)'
  BY <1>1, <1>2 DEF ClientInv, ToldInv, Gone
<1>6. CountInv(c)'
  BY <1>1, <1>2 DEF ClientInv, CountInv
<1> QED BY <1>3, <1>4, <1>5, <1>6 DEF ClientInv

\* endOfInput tells a client that waits for work to quit.
LEMMA QuitKeeps ==
    ASSUME TypeOK, NEW c \in Clients, ClientInv(c), state[c] = "ready", alive[c], ~ Leaving(c),
           at # "start", at' = "end", who' = c, step' = "check",
           inbox' = [inbox EXCEPT ![c] = Append(@, Quit(c))],
           UNCHANGED <<script, next, crashed, state[c], pending[c], alive[c], doing[c], half[c],
                       outPipe[c], answered[c]>>
    PROVE  ClientInv(c)'
<1>1. inbox[c] = <<>> /\ doing[c] = 0 /\ outPipe[c] = <<>> /\ ~ Told(c, next)
  BY DEF ClientInv, BeliefInv, ToldInv, Gone
<1>2. inbox'[c] = <<Quit(c)>>
  BY <1>1 DEF TypeOK, ClientOK
<1>3. inbox'[c] # <<>> /\ Len(inbox'[c]) = 1 /\ Head(inbox'[c]).quit
  <2>1. inbox'[c] # <<>> /\ Len(inbox'[c]) = 1 /\ Head(inbox'[c]) = Quit(c)
    <3>1. \A x : <<x>> # <<>> /\ Len(<<x>>) = 1 /\ Head(<<x>>) = x
      OBVIOUS
    <3> QED BY <1>2, <3>1, Zenon
  <2>2. Quit(c).quit
    BY DEF Quit
  <2> QED BY <2>1, <2>2, Zenon
<1>4. (Told(c, next)' <=> Told(c, next)) /\ WantedTo(c, next)' = WantedTo(c, next)
  BY StillHere
<1>5. PipesInv(c)'
  BY <1>1, <1>3 DEF ClientInv, PipesInv
<1>6. BeliefInv(c)'
  BY <1>1, <1>3 DEF BeliefInv, Leaving
<1>7. ToldInv(c)'
  BY <1>1, <1>4 DEF ToldInv
<1>8. CountInv(c)'
  <2>1. Due(c) = 0 /\ Due(c)' = 0
    BY <1>1, <1>3 DEF Due
  <2> QED BY <1>4, <2>1 DEF ClientInv, CountInv
<1> QED BY <1>5, <1>6, <1>7, <1>8 DEF ClientInv


\* A statement ignored: its client has gone, told or by itself.
LEMMA IgnoredKeeps ==
    ASSUME TypeOK, GoneInv, NEW d \in Clients, ClientInv(d), SendIgnored, Cmd.client = d,
           ~ Told(d, next)
    PROVE  ClientInv(d)'
<1>1. /\ at = "fetch" /\ at' = "fetch" /\ next <= Len(script) /\ next' = next + 1
      /\ Cmd.op = "send" /\ Gone(d) /\ ~ alive[d]
      /\ UNCHANGED <<script, crashed, Seen(d)>>
  BY DEF SendIgnored, Fetching, Advance, Ignores, waitVars, knownVars, pipeVars, procVars,
     Seen, GoneInv, FinishedMeansGone
<1>2. crashed /\ crashed'
  BY <1>1 DEF ClientInv, ToldInv
<1>3. IsFiniteSet(WantedTo(d, next)')
  <2>1. WantedTo(d, next)' = WantedTo(d, next + 1)
    BY <1>1, Zenon DEF WantedTo, Asked
  <2>2. IsFiniteSet(WantedTo(d, next))
    BY DEF ClientInv, CountInv
  <2> QED BY <1>1, <2>1, <2>2, AskedNow DEF Cmd
<1>4. Gone(d)' /\ PipesInv(d)'
  BY <1>1, Zenon DEF Seen, Gone, ClientInv, PipesInv
<1>5. BeliefInv(d)'
  BY <1>4 DEF BeliefInv, Gone
<1>6. inbox'[d] # <<>> => ~ Head(inbox'[d]).quit
  BY <1>1, Zenon DEF Seen, ClientInv, ToldInv
<1>7. ToldInv(d)'
  BY <1>2, <1>4, <1>6 DEF ToldInv
<1>8. CountInv(d)'
  BY <1>2, <1>3 DEF CountInv
<1> QED BY <1>4, <1>5, <1>7, <1>8 DEF ClientInv

\* The controller's steps that concern no client.
LEMMA QuietKeepsClients ==
    ASSUME TypeOK, GoneInv, PlaceInv, NEW d \in Clients, ClientInv(d), at # "start",
           \/ Select \/ Warn \/ PauseOver \/ InitNext \/ Skip \/ Wait \/ WaitOver \/ Pause
           \/ SendIgnored \/ SendWait \/ \E c \in Clients : ReadError(c)
    PROVE  ClientInv(d)'
<1> USE DEF Waiting
<1>0. CASE SendIgnored /\ Cmd.client = d /\ ~ Told(d, next)
  BY <1>0, IgnoredKeeps
<1> SUFFICES ASSUME ~ (SendIgnored /\ Cmd.client = d /\ ~ Told(d, next)) PROVE ClientInv(d)'
  BY <1>0
<1>1. UNCHANGED <<script, crashed, Seen(d)>>
  BY DEF Select, Warn, PauseOver, InitNext, Skip, Wait, WaitOver, Pause, SendIgnored,
     SendWait, ReadError, knownVars, pipeVars, procVars, Seen
<1>2. (Told(d, next)' <=> Told(d, next)) /\ WantedTo(d, next)' = WantedTo(d, next)
  <2>1. CASE UNCHANGED next
    BY <1>1, <2>1, StillHere
  <2>2. CASE next' = next + 1 /\ next <= Len(script)
             /\ (Cmd.op = "send" /\ Cmd.client = d => Told(d, next))
    <3>1. (Told(d, next)' <=> Told(d, next + 1)) /\ WantedTo(d, next)' = WantedTo(d, next + 1)
      BY <1>1, <2>2, Zenon DEF Told, WantedTo, Asked
    <3>2. CASE ~ (Cmd.op = "send" /\ Cmd.client = d)
      BY <2>2, <3>1, <3>2, NotAsked DEF Cmd
    <3>3. CASE Told(d, next)
      BY <3>1, <3>3, AskedTooLate
    <3> QED BY <2>2, <3>2, <3>3
  <2> QED BY <2>1, <2>2 DEF Select, Warn, PauseOver, InitNext, Skip, Wait, WaitOver, Pause,
             SendIgnored, SendWait, ReadError, Advance, Fetching, Ignores
<1>3. at' # "start" /\ at # "over"
  BY DEF Select, Warn, TimedOut, PauseOver, InitNext, Skip, Wait, WaitOver, Pause,
     SendIgnored, SendWait, ReadError, Fetching, Await, Continue, Waits, waitVars
<1>4. at = "end" => at' = "end" /\ who' = who /\ step # "next" /\ step' # "next"
  BY DEF Select, Warn, TimedOut, PauseOver, InitNext, Skip, Wait, WaitOver, Pause,
     SendIgnored, SendWait, ReadError, ReadNext, Fetching, Await, Continue, Waits, waitVars
<1>5. Leaving(d) => Leaving(d)'
  BY <1>4 DEF Leaving
<1> QED BY <1>1, <1>2, <1>3, <1>4, <1>5, StillKeeps


LEMMA EndWithKeepsClients ==
    ASSUME TypeOK, GoneInv, NEW c \in Clients, EndWith(c), ~ Leaving(c),
           UNCHANGED <<script, next, ret, pending, tran, probe, outPipe, errPipe,
                       half, answered, crashed>>,
           at \in {"fetch", "end"}, NEW d \in Clients, ClientInv(d),
           Leaving(d) => state[d] # "ready"
    PROVE  ClientInv(d)'
<1>1. at # "start" /\ at' = "end" /\ at' # "start"
  BY DEF EndWith, Await
<1>2. (Told(d, next)' <=> Told(d, next)) /\ WantedTo(d, next)' = WantedTo(d, next)
  BY StillHere
<1>3. CASE UNCHANGED Seen(d)
  BY <1>1, <1>2, <1>3, StillKeeps
<1>4. CASE Close({c}) /\ ~ alive[c] /\ UNCHANGED inbox
  <2>1. CASE d = c /\ ~ Gone(c)
    <3>1. state'[c] = "finished" /\ ~ alive'[c] /\ doing'[c] = 0
      BY <1>4, <2>1 DEF Close
    <3> QED BY <1>1, <1>4, <2>1, <3>1, FinishKeeps
  <2>2. CASE ~ (d = c /\ ~ Gone(c))
    <3>1. UNCHANGED <<state[d], doing[d]>> /\ (alive'[d] <=> alive[d])
      BY <1>4, <2>2 DEF Close
    <3>2. UNCHANGED alive[d]
      BY <1>4, <2>2, <3>1, CloseTypes, Zenon DEF TypeOK, FlagsOK
    <3>3. UNCHANGED Seen(d)
      BY <1>4, <3>1, <3>2, Zenon DEF Seen
    <3> QED BY <1>3, <3>3
  <2> QED BY <2>1, <2>2
<1>5. CASE state[c] = "ready" /\ alive[c] /\ inbox' = [inbox EXCEPT ![c] = Append(@, Quit(c))]
           /\ Await("end", c) /\ UNCHANGED <<state, alive, doing, locked>>
  <2>1. CASE d = c
    BY <1>1, <1>5, <2>1, QuitKeeps DEF Await
  <2>2. CASE d # c
    <3>1. inbox'[d] = inbox[d]
      BY <1>5, <2>2 DEF TypeOK, ClientOK
    <3>2. UNCHANGED Seen(d)
      BY <1>5, <3>1, Zenon DEF Seen
    <3> QED BY <1>3, <3>2
  <2> QED BY <2>1, <2>2
<1> QED BY <1>3, <1>4, <1>5 DEF EndWith, Seen

\* Each step of the controller, for each client, up to the run's end.
LEMMA ControllerKeepsClients ==
    ASSUME TypeOK, GoneInv, PlaceInv, ScanInv, FreshInv, Controller, at # "over", at' # "over",
           \A c \in Clients : ClientInv(c), NEW d \in Clients
    PROVE  ClientInv(d)'
<1> USE DEF Waiting
<1>1. ClientInv(d)
  OBVIOUS
<1>2. CASE Start
  BY <1>2, StartKeeps
<1>3. CASE GiveUp \/ StartFails \/ Refuse \/ SendFails \/ EndOver
  BY <1>3 DEF GiveUp, StartFails, Refuse, SendFails, EndOver, Return
<1>4. CASE Select \/ Warn \/ PauseOver \/ InitNext \/ Skip \/ Wait \/ WaitOver \/ Pause
           \/ SendIgnored \/ SendWait \/ \E c \in Clients : ReadError(c)
  <2>1. at # "start"
    BY <1>4 DEF Select, Warn, TimedOut, PauseOver, InitNext, Skip, Wait, WaitOver, Pause,
       SendIgnored, SendWait, ReadError, Fetching, Waits
  <2> QED BY <1>1, <1>4, <2>1, QuietKeepsClients, Zenon
<1>5. ASSUME NEW c \in Clients, ReadOutput(c) PROVE ClientInv(d)'
  <2>1. CASE d = c
    BY <1>1, <1>5, <2>1, ReadOutputKeeps
  <2>2. CASE d # c
    <3>1. /\ UNCHANGED <<script, next, at, who, crashed, alive, inbox, doing, half, answered>>
          /\ state'[d] = state[d] /\ pending'[d] = pending[d] /\ outPipe'[d] = outPipe[d]
          /\ at # "start" /\ step # "next" /\ step' # "next"
      BY <1>5, <2>2 DEF ReadOutput, ReadNext, Waits, procVars, TypeOK, ControlOK, ClientOK
    <3>2. UNCHANGED Seen(d) /\ (Leaving(d) => Leaving(d)')
      BY <3>1, Zenon DEF Seen, Leaving
    <3>3. (Told(d, next)' <=> Told(d, next)) /\ WantedTo(d, next)' = WantedTo(d, next)
      BY <3>1, StillHere
    <3> QED BY <1>1, <3>1, <3>2, <3>3, StillKeeps
  <2> QED BY <2>1, <2>2
<1>6. CASE Reap \/ \E c \in Clients : ReadEnd(c)
  <2>1. /\ UNCHANGED <<script, next, at, who, crashed, pending, inbox, half, outPipe, answered>>
        /\ at # "start" /\ step # "next" /\ step' # "next"
    BY <1>6 DEF Reap, ReadEnd, ReadNext, Waits, pipeVars, procVars
  <2>2. \/ UNCHANGED <<state[d], doing[d], alive[d]>>
        \/ /\ ~ alive[d] /\ ~ alive'[d] /\ state'[d] = "finished"
           /\ doing'[d] \in {0, doing[d]}
    <3>1. CASE Reap
      BY <3>1, Zenon DEF Reap, procVars
    <3>2. CASE \E c \in Clients : ReadEnd(c)
      <4>1. PICK c \in Clients : ReadEnd(c)
        BY <3>2
      <4>2. Close({c}) /\ ~ alive[c]
        BY <4>1 DEF ReadEnd, NextToRead, ScanInv
      <4>3. CASE d = c /\ ~ Gone(c)
        BY <4>2, <4>3 DEF Close
      <4>4. CASE ~ (d = c /\ ~ Gone(c))
        <5>1. UNCHANGED <<state[d], doing[d]>> /\ (alive'[d] <=> alive[d])
          BY <4>2, <4>4 DEF Close
        <5>2. UNCHANGED alive[d]
          BY <4>2, <5>1, CloseTypes, Zenon DEF TypeOK, FlagsOK
        <5> QED BY <5>1, <5>2
      <4> QED BY <4>3, <4>4
    <3> QED BY <1>6, <3>1, <3>2
  <2>3. CASE UNCHANGED <<state[d], doing[d], alive[d]>>
    <3>1. UNCHANGED Seen(d) /\ (Leaving(d) => Leaving(d)')
      BY <2>1, <2>3, Zenon DEF Seen, Leaving
    <3>2. (Told(d, next)' <=> Told(d, next)) /\ WantedTo(d, next)' = WantedTo(d, next)
      BY <2>1, StillHere
    <3> QED BY <1>1, <2>1, <3>1, <3>2, StillKeeps
  <2>4. CASE ~ alive[d] /\ ~ alive'[d] /\ state'[d] = "finished" /\ doing'[d] \in {0, doing[d]}
    BY <1>1, <2>1, <2>4, FinishKeeps
  <2> QED BY <2>2, <2>3, <2>4
<1>7. CASE Send
  <2>1. CASE d = who
    BY <1>1, <1>7, <2>1, SendKeeps
  <2>2. CASE d # who
    <3>1. /\ UNCHANGED <<script, crashed, alive, outPipe, doing, half, answered>>
          /\ state'[d] = state[d] /\ pending'[d] = pending[d] /\ inbox'[d] = inbox[d]
          /\ at = "send" /\ at' = "fetch" /\ next' = next + 1 /\ next <= Len(script)
          /\ Cmd.client # d
      BY <1>7, <2>2 DEF Send, PlaceInv, Continue, Advance, Expect, procVars, TypeOK,
         ControlOK, ClientOK
    <3>2. UNCHANGED Seen(d)
      BY <3>1, Zenon DEF Seen
    <3>3. (Told(d, next)' <=> Told(d, next + 1)) /\ WantedTo(d, next)' = WantedTo(d, next + 1)
      BY <3>1, Zenon DEF Told, WantedTo, Asked
    <3>4. (Told(d, next)' <=> Told(d, next)) /\ WantedTo(d, next)' = WantedTo(d, next)
      BY <3>1, <3>3, NotAsked DEF Cmd
    <3> QED BY <1>1, <3>1, <3>2, <3>4, StillKeeps DEF Leaving
  <2> QED BY <2>1, <2>2
<1>8. CASE EndOfInput
  <2>1. 1 \in Clients /\ at = "fetch" /\ EndWith(1)
    BY <1>8, CtlAssumption DEF EndOfInput, Clients
  <2>2. ~ Leaving(1) /\ ~ Leaving(d)
    BY <2>1 DEF Leaving
  <2> QED BY <1>1, <1>8, <2>1, <2>2, EndWithKeepsClients DEF EndOfInput
<1>9. CASE EndNext
  <2> DEFINE c == IF step = "next" THEN who ELSE who + 1
  <2>1. /\ c <= K /\ EndWith(c) /\ who \in 1..(K + 1) /\ at = "end"
        /\ step = "next" \/ (step = "check" /\ Gone(who))
        /\ UNCHANGED <<script, next, ret, pending, tran, probe, outPipe, errPipe,
                       half, answered, crashed>>
    BY <1>9 DEF EndNext, Done, TypeOK, ControlOK
  <2>2. c \in Clients /\ (step # "next" => c # who)
    BY <2>1, CtlAssumption DEF Clients
  <2> HIDE DEF c
  <2>3. ~ Leaving(c) /\ (Leaving(d) => state[d] # "ready")
    BY <2>1, <2>2 DEF Leaving, Gone
  <2> QED BY <1>1, <2>1, <2>2, <2>3, EndWithKeepsClients
<1> QED BY <1>2, <1>3, <1>4, <1>5, <1>6, <1>7, <1>8, <1>9, Zenon DEF Controller, Read


LEMMA ExternalKeepsClients ==
    ASSUME TypeOK, GoneInv, FreshInv, External, \A c \in Clients : ClientInv(c),
           NEW d \in Clients
    PROVE  ClientInv(d)'
<1>1. UNCHANGED <<script, next, at, step, who>>
  BY Zenon DEF External, ProbeDies, Take, Answer, AnswerHalf, Lock, Crash, waitVars
<1>2. CASE ProbeDies
  BY <1>1, <1>2, SameKeeps DEF ProbeDies, knownVars, pipeVars, procVars, Seen
<1>3. ASSUME NEW c \in Clients,
             Take(c) \/ Answer(c) \/ AnswerHalf(c) \/ Lock(c) \/ Crash(c)
      PROVE  ClientInv(d)'
  <2>1. at # "start"
    BY <1>3 DEF Take, Answer, AnswerHalf, Lock, Crash, FreshInv
  <2>2. CASE Lock(c)
    BY <1>1, <2>2, SameKeeps DEF Lock, knownVars, pipeVars, Seen
  <2>3. CASE d = c /\ ~ Lock(c)
    BY <1>3, <2>1, <2>3, TakeKeeps, AnswerKeeps, CrashKeeps
  <2>4. CASE d # c /\ ~ Lock(c)
    <3>1. /\ UNCHANGED <<state, pending>>
          /\ alive'[d] = alive[d] /\ inbox'[d] = inbox[d] /\ doing'[d] = doing[d]
          /\ half'[d] = half[d] /\ outPipe'[d] = outPipe[d] /\ answered'[d] = answered[d]
      BY <1>3, <2>4 DEF Take, Answer, AnswerHalf, Crash, knownVars, pipeVars,
         TypeOK, FlagsOK, ClientOK
    <3>2. UNCHANGED Seen(d)
      BY <3>1, Zenon DEF Seen
    <3>3. crashed => crashed'
      BY <1>3, <2>4, Zenon DEF Take, Answer, AnswerHalf, Crash
    <3>4. (Told(d, next)' <=> Told(d, next)) /\ WantedTo(d, next)' = WantedTo(d, next)
      BY <1>1, StillHere
    <3>5. Leaving(d) => Leaving(d)'
      BY <1>1, Zenon DEF Leaving
    <3> QED BY <1>1, <2>1, <3>2, <3>3, <3>4, <3>5, StillKeeps
  <2> QED BY <2>2, <2>3, <2>4
<1> QED BY <1>2, <1>3, Zenon DEF External

-----------------------------------------------------------------------------
(* The run.                                                                *)

LEMMA InitCtl == Init => CtlInv
<1> SUFFICES ASSUME Init PROVE CtlInv
  OBVIOUS
<1>1. TypeOK
  <2>1. ControlOK
    <3>1. script \in Seq(Command) /\ K \in Nat \ {0} /\ Rounds \in Nat
      BY CtlAssumption DEF Init
    <3>2. Len(script) \in Nat
      BY <3>1
    <3> QED BY <3>1, <3>2 DEF Init, ControlOK, DeadlockPause
  <2>2. FlagsOK
    BY Zenon DEF Init, FlagsOK
  <2>3. ClientOK
    BY DEF Init, ClientOK, Halves
  <2> QED BY <2>1, <2>2, <2>3 DEF TypeOK
<1>2. GoneInv
  BY InitGone
<1>3. at = "start" /\ step = "check" /\ ret = -1 /\ next = 1
  BY DEF Init
<1>4. PlaceInv /\ ScanInv /\ RunComplete
  BY <1>3 DEF PlaceInv, ScanInv, RunComplete, Waits
<1>5. FreshInv
  BY DEF Init, FreshInv, Idle
<1>6. ASSUME NEW c \in Clients PROVE ClientInv(c)
  <2>1. /\ state[c] = "running" /\ pending[c] = 1 /\ Idle(c) /\ ~ alive[c] /\ ~ half[c]
    BY <1>3, <1>5 DEF FreshInv
  <2>2. inbox[c] = <<>> /\ doing[c] = 0 /\ outPipe[c] = <<>>
    BY <2>1 DEF Idle
  <2>3. Paired(outPipe[c]) /\ Cardinality(Tails(outPipe[c])) = 0
    BY <2>2, EmptyPipe, Zenon
  <2>4. Outstanding(c) = 0
    <3>1. Outstanding(c) = doing[c] + (IF inbox[c] # <<>> THEN Head(inbox[c]).count ELSE 0)
                           + Cardinality(Tails(outPipe[c]))
      BY DEF Outstanding, Tails
    <3> QED BY <2>2, <2>3, <3>1
  <2>5. ~ Told(c, next) /\ IsFiniteSet(WantedTo(c, next))
    BY <1>1, <1>3, NothingAsked
  <2>6. PipesInv(c)
    BY <2>1, <2>2, <2>3 DEF PipesInv
  <2>7. BeliefInv(c)
    BY <2>1, <2>4 DEF BeliefInv
  <2>8. ToldInv(c) /\ CountInv(c)
    BY <1>3, <2>2, <2>5 DEF ToldInv, CountInv
  <2> QED BY <2>6, <2>7, <2>8 DEF ClientInv
<1> QED BY <1>1, <1>2, <1>4, <1>5, <1>6 DEF CtlInv

\* EndOver is the only step that ends a run with status 0: then every client
\* has gone, and one that did not die by itself owed nothing.
LEMMA EndsComplete ==
    ASSUME CtlInv, [Next]_vars, ret = -1, ret' = 0
    PROVE  RunComplete'
<1>1. EndOver
  <2>1. ~ (External \/ UNCHANGED vars)
    <3>1. ret' # ret
      OBVIOUS
    <3> QED BY <3>1, Zenon DEF External, ProbeDies, Take, Answer, AnswerHalf, Lock, Crash, vars
  <2>2. ~ (GiveUp \/ StartFails \/ Refuse \/ SendFails)
    BY DEF GiveUp, StartFails, Refuse, SendFails, Return
  <2>3. ~ (Select \/ Read \/ Reap \/ Warn \/ PauseOver \/ Start \/ InitNext \/ Skip \/ Wait
           \/ WaitOver \/ Pause \/ SendIgnored \/ SendWait \/ Send \/ EndOfInput \/ EndNext)
    BY DEF Select, Read, ReadOutput, ReadEnd, ReadError, Reap, Warn, PauseOver, Start,
       InitNext, Skip, Wait, WaitOver, Pause, SendIgnored, SendWait, Send, EndOfInput,
       EndNext
  <2> QED BY <2>1, <2>2, <2>3, Zenon DEF Next, Controller, Over
<1>2. /\ at = "end" /\ at # "over" /\ at # "start"
      /\ (step = "next" /\ who > K) \/ (Gone(who) /\ who = K /\ step # "next")
      /\ UNCHANGED <<script, next, crashed, answered, outPipe>>
  BY <1>1 DEF EndOver, Return, Done, pipeVars
<1>3. \A c \in Clients : Gone(c)
  <2>1. \A c \in Clients : c < who \/ (c = who /\ Gone(who))
    BY <1>2, CtlAssumption DEF Clients, CtlInv, TypeOK, ControlOK
  <2> QED BY <1>2, <2>1 DEF CtlInv, PlaceInv
<1>4. next = Len(script) + 1
  BY <1>2 DEF CtlInv, PlaceInv
<1>5. ASSUME NEW c \in Clients, ~ crashed
      PROVE  answered[c] = 1 + Cardinality(Wanted(c)) /\ outPipe[c] = <<>>
  <2>1. ~ alive[c]
    BY <1>3 DEF CtlInv, GoneInv, FinishedMeansGone
  <2>2. Idle(c) /\ answered[c] + doing[c] + Due(c) = 1 + Cardinality(WantedTo(c, next))
    BY <1>2, <1>5, <2>1 DEF CtlInv, ClientInv, CountInv
  <2>3. doing[c] = 0 /\ Due(c) = 0 /\ outPipe[c] = <<>>
    BY <2>2 DEF Idle, Due
  <2>4. Wanted(c) = WantedTo(c, next)
    BY <1>4, AllAsked DEF CtlInv
  <2>5. answered[c] \in Nat
    BY ClientTypes DEF CtlInv
  <2> QED BY <2>2, <2>3, <2>4, <2>5
<1>6. \A c \in Clients : Wanted(c)' = Wanted(c)
  BY <1>2, Zenon DEF Wanted
<1> QED BY <1>2, <1>5, <1>6, Zenon DEF RunComplete

LEMMA CtlStep == CtlInv /\ [Next]_vars => CtlInv'
<1> SUFFICES ASSUME CtlInv, [Next]_vars PROVE CtlInv'
  OBVIOUS
<1>1. TypeOK /\ GoneInv /\ PlaceInv /\ ScanInv /\ FreshInv
  BY DEF CtlInv
<1>2. TypeOK' /\ PlaceInv' /\ ScanInv' /\ FreshInv'
  BY <1>1, TypeStep, PlaceStep, ScanStep, FreshStep
<1>3. GoneInv'
  BY <1>1, GoneStep
<1>4. ASSUME at' # "over", NEW d \in Clients PROVE ClientInv(d)'
  <2>1. at # "over"
    BY <1>1, <1>4, OverStays DEF vars, waitVars
  <2>2. \A c \in Clients : ClientInv(c)
    BY <2>1 DEF CtlInv
  <2>3. CASE Controller
    BY <1>1, <1>4, <2>1, <2>2, <2>3, ControllerKeepsClients
  <2>4. CASE External
    BY <1>1, <2>2, <2>4, ExternalKeepsClients
  <2>5. CASE UNCHANGED vars
    <3>1. UNCHANGED <<script, next, at, step, who, crashed, Seen(d)>>
      BY <2>5 DEF vars, waitVars, knownVars, pipeVars, procVars, Seen
    <3> QED BY <2>2, <3>1, SameKeeps
  <2> QED BY <2>3, <2>4, <2>5, Zenon DEF Next, Over
<1>5. RunComplete'
  <2>1. CASE ret = -1
    <3>1. CASE ret' = 0
      BY <2>1, <3>1, EndsComplete
    <3>2. CASE ret' # 0
      BY <3>2 DEF RunComplete
    <3> QED BY <3>1, <3>2
  <2>2. CASE ret # -1
    <3>1. at = "over"
      BY <1>1, <2>2 DEF GoneInv, Ended
    <3>2. UNCHANGED <<ret, crashed, answered, outPipe, script>>
      BY <1>1, <3>1, OverStays, Zenon DEF vars, pipeVars, procVars
    <3>3. RunComplete
      BY DEF CtlInv
    <3>4. \A c \in Clients : Wanted(c)' = Wanted(c)
      BY <3>2, Zenon DEF Wanted
    <3> QED BY <3>2, <3>3, <3>4 DEF RunComplete
  <2> QED BY <2>1, <2>2
<1> QED BY <1>2, <1>3, <1>4, <1>5 DEF CtlInv

\* What the controller believes of a client is so, for every number of clients
\* and any scripts: one it takes for ready owes nothing; it expects of one that
\* runs what that one has still to say, and never less; and the run it reports
\* as well has run its script -- every client that did not die by itself has
\* answered what was addressed to it, and all of it was read.
THEOREM CtlIsHonest == Spec => []CtlHonest
<1>1. CtlInv => CtlHonest
  <2> SUFFICES ASSUME CtlInv PROVE CtlHonest
    OBVIOUS
  <2>1. BeliefsSound
    BY DEF CtlInv, ClientInv, BeliefInv, Leaving, BeliefsSound, ReadyIsIdle
  <2>2. PendingExact
    BY DEF CtlInv, ClientInv, BeliefInv, PendingExact
  <2> QED BY <2>1, <2>2 DEF CtlInv, CtlHonest
<1> QED BY <1>1, InitCtl, CtlStep, PTL DEF Spec

-----------------------------------------------------------------------------
(* The suite: which case a wreck is put down to, what the corpus holds     *)
(* while slots are open and after, and what is left for the next run.      *)

AtCase == {"got", "run", "files", "fatals", "record"}
Unbusy == {"none", "deploy", "ready", "claim", "stop", "gone"}
Slotted == {"deploy", "test", "keep", "close"}

\* Where the workers can be when the run is where it is.
WorkInv ==
    /\ iAt \in {"begin", "fetch", "patch", "revert", "over"} \cup Slotted
    /\ iMode \in {"fresh", "continue"} /\ iCtx \in {"live", "done"}
    /\ iWst \in [OfSuite.slots -> AtCase \cup Unbusy \cup {"bad", "kept"}]
    /\ iWtc \in [OfSuite.slots -> OfSuite.cases \cup {0}]
    /\ iWok \in [OfSuite.slots -> BOOLEAN]
    /\ iAt \in {"begin", "fetch", "patch"} => \A s \in OfSuite.slots : iWst[s] = "none"
    /\ iAt = "deploy" => \A s \in OfSuite.slots : iWst[s] \in {"deploy", "ready", "bad"}
    /\ iAt = "test" => \A s \in OfSuite.slots : iWst[s] \in AtCase \cup {"claim", "stop",
         "gone", "bad"}
    /\ iAt = "keep" => \A s \in OfSuite.slots : iWst[s] \in {"gone", "bad", "kept"}

\* The queue's cases that are out are those in the workers' hands, one in each.
HandsInv ==
    /\ I!List \subseteq OfSuite.cases
    /\ iLeft \cap iOut = {} /\ iLeft \cap iOver = {} /\ iOut \cap iOver = {}
    /\ iAt \in {"begin", "fetch"} => I!List = {}
    /\ iOut = {iWtc[s] : s \in OfSuite.slots} \ {0}
    /\ \A s, t \in OfSuite.slots : s # t /\ iWtc[s] = iWtc[t] => iWtc[s] = 0
    /\ \A s \in OfSuite.slots :
          /\ iWst[s] \in AtCase => iWtc[s] # 0
          /\ iWst[s] \in Unbusy => iWtc[s] = 0
          /\ iWst[s] \in {"stop", "gone"} => iLeft = {}

\* What lies in a slot is a wreck of its case or of one that had its verdict: the
\* first the worker has not counted, the others it has.
SlotInv(s) ==
    /\ iSeen[s] \subseteq iFiles[s] /\ iFiles[s] \subseteq iLeavers
    /\ iLines[s] \in Nat /\ iCounts[s] \in Nat
    /\ iWst[s] = "got" => iWtc[s] \notin iLeavers
    /\ iCtx = "live" =>
          /\ iWst[s] \in {"run", "files"} => iFiles[s] \ iSeen[s] \subseteq {iWtc[s]}
          /\ iWst[s] \notin {"run", "files"} => iFiles[s] \subseteq iSeen[s]
          /\ iLines[s] > iCounts[s] => iWst[s] \in {"run", "files", "fatals"}
               /\ iWtc[s] \in iLeavers

\* A wreck is still to be found, or has failed its case, or could not be looked for.
NoticedInv(s) ==
    /\ iCounts[s] <= iLines[s]
    /\ iWtc[s] \in iLeavers =>
          /\ iWst[s] \in {"run", "files"}
               => iWtc[s] \in iFiles[s] \ iSeen[s] \/ iLines[s] > iCounts[s]
          /\ iWst[s] = "fatals"
               => ~iWok[s] \/ iLines[s] > iCounts[s] \/ iWtc[s] \in iMissed
          /\ iWst[s] = "record" => ~iWok[s] \/ iWtc[s] \in iMissed

WreckInv ==
    /\ iFiles \in [OfSuite.slots -> SUBSET OfSuite.cases]
    /\ iSeen \in [OfSuite.slots -> SUBSET OfSuite.cases]
    /\ iLines \in [OfSuite.slots -> Nat] /\ iCounts \in [OfSuite.slots -> Nat]
    /\ iLeavers \subseteq iOut \cup iOver /\ iPassed \subseteq iOver
    /\ iBlamed \subseteq iLeavers
    /\ \A s \in OfSuite.slots : SlotInv(s)
    /\ iPassed \cap iLeavers \subseteq iMissed
    /\ \A s \in OfSuite.slots : NoticedInv(s)

\* The patches of the run's cases that are in, and those that are to come out.
TreeInv ==
    /\ iTree \subseteq OfSuite.patches
    /\ iOpened # {} => iAt \in Slotted
    /\ iAt = "patch" => iTodo \subseteq OfSuite.patches \cap I!List
         /\ (OfSuite.patches \cap I!List) \ iTodo \subseteq iTree
    /\ iAt \in Slotted => OfSuite.patches \cap I!List \subseteq iTree
    /\ iAt = "revert" => iTodo \subseteq OfSuite.patches \cap I!List
         /\ iTree \cap I!List \subseteq iRefused \cup iTodo
    /\ iAt = "over" /\ iExit \in {"ok", "error"} => iTree \cap I!List \subseteq iRefused

\* A fresh run's lists are its own cases, found and finished.
ListsInv ==
    /\ iAll \subseteq OfSuite.cases
    /\ iMode = "fresh" =>
          /\ iAt = "fetch" => iFin = {}
          /\ iAt \in {"patch", "revert"} \cup Slotted => iAll = I!List /\ iFin = iOver
    /\ iSized => iAt \in {"keep", "close", "revert", "over"} /\ iLeft \cup iOut = {}
         /\ iFin = iAll

\* A backup in the machine's directory is under its own name or its slot's.
KeptInv ==
    /\ iBackup \in [OfSuite.slots -> Int]
    /\ \A h \in iHome : \E t \in OfSuite.slots, r \in Nat, b \in Int :
          h \in {[name |-> <<o, b>>, from |-> <<r, t>>] : o \in {0, t}}
    /\ iRuns \in Nat
    /\ iAt \in {"begin", "fetch", "patch", "deploy"}
         => \A s \in OfSuite.slots : iBackup[s] = 0
    /\ iAt \in {"keep", "close", "revert", "over"} /\ iExit \in {"ok", "error"} =>
          \A s \in OfSuite.slots : iBackup[s] # 0 /\ (iAt = "keep" => iWst[s] = "kept") =>
             \E h \in iHome : h.from = <<iRuns, s>>

IsolationInv == WorkInv /\ HandsInv /\ WreckInv /\ TreeInv /\ ListsInv /\ KeptInv

-----------------------------------------------------------------------------
\* Cases are taken in their order: there is a first in any set of them.
LEMMA FirstIsIn ==
    ASSUME NEW T, T \subseteq Nat, T # {}
    PROVE  I!First(T) \in T
<1>1. PICK m \in T : \A k \in T : <<k, m>> \notin OpToRel(<, Nat)
  BY WFMin, NatLessThanWellFounded, Zenon
<1>2. \A k \in T : ~(k < m)
  BY <1>1, Zenon DEF OpToRel
<1>3. \A k \in T : m <= k
  BY <1>2
<1> QED BY <1>3, Zenon DEF I!First

\* What a run finds or is left with is of the corpus.
LEMMA FetchedAreCases ==
    ASSUME ListsInv PROVE I!Fetched \subseteq OfSuite.cases
BY DEF ListsInv, I!Fetched, I!Exclude

LEMMA IsolationInit == ASSUME I!IsolationGiven, I!Init PROVE IsolationInv
<1> USE DEF I!Init, I!Each, I!List
<1>1. WorkInv
  BY DEF WorkInv, Unbusy
<1>2. HandsInv
  BY DEF HandsInv, AtCase
<1>3. WreckInv
  BY DEF WreckInv, SlotInv, NoticedInv
<1>4. TreeInv /\ ListsInv
  BY DEF TreeInv, ListsInv
<1>5. KeptInv
  BY DEF KeptInv
<1> QED BY <1>1, <1>2, <1>3, <1>4, <1>5 DEF IsolationInv

-----------------------------------------------------------------------------
\* What a step leaves alone.

\* The workers stand, and so does all that lies in their slots: what they know
\* holds on, where the run has got to aside.
LEMMA WorkersStand ==
    ASSUME HandsInv, WreckInv, UNCHANGED <<I!queueVars, iCtx, I!workVars, I!slotVars,
                                           I!ghostVars>>,
           iAt' \in {"begin", "fetch"} => iAt \in {"begin", "fetch"}
    PROVE  HandsInv' /\ WreckInv' /\ I!List' = I!List
<1> USE DEF I!queueVars, I!workVars, I!slotVars, I!ghostVars
<1>1. HandsInv' /\ I!List' = I!List
  BY DEF HandsInv, I!List
<1>2. WreckInv'
  <2>1. ASSUME NEW s \in OfSuite.slots PROVE SlotInv(s)'
    BY DEF WreckInv, SlotInv
  <2>2. ASSUME NEW s \in OfSuite.slots PROVE NoticedInv(s)'
    BY <2>2 DEF WreckInv, NoticedInv
  <2> QED BY <2>1, <2>2 DEF WreckInv
<1> QED BY <1>1, <1>2

\* A run that ends before it has cases.
LEMMA EarlyEnds ==
    ASSUME I!IsolationGiven, IsolationInv, I!SetupFails \/ I!FetchFails
    PROVE  IsolationInv'
<1> USE DEF IsolationInv
<1>1. /\ iAt \in {"begin", "fetch"} /\ iAt' = "over"
      /\ UNCHANGED <<I!queueVars, iMode, iCtx, iRuns, I!treeVars, I!diskVars, iOpened,
                     I!workVars, I!slotVars, I!ghostVars>>
  BY DEF I!SetupFails, I!FetchFails, I!NoBuild, I!ScenarioGone, I!SinkTaken, I!CheckFails,
     I!DiscoverFails, I!NoList, I!Return
<1>2. WorkInv'
  BY <1>1 DEF WorkInv, I!workVars
<1>3. HandsInv' /\ WreckInv' /\ I!List' = I!List /\ I!List = {}
  BY <1>1, WorkersStand DEF HandsInv
<1>4. TreeInv'
  BY <1>1, <1>3 DEF TreeInv, I!treeVars, Slotted
<1>5. ListsInv'
  BY <1>1 DEF ListsInv, I!diskVars, Slotted, I!queueVars
<1>6. KeptInv'
  BY <1>1 DEF KeptInv, I!diskVars, I!slotVars
<1> QED BY <1>2, <1>3, <1>4, <1>5, <1>6

\* The lists are as the last run left them, or empty.
LEMMA SetupKeeps ==
    ASSUME I!IsolationGiven, IsolationInv, I!Setup PROVE IsolationInv'
<1> USE DEF IsolationInv
<1>1. /\ iAt = "begin" /\ iAt' = "fetch"
      /\ UNCHANGED <<I!queueVars, iMode, iCtx, iExit, iRuns, I!treeVars, iSized, iHome,
                     iOpened, I!workVars, I!slotVars, I!ghostVars>>
  BY DEF I!Setup
<1>2. WorkInv'
  BY <1>1 DEF WorkInv, I!workVars
<1>3. HandsInv' /\ WreckInv' /\ I!List' = I!List
  BY <1>1, WorkersStand
<1>4. TreeInv'
  BY <1>1, <1>3 DEF TreeInv, I!treeVars, Slotted
<1>5. ListsInv'
  <2>1. /\ iAll' = IF iMode = "fresh" THEN {} ELSE iAll
        /\ iFin' = IF iMode = "fresh" THEN {} ELSE iFin
    BY DEF I!Setup
  <2>2. ~iSized
    BY <1>1 DEF ListsInv
  <2> QED BY <1>1, <2>1, <2>2 DEF ListsInv, Slotted
<1>6. KeptInv'
  BY <1>1 DEF KeptInv, I!slotVars
<1> QED BY <1>2, <1>3, <1>4, <1>5, <1>6

\* The run's cases go to the queue, none of them out or over.
LEMMA FetchKeeps ==
    ASSUME I!IsolationGiven, IsolationInv, I!Fetch PROVE IsolationInv'
<1> USE DEF IsolationInv
<1>1. /\ iAt = "fetch" /\ I!List = {} /\ iOut = {} /\ iOver = {}
      /\ UNCHANGED <<iOut, iOver, iMode, iCtx, iRuns, iTree, iRefused, iFin, iSized,
                     iHome, iOpened, I!workVars, I!slotVars, I!ghostVars>>
  BY DEF I!Fetch, HandsInv, I!List
<1>2. I!Fetched \subseteq OfSuite.cases
  BY FetchedAreCases
<1>3. \/ I!Fetched = {} /\ iAt' = "over" /\ iExit' = "ok" /\ iLeft' = iLeft
           /\ iTodo' = iTodo
      \/ I!Fetched # {} /\ iAt' = "patch" /\ iLeft' = I!Fetched
           /\ iTodo' = OfSuite.patches \cap I!Fetched
  BY DEF I!Fetch, I!Return
<1>4. iLeft = {} /\ I!List' = iLeft' /\ iLeft' = I!Fetched
  BY <1>1, <1>3 DEF I!List
<1>5. WorkInv'
  BY <1>1, <1>3 DEF WorkInv, I!workVars
<1>6. HandsInv'
  BY <1>1, <1>2, <1>3, <1>4 DEF HandsInv, WorkInv, I!List, I!workVars, AtCase
<1>7. WreckInv'
  <2> USE DEF I!slotVars, I!workVars, I!ghostVars
  <2>1. ASSUME NEW s \in OfSuite.slots PROVE SlotInv(s)'
    BY <1>1 DEF WreckInv, SlotInv
  <2>2. ASSUME NEW s \in OfSuite.slots PROVE NoticedInv(s)'
    BY <1>1, <2>2 DEF WreckInv, NoticedInv
  <2> QED BY <1>1, <2>1, <2>2 DEF WreckInv
<1>8. TreeInv'
  BY <1>1, <1>3, <1>4 DEF TreeInv, Slotted
<1>9. ListsInv'
  <2>1. iAll' = IF iMode = "continue" THEN iAll ELSE I!Fetched
    BY DEF I!Fetch
  <2>2. ~iSized
    BY <1>1 DEF ListsInv
  <2> QED BY <1>1, <1>2, <1>3, <1>4, <2>1, <2>2 DEF ListsInv, Slotted, WorkInv
<1>10. KeptInv'
  BY <1>1, <1>3 DEF KeptInv, I!slotVars
<1> QED BY <1>5, <1>6, <1>7, <1>8, <1>9, <1>10

-----------------------------------------------------------------------------
\* From the patches to the slots.

\* A patch goes in, or one is refused and those before it stay.
LEMMA PatchKeeps ==
    ASSUME I!IsolationGiven, IsolationInv, I!Patch \/ I!PatchRefused PROVE IsolationInv'
<1> USE DEF IsolationInv
<1>1. /\ iAt = "patch" /\ iTodo # {} /\ iTodo \subseteq OfSuite.patches \cap I!List
      /\ UNCHANGED <<I!queueVars, iMode, iCtx, iRuns, iRefused, I!diskVars, iOpened,
                     I!workVars, I!slotVars, I!ghostVars>>
  BY DEF I!Patch, I!PatchRefused, I!runVars, I!treeVars, TreeInv
<1>2. I!First(iTodo) \in iTodo
  BY <1>1, FirstIsIn DEF I!IsolationGiven
<1>3. \/ /\ iAt' = "patch" /\ iExit' = iExit
         /\ iTree' = iTree \cup {I!First(iTodo)} /\ iTodo' = iTodo \ {I!First(iTodo)}
      \/ iAt' = "over" /\ iExit' = "quit" /\ iTree' = iTree /\ iTodo' = iTodo
  BY <1>1 DEF I!Patch, I!PatchRefused, I!Return, I!runVars, I!treeVars
<1>4. WorkInv'
  BY <1>1, <1>3 DEF WorkInv, I!workVars
<1>5. HandsInv' /\ WreckInv' /\ I!List' = I!List
  BY <1>1, <1>3, WorkersStand
<1>6. TreeInv'
  BY <1>1, <1>2, <1>3, <1>5 DEF TreeInv, Slotted
<1>7. ListsInv'
  BY <1>1, <1>3, <1>5 DEF ListsInv, I!diskVars, I!queueVars, Slotted
<1>8. KeptInv'
  BY <1>1, <1>3 DEF KeptInv, I!diskVars, I!slotVars
<1> QED BY <1>4, <1>5, <1>6, <1>7, <1>8

\* The workers get ready: none has a case, and none has been in its slot.
LEMMA WorkersReady ==
    ASSUME HandsInv, WorkInv, WreckInv, iAt \in {"patch", "deploy"},
           UNCHANGED <<I!queueVars, iCtx, iWtc, iWok, I!slotVars, I!ghostVars>>,
           iAt' \notin {"begin", "fetch"},
           \A s \in OfSuite.slots : iWst[s] # "bad"
             => iWst'[s] \in {"none", "deploy", "ready", "bad", "claim"},
           \A s \in OfSuite.slots : iWst[s] = "bad" => iWst'[s] = "bad"
    PROVE  HandsInv' /\ WreckInv' /\ I!List' = I!List
<1> USE DEF I!queueVars, I!slotVars, I!ghostVars
<1>1. \A s \in OfSuite.slots : iWst[s] \in {"none", "deploy", "ready", "bad"}
  BY DEF WorkInv
<1>2. \A s \in OfSuite.slots : iWst[s] # "bad" => iWtc[s] = 0
  BY <1>1 DEF HandsInv, Unbusy
<1>3. HandsInv' /\ I!List' = I!List
  BY <1>1, <1>2 DEF HandsInv, I!List, AtCase
<1>4. \A s \in OfSuite.slots : iWst'[s] \notin {"got", "run", "files", "fatals", "record"}
  BY <1>1
<1>5. WreckInv'
  <2>1. ASSUME NEW s \in OfSuite.slots PROVE SlotInv(s)'
    BY <1>1, <1>4 DEF WreckInv, SlotInv
  <2>2. ASSUME NEW s \in OfSuite.slots PROVE NoticedInv(s)'
    BY <1>4, <2>2 DEF WreckInv, NoticedInv
  <2> QED BY <2>1, <2>2 DEF WreckInv
<1> QED BY <1>3, <1>5

LEMMA OpenSlotsKeeps ==
    ASSUME I!IsolationGiven, IsolationInv, I!OpenSlots PROVE IsolationInv'
<1> USE DEF IsolationInv
<1>1. /\ iAt = "patch" /\ iTodo = {} /\ \A s \in OfSuite.slots : iWst[s] = "none"
      /\ UNCHANGED <<I!queueVars, iMode, iCtx, iRuns, iTree, iRefused, I!diskVars, iWtc,
                     iWok, I!slotVars, I!ghostVars>>
  BY DEF I!OpenSlots, WorkInv
<1>2. \/ /\ iAt' = "deploy" /\ iOpened' = OfSuite.slots /\ iExit' = iExit
              /\ iTodo' = iTodo
         /\ iWst' = [s \in OfSuite.slots |-> "deploy"]
      \/ /\ iAt' = "revert" /\ iExit' = "quit" /\ iTodo' = OfSuite.patches \cap I!List
         /\ iOpened' = iOpened /\ iWst' = iWst
  BY DEF I!OpenSlots, I!Deferred
<1>3. WorkInv'
  BY <1>1, <1>2 DEF WorkInv, Unbusy, Slotted
<1>4. HandsInv' /\ WreckInv' /\ I!List' = I!List
  BY <1>1, <1>2, WorkersReady
<1>5. TreeInv'
  BY <1>1, <1>2, <1>4 DEF TreeInv, Slotted
<1>6. ListsInv'
  BY <1>1, <1>2, <1>4 DEF ListsInv, I!diskVars, I!queueVars, Slotted
<1>7. KeptInv'
  BY <1>1, <1>2 DEF KeptInv, I!diskVars, I!slotVars
<1> QED BY <1>3, <1>4, <1>5, <1>6, <1>7

LEMMA DeployKeeps ==
    ASSUME I!IsolationGiven, IsolationInv, NEW s \in OfSuite.slots, I!Deploy(s)
             PROVE IsolationInv'
<1> USE DEF IsolationInv
<1>1. /\ iAt = "deploy" /\ iWst[s] = "deploy"
      /\ UNCHANGED <<I!queueVars, I!runVars, I!treeVars, I!diskVars, iOpened, iWtc,
                     iWok, I!slotVars, I!ghostVars>>
  BY DEF I!Deploy
<1>2. /\ iAt' = iAt /\ iCtx' = iCtx /\ iMode' = iMode /\ iExit' = iExit /\ iRuns' = iRuns
      /\ iWst' \in [OfSuite.slots -> AtCase \cup Unbusy \cup {"bad", "kept"}]
      /\ \A t \in OfSuite.slots : iWst'[t] = iWst[t]
           \/ (iWst[t] = "deploy" /\ iWst'[t] \in {"ready", "bad"})
  <2>1. PICK p \in {"ready", "bad"} : iWst' = [iWst EXCEPT ![s] = p]
    BY DEF I!Deploy
  <2>2. iWst \in [OfSuite.slots -> AtCase \cup Unbusy \cup {"bad", "kept"}]
          /\ p \in Unbusy \cup {"bad"}
    BY DEF WorkInv, Unbusy
  <2>3. iWst' \in [OfSuite.slots -> AtCase \cup Unbusy \cup {"bad", "kept"}]
    BY <2>1, <2>2
  <2>4. \A t \in OfSuite.slots : iWst'[t] = iWst[t]
          \/ (iWst[t] = "deploy" /\ iWst'[t] \in {"ready", "bad"})
    BY <1>1, <2>1, <2>2
  <2>5. iAt' = iAt /\ iCtx' = iCtx /\ iMode' = iMode /\ iExit' = iExit /\ iRuns' = iRuns
    BY <1>1 DEF I!runVars
  <2> QED BY <2>3, <2>4, <2>5
<1>3. WorkInv'
  BY <1>1, <1>2 DEF WorkInv
<1>4. HandsInv' /\ WreckInv' /\ I!List' = I!List
  <2>1. \A t \in OfSuite.slots : iWst[t] \in {"deploy", "ready", "bad"}
    BY <1>1 DEF WorkInv
  <2> QED BY <1>1, <1>2, <2>1, WorkersReady
<1>5. TreeInv' /\ ListsInv'
  BY <1>1, <1>2, <1>4 DEF TreeInv, ListsInv, I!treeVars, I!diskVars, I!queueVars
<1>6. KeptInv'
  BY <1>1, <1>2 DEF KeptInv, I!diskVars, I!slotVars
<1> QED BY <1>3, <1>4, <1>5, <1>6

LEMMA DeployedKeeps ==
    ASSUME I!IsolationGiven, IsolationInv, I!Deployed PROVE IsolationInv'
<1> USE DEF IsolationInv
<1>1. /\ iAt = "deploy" /\ \A s \in OfSuite.slots : iWst[s] \in {"ready", "bad"}
      /\ UNCHANGED <<I!queueVars, iMode, iCtx, iRuns, iTree, iRefused, I!diskVars,
                     iOpened, iWtc, iWok, I!slotVars, I!ghostVars>>
  BY DEF I!Deployed
<1>2. \/ iAt' = "close" /\ iExit' = "quit" /\ iWst' = iWst
      \/ /\ \A s \in OfSuite.slots : iWst[s] # "bad"
         /\ iAt' = "test" /\ iExit' = iExit /\ iWst' = [s \in OfSuite.slots |-> "claim"]
  BY DEF I!Deployed, I!Deferred
<1>3. WorkInv'
  BY <1>1, <1>2 DEF WorkInv, Unbusy, Slotted
<1>4. HandsInv' /\ WreckInv' /\ I!List' = I!List
  BY <1>1, <1>2, WorkersReady
<1>5. TreeInv'
  BY <1>1, <1>2, <1>4 DEF TreeInv, Slotted
<1>6. ListsInv'
  BY <1>1, <1>2, <1>4 DEF ListsInv, I!diskVars, I!queueVars, Slotted
<1>7. KeptInv'
  BY <1>1, <1>2 DEF KeptInv, I!diskVars, I!slotVars
<1> QED BY <1>3, <1>4, <1>5, <1>6, <1>7

-----------------------------------------------------------------------------
\* The workers.

\* A worker that is at something is so while the run tests.
LEMMA AtTest ==
    ASSUME WorkInv, I!Working, NEW s \in OfSuite.slots,
             iWst[s] \in AtCase \cup {"claim", "stop"}
    PROVE  iAt = "test"
<1>1. iWst[s] \notin {"deploy", "ready", "gone", "bad", "kept"}
  BY DEF AtCase
<1> QED BY <1>1 DEF WorkInv, I!Working

\* What is the run's own is not the workers' to change, its list of finished
\* cases aside.
LEMMA RunStands ==
    ASSUME IsolationInv, iAt = "test",
           UNCHANGED <<I!runVars, I!treeVars, iOpened, iAll, iSized, iHome>>,
           I!List' = I!List, iBackup' \in [OfSuite.slots -> Int],
           iMode = "fresh" => iFin' = iOver'
    PROVE  TreeInv' /\ ListsInv' /\ KeptInv'
<1> USE DEF I!runVars, I!treeVars
<1>1. TreeInv'
  BY DEF IsolationInv, TreeInv
<1>2. ListsInv'
  <2>1. ~iSized
    BY DEF IsolationInv, ListsInv
  <2> QED BY <2>1 DEF IsolationInv, ListsInv
<1>3. KeptInv'
  BY DEF IsolationInv, KeptInv
<1> QED BY <1>1, <1>2, <1>3

\* One worker goes on while its hands stay as they are.
LEMMA WorkerGoes ==
    ASSUME WorkInv, HandsInv, iAt = "test", UNCHANGED <<I!runVars, I!queueVars, iWtc>>,
           NEW s \in OfSuite.slots,
             NEW p \in AtCase \cup {"claim", "stop", "gone", "bad"},
           iWst' = [iWst EXCEPT ![s] = p], iWok' \in [OfSuite.slots -> BOOLEAN],
           p \in AtCase => iWst[s] \in AtCase,
           p \notin AtCase \cup {"bad"} => iWtc[s] = 0 /\ iLeft = {}
    PROVE  WorkInv' /\ HandsInv' /\ I!List' = I!List
<1>1. WorkInv'
  BY DEF WorkInv, I!runVars, Slotted, Unbusy
<1>2. p \in AtCase => p \notin Unbusy
  BY DEF AtCase, Unbusy
<1>3. HandsInv' /\ I!List' = I!List
  BY <1>1, <1>2 DEF HandsInv, I!List, I!queueVars, WorkInv, I!runVars, Unbusy
<1> QED BY <1>1, <1>3

\* The other slots keep what holds of them: none of their cases is among the new
\* leavers.
LEMMA OthersStand ==
    ASSUME WreckInv, UNCHANGED iCtx, NEW t \in OfSuite.slots,
           iWst'[t] = iWst[t], iWtc'[t] = iWtc[t], iWok'[t] = iWok[t],
           iFiles'[t] = iFiles[t], iSeen'[t] = iSeen[t], iLines'[t] = iLines[t],
           iCounts'[t] = iCounts[t],
           iLeavers \subseteq iLeavers', iMissed \subseteq iMissed',
           iWtc[t] \in iLeavers' => iWtc[t] \in iLeavers \/ iWst[t] \notin AtCase
    PROVE  SlotInv(t)' /\ NoticedInv(t)'
<1>1. SlotInv(t)'
  BY DEF WreckInv, SlotInv, AtCase
<1>2. NoticedInv(t)'
  BY DEF WreckInv, NoticedInv, AtCase
<1> QED BY <1>1, <1>2

LEMMA ClaimKeeps ==
    ASSUME I!IsolationGiven, IsolationInv, I!Working, NEW s \in OfSuite.slots, I!Claim(s)
    PROVE  IsolationInv'
<1> USE DEF IsolationInv
<1>1. /\ iWst[s] = "claim" /\ iAt = "test" /\ iWtc[s] = 0
      /\ UNCHANGED <<I!runVars, I!treeVars, I!diskVars, iOpened, iWok, I!slotVars,
                     I!ghostVars>>
  BY AtTest DEF I!Claim, AtCase, HandsInv, Unbusy
<1>2. CASE iLeft = {}
  <2>1. iWst' = [iWst EXCEPT ![s] = "stop"] /\ UNCHANGED <<I!queueVars, iWtc>>
    BY <1>2 DEF I!Claim, I!Nothing, I!GoTo
  <2>2. WorkInv' /\ HandsInv' /\ I!List' = I!List
    BY <1>1, <1>2, <2>1, WorkerGoes DEF WorkInv, AtCase
  <2>3. \A t \in OfSuite.slots : SlotInv(t)' /\ NoticedInv(t)'
    <3>1. ASSUME NEW t \in OfSuite.slots, t # s PROVE SlotInv(t)' /\ NoticedInv(t)'
      BY <1>1, <2>1, <3>1, OthersStand DEF I!runVars, I!slotVars, I!ghostVars
    <3>2. SlotInv(s)'
      BY <1>1, <2>1 DEF I!runVars, I!slotVars, I!ghostVars, WreckInv, SlotInv, WorkInv
    <3>3. NoticedInv(s)'
      BY <1>1, <2>1 DEF I!slotVars, I!ghostVars, WreckInv, NoticedInv, WorkInv
    <3> QED BY <3>1, <3>2, <3>3
  <2>4. WreckInv'
    BY <1>1, <2>1, <2>3 DEF WreckInv, I!slotVars, I!ghostVars, I!queueVars
  <2>5. TreeInv' /\ ListsInv' /\ KeptInv'
    BY <1>1, <2>1, <2>2, RunStands DEF I!diskVars, I!slotVars, I!queueVars, ListsInv,
       KeptInv, Slotted
  <2> QED BY <2>2, <2>4, <2>5
<1>3. CASE iLeft # {}
  <2> DEFINE c == I!First(iLeft)
  <2>1. /\ c \in iLeft /\ iLeft' = iLeft \ {c} /\ iOut' = iOut \cup {c} /\ iOver' = iOver
        /\ iWst' = [iWst EXCEPT ![s] = "got"] /\ iWtc' = [iWtc EXCEPT ![s] = c]
    BY <1>3 DEF I!Claim, I!GoTo, I!HandOut
  <2>2. c \in OfSuite.cases /\ c # 0 /\ c \notin iOut /\ c \notin iOver
    BY <2>1 DEF HandsInv, I!List, I!IsolationGiven
  <2> HIDE DEF c
  <2>3. WorkInv'
    BY <1>1, <2>1, <2>2 DEF WorkInv, I!runVars, AtCase, Slotted
  <2>4. HandsInv' /\ I!List' = I!List
    <3>1. I!List' = I!List
      BY <2>1 DEF I!List
    <3>2. iOut' = {iWtc'[t] : t \in OfSuite.slots} \ {0}
      BY <1>1, <2>1, <2>2 DEF HandsInv, WorkInv
    <3>3. \A t, u \in OfSuite.slots : t # u /\ iWtc'[t] = iWtc'[u] => iWtc'[t] = 0
      <4>1. \A t \in OfSuite.slots : iWtc[t] # c
        BY <2>2 DEF HandsInv
      <4> QED BY <2>1, <4>1 DEF HandsInv, WorkInv
    <3>4. \A t \in OfSuite.slots : iWst[t] \notin {"stop", "gone"}
      BY <1>3 DEF HandsInv
    <3>5. iLeft' \cap iOut' = {} /\ iLeft' \cap iOver' = {} /\ iOut' \cap iOver' = {}
      BY <2>1, <2>2 DEF HandsInv
    <3>6. \A t \in OfSuite.slots :
             /\ iWst'[t] \in AtCase => iWtc'[t] # 0
             /\ iWst'[t] \in Unbusy => iWtc'[t] = 0
             /\ iWst'[t] \notin {"stop", "gone"}
      BY <2>1, <2>2, <3>4 DEF HandsInv, WorkInv, Unbusy
    <3> QED BY <1>1, <3>1, <3>2, <3>3, <3>5, <3>6 DEF HandsInv, I!runVars
  <2>5. \A t \in OfSuite.slots : SlotInv(t)' /\ NoticedInv(t)'
    <3>0. c \notin iLeavers
      BY <2>2 DEF WreckInv
    <3>1. ASSUME NEW t \in OfSuite.slots, t # s PROVE SlotInv(t)' /\ NoticedInv(t)'
      BY <1>1, <2>1, <3>1, OthersStand DEF I!runVars, I!slotVars, I!ghostVars
    <3>2. SlotInv(s)'
      BY <1>1, <2>1, <3>0 DEF I!runVars, I!slotVars, I!ghostVars, WreckInv, SlotInv,
         WorkInv
    <3>3. NoticedInv(s)'
      BY <1>1, <2>1, <3>0 DEF I!slotVars, I!ghostVars, WreckInv, NoticedInv, WorkInv
    <3> QED BY <3>1, <3>2, <3>3
  <2>6. WreckInv'
    BY <1>1, <2>1, <2>5 DEF WreckInv, I!slotVars, I!ghostVars
  <2>7. TreeInv' /\ ListsInv' /\ KeptInv'
    BY <1>1, <2>1, <2>4, RunStands DEF I!diskVars, I!slotVars, ListsInv, KeptInv, Slotted
  <2> QED BY <2>3, <2>4, <2>6, <2>7
<1> QED BY <1>2, <1>3

\* A step of one worker at its case: the queue, the hands and the other slots
\* stand, and what holds of its own slot is all that is to be shown.
LEMMA OneSlotMoves ==
    ASSUME IsolationInv, iAt = "test", NEW s \in OfSuite.slots,
           UNCHANGED <<I!runVars, I!queueVars, iWtc, I!treeVars, I!diskVars, iOpened,
                       iPassed>>,
           NEW p \in AtCase \cup {"claim", "stop", "gone", "bad"},
           iWst' = [iWst EXCEPT ![s] = p], iWok' \in [OfSuite.slots -> BOOLEAN],
           p \in AtCase => iWst[s] \in AtCase,
           p \notin AtCase \cup {"bad"} => iWtc[s] = 0 /\ iLeft = {},
           iFiles' \in [OfSuite.slots -> SUBSET OfSuite.cases],
             iSeen' \in [OfSuite.slots -> SUBSET OfSuite.cases],
           iLines' \in [OfSuite.slots -> Nat], iCounts' \in [OfSuite.slots -> Nat],
             iBackup' \in [OfSuite.slots -> Int],
           \A t \in OfSuite.slots \ {s} :
              /\ iWok'[t] = iWok[t] /\ iFiles'[t] = iFiles[t] /\ iSeen'[t] = iSeen[t]
              /\ iLines'[t] = iLines[t] /\ iCounts'[t] = iCounts[t],
           iMissed \subseteq iMissed', iBlamed' \subseteq iLeavers',
           \/ iLeavers' = iLeavers
           \/ iLeavers' = iLeavers \cup {iWtc[s]} /\ iWst[s] \in AtCase,
           iPassed \cap (iLeavers' \ iLeavers) = {},
           SlotInv(s)', NoticedInv(s)'
    PROVE  IsolationInv'
<1>1. WorkInv' /\ HandsInv' /\ I!List' = I!List
  BY WorkerGoes DEF IsolationInv
<1>2. iLeavers \subseteq iLeavers' /\ (iWst[s] \in AtCase => iWtc[s] \in iOut)
  BY DEF IsolationInv, HandsInv
<1>3. \A t \in OfSuite.slots : SlotInv(t)' /\ NoticedInv(t)'
  <2>1. ASSUME NEW t \in OfSuite.slots, t # s PROVE SlotInv(t)' /\ NoticedInv(t)'
    <3>1. iWtc[t] \in iLeavers' => iWtc[t] \in iLeavers \/ iWst[t] \notin AtCase
      BY <2>1 DEF IsolationInv, HandsInv
    <3> QED BY <1>2, <2>1, <3>1, OthersStand DEF IsolationInv, I!runVars, WorkInv
  <2> QED BY <2>1
<1>4. WreckInv'
  <2>1. iLeavers' \subseteq iOut' \cup iOver' /\ iPassed' \subseteq iOver'
    BY <1>2 DEF IsolationInv, WreckInv, I!queueVars
  <2>2. iPassed' \cap iLeavers' \subseteq iMissed'
    BY DEF IsolationInv, WreckInv
  <2> QED BY <1>3, <2>1, <2>2 DEF WreckInv
<1>5. iMode = "fresh" => iFin' = iOver'
  BY DEF IsolationInv, ListsInv, Slotted, I!diskVars, I!queueVars
<1>6. TreeInv' /\ ListsInv' /\ KeptInv'
  BY <1>1, <1>5, RunStands DEF I!diskVars
<1> QED BY <1>1, <1>4, <1>6 DEF IsolationInv

\* A worker leaves, or stops its service: its case, if it has one, is not one
\* that a wreck was left by.
LEMMA LeaveKeeps ==
    ASSUME I!IsolationGiven, IsolationInv, I!Working, NEW s \in OfSuite.slots,
           I!Leave(s) \/ I!StopService(s)
    PROVE  IsolationInv'
<1>1. /\ iWst[s] \in {"got", "stop"} /\ iAt = "test"
      /\ UNCHANGED <<I!queueVars, I!runVars, I!treeVars, I!diskVars, iOpened, iWtc,
                     iWok, I!slotVars, I!ghostVars>>
  BY AtTest DEF IsolationInv, I!Leave, I!StopService, AtCase
<1>2. PICK p \in {"bad", "gone"} :
         iWst' = [iWst EXCEPT ![s] = p] /\ (p = "gone" => iWst[s] = "stop")
  BY DEF I!Leave, I!StopService, I!GoTo
<1>3. p = "gone" => iWtc[s] = 0 /\ iLeft = {}
  BY <1>2 DEF IsolationInv, HandsInv, Unbusy
<1>4. SlotInv(s)' /\ NoticedInv(s)'
  <2>1. iWst'[s] \in {"bad", "gone"}
    BY <1>2 DEF IsolationInv, WorkInv
  <2>2. SlotInv(s)'
    BY <1>1, <2>1 DEF IsolationInv, WreckInv, SlotInv, I!runVars, I!slotVars, I!ghostVars
  <2>3. NoticedInv(s)'
    BY <1>1, <2>1 DEF IsolationInv, WreckInv, NoticedInv, I!slotVars
  <2> QED BY <2>2, <2>3
<1>5. p \notin AtCase
  BY DEF AtCase
<1>6. iBlamed' \subseteq iLeavers' /\ iPassed' = iPassed /\ iMissed' = iMissed
        /\ iLeavers' = iLeavers
  BY <1>1 DEF IsolationInv, WreckInv, I!ghostVars
<1>7. /\ iFiles' \in [OfSuite.slots -> SUBSET OfSuite.cases]
      /\ iSeen' \in [OfSuite.slots -> SUBSET OfSuite.cases]
      /\ iLines' \in [OfSuite.slots -> Nat] /\ iCounts' \in [OfSuite.slots -> Nat]
      /\ iBackup' \in [OfSuite.slots -> Int]
      /\ iWok' \in [OfSuite.slots -> BOOLEAN]
  BY <1>1 DEF IsolationInv, WreckInv, WorkInv, KeptInv, I!slotVars
<1> QED BY <1>1, <1>2, <1>3, <1>4, <1>5, <1>6, <1>7, OneSlotMoves DEF I!slotVars

\* A case starts, with the log as it is or emptied.
LEMMA CaseStarts ==
    ASSUME I!IsolationGiven, IsolationInv, I!Working, NEW s \in OfSuite.slots, I!Start(s)
    PROVE  IsolationInv'
<1>1. /\ iWst[s] = "got" /\ iAt = "test" /\ iCtx = "live" /\ iCtx' = iCtx
      /\ iWst' = [iWst EXCEPT ![s] = "run"]
      /\ iLines' = [iLines EXCEPT ![s] = iLines[s]]
      /\ UNCHANGED <<I!queueVars, I!runVars, I!treeVars, I!diskVars, iOpened, iWtc,
                     iWok, iFiles, iSeen, iCounts, iBackup, I!ghostVars>>
  BY AtTest DEF IsolationInv, I!Start, AtCase, I!GoTo, I!runVars
<1>2. iWst'[s] = "run" /\ iLines'[s] = iLines[s]
  BY <1>1 DEF IsolationInv, WorkInv, WreckInv
<1>3. SlotInv(s) /\ NoticedInv(s)
  BY DEF IsolationInv, WreckInv
<1>4. SlotInv(s)'
  BY <1>1, <1>2, <1>3 DEF SlotInv, I!ghostVars
<1>5. NoticedInv(s)'
  BY <1>1, <1>2, <1>3 DEF SlotInv, NoticedInv, I!ghostVars
<1>6. iBlamed' \subseteq iLeavers' /\ iPassed' = iPassed /\ iMissed' = iMissed
        /\ iLeavers' = iLeavers
  BY <1>1 DEF IsolationInv, WreckInv, I!ghostVars
<1>7. /\ iFiles' \in [OfSuite.slots -> SUBSET OfSuite.cases]
      /\ iSeen' \in [OfSuite.slots -> SUBSET OfSuite.cases]
      /\ iLines' \in [OfSuite.slots -> Nat] /\ iCounts' \in [OfSuite.slots -> Nat]
      /\ iBackup' \in [OfSuite.slots -> Int]
      /\ iWok' \in [OfSuite.slots -> BOOLEAN]
      /\ \A t \in OfSuite.slots \ {s} : iLines'[t] = iLines[t]
  BY <1>1 DEF IsolationInv, WreckInv, WorkInv, KeptInv
<1>8. "run" \in AtCase /\ "got" \in AtCase
  BY DEF AtCase
<1> QED BY <1>1, <1>4, <1>5, <1>6, <1>7, <1>8, OneSlotMoves

\* The command ends, with any verdict.
LEMMA RunOneKeeps ==
    ASSUME I!IsolationGiven, IsolationInv, I!Working, NEW s \in OfSuite.slots, I!RunOne(s)
    PROVE  IsolationInv'
<1>1. /\ iWst[s] = "run" /\ iAt = "test"
      /\ iWst' = [iWst EXCEPT ![s] = "files"]
      /\ UNCHANGED <<I!queueVars, I!runVars, I!treeVars, I!diskVars, iOpened, iWtc,
                     I!slotVars, I!ghostVars>>
  BY AtTest DEF IsolationInv, I!RunOne, AtCase, I!GoTo
<1>2. PICK ok \in BOOLEAN : iWok' = [iWok EXCEPT ![s] = ok]
  <2>1. \A i, j \in -1..1, e \in BOOLEAN : I!Judge(i, j, e) \in BOOLEAN
    BY DEF I!Judge
  <2> QED BY <2>1 DEF I!RunOne
<1>3. SlotInv(s) /\ NoticedInv(s) /\ iWst'[s] = "files"
  BY <1>1 DEF IsolationInv, WreckInv, WorkInv
<1>4. SlotInv(s)'
  BY <1>1, <1>3 DEF SlotInv, I!slotVars, I!runVars, I!ghostVars
<1>5. NoticedInv(s)'
  BY <1>1, <1>3 DEF NoticedInv, I!slotVars, I!ghostVars
<1>6. iBlamed' \subseteq iLeavers' /\ iPassed' = iPassed /\ iMissed' = iMissed
        /\ iLeavers' = iLeavers
  BY <1>1 DEF IsolationInv, WreckInv, I!ghostVars
<1>7. /\ iFiles' \in [OfSuite.slots -> SUBSET OfSuite.cases]
      /\ iSeen' \in [OfSuite.slots -> SUBSET OfSuite.cases]
      /\ iLines' \in [OfSuite.slots -> Nat] /\ iCounts' \in [OfSuite.slots -> Nat]
      /\ iBackup' \in [OfSuite.slots -> Int]
      /\ iWok' \in [OfSuite.slots -> BOOLEAN]
      /\ \A t \in OfSuite.slots \ {s} : iWok'[t] = iWok[t]
  BY <1>1, <1>2 DEF IsolationInv, WreckInv, WorkInv, KeptInv, I!slotVars
<1>8. "files" \in AtCase /\ "run" \in AtCase
  BY DEF AtCase
<1> QED BY <1>1, <1>4, <1>5, <1>6, <1>7, <1>8, OneSlotMoves DEF I!slotVars

\* A server dies: what it leaves is new in the slot, and so is its case among
\* those that left something.
LEMMA DieKeeps ==
    ASSUME I!IsolationGiven, IsolationInv, I!Working, NEW s \in OfSuite.slots, I!Die(s)
    PROVE  IsolationInv'
<1>1. /\ iWst[s] = "run" /\ iAt = "test" /\ iWtc[s] \notin iLeavers
      /\ iWtc[s] \in OfSuite.cases /\ iWtc[s] \in iOut
      /\ iLeavers' = iLeavers \cup {iWtc[s]}
      /\ UNCHANGED <<I!queueVars, I!runVars, I!treeVars, I!diskVars, iOpened,
                     I!workVars, iSeen, iCounts, iBlamed, iMissed, iPassed>>
  BY AtTest DEF IsolationInv, I!Die, AtCase, HandsInv, WorkInv
<1>2. iWst' = [iWst EXCEPT ![s] = "run"] /\ iWok' = iWok /\ iWtc' = iWtc
        /\ iWst'[s] = "run"
  BY <1>1 DEF I!workVars, IsolationInv, WorkInv
<1>3. SlotInv(s) /\ NoticedInv(s)
  BY DEF IsolationInv, WreckInv
<1>4. \/ /\ iFiles' = [iFiles EXCEPT ![s] = iFiles[s] \cup {iWtc[s]}] /\ iLines' = iLines
         /\ \E n \in {0, 1} :
               iBackup' = [iBackup EXCEPT ![s] = IF iBackup[s] = 0 THEN n ELSE iBackup[s]]
      \/ iLines' = [iLines EXCEPT ![s] = iLines[s] + 1] /\ iFiles' = iFiles
           /\ iBackup' = iBackup
  BY DEF I!Die
<1>5. /\ iFiles' \in [OfSuite.slots -> SUBSET OfSuite.cases]
      /\ iSeen' \in [OfSuite.slots -> SUBSET OfSuite.cases]
      /\ iLines' \in [OfSuite.slots -> Nat] /\ iCounts' \in [OfSuite.slots -> Nat]
      /\ \A t \in OfSuite.slots \ {s} : iFiles'[t] = iFiles[t] /\ iLines'[t] = iLines[t]
  BY <1>1, <1>4 DEF IsolationInv, WreckInv
<1>6. iBackup' \in [OfSuite.slots -> Int] /\ iWok' \in [OfSuite.slots -> BOOLEAN]
  BY <1>1, <1>2, <1>4 DEF IsolationInv, KeptInv, WorkInv
<1>7. \/ iFiles'[s] = iFiles[s] \cup {iWtc[s]} /\ iLines'[s] = iLines[s]
      \/ iLines'[s] = iLines[s] + 1 /\ iFiles'[s] = iFiles[s]
  BY <1>4 DEF IsolationInv, WreckInv
<1>8. SlotInv(s)'
  BY <1>1, <1>2, <1>3, <1>7 DEF SlotInv, I!runVars
<1>9. NoticedInv(s)'
  <2>1. iWtc[s] \notin iSeen[s]
    BY <1>1, <1>3 DEF SlotInv
  <2> QED BY <1>1, <1>2, <1>3, <1>7, <2>1 DEF SlotInv, NoticedInv
<1>10. iBlamed' \subseteq iLeavers' /\ iPassed \cap (iLeavers' \ iLeavers) = {}
  BY <1>1 DEF IsolationInv, WreckInv, HandsInv
<1>11. "run" \in AtCase
  BY DEF AtCase
<1> QED BY <1>1, <1>2, <1>5, <1>6, <1>8, <1>9, <1>10, <1>11, OneSlotMoves

\* Reports and cores: all there are have been counted now, unless the run is
\* interrupted, and then the case is one nobody could look after.
LEMMA CheckFilesKeeps ==
    ASSUME I!IsolationGiven, IsolationInv, I!Working, NEW s \in OfSuite.slots,
             I!CheckFiles(s)
    PROVE  IsolationInv'
<1> DEFINE new == IF iCtx = "live" THEN I!Unseen(s) ELSE {}
<1>1. /\ iWst[s] = "files" /\ iAt = "test" /\ iWst' = [iWst EXCEPT ![s] = "fatals"]
      /\ iSeen' = [iSeen EXCEPT ![s] = iSeen[s] \cup new]
      /\ iWok' = [iWok EXCEPT ![s] = iWok[s] /\ new = {}]
      /\ iBlamed' = IF new = {} THEN iBlamed ELSE iBlamed \cup {iWtc[s]}
      /\ iMissed' = IF iCtx = "live" THEN iMissed ELSE iMissed \cup {iWtc[s]}
      /\ UNCHANGED <<I!queueVars, I!runVars, I!treeVars, I!diskVars, iOpened, iWtc,
                     iFiles, iLines, iCounts, iBackup, iLeavers, iPassed>>
  BY AtTest DEF IsolationInv, I!CheckFiles, AtCase, I!GoTo
<1>2. SlotInv(s) /\ NoticedInv(s)
  BY DEF IsolationInv, WreckInv
<1>3. new \subseteq iFiles[s] /\ new \subseteq {iWtc[s]} /\ new \subseteq iLeavers
  BY <1>1, <1>2 DEF I!Unseen, SlotInv
<1>4. iCtx = "live" => iFiles[s] \subseteq iSeen[s] \cup new
  BY DEF I!Unseen
<1> HIDE DEF new
<1>5. /\ iSeen' \in [OfSuite.slots -> SUBSET OfSuite.cases]
      /\ iWok' \in [OfSuite.slots -> BOOLEAN]
      /\ \A t \in OfSuite.slots \ {s} : iSeen'[t] = iSeen[t] /\ iWok'[t] = iWok[t]
      /\ iSeen'[s] = iSeen[s] \cup new /\ iWst'[s] = "fatals"
           /\ (iWok'[s] => iWok[s] /\ new = {})
  BY <1>1, <1>3 DEF IsolationInv, WreckInv, WorkInv
<1>6. iBlamed' \subseteq iLeavers'
  BY <1>1, <1>3 DEF IsolationInv, WreckInv
<1>7. SlotInv(s)'
  BY <1>1, <1>2, <1>3, <1>4, <1>5 DEF SlotInv, I!runVars
<1>8. NoticedInv(s)'
  <2>1. CASE iCtx = "live"
    BY <1>1, <1>2, <1>4, <1>5, <2>1 DEF NoticedInv
  <2>2. CASE iCtx # "live"
    BY <1>1, <1>2, <1>5, <2>2 DEF NoticedInv
  <2> QED BY <2>1, <2>2
<1>9. /\ iFiles' \in [OfSuite.slots -> SUBSET OfSuite.cases]
      /\ iLines' \in [OfSuite.slots -> Nat]
      /\ iCounts' \in [OfSuite.slots -> Nat] /\ iBackup' \in [OfSuite.slots -> Int]
      /\ iMissed \subseteq iMissed' /\ iLeavers' = iLeavers
      /\ iPassed \cap (iLeavers' \ iLeavers) = {}
  BY <1>1 DEF IsolationInv, WreckInv, KeptInv
<1>10. "fatals" \in AtCase /\ "files" \in AtCase
  BY DEF AtCase
<1>11. UNCHANGED <<I!runVars, I!queueVars, iWtc, I!treeVars, I!diskVars, iOpened,
                   iPassed>>
  BY <1>1
<1>12. \A t \in OfSuite.slots \ {s} :
          /\ iWok'[t] = iWok[t] /\ iFiles'[t] = iFiles[t] /\ iSeen'[t] = iSeen[t]
          /\ iLines'[t] = iLines[t] /\ iCounts'[t] = iCounts[t]
  BY <1>1, <1>5
<1>13. iAt = "test" /\ iWst' = [iWst EXCEPT ![s] = "fatals"] /\ iWst[s] \in AtCase
  BY <1>1, <1>10
<1> QED BY <1>5, <1>6, <1>7, <1>8, <1>9, <1>10, <1>11, <1>12, <1>13, OneSlotMoves

\* The log: the lines it gained are the case's own.
LEMMA CheckFatalsKeeps ==
    ASSUME I!IsolationGiven, IsolationInv, I!Working, NEW s \in OfSuite.slots,
             I!CheckFatals(s)
    PROVE  IsolationInv'
<1> DEFINE gained == iCtx = "live" /\ iLines[s] > iCounts[s]
<1>1. /\ iWst[s] = "fatals" /\ iAt = "test" /\ iWst' = [iWst EXCEPT ![s] = "record"]
      /\ iCounts' = [iCounts EXCEPT ![s] = IF gained THEN iLines[s] ELSE iCounts[s]]
      /\ iWok' = [iWok EXCEPT ![s] = iWok[s] /\ ~ gained]
      /\ iBlamed' = IF gained THEN iBlamed \cup {iWtc[s]} ELSE iBlamed
      /\ iMissed' = IF iCtx = "live" THEN iMissed ELSE iMissed \cup {iWtc[s]}
      /\ UNCHANGED <<I!queueVars, I!runVars, I!treeVars, I!diskVars, iOpened, iWtc,
                     iFiles, iSeen, iLines, iBackup, iLeavers, iPassed>>
  BY AtTest DEF IsolationInv, I!CheckFatals, AtCase, I!GoTo
<1>2. SlotInv(s) /\ NoticedInv(s) /\ iLines[s] \in Nat /\ iCounts[s] \in Nat
  BY DEF IsolationInv, WreckInv
<1>3. gained => iWtc[s] \in iLeavers
  BY <1>2 DEF SlotInv
<1>4. /\ iCounts' \in [OfSuite.slots -> Nat] /\ iWok' \in [OfSuite.slots -> BOOLEAN]
      /\ \A t \in OfSuite.slots \ {s} : iCounts'[t] = iCounts[t] /\ iWok'[t] = iWok[t]
      /\ iCounts'[s] = (IF gained THEN iLines[s] ELSE iCounts[s])
      /\ iWst'[s] = "record" /\ (iWok'[s] => iWok[s] /\ ~gained)
  BY <1>1, <1>2 DEF IsolationInv, WreckInv, WorkInv
<1>5. iBlamed' \subseteq iLeavers'
  BY <1>1, <1>3 DEF IsolationInv, WreckInv
<1>6. SlotInv(s)'
  BY <1>1, <1>2, <1>4 DEF SlotInv, I!runVars
<1>7. NoticedInv(s)'
  <2>1. CASE iCtx = "live"
    BY <1>1, <1>2, <1>4, <2>1 DEF NoticedInv
  <2>2. CASE iCtx # "live"
    BY <1>1, <1>2, <1>4, <2>2 DEF NoticedInv
  <2> QED BY <2>1, <2>2
<1>8. /\ iFiles' \in [OfSuite.slots -> SUBSET OfSuite.cases]
      /\ iLines' \in [OfSuite.slots -> Nat]
      /\ iSeen' \in [OfSuite.slots -> SUBSET OfSuite.cases]
      /\ iBackup' \in [OfSuite.slots -> Int]
      /\ iMissed \subseteq iMissed' /\ iLeavers' = iLeavers
      /\ iPassed \cap (iLeavers' \ iLeavers) = {}
  BY <1>1 DEF IsolationInv, WreckInv, KeptInv
<1>9. "record" \in AtCase /\ "fatals" \in AtCase
  BY DEF AtCase
<1>10. UNCHANGED <<I!runVars, I!queueVars, iWtc, I!treeVars, I!diskVars, iOpened,
                   iPassed>>
  BY <1>1
<1>11. \A t \in OfSuite.slots \ {s} :
          /\ iWok'[t] = iWok[t] /\ iFiles'[t] = iFiles[t] /\ iSeen'[t] = iSeen[t]
          /\ iLines'[t] = iLines[t] /\ iCounts'[t] = iCounts[t]
  BY <1>1, <1>4
<1>12. iAt = "test" /\ iWst' = [iWst EXCEPT ![s] = "record"] /\ iWst[s] \in AtCase
  BY <1>1, <1>9
<1> QED BY <1>4, <1>5, <1>6, <1>7, <1>8, <1>9, <1>10, <1>11, <1>12, OneSlotMoves

\* A case has its verdict: one that left a wreck passes only where nobody could
\* look.
LEMMA RecordKeeps ==
    ASSUME I!IsolationGiven, IsolationInv, I!Working, NEW s \in OfSuite.slots, I!Record(s)
    PROVE  IsolationInv'
<1> USE DEF IsolationInv
<1> DEFINE c == iWtc[s]
<1>1. /\ iWst[s] = "record" /\ iAt = "test" /\ iWst' = [iWst EXCEPT ![s] = "claim"]
      /\ iWtc' = [iWtc EXCEPT ![s] = 0]
      /\ c \in iOut /\ iOut' = iOut \ {c} /\ iOver' = iOver \cup {c} /\ iLeft' = iLeft
      /\ iFin' = iFin \cup {c}
      /\ iPassed' = IF iWok[s] THEN iPassed \cup {c} ELSE iPassed
      /\ UNCHANGED <<I!runVars, I!treeVars, iAll, iSized, iHome, iOpened, iWok,
                     I!slotVars, iLeavers, iBlamed, iMissed>>
  BY AtTest DEF I!Record, AtCase, I!GoTo, I!PutAway
<1>2. c \in OfSuite.cases /\ c # 0 /\ c \notin iOver /\ c \notin iLeft
  BY <1>1 DEF WorkInv, HandsInv, I!IsolationGiven
<1>3. SlotInv(s) /\ NoticedInv(s) /\ iWst'[s] = "claim" /\ iWtc'[s] = 0
  BY <1>1 DEF WreckInv, WorkInv
<1>4. c \in iLeavers => ~iWok[s] \/ c \in iMissed
  BY <1>1, <1>3 DEF NoticedInv
<1>5. \A t \in OfSuite.slots \ {s} : iWtc'[t] = iWtc[t] /\ iWst'[t] = iWst[t]
        /\ iWtc[t] # c
  BY <1>1, <1>2 DEF WorkInv, HandsInv
<1> HIDE DEF c
<1>6. WorkInv'
  BY <1>1 DEF WorkInv, I!runVars, Slotted, Unbusy
<1>7. HandsInv' /\ I!List' = I!List
  <2>1. I!List' = I!List
    BY <1>1 DEF I!List
  <2>2. iOut' = {iWtc'[t] : t \in OfSuite.slots} \ {0}
    <3>1. iOut = {iWtc[t] : t \in OfSuite.slots} \ {0}
      BY DEF HandsInv
    <3>2. \A t \in OfSuite.slots : t # s => iWtc[t] = iWtc'[t] /\ iWtc[t] # c
      BY <1>5
    <3> QED BY <1>1, <1>3, <3>1, <3>2 DEF c
  <2>3. \A t, u \in OfSuite.slots : t # u /\ iWtc'[t] = iWtc'[u] => iWtc'[t] = 0
    BY <1>3, <1>5 DEF HandsInv
  <2>4. \A t \in OfSuite.slots :
           /\ iWst'[t] \in AtCase => iWtc'[t] # 0
           /\ iWst'[t] \in Unbusy => iWtc'[t] = 0
           /\ iWst'[t] \in {"stop", "gone"} => iLeft' = {}
    <3>1. "claim" \notin AtCase
      BY DEF AtCase
    <3> QED BY <1>1, <1>3, <1>5, <3>1 DEF HandsInv
  <2>5. iLeft' \cap iOut' = {} /\ iLeft' \cap iOver' = {} /\ iOut' \cap iOver' = {}
    BY <1>1, <1>2 DEF HandsInv
  <2> QED BY <1>1, <2>1, <2>2, <2>3, <2>4, <2>5 DEF HandsInv, I!runVars
<1>8. \A t \in OfSuite.slots : SlotInv(t)' /\ NoticedInv(t)'
  <2>1. ASSUME NEW t \in OfSuite.slots, t # s PROVE SlotInv(t)' /\ NoticedInv(t)'
    BY <1>1, <1>5, <2>1, OthersStand DEF I!runVars, I!slotVars
  <2>2. SlotInv(s)'
    BY <1>1, <1>3 DEF SlotInv, I!runVars, I!slotVars
  <2>3. NoticedInv(s)'
    BY <1>1, <1>3 DEF NoticedInv, I!slotVars
  <2> QED BY <2>1, <2>2, <2>3
<1>9. WreckInv'
  <2>1. iLeavers' \subseteq iOut' \cup iOver' /\ iPassed' \subseteq iOver'
          /\ iBlamed' \subseteq iLeavers'
    BY <1>1 DEF WreckInv
  <2>2. iPassed' \cap iLeavers' \subseteq iMissed'
    BY <1>1, <1>4 DEF WreckInv
  <2> QED BY <1>1, <1>8, <2>1, <2>2 DEF WreckInv, I!slotVars
<1>10. TreeInv' /\ ListsInv' /\ KeptInv'
  <2>1. iMode = "fresh" => iFin' = iOver'
    BY <1>1 DEF ListsInv, Slotted
  <2> QED BY <1>1, <1>7, <2>1, RunStands DEF I!slotVars, KeptInv
<1> QED BY <1>6, <1>7, <1>9, <1>10

-----------------------------------------------------------------------------
\* The end of a run.

\* The workers are through: nothing of theirs changes but that a backup was kept.
LEMMA WorkersThrough ==
    ASSUME WorkInv, HandsInv, WreckInv, UNCHANGED <<I!queueVars, iCtx, iWtc, iWok,
                                                    I!slotVars, I!ghostVars>>,
           iAt' \notin {"begin", "fetch"},
           \A s \in OfSuite.slots : iWst'[s] = iWst[s]
             \/ (iWst[s] \in {"gone", "bad"} /\ iWst'[s] = "kept")
    PROVE  HandsInv' /\ WreckInv' /\ I!List' = I!List
<1> USE DEF I!queueVars, I!slotVars, I!ghostVars
<1>1. HandsInv' /\ I!List' = I!List
  BY DEF HandsInv, I!List, AtCase, Unbusy
<1>2. WreckInv'
  <2>1. ASSUME NEW s \in OfSuite.slots PROVE SlotInv(s)'
    BY DEF WreckInv, SlotInv
  <2>2. ASSUME NEW s \in OfSuite.slots PROVE NoticedInv(s)'
    BY <2>2 DEF WreckInv, NoticedInv
  <2> QED BY <2>1, <2>2 DEF WreckInv
<1> QED BY <1>1, <1>2

\* A run whose workers all drained the queue has nothing out.
LEMMA JoinKeeps ==
    ASSUME I!IsolationGiven, IsolationInv, I!Join PROVE IsolationInv'
<1> USE DEF IsolationInv
<1>1. /\ iAt = "test" /\ \A s \in OfSuite.slots : iWst[s] \in {"gone", "bad"}
      /\ iAt' = "keep" /\ iExit' \in {"error", "ok"} /\ iSized' = I!Sizeable
      /\ UNCHANGED <<I!queueVars, iMode, iCtx, iRuns, I!treeVars, iAll, iFin, iHome,
                     iOpened, I!workVars, I!slotVars, I!ghostVars>>
  BY DEF I!Join, I!Back
<1>2. WorkInv'
  BY <1>1 DEF WorkInv, I!workVars, Slotted
<1>3. HandsInv' /\ WreckInv' /\ I!List' = I!List
  BY <1>1, WorkersStand
<1>4. TreeInv'
  BY <1>1, <1>3 DEF TreeInv, I!treeVars, Slotted
<1>5. ListsInv'
  <2>1. ASSUME I!Sizeable PROVE iLeft \cup iOut = {} /\ iFin = iAll
    <3>1. iMode = "fresh" /\ \A s \in OfSuite.slots : iWst[s] = "gone"
      BY <1>1, <2>1 DEF I!Sizeable, I!Failed
    <3>2. iOut = {}
      BY <3>1 DEF HandsInv, Unbusy
    <3>3. iLeft = {}
      BY <3>1 DEF HandsInv, I!IsolationGiven
    <3> QED BY <1>1, <3>1, <3>2, <3>3 DEF ListsInv, Slotted, I!List
  <2> QED BY <1>1, <1>3, <2>1 DEF ListsInv, I!queueVars, Slotted
<1>6. KeptInv'
  BY <1>1 DEF KeptInv, I!slotVars, I!workVars
<1> QED BY <1>2, <1>3, <1>4, <1>5, <1>6

\* A backup goes where no other slot's of this run is.
LEMMA KeepKeeps ==
    ASSUME I!IsolationGiven, IsolationInv, NEW s \in OfSuite.slots, I!Keep(s)
             PROVE IsolationInv'
<1> USE DEF IsolationInv
<1>1. /\ iAt = "keep" /\ iWst[s] \in {"gone", "bad"}
      /\ iWst' = [iWst EXCEPT ![s] = "kept"]
      /\ iHome' = IF iBackup[s] = 0 THEN iHome
                 ELSE {h \in iHome : h.name # I!NameFor(s)}
                      \cup {[name |-> I!NameFor(s), from |-> <<iRuns, s>>]}
      /\ UNCHANGED <<I!queueVars, I!runVars, I!treeVars, iAll, iFin, iSized, iOpened,
                     iWtc, iWok, I!slotVars, I!ghostVars>>
  BY DEF I!Keep, I!Back, I!GoTo
<1>2. /\ iWst'[s] = "kept" /\ \A t \in OfSuite.slots \ {s} : iWst'[t] = iWst[t]
  BY <1>1 DEF WorkInv
<1>3. WorkInv'
  BY <1>1, <1>2 DEF WorkInv, I!runVars, Slotted
<1>4. HandsInv' /\ WreckInv' /\ I!List' = I!List
  BY <1>1, <1>2, WorkersThrough DEF I!runVars
<1>5. TreeInv' /\ ListsInv'
  BY <1>1, <1>4 DEF TreeInv, ListsInv, I!treeVars, I!runVars, I!queueVars
<1>6. KeptInv'
  <2>1. iBackup[s] \in Int /\ iRuns \in Nat /\ iRuns' = iRuns /\ iBackup' = iBackup
          /\ iExit' = iExit
    BY <1>1 DEF KeptInv, I!runVars, I!slotVars
  <2>2. \/ I!NameFor(s) = <<0, iBackup[s]>> /\ \A h \in iHome : h.name # <<0, iBackup[s]>>
        \/ I!NameFor(s) = <<s, iBackup[s]>>
    BY DEF I!NameFor
  <2>3. \A h \in iHome' : \E t \in OfSuite.slots, r \in Nat, b \in Int :
           h \in {[name |-> <<o, b>>, from |-> <<r, t>>] : o \in {0, t}}
    <3>1. [name |-> I!NameFor(s), from |-> <<iRuns, s>>]
             \in {[name |-> <<o, iBackup[s]>>, from |-> <<iRuns, s>>] : o \in {0, s}}
      BY <2>2
    <3>2. \A h \in iHome' : h \in iHome
            \/ h = [name |-> I!NameFor(s), from |-> <<iRuns, s>>]
      BY <1>1
    <3> QED BY <2>1, <3>1, <3>2 DEF KeptInv
  <2>4. ASSUME NEW t \in OfSuite.slots, t # s, NEW h \in iHome, h.from = <<iRuns, t>>
        PROVE  h \in iHome'
    <3>1. PICK u \in OfSuite.slots, r \in Nat, b \in Int :
             h \in {[name |-> <<o, b>>, from |-> <<r, u>>] : o \in {0, u}}
      BY DEF KeptInv
    <3>2. PICK o \in {0, t} : h.name = <<o, b>>
      BY <2>4, <3>1
    <3>3. h.name # I!NameFor(s)
      BY <2>2, <2>4, <3>1, <3>2 DEF I!IsolationGiven
    <3> QED BY <1>1, <3>3
  <2>5. iBackup[s] # 0 => \E h \in iHome' : h.from = <<iRuns, s>>
    <3>1. [name |-> I!NameFor(s), from |-> <<iRuns, s>>].from = <<iRuns, s>>
      OBVIOUS
    <3>2. iBackup[s] # 0 => [name |-> I!NameFor(s), from |-> <<iRuns, s>>] \in iHome'
      BY <1>1
    <3> QED BY <3>1, <3>2
  <2>6. \A t \in OfSuite.slots : iBackup[t] # 0 /\ iWst'[t] = "kept"
          /\ iExit \in {"ok", "error"} =>
           \E h \in iHome' : h.from = <<iRuns, t>>
    BY <1>1, <1>2, <2>4, <2>5 DEF KeptInv
  <2> QED BY <1>1, <2>1, <2>3, <2>6 DEF KeptInv, I!runVars
<1> QED BY <1>3, <1>4, <1>5, <1>6

\* The slots close with every backup kept, and the patches that are in come out
\* one by one, or it is said that one did not.
LEMMA EndKeeps ==
    ASSUME I!IsolationGiven, IsolationInv, I!Kept \/ I!CloseSlots \/ I!Revert
             \/ I!Returned
    PROVE  IsolationInv'
<1> USE DEF IsolationInv
<1>1. /\ iAt \in {"keep", "close", "revert"} /\ iAt' \in {"close", "revert", "over"}
      /\ UNCHANGED <<I!queueVars, iMode, iCtx, iExit, iRuns, I!diskVars, I!workVars,
                     I!slotVars, I!ghostVars>>
  BY DEF I!Kept, I!CloseSlots, I!Revert, I!Returned, I!Deferred, I!runVars
<1>2. WorkInv'
  BY <1>1 DEF WorkInv, I!workVars, Slotted
<1>3. HandsInv' /\ WreckInv' /\ I!List' = I!List
  BY <1>1, WorkersStand
<1>4. TreeInv'
  <2>1. CASE I!Kept
    BY <1>3, <2>1 DEF I!Kept, TreeInv, I!treeVars, Slotted
  <2>2. CASE I!CloseSlots
    <3>1. /\ iAt = "close" /\ iAt' = "revert" /\ iOpened' = {}
          /\ iTodo' = OfSuite.patches \cap I!List
          /\ UNCHANGED <<iTree, iRefused>>
      BY <2>2 DEF I!CloseSlots, I!Deferred
    <3> QED BY <1>3, <3>1 DEF TreeInv, Slotted
  <2>3. CASE I!Revert
    <3>1. /\ iAt = "revert" /\ iAt' = "revert" /\ iTodo # {}
          /\ iTodo' = iTodo \ {I!First(iTodo)}
          /\ \/ iTree' = iTree \ {I!First(iTodo)} /\ iRefused' = iRefused
             \/ iRefused' = iRefused \cup {I!First(iTodo)} /\ iTree' = iTree
          /\ UNCHANGED iOpened
      BY <2>3 DEF I!Revert, I!runVars
    <3> QED BY <1>3, <3>1 DEF TreeInv, Slotted
  <2>4. CASE I!Returned
    <3>1. /\ iAt = "revert" /\ iAt' = "over" /\ iTodo = {}
          /\ UNCHANGED <<iTree, iTodo, iRefused, iOpened>>
      BY <2>4 DEF I!Returned, I!treeVars
    <3> QED BY <1>3, <3>1 DEF TreeInv, Slotted
  <2> QED BY <2>1, <2>2, <2>3, <2>4
<1>5. ListsInv'
  <2>1. iMode = "fresh" /\ iAt' # "over" => iAll' = I!List' /\ iFin' = iOver'
    BY <1>1, <1>3 DEF ListsInv, Slotted, I!diskVars, I!queueVars
  <2> QED BY <1>1, <2>1 DEF ListsInv, Slotted, I!diskVars, I!queueVars
<1>6. KeptInv'
  <2>1. iAt = "keep" => \A s \in OfSuite.slots : iWst[s] = "kept"
    BY DEF I!Kept, I!CloseSlots, I!Revert, I!Returned
  <2> QED BY <1>1, <2>1 DEF KeptInv, I!diskVars, I!slotVars
<1> QED BY <1>2, <1>3, <1>4, <1>5, <1>6

\* An interrupted run looks no more; what was not counted stays as it is.
LEMMA InterruptKeeps ==
    ASSUME I!IsolationGiven, IsolationInv, I!Interrupt PROVE IsolationInv'
<1> USE DEF IsolationInv
<1>1. /\ iCtx' = "done"
      /\ UNCHANGED <<I!queueVars, iAt, iMode, iExit, iRuns, I!treeVars, I!diskVars,
                     iOpened, I!workVars, I!slotVars, I!ghostVars>>
  BY DEF I!Interrupt
<1>2. WorkInv' /\ HandsInv' /\ I!List' = I!List
  BY <1>1 DEF WorkInv, HandsInv, I!List, I!queueVars, I!workVars
<1>3. WreckInv'
  <2> USE DEF I!queueVars, I!workVars, I!slotVars, I!ghostVars
  <2>1. ASSUME NEW s \in OfSuite.slots PROVE SlotInv(s)'
    BY <1>1 DEF WreckInv, SlotInv
  <2>2. ASSUME NEW s \in OfSuite.slots PROVE NoticedInv(s)'
    BY <1>1, <2>2 DEF WreckInv, NoticedInv
  <2> QED BY <1>1, <2>1, <2>2 DEF WreckInv
<1>4. TreeInv' /\ ListsInv'
  BY <1>1, <1>2 DEF TreeInv, ListsInv, I!treeVars, I!diskVars, I!queueVars
<1>5. KeptInv'
  BY <1>1 DEF KeptInv, I!diskVars, I!slotVars, I!workVars
<1> QED BY <1>2, <1>3, <1>4, <1>5

\* A run is killed where it stands.
LEMMA KillKeeps ==
    ASSUME I!IsolationGiven, IsolationInv, I!Kill PROVE IsolationInv'
<1> USE DEF IsolationInv
<1>1. /\ iAt' = "over" /\ iExit' = "killed" /\ iOpened' = {}
      /\ UNCHANGED <<I!queueVars, iMode, iCtx, iRuns, I!treeVars, I!diskVars,
                     I!workVars, I!slotVars, I!ghostVars>>
  BY DEF I!Kill, I!Return
<1>2. WorkInv'
  BY <1>1 DEF WorkInv, I!workVars
<1>3. HandsInv' /\ WreckInv' /\ I!List' = I!List
  BY <1>1, WorkersStand
<1>4. TreeInv'
  BY <1>1 DEF TreeInv, I!treeVars, Slotted
<1>5. ListsInv'
  BY <1>1 DEF ListsInv, Slotted, I!diskVars, I!queueVars
<1>6. KeptInv'
  BY <1>1 DEF KeptInv, I!diskVars, I!slotVars
<1> QED BY <1>2, <1>3, <1>4, <1>5, <1>6

\* The next run starts over what is on disk.
LEMMA AgainKeeps ==
    ASSUME I!IsolationGiven, IsolationInv, I!Again PROVE IsolationInv'
<1> USE DEF IsolationInv
<1>1. /\ iRuns' = iRuns + 1 /\ iMode' \in {"fresh", "continue"} /\ iAt' = "begin"
      /\ iCtx' = "live"
      /\ iExit' = "none" /\ iTodo' = {} /\ iRefused' = {} /\ iOpened' = {}
      /\ iSized' = FALSE
      /\ iLeavers' = {} /\ iBlamed' = {} /\ iMissed' = {} /\ iPassed' = {}
      /\ UNCHANGED <<iTree, iAll, iFin, iHome>>
  BY DEF I!Again
<1>2. iLeft' = {} /\ iOut' = {} /\ iOver' = {} /\ I!List' = {}
  BY DEF I!Again, I!List
<1>3. /\ iWst' = [s \in OfSuite.slots |-> "none"] /\ iWtc' = [s \in OfSuite.slots |-> 0]
      /\ iWok' = [s \in OfSuite.slots |-> TRUE]
      /\ iFiles' = [s \in OfSuite.slots |-> {}] /\ iSeen' = [s \in OfSuite.slots |-> {}]
      /\ iLines' = [s \in OfSuite.slots |-> 0] /\ iCounts' = [s \in OfSuite.slots |-> 0]
      /\ iBackup' = [s \in OfSuite.slots |-> 0]
  BY DEF I!Again, I!Each
<1>4. WorkInv'
  BY <1>1, <1>3 DEF WorkInv, Unbusy
<1>5. HandsInv'
  BY <1>1, <1>2, <1>3 DEF HandsInv, AtCase
<1>6. WreckInv'
  <2>1. \A s \in OfSuite.slots : SlotInv(s)' /\ NoticedInv(s)'
    BY <1>1, <1>3 DEF SlotInv, NoticedInv
  <2> QED BY <1>1, <1>2, <1>3, <2>1 DEF WreckInv
<1>7. TreeInv'
  BY <1>1, <1>2 DEF TreeInv, Slotted
<1>8. ListsInv'
  BY <1>1 DEF ListsInv, Slotted
<1>9. KeptInv'
  BY <1>1, <1>3 DEF KeptInv
<1> QED BY <1>4, <1>5, <1>6, <1>7, <1>8, <1>9

LEMMA IsolationStep ==
    ASSUME I!IsolationGiven, IsolationInv, [I!Next]_(I!vars) PROVE IsolationInv'
<1>1. CASE I!Main
  BY <1>1, EarlyEnds, SetupKeeps, FetchKeeps, PatchKeeps, OpenSlotsKeeps, DeployedKeeps,
     JoinKeeps, EndKeeps DEF I!Main
<1>2. CASE I!Working /\ \E s \in OfSuite.slots : I!Step(s) \/ I!Die(s)
  <2> SUFFICES ASSUME NEW s \in OfSuite.slots, I!Step(s) \/ I!Die(s), I!Working
        PROVE IsolationInv'
    BY <1>2
  <2> QED BY DeployKeeps, ClaimKeeps, LeaveKeeps, CaseStarts, RunOneKeeps,
             CheckFilesKeeps, CheckFatalsKeeps, RecordKeeps, KeepKeeps, DieKeeps
             DEF I!Step
<1>3. CASE I!Interrupt \/ I!Kill \/ I!Again
  BY <1>3, InterruptKeeps, KillKeeps, AgainKeeps
<1>4. CASE UNCHANGED I!vars \/ I!Ended
  <2> USE DEF IsolationInv
  <2>1. UNCHANGED <<I!queueVars, I!runVars, I!treeVars, I!diskVars, iOpened, I!workVars,
                    I!slotVars, I!ghostVars>>
    BY <1>4 DEF I!vars, I!Ended
  <2>2. WorkInv'
    BY <2>1 DEF WorkInv, I!runVars, I!workVars
  <2>3. HandsInv' /\ WreckInv' /\ I!List' = I!List
    BY <2>1, WorkersStand DEF I!runVars
  <2>4. TreeInv' /\ ListsInv'
    BY <2>1, <2>3 DEF TreeInv, ListsInv, I!runVars, I!treeVars, I!diskVars, I!queueVars
  <2>5. KeptInv'
    BY <2>1 DEF KeptInv, I!runVars, I!diskVars, I!slotVars, I!workVars
  <2> QED BY <2>2, <2>3, <2>4, <2>5
<1> QED BY <1>1, <1>2, <1>3, <1>4 DEF I!Next

-----------------------------------------------------------------------------
\* What follows from it.

\* No case is failed for another's wreck, and none that left one passes if anybody
\* could look.
LEMMA BlameIsDue ==
    IsolationInv => iBlamed \subseteq iLeavers /\ I!WreckageBlamed
BY DEF IsolationInv, WreckInv, I!WreckageBlamed

LEMMA SuiteIsHonest == IsolationInv => I!TreeSteady /\ I!EndHonest
<1>1. IsolationInv => I!TreeSteady
  BY DEF IsolationInv, TreeInv, I!TreeSteady
<1>2. IsolationInv => I!EndHonest
  BY DEF IsolationInv, ListsInv, KeptInv, I!EndHonest
<1> QED BY <1>1, <1>2

-----------------------------------------------------------------------------
\* What holds of the suite by itself holds of it beside the controller.
LEMMA SuiteStands == PartsSpec => []IsolationInv
<1>1. PartsInit => IsolationInv
  BY SuiteAssumption, IsolationInit DEF PartsInit
<1>2. IsolationInv /\ [MCNext]_mcVars => IsolationInv'
  <2>1. [MCNext]_mcVars => UNCHANGED suiteVars \/ I!Next
    BY DEF MCNext, CtlDoes, SuiteDoes, mcVars
  <2>2. UNCHANGED suiteVars => UNCHANGED I!vars
    BY DEF suiteVars, I!vars, I!queueVars, I!runVars, I!treeVars, I!diskVars, I!workVars,
       I!slotVars, I!ghostVars
  <2> QED BY <2>1, <2>2, SuiteAssumption, IsolationStep
<1> QED BY <1>1, <1>2, PTL DEF PartsSpec

\* ADR-021: for any corpus, any number of slots and of dying servers, what a
\* server leaves fails the case it appeared under and no other.
THEOREM WreckageBlamedThere == PartsSpec => []WreckageBlamed
<1>1. IsolationInv => WreckageBlamed
  BY SuiteAssumption, BlameIsDue DEF WreckageBlamed
<1> QED BY <1>1, SuiteStands, PTL

\* isolation.go: the corpus holds exactly the patches of the run's cases while
\* slots are open and none of them after, and what a run leaves is true of it.
THEOREM SuiteHonestThere == PartsSpec => []SuiteHonest
<1>1. IsolationInv => SuiteHonest
  BY SuiteAssumption, SuiteIsHonest DEF SuiteHonest
<1> QED BY <1>1, SuiteStands, PTL
=============================================================================
