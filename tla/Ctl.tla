--------------------------------- MODULE Ctl ---------------------------------
(***************************************************************************)
(* The isolation controller of internal/ctl: one .ctl script, the client   *)
(* processes it drives through three pipes each, and the probe that asks   *)
(* the server whether a client waits on a lock.                            *)
(*                                                                         *)
(* The controller is one thread.  Everything it waits for it waits for in  *)
(* serviceUntil, whose loop is four steps here: Check, Select, Read (one   *)
(* client at a time) and Reap.  The clients, qacsql, are external: they    *)
(* answer what they read, in order, may wait on locks and may die, at any  *)
(* point between two of the controller's steps.                            *)
(*                                                                         *)
(* What a client prints is abstracted to the `) is ready.' marker that     *)
(* ends each answer, in two halves, because a read takes what is there.    *)
(***************************************************************************)
EXTENDS Integers, Sequences, FiniteSets

CONSTANTS
    K,          \* NUM_CLIENTS
    Scripts,    \* the scripts a run may be given: sequences of commands
    Rounds,     \* service rounds in a wait's deadline (bounds time)
    MayCrash,   \* clients and the probe may die by themselves
    Long        \* the scripts whose answers are long: a client's marker may
                \* reach the controller in two reads

Clients == 1..K

Op == {"skip", "send", "ready", "blocked", "unblocked", "sleep", "pause",
       "bad"}

\* A classified statement: what to do, for which client, how many answers it
\* wants back (NextCompound's count) and whether it makes the client quit.
Command == [op : Op, client : Nat, count : Nat \ {0}, quit : BOOLEAN]

ASSUME CtlAssumption ==
    /\ K \in Nat \ {0} /\ Rounds \in Nat
    /\ MayCrash \in BOOLEAN /\ Long \subseteq Scripts
    /\ \A sc \in Scripts : sc \in Seq(Command)

VARIABLES
    script,     \* the statements of this case's file
    next,       \* the next one to read
    at,         \* what the controller is doing
    step,       \* where it is in serviceUntil
    long,       \* the wait is in its second, longer half
    left,       \* rounds left before this wait's deadline
    who,        \* the client this wait is about
    toRead,     \* descriptors the last select found readable
    ret,        \* Run's exit status, -1 while it runs
    state,      \* state[c]: running, ready or finished, as the controller knows
    pending,    \* pending[c]: answers the controller still expects
    tran,       \* tran[c]: the client's transaction index has been read
    probe,      \* the probe still answers
    alive,      \* alive[c]: the client process exists
    inbox,      \* inbox[c]: lines in its stdin pipe
    doing,      \* doing[c]: answers it still owes for what it is executing
    half,       \* half[c]: half of a marker is written
    locked,     \* locked[c]: it waits on a lock
    outPipe,    \* outPipe[c]: halves of markers not yet read
    errPipe,    \* errPipe[c]: it has said something on stderr, not yet read
    answered,   \* answered[c]: answers it has given (observation)
    crashed     \* a client has died by itself (observation)

waitVars == <<at, step, long, left, who, toRead>>
knownVars == <<state, pending, tran>>
pipeVars == <<inbox, outPipe, errPipe>>
procVars == <<alive, doing, half, locked, answered, crashed>>
vars == <<script, next, waitVars, ret, knownVars, probe, pipeVars, procVars>>

-----------------------------------------------------------------------------
(* Helpers.  A name that ends in _F is a seeded fault: the definition that *)
(* follows with a plausible bug.  No specification uses it.                *)

\* The probe's answer: false when it has gone or the client's index is unknown.
Blocked(c) == probe /\ tran[c] /\ locked[c]

Gone(c) == state[c] = "finished"
Live == {c \in Clients : ~ Gone(c)}

\* DEADLOCK_DURATION: how often the pause services the clients.
DeadlockPause == 3

\* allBlocked(): every live client waits on a lock.
AllBlocked ==
    /\ \E c \in Clients : ~ Gone(c)
    /\ \A c \in Clients : ~ Gone(c) => Blocked(c)

\* What the wait the controller is in waits for.
Done ==
    CASE at \in {"init", "send", "ready"} -> state[who] \in {"ready", "finished"}
      [] at = "blocked"                   -> Gone(who) \/ Blocked(who)
      [] at = "unblocked"                 -> Gone(who) \/ ~ Blocked(who)
      [] at = "end"                       -> Gone(who)
      [] OTHER                            -> FALSE

\* The end of a client's output or something in it makes a descriptor readable.
OutReadable(c) == outPipe[c] # <<>> \/ ~ alive[c]
ErrReadable(c) == errPipe[c] \/ ~ alive[c]

\* The markers of a chunk: a half at its edge is not one.
Markers(chunk) ==
    Cardinality({i \in 1..(Len(chunk) - 1) :
                    chunk[i] = "head" /\ chunk[i + 1] = "tail"})

\* `wait until', NumClients and the rest name clients by number.
InRange(c) == c \in Clients

-----------------------------------------------------------------------------
(* Waiting.                                                                *)

\* Start serviceUntil for client c.
Await(kind, c) ==
    /\ at' = kind
    /\ who' = c
    /\ step' = "check"
    /\ long' = FALSE
    /\ left' = Rounds
    /\ UNCHANGED toRead

\* Back to the script.
Continue ==
    /\ at' = "fetch"
    /\ UNCHANGED <<step, long, left, who, toRead>>

\* close() on every client in S that is not finished: its pipes are closed, it
\* exits by itself or is killed, and it is reaped.
Close(S) ==
    LET gone == {c \in S : ~ Gone(c)} IN
    /\ state' = [c \in Clients |-> IF c \in gone THEN "finished" ELSE state[c]]
    /\ alive' = [c \in Clients |-> alive[c] /\ c \notin gone]
    /\ doing' = [c \in Clients |-> IF c \in gone THEN 0 ELSE doing[c]]
    /\ locked' = [c \in Clients |-> locked[c] /\ c \notin gone]

CloseAll_F == UNCHANGED <<state, alive, doing, locked>>

\* The deferred killAll.
CloseAll == Close(Clients)

\* Run returns with a status; its deferred killAll closes every client.
Return(status) ==
    /\ ret' = status
    /\ at' = "over"
    /\ CloseAll
    /\ UNCHANGED <<script, next, step, long, left, who, toRead, pending, tran,
                   probe, pipeVars, half, answered, crashed>>

Waits == {"init", "send", "ready", "blocked", "unblocked", "end", "pause"}

Waiting(s) == at \in Waits /\ step = s

HasTime_F == left >= 0

\* The deadline has not passed.
HasTime == left > 0

\* done() does not hold and time is left: select over the live clients.
Select ==
    /\ Waiting("check")
    /\ ~ Done
    /\ HasTime
    /\ toRead' = {<<c, "out">> : c \in {d \in Live : OutReadable(d)}}
                 \cup {<<c, "err">> : c \in {d \in Live : ErrReadable(d)}}
    /\ step' = IF toRead' = {} THEN "reap" ELSE "read"
    /\ left' = left - 1
    /\ UNCHANGED <<script, next, at, long, who, ret, knownVars, probe, pipeVars,
                   procVars>>

\* The next descriptor of the last select: in client order, output first.
NextToRead(c, fd) ==
    /\ <<c, fd>> \in toRead
    /\ \A d \in Clients : \A g \in {"out", "err"} :
          <<d, g>> \in toRead => c < d \/ (c = d /\ (fd = "out" \/ g = "err"))

\* Off to the rest of what the select found, or to the next round.
ReadNext(rest) ==
    /\ toRead' = rest
    /\ step' = IF rest = {} THEN "check" ELSE "read"

Ready_F(c, chunk) == Markers(chunk) > 0

\* The markers of this chunk bring pending to zero.
Ready(c, chunk) == pending[c] > 0 /\ Markers(chunk) >= pending[c]

\* readOutput: one read, the whole chunk printed, one answer accounted for by
\* each marker in it.
ReadOutput(c) ==
    /\ Waiting("read")
    /\ NextToRead(c, "out")
    /\ outPipe[c] # <<>>
    /\ tran' = [tran EXCEPT ![c] = TRUE]
    /\ pending' = [pending EXCEPT ![c] = @ - Markers(outPipe[c])]
    /\ state' = [state EXCEPT ![c] = IF Ready(c, outPipe[c]) THEN "ready" ELSE @]
    /\ outPipe' = [outPipe EXCEPT ![c] = <<>>]
    /\ ReadNext(toRead \ {<<c, "out">>})
    /\ UNCHANGED <<script, next, at, long, left, who, ret, probe, inbox, errPipe,
                   procVars>>

\* readOutput read nothing: the client is on its way out, and is closed.
ReadEnd(c) ==
    /\ Waiting("read")
    /\ NextToRead(c, "out")
    /\ outPipe[c] = <<>>
    /\ Close({c})
    /\ ReadNext(toRead \ {<<c, "out">>, <<c, "err">>})
    /\ UNCHANGED <<script, next, at, long, left, who, ret, pending, tran, probe,
                   pipeVars, half, answered, crashed>>

\* readError.
ReadError(c) ==
    /\ Waiting("read")
    /\ NextToRead(c, "err")
    /\ errPipe' = [errPipe EXCEPT ![c] = FALSE]
    /\ ReadNext(toRead \ {<<c, "err">>})
    /\ UNCHANGED <<script, next, at, long, left, who, ret, knownVars, probe,
                   inbox, outPipe, procVars>>

Read == \E c \in Clients : ReadOutput(c) \/ ReadEnd(c) \/ ReadError(c)

Reap_F ==
    /\ Waiting("reap")
    /\ state' = [c \in Clients |-> "finished"]
    /\ step' = "check"
    /\ UNCHANGED <<script, next, at, long, left, who, toRead, ret, pending, tran,
                   probe, pipeVars, procVars>>

\* reap(): the select found nothing, so ask for exited clients.
Reap ==
    /\ Waiting("reap")
    /\ state' = [c \in Clients |-> IF alive[c] THEN state[c] ELSE "finished"]
    /\ step' = "check"
    /\ UNCHANGED <<script, next, at, long, left, who, toRead, ret, pending, tran,
                   probe, pipeVars, procVars>>

\* No time is left.  A wait's first half may end with a warning and a second
\* half; the waits without one, and the second halves, end the run.
GivesUp ==
    \/ at \in {"send", "end"} \/ long
    \/ at \in {"init", "ready"} /\ AllBlocked
    \/ at = "blocked" /\ state[who] = "ready"

TimedOut == Waiting("check") /\ ~ Done /\ ~ HasTime

Warn_F ==
    /\ TimedOut
    /\ at # "pause"
    /\ ~ GivesUp
    /\ left' = Rounds
    /\ UNCHANGED <<script, next, at, step, long, who, toRead, ret, knownVars,
                   probe, pipeVars, procVars>>

Warn ==
    /\ TimedOut
    /\ at # "pause"
    /\ ~ GivesUp
    /\ long' = TRUE
    /\ left' = Rounds
    /\ UNCHANGED <<script, next, at, step, who, toRead, ret, knownVars, probe,
                   pipeVars, procVars>>

GiveUp ==
    /\ TimedOut
    /\ at # "pause"
    /\ GivesUp
    /\ Return(1)

\* `pause for deadlock resolution' only services the clients.
PauseOver ==
    /\ TimedOut
    /\ at = "pause"
    /\ Continue
    /\ UNCHANGED <<script, next, ret, knownVars, probe, pipeVars, procVars>>

-----------------------------------------------------------------------------
(* The run.                                                                *)

\* The clients are started together; the first readiness test follows.
Start ==
    /\ at = "start"
    /\ Await("init", 1)
    /\ alive' = [c \in Clients |-> TRUE]
    /\ doing' = [c \in Clients |-> 1]
    /\ UNCHANGED <<script, next, ret, knownVars, probe, pipeVars, half, locked,
                   answered, crashed>>

\* The probe finds no database, the file cannot be read, or one of the clients
\* cannot be started: those already running are killed.
StartFails ==
    /\ at = "start"
    /\ Return(1)

\* One client has passed its readiness test (or gone): the next one's, or the
\* script.
InitNext ==
    /\ at = "init" /\ Waiting("check") /\ Done
    /\ IF who < K THEN Await("init", who + 1) ELSE Continue
    /\ UNCHANGED <<script, next, ret, knownVars, probe, pipeVars, procVars>>

Fetching == at = "fetch" /\ next <= Len(script)
Cmd == script[next]

Advance == next' = next + 1

\* A setup or an empty statement, and a sleep: nothing is serviced.
Skip ==
    /\ Fetching
    /\ Cmd.op \in {"skip", "sleep"}
    /\ Advance
    /\ UNCHANGED <<script, waitVars, ret, knownVars, probe, pipeVars, procVars>>

\* A statement no client is named by, or one this controller refuses.
Refuse ==
    /\ Fetching
    /\ \/ Cmd.op = "bad"
       \/ Cmd.op \in {"send", "ready", "blocked", "unblocked"} /\ ~ InRange(Cmd.client)
    /\ Return(1)

\* A `wait until'.
Wait ==
    /\ Fetching
    /\ Cmd.op \in {"ready", "blocked", "unblocked"}
    /\ InRange(Cmd.client)
    /\ Await(Cmd.op, Cmd.client)
    /\ Advance
    /\ UNCHANGED <<script, ret, knownVars, probe, pipeVars, procVars>>

\* ... has come true.
WaitOver ==
    /\ at \in {"ready", "blocked", "unblocked"} /\ Waiting("check") /\ Done
    /\ Continue
    /\ UNCHANGED <<script, next, ret, knownVars, probe, pipeVars, procVars>>

Pause ==
    /\ Fetching
    /\ Cmd.op = "pause"
    /\ Advance
    /\ at' = "pause" /\ step' = "check" /\ left' = DeadlockPause
    /\ UNCHANGED <<script, long, who, toRead, ret, knownVars, probe, pipeVars,
                   procVars>>

Ignores_F(c) == state[c] # "ready"

\* toClient: a statement for a client that has gone is ignored ...
Ignores(c) == Gone(c)

SendIgnored ==
    /\ Fetching
    /\ Cmd.op = "send" /\ InRange(Cmd.client)
    /\ Ignores(Cmd.client)
    /\ Advance
    /\ UNCHANGED <<script, waitVars, ret, knownVars, probe, pipeVars, procVars>>

\* ... any other waits until its client has answered all it was sent before ...
SendWait ==
    /\ Fetching
    /\ Cmd.op = "send" /\ InRange(Cmd.client)
    /\ ~ Ignores(Cmd.client)
    /\ Await("send", Cmd.client)
    /\ UNCHANGED <<script, next, ret, knownVars, probe, pipeVars, procVars>>

Expect_F(c, count) == pending' = [pending EXCEPT ![c] = 1]

\* send: what the client now owes.
Expect(c, count) == pending' = [pending EXCEPT ![c] = count]

\* ... and is then written to it.
Send ==
    /\ at = "send" /\ Waiting("check")
    /\ state[who] = "ready"
    /\ alive[who]
    /\ Expect(who, Cmd.count)
    /\ state' = [state EXCEPT ![who] = "running"]
    /\ inbox' = [inbox EXCEPT ![who] = Append(@, Cmd)]
    /\ Continue
    /\ Advance
    /\ UNCHANGED <<script, ret, tran, probe, outPipe, errPipe, procVars>>

\* It went while this waited, or its pipe is broken: the run is over.
SendFails ==
    /\ at = "send" /\ Waiting("check")
    /\ Gone(who) \/ (state[who] = "ready" /\ ~ alive[who])
    /\ Return(1)

-----------------------------------------------------------------------------
(* endOfInput.                                                             *)

Quit(c) == [op |-> "send", client |-> c, count |-> 1, quit |-> TRUE]

\* What the loop does with client c: nothing when it has gone; `quit' when it
\* is ready; and, ready or running, waits for it to go.
EndWith(c) ==
    \/ /\ Gone(c)
       /\ at' = "end" /\ who' = c + 1 /\ step' = "next"
       /\ UNCHANGED <<long, left, toRead, state, alive, doing, locked, inbox>>
    \/ /\ state[c] = "ready" /\ ~ alive[c]
       /\ Close({c})
       /\ at' = "end" /\ who' = c + 1 /\ step' = "next"
       /\ UNCHANGED <<long, left, toRead, inbox>>
    \/ /\ state[c] = "ready" /\ alive[c]
       /\ inbox' = [inbox EXCEPT ![c] = Append(@, Quit(c))]
       /\ Await("end", c)
       /\ UNCHANGED <<state, alive, doing, locked>>
    \/ /\ state[c] = "running"
       /\ Await("end", c)
       /\ UNCHANGED <<state, alive, doing, locked, inbox>>

\* The file has ended.
EndOfInput ==
    /\ at = "fetch" /\ next > Len(script)
    /\ EndWith(1)
    /\ UNCHANGED <<script, next, ret, pending, tran, probe, outPipe, errPipe,
                   half, answered, crashed>>

\* The next client of the loop.
EndNext ==
    /\ at = "end"
    /\ step = "next" \/ (step = "check" /\ Done)
    /\ LET c == IF step = "next" THEN who ELSE who + 1 IN
       /\ c <= K
       /\ EndWith(c)
    /\ UNCHANGED <<script, next, ret, pending, tran, probe, outPipe, errPipe,
                   half, answered, crashed>>

\* All of them have gone.
EndOver ==
    /\ at = "end"
    /\ (step = "next" /\ who > K) \/ (step = "check" /\ Done /\ who = K)
    /\ Return(0)

Controller ==
    \/ Select \/ Read \/ Reap \/ Warn \/ GiveUp \/ PauseOver
    \/ Start \/ StartFails \/ InitNext
    \/ Skip \/ Refuse \/ Wait \/ WaitOver \/ Pause
    \/ SendIgnored \/ SendWait \/ Send \/ SendFails
    \/ EndOfInput \/ EndNext \/ EndOver

-----------------------------------------------------------------------------
(* The clients (qacsql), the server's locks and the probe: external.       *)

\* It reads the next line and starts on it; `quit' ends it.
Take(c) ==
    /\ alive[c] /\ doing[c] = 0 /\ inbox[c] # <<>>
    /\ inbox' = [inbox EXCEPT ![c] = Tail(@)]
    /\ IF Head(inbox[c]).quit
       THEN alive' = [alive EXCEPT ![c] = FALSE] /\ UNCHANGED doing
       ELSE doing' = [doing EXCEPT ![c] = Head(inbox[c]).count] /\ UNCHANGED alive
    /\ UNCHANGED <<script, next, waitVars, ret, knownVars, probe, outPipe,
                   errPipe, half, locked, answered, crashed>>

\* What it still owes of its answer: the second half of a marker, or all of it.
Owes(c) == IF half[c] THEN <<"tail">> ELSE <<"head", "tail">>

\* It answers one statement of the line, marker and all ...
Answer(c) ==
    /\ alive[c] /\ doing[c] > 0 /\ ~ locked[c]
    /\ outPipe' = [outPipe EXCEPT ![c] = @ \o Owes(c)]
    /\ doing' = [doing EXCEPT ![c] = @ - 1]
    /\ answered' = [answered EXCEPT ![c] = @ + 1]
    /\ half' = [half EXCEPT ![c] = FALSE]
    /\ UNCHANGED <<script, next, waitVars, ret, knownVars, probe, inbox, errPipe,
                   alive, locked, crashed>>

\* ... or only what fits into this write.
AnswerHalf(c) ==
    /\ script \in Long
    /\ alive[c] /\ doing[c] > 0 /\ ~ locked[c] /\ ~ half[c]
    /\ outPipe' = [outPipe EXCEPT ![c] = Append(@, "head")]
    /\ half' = [half EXCEPT ![c] = TRUE]
    /\ UNCHANGED <<script, next, waitVars, ret, knownVars, probe, inbox, errPipe,
                   alive, doing, locked, answered, crashed>>

\* It starts to wait on a lock, or is given it (or made a deadlock's victim).
Lock(c) ==
    /\ alive[c] /\ doing[c] > 0
    /\ locked' = [locked EXCEPT ![c] = ~ @]
    /\ UNCHANGED <<script, next, waitVars, ret, knownVars, probe, pipeVars, alive,
                   doing, half, answered, crashed>>

\* It dies, with something to say on stderr or without.
Crash(c) ==
    /\ MayCrash
    /\ alive[c]
    /\ alive' = [alive EXCEPT ![c] = FALSE]
    /\ doing' = [doing EXCEPT ![c] = 0]
    /\ locked' = [locked EXCEPT ![c] = FALSE]
    /\ \E said \in BOOLEAN : errPipe' = [errPipe EXCEPT ![c] = said]
    /\ crashed' = TRUE
    /\ UNCHANGED <<script, next, waitVars, ret, knownVars, probe, inbox, outPipe,
                   half, answered>>

ProbeDies ==
    /\ MayCrash
    /\ probe
    /\ at # "over"
    /\ probe' = FALSE
    /\ UNCHANGED <<script, next, waitVars, ret, knownVars, pipeVars, procVars>>

External ==
    \/ \E c \in Clients : Take(c) \/ Answer(c) \/ AnswerHalf(c) \/ Lock(c) \/ Crash(c)
    \/ ProbeDies

\* Run has returned.
Over == at = "over" /\ UNCHANGED vars

Init ==
    /\ script \in Scripts /\ next = 1
    /\ at = "start" /\ step = "check" /\ long = FALSE
    /\ left = 0 /\ who = 1 /\ toRead = {} /\ ret = -1
    /\ state = [c \in Clients |-> "running"]
    /\ pending = [c \in Clients |-> 1]
    /\ tran = [c \in Clients |-> FALSE]
    /\ probe = TRUE
    /\ alive = [c \in Clients |-> FALSE]
    /\ inbox = [c \in Clients |-> <<>>]
    /\ doing = [c \in Clients |-> 0]
    /\ half = [c \in Clients |-> FALSE]
    /\ locked = [c \in Clients |-> FALSE]
    /\ outPipe = [c \in Clients |-> <<>>]
    /\ errPipe = [c \in Clients |-> FALSE]
    /\ answered = [c \in Clients |-> 0]
    /\ crashed = FALSE

Next == Controller \/ External \/ Over

Spec == Init /\ [][Next]_vars

\* The controller's thread runs; nothing is assumed of the clients.
FairSpec == Spec /\ WF_vars(Controller)

-----------------------------------------------------------------------------
(* Properties.                                                             *)

Halves == {"head", "tail"}

ControlOK ==
    /\ script \in Scripts /\ next \in 1..(Len(script) + 1)
    /\ at \in {"start", "fetch", "over"} \cup Waits
    /\ step \in {"check", "read", "reap", "next"}
    /\ left \in 0..(Rounds + DeadlockPause) /\ who \in 1..(K + 1)
    /\ toRead \subseteq Clients \X {"out", "err"}
    /\ ret \in {-1, 0, 1}
    /\ state \in [Clients -> {"running", "ready", "finished"}]
    /\ pending \in [Clients -> Int]

FlagsOK ==
    /\ long \in BOOLEAN /\ probe \in BOOLEAN /\ crashed \in BOOLEAN
    /\ tran \in [Clients -> BOOLEAN] /\ alive \in [Clients -> BOOLEAN]
    /\ locked \in [Clients -> BOOLEAN] /\ half \in [Clients -> BOOLEAN]
    /\ errPipe \in [Clients -> BOOLEAN]

ClientOK ==
    /\ inbox \in [Clients -> Seq(Command)]
    /\ doing \in [Clients -> Nat] /\ answered \in [Clients -> Nat]
    /\ outPipe \in [Clients -> Seq(Halves)]

\* The run, its clients and their pipes have their types.
TypeOK == ControlOK /\ FlagsOK /\ ClientOK

\* client.go: ready is `has answered everything sent to it'.  While the script
\* is read, a client the controller takes for ready owes nothing: its stdin is
\* empty, it executes nothing, and all it said has been read.
ReadyIsIdle ==
    \A c \in Clients :
        at \notin {"end", "over"} /\ state[c] = "ready" =>
            inbox[c] = <<>> /\ doing[c] = 0 /\ outPipe[c] = <<>>

\* The controller's beliefs are well formed and a ready client is idle.
BeliefsSound == TypeOK /\ ReadyIsIdle

\* What client c has been given and the controller has not read the answer to.
Outstanding(c) ==
    doing[c]
    + (IF inbox[c] # <<>> THEN Head(inbox[c]).count ELSE 0)
    + Cardinality({i \in DOMAIN outPipe[c] : outPipe[c][i] = "tail"})

\* client.go: `one statement accounted for by each ") is ready."' -- what the
\* controller expects of a client is what the client has still to say, and
\* never less; a marker that arrived in two reads leaves it expecting more.
PendingExact ==
    \A c \in Clients :
        at # "over" /\ alive[c] /\ state[c] = "running" =>
            /\ pending[c] >= Outstanding(c)
            /\ script \notin Long => pending[c] = Outstanding(c)

\* A client is finished only when its process is gone, whoever noticed.
FinishedMeansGone == \A c \in Clients : Gone(c) => ~ alive[c]

\* However a run ends, it leaves no client process behind.
NoClientLeft == ret # -1 => \A c \in Clients : ~ alive[c]

\* A process the controller no longer counts with is gone.
NoneForgotten == FinishedMeansGone /\ NoClientLeft

\* The answers the script wants of client c: one for each of its statements up
\* to its quit.
Wanted(c) ==
    LET asked == {i \in DOMAIN script :
                    /\ script[i].op = "send" /\ script[i].client = c
                    /\ \A j \in 1..i :
                          ~ (script[j].op = "send" /\ script[j].client = c /\ script[j].quit)}
    IN  UNION {{i} \X (1..script[i].count) : i \in asked}

\* A run that ends well has run its script: every client that did not die has
\* answered every statement addressed to it, and its first readiness test, and
\* all of it was read.
RunComplete ==
    ret = 0 /\ ~ crashed =>
        \A c \in Clients :
            answered[c] = 1 + Cardinality(Wanted(c)) /\ outPipe[c] = <<>>

\* What the controller believes of its clients is so, and a run that ends well
\* has run its script.
CtlHonest == BeliefsSound /\ PendingExact /\ RunComplete

\* Every wait has a deadline, so a run ends whatever its clients do.
Termination == <>(at = "over")

-----------------------------------------------------------------------------
(* What a comment or a document says and the code does not have.           *)

\* controller.go toClient: `the C ignores statements for a client that has gone' -- it is not
\* what ends the run.
GoneIgnored == [][at = "send" /\ ~ alive[who] => ret' # 1]_vars

\* controller.go: endOfInput `tells every client still waiting for work to quit': it does not
\* give up on one that waits for work and was not told.
EndTold ==
    [][at = "end" /\ ret' = 1 => ~ (state[who] = "ready" /\ inbox[who] = <<>>)]_vars

\* 02-writing-a-case.md: `what a client prints -- row counts, results, errors
\* -- goes into result/<name>.result': nothing is left unread in the pipes of a
\* client that went while the script ran.
AllRead ==
    \A c \in Clients :
        at # "over" /\ Gone(c) => outPipe[c] = <<>> /\ ~ errPipe[c]
=============================================================================
