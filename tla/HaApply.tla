------------------------------ MODULE HaApply ------------------------------
(***************************************************************************)
(* testkit ha-apply (internal/haapply): does a parallel applier keep what  *)
(* depends on what?  Three verbs on an HA pair: pairs (two transactions a  *)
(* round, which one does the slave show first), stress (many clients, then *)
(* the nodes compared) and restart (clients on the master while the        *)
(* applier, or the slave node, is killed again and again).                 *)
(*                                                                         *)
(* The engine under test is external: it may be of any kind of Engines,    *)
(* and fault is what it really did wrong.  A call to the pair may fail at  *)
(* any time and does fail once the run's context is cancelled.  SQL, the   *)
(* counters that are only printed and the time a thing takes are left out; *)
(* a slave that has not applied T1 in StallFor has stopped.                *)
(***************************************************************************)
EXTENDS Integers, Sequences, FiniteSets, SequencesExt

CONSTANTS
    Verbs,       \* the verbs to run, of "pairs", "stress" and "restart"
    Catalog,     \* the patterns, in the catalog's order
    Named,       \* the sets of patterns a command names; {} asks for all of them
    Trailing,    \* those whose two keys are one only without trailing spaces
    Rounds,      \* --rounds
    Commits,     \* bound: transactions the clients commit
    Kills,       \* bound: kills tried
    Engines,     \* of "good", "reorders", "stops", "reapplies", "diverges"
    Lines,       \* the command lines: <<a ledger is there, --build, --keep>>
    Ints         \* bound: interrupts sent

VARIABLES
    opt,       \* the command and what it meets: see Opts
    ints,      \* interrupts so far: the first cancels the run's context
    watch,     \* secondInterrupt: "off", "read" (its count taken), "on"
    n,         \* the interrupts it has counted
    dfl,       \* the signals are back to their default
    pc, code,  \* where the command is, and its exit code
    said,      \* what it says it may leave
    ledger,    \* the file: "none", "old", "empty" or "ours"
    rows,      \* the verdicts in it
    pair,      \* the pair stands
    slave,     \* the slave node is up
    clients,   \* the clients write on the master
    pats, outs, \* pairs: the patterns left, and the outcomes so far
    o,         \* the outcome under way
    lag,       \* of the round's T1 and T2, those the slave has not applied
    fault,     \* what the engine did wrong
    committed, applied, stored, \* commits of the master, of the slave, and the
                                \* apply position the coordinator stored
    applier,   \* the applier runs
    log, log0, \* its log, now and as read at the start
    failed,    \* fail_counter moved
    cut,       \* -670 lines of this run that a rotation took
    loop,      \* killLoop: "off", "wait", "script", "kill", "start", "end"
    markers,   \* what its script read
    tries,     \* the kills tried
    stop       \* the stop channel is closed

cmdVars == <<opt, pats>>
sigVars == <<ints, watch, n, dfl>>
endVars == <<code, said>>
fileVars == <<ledger, rows, outs>>
hostVars == <<pair, slave, clients>>
engineVars == <<lag, fault, committed, applied, stored, applier, log, failed, cut>>
loopVars == <<loop, markers, tries>>
vars == <<cmdVars, sigVars, pc, endVars, fileVars, hostVars, o, engineVars,
          log0, loopVars, stop>>

-----------------------------------------------------------------------------
(* The patterns and the verdicts.  A name that ends in _F is a seeded      *)
(* fault.                                                                  *)

Select_F(names) ==
    IF names = {} THEN Catalog
    ELSE SelectSeq(Reverse(Catalog), LAMBDA p : p \in names \cup {"ctl"})

\* Select: in catalog order, with the control whether or not it was named.
Select(names) ==
    IF names = {} THEN Catalog
    ELSE SelectSeq(Catalog, LAMBDA p : p \in names \cup {"ctl"})

\* ForPair: without the patterns that ask nothing of this pair.
ForPair(ps, trailing) ==
    SelectSeq(ps, LAMBDA p : p \notin Trailing \/ trailing)

\* What the catalog has to be: any choice from it begins with the control and has
\* it once, and what is left for a pair is a question there.
ApplyGiven ==
    /\ Verbs \subseteq {"pairs", "stress", "restart"}
    /\ \A names \in Named, trailing \in BOOLEAN :
          LET ps == ForPair(Select(names), trailing)
          IN  /\ ps \in Seq(Range(Catalog)) /\ ps # <<>> /\ ps[1] = "ctl"
              /\ \A i \in 2..Len(ps) : ps[i] # "ctl"
              /\ \A i \in DOMAIN ps : ps[i] \in Trailing => trailing

NewOutcome(p) ==
    [pattern |-> p, round |-> 1, ahead |-> 0, never |-> 0, refused |-> 0,
     stalled |-> FALSE, final |-> "same", fail |-> FALSE]

Broken(u) == u.final # "same" \/ u.fail \/ u.stalled

Verdict(u, overtook) ==
    CASE u.pattern = "ctl" /\ Broken(u)      -> "missed"
      [] u.pattern = "ctl" /\ ~Broken(u)     -> IF u.ahead > 0 THEN "control-overtook"
                                                ELSE "control-did-not-overtake"
      [] u.pattern # "ctl" /\ (Broken(u) \/ u.ahead > 0) -> "missed"
      [] OTHER -> IF u.refused > 0 \/ u.never > 0 \/ ~overtook
                  THEN "inconclusive" ELSE "held"

\* Judge: a hold counts only where the control was seen to go first.
Judge(us) ==
    LET overtook == \E i \in DOMAIN us : us[i].pattern = "ctl" /\ us[i].ahead > 0
    IN  [i \in DOMAIN us |-> Verdict(us[i], overtook)]

\* JudgeStress: a slave still applying is read in two states, so its heap and
\* its primary key (sheap) say nothing, and it differs for that alone.
JudgeStress(u) ==
    IF u.mheap \/ (~u.stalled /\ u.sheap) THEN "damaged"
    ELSE IF u.stalled THEN "stalled"
    ELSE IF u.differ \/ u.fail THEN "diverged"
    ELSE IF u.hung THEN "hung" ELSE "same"

\* JudgeRestart
JudgeRestart(u) ==
    IF u.fail \/ u.dup670 > 0 \/ (~u.stalled /\ u.differ) THEN "missed"
    ELSE IF u.stalled \/ u.kills = 0 \/ u.backlog < 1 \/ u.dup670 < 0
    THEN "inconclusive" ELSE "held"

-----------------------------------------------------------------------------
(* The command around a run.                                               *)

\* parsePairs, parseStress, parseRestart: --keep is for a pair the run stands up.
Opts ==
    {[verb |-> v, build |-> b, keep |-> k, node |-> d, engine |-> e, old |-> f,
      table |-> t, trailing |-> s, only |-> c, names |-> m] :
        v \in Verbs, b \in BOOLEAN, k \in BOOLEAN, d \in BOOLEAN, e \in Engines,
        f \in BOOLEAN, t \in BOOLEAN, s \in BOOLEAN, c \in BOOLEAN,
        m \in Named}

\* The kinds of engine a verb can tell from a good one.
EnginesOf(v) ==
    Engines \ CASE v = "pairs" -> {"reapplies"}
                [] v = "stress" -> {"reorders", "reapplies"}
                [] v = "restart" -> {"reorders"}

NoOutcome == [verdict |-> "none"]

Asked ==
    {p \in Opts : /\ p.keep => p.build
                  /\ p.verb # "restart" => ~p.node /\ p.table
                  /\ p.verb # "pairs" => p.trailing /\ p.names = {}
                  /\ p.verb # "stress" => ~p.only
                  /\ p.engine \in EnginesOf(p.verb)
                  /\ <<p.old, p.build, p.keep>> \in Lines}

InitWith(p) ==
    /\ opt = p
    /\ ints = 0 /\ watch = "off" /\ n = 0 /\ dfl = FALSE
    /\ pc = "ledger" /\ code = 0 /\ said = {}
    /\ ledger = (IF opt.old THEN "old" ELSE "none") /\ rows = <<>>
    /\ pair = ~opt.build /\ slave = TRUE /\ clients = FALSE
    /\ pats = Select(opt.names) /\ outs = <<>> /\ o = NoOutcome
    /\ lag = {} /\ fault = {}
    /\ committed = 0 /\ applied = 0 /\ stored = 0 /\ applier = TRUE
    /\ log = [started |-> 1, dup |-> 1] /\ log0 = log /\ failed = FALSE /\ cut = 0
    /\ loop = "off" /\ markers = -1 /\ tries = 0 /\ stop = FALSE
Init == \E p \in Asked : InitWith(p)

Cancelled == ints > 0

\* A run that is over: nothing reads these any more.
Forget ==
    /\ o' = NoOutcome /\ lag' = {} /\ fault' = {} /\ applier' = TRUE
    /\ committed' = 0 /\ applied' = 0 /\ stored' = 0 /\ failed' = FALSE /\ cut' = 0
    /\ log' = log0 /\ UNCHANGED log0
    /\ loop' = "end" /\ markers' = -1 /\ tries' = 0 /\ stop' = TRUE

\* A call that takes the run's context: it succeeds only while that stands.
CallOk == ~Cancelled

Fail == pc' = "close" /\ code' = 1

\* ledgerFile: opened before any pair is touched, and not truncated yet.  Only
\* stress and restart refuse a directory that holds files.
OpenLedger ==
    /\ pc = "ledger"
    /\ \/ /\ pc' = "exit" /\ code' = 1 /\ UNCHANGED ledger
       \/ /\ pc' = "pair" /\ UNCHANGED code
          /\ ledger' = IF opt.old THEN "old" ELSE "empty"
    /\ UNCHANGED <<cmdVars, sigVars, said, rows, outs, hostVars, o, engineVars,
                   log0, loopVars, stop>>

\* openPair: a pair that was half made still goes.
OpenPair ==
    /\ pc = "pair"
    /\ \/ /\ pc' = "teardown" /\ code' = 1
          /\ pair' \in (IF opt.build THEN BOOLEAN ELSE {TRUE})
       \/ /\ CallOk
          /\ pc' = (IF opt.verb = "pairs" THEN "probe" ELSE "head") /\ pair' = TRUE
          /\ UNCHANGED code
    /\ UNCHANGED <<cmdVars, sigVars, said, fileVars, slave, clients, o, engineVars,
                   log0, loopVars, stop>>

\* pairs: the barrier, IgnoresTrailingSpace and ForPair.  A pattern asked for
\* by name that cannot run there ends the run.
Probe ==
    /\ pc = "probe"
    /\ LET kept == ForPair(pats, opt.trailing)
       IN  \/ /\ pc' = "teardown" /\ code' = 1 /\ UNCHANGED pats
           \/ /\ CallOk
              /\ IF kept # pats /\ opt.names # {}
                 THEN pc' = "teardown" /\ code' = 1 /\ UNCHANGED pats
                 ELSE pc' = "head" /\ pats' = kept /\ UNCHANGED code
    /\ UNCHANGED <<opt, sigVars, said, fileVars, hostVars, o, engineVars, log0,
                   loopVars, stop>>

\* start, and the header: from here on the ledger is this run's.
LedgerHead ==
    /\ pc = "head"
    /\ \/ /\ pc' = "teardown" /\ code' = 1 /\ UNCHANGED <<ledger, watch, n>>
       \/ /\ ledger' = "ours" /\ UNCHANGED code
          /\ pc' = (IF opt.verb = "pairs" THEN "pattern" ELSE "setup")
          /\ IF opt.verb = "restart"
             THEN watch' = "read" /\ n' = (IF Cancelled THEN 1 ELSE 0)
             ELSE UNCHANGED <<watch, n>>
    /\ UNCHANGED <<cmdVars, ints, dfl, said, rows, outs, hostVars, o, engineVars,
                   log0, loopVars, stop>>

\* secondInterrupt: the registration, after the count was read.
Register ==
    /\ watch = "read"
    /\ watch' = "on"
    /\ UNCHANGED <<cmdVars, ints, n, dfl, pc, endVars, fileVars, hostVars, o,
                   engineVars, log0, loopVars, stop>>

\* restartLeft
RestartLeft ==
    {"clients"} \cup (IF opt.node THEN {"slave"} ELSE {})
    \cup (IF opt.build /\ ~opt.keep THEN {"pair"} ELSE {})

\* secondInterrupt: the interrupts it has to have counted to end testkit.
AtOnce(m) == m >= 2

\* An interrupt: the first cancels the run; the handler of restart counts it,
\* and ends testkit at the second; a teardown dies of it.  One that nothing
\* takes notice of is left out.
Interrupt ==
    /\ ints < Ints /\ pc \notin {"ledger", "exit"}
    /\ ints = 0 \/ watch # "off" \/ dfl
    /\ ints' = ints + 1
    /\ IF dfl
       THEN /\ pc' = "exit" /\ code' = 130 /\ said' = said \cup {"pair"}
            /\ UNCHANGED <<n, o, engineVars, log0, loopVars, stop>>
       ELSE /\ n' = IF watch = "on" THEN n + 1 ELSE n
            /\ IF watch = "on" /\ AtOnce(n')
               THEN /\ pc' = "exit" /\ code' = 130 /\ said' = said \cup RestartLeft
                    /\ Forget
               ELSE UNCHANGED <<pc, endVars, o, engineVars, log0, loopVars, stop>>
    /\ UNCHANGED <<cmdVars, watch, dfl, fileVars, hostVars>>

-----------------------------------------------------------------------------
(* The pair under test: external.                                          *)

\* A transaction <<round, t>> that no rule holds back: nothing of its round is
\* before it, or the two of them share nothing on this pair.
Free(t) ==
    \/ t[2] = "T1" \/ <<t[1], "T1">> \notin lag
    \/ o.pattern = "ctl" \/ (o.pattern \in Trailing /\ ~opt.trailing)

\* The slave applies one of a round's transactions.
ApplyRound(t) ==
    /\ t \in lag /\ "stopped" \notin fault
    /\ Free(t) \/ opt.engine = "reorders"
    /\ lag' = lag \ {t}
    /\ IF Free(t)
       THEN fault' \in {fault} \cup (IF opt.engine = "diverges" THEN {fault \cup {"differ"}} ELSE {})
       ELSE fault' = fault \cup {"overtook"}
    /\ UNCHANGED <<cmdVars, sigVars, pc, endVars, fileVars, hostVars, o, committed,
                   applied, stored, applier, log, failed, cut, log0, loopVars, stop>>

\* A client commits on the master.
Commit ==
    /\ clients /\ pc = "clients" /\ committed < Commits
    /\ committed' = committed + 1
    /\ UNCHANGED <<cmdVars, sigVars, pc, endVars, fileVars, hostVars, o, lag, fault,
                   applied, stored, applier, log, failed, cut, log0, loopVars, stop>>

\* A worker of the applier applies a commit on the slave; one that diverges
\* applies it wrong.
Apply ==
    /\ slave /\ applier /\ applied < committed /\ "stopped" \notin fault
    /\ applied' = applied + 1
    /\ fault' \in {fault} \cup (IF opt.engine = "diverges" THEN {fault \cup {"differ"}} ELSE {})
    /\ UNCHANGED <<cmdVars, sigVars, pc, endVars, fileVars, hostVars, o, lag,
                   committed, stored, applier, log, failed, cut, log0, loopVars, stop>>

\* The coordinator stores the apply position.
Store ==
    /\ slave /\ applier /\ stored < applied
    /\ stored' = applied
    /\ UNCHANGED <<cmdVars, sigVars, pc, endVars, fileVars, hostVars, o, lag, fault,
                   committed, applied, applier, log, failed, cut, log0, loopVars, stop>>

\* The engine stops applying for good.
Stopped ==
    /\ opt.engine = "stops" /\ "stopped" \notin fault
    /\ lag # {} \/ applied < committed
    /\ fault' = fault \cup {"stopped"}
    /\ UNCHANGED <<cmdVars, sigVars, pc, endVars, fileVars, hostVars, o, lag,
                   committed, applied, stored, applier, log, failed, cut, log0,
                   loopVars, stop>>

\* Heartbeat starts the applier again, from the stored position.  One that
\* applies a commit twice meets the key (-670); the fail_counter it counts that
\* in may be lost to the next kill.
HbStart ==
    /\ slave /\ ~applier
    /\ applier' = TRUE
    /\ IF opt.engine = "reapplies" /\ stored < applied
       THEN /\ fault' = fault \cup {"twice"}
            /\ log' = [started |-> log.started + 1, dup |-> log.dup + 1]
            /\ failed' \in {failed, TRUE}
       ELSE log' = [log EXCEPT !.started = @ + 1] /\ UNCHANGED <<fault, failed>>
    /\ UNCHANGED <<cmdVars, sigVars, pc, endVars, fileVars, hostVars, o, lag,
                   committed, applied, stored, cut, log0, loopVars, stop>>

\* A rotation of the applier's log unlinks the older copy.  The log is read at
\* the start and at the end, so one just before the end loses what any earlier
\* one could.
Rotate ==
    /\ pc = "compare" /\ opt.verb = "restart" /\ cut = 0
    /\ \E s \in 0..log.started, d \in 0..log.dup :
          /\ s + d < log.started + log.dup
          /\ log' = [started |-> s, dup |-> d]
          /\ cut' = 1 + log.dup - d
    /\ UNCHANGED <<cmdVars, sigVars, pc, endVars, fileVars, hostVars, o, lag, fault,
                   committed, applied, stored, applier, failed, log0, loopVars, stop>>

-----------------------------------------------------------------------------
(* pairs: Runner.Pattern, for one pattern after the other.                 *)

\* The pattern's tables, the barrier and fail_counter.
StartPattern ==
    /\ pc = "pattern"
    /\ \/ pats = <<>> /\ pc' = "close" /\ UNCHANGED <<code, o, fault>>
       \/ pats # <<>> /\ Fail /\ UNCHANGED <<o, fault>>
       \/ /\ pats # <<>> /\ CallOk
          /\ o' = NewOutcome(pats[1]) /\ fault' = {} /\ pc' = "pre"
          /\ UNCHANGED code
    /\ UNCHANGED <<cmdVars, sigVars, said, fileVars, hostVars, lag, committed, applied,
                   stored, applier, log, failed, cut, log0, loopVars, stop>>

\* The round's pre-write, if it has one, and the barrier after it.
PreWrite ==
    /\ pc = "pre"
    /\ \/ Fail /\ UNCHANGED o
       \/ /\ CallOk /\ pc' = "write" /\ UNCHANGED code
          /\ \/ UNCHANGED o
             \/ lag = {} /\ o' = [o EXCEPT !.refused = @ + 1]
    /\ UNCHANGED <<cmdVars, sigVars, said, fileVars, hostVars, engineVars, log0,
                   loopVars, stop>>

Refused == [o EXCEPT !.refused = @ + 1]

NextRound(u) ==
    IF u.round < Rounds THEN [u EXCEPT !.round = @ + 1] ELSE u
AfterRound(u) == IF u.round < Rounds THEN "pre" ELSE "final"

\* roundScript: T1 with the ballast, then T2 with the witness.  A refused T1
\* leaves nothing to wait for.
WriteRound ==
    /\ pc = "write"
    /\ \/ Fail /\ UNCHANGED <<o, lag>>
       \/ /\ CallOk /\ pc' = AfterRound(o) /\ o' = NextRound(Refused)
          /\ UNCHANGED <<code, lag>>
       \/ /\ CallOk /\ pc' = "catchup" /\ o' = Refused
          /\ lag' = lag \cup {<<o.round, "T1">>}
          /\ UNCHANGED code
       \/ /\ CallOk /\ pc' = "look"
          /\ lag' = lag \cup {<<o.round, "T1">>, <<o.round, "T2">>}
          /\ UNCHANGED <<code, o>>
    /\ UNCHANGED <<cmdVars, sigVars, said, fileVars, hostVars, fault, committed,
                   applied, stored, applier, log, failed, cut, log0, loopVars, stop>>

\* The look at the slave: the ballast beside the witness, in one read, or no
\* witness in WitnessWait.
Look ==
    /\ pc = "look"
    /\ \/ Fail /\ UNCHANGED o
       \/ /\ CallOk /\ pc' = "catchup" /\ UNCHANGED code
          /\ o' = IF <<o.round, "T2">> \in lag THEN [o EXCEPT !.never = @ + 1]
                  ELSE IF <<o.round, "T1">> \in lag THEN [o EXCEPT !.ahead = @ + 1]
                  ELSE o
    /\ UNCHANGED <<cmdVars, sigVars, said, fileVars, hostVars, engineVars, log0,
                   loopVars, stop>>

\* pairs: the row, as the pattern's outcome u is known.
Row(u) ==
    /\ outs' = Append(outs, u)
    /\ rows' = Append(rows, [verdict |-> Last(Judge(outs')), fault |-> fault, cut |-> 0,
                            backlog |-> 0])
    /\ pats' = Tail(pats)

\* catchUp: all of T1's ballast is there, or its count stood for StallFor, or
\* the slave could not be read.  After a slave that stopped, no later pattern
\* is run.
CatchUp ==
    /\ pc = "catchup"
    /\ \/ Fail /\ UNCHANGED <<o, pats, rows, outs>>
       \/ /\ CallOk /\ <<o.round, "T1">> \notin lag
          /\ pc' = AfterRound(o) /\ o' = NextRound(o)
          /\ UNCHANGED <<code, pats, rows, outs>>
       \/ /\ CallOk /\ <<o.round, "T1">> \in lag /\ "stopped" \in fault
          /\ Row([o EXCEPT !.stalled = TRUE, !.final = "stalled"]) /\ UNCHANGED o
          /\ IF Len(pats) > 1
             THEN pc' = "close" /\ code' = 1
             ELSE pc' = "pattern" /\ UNCHANGED code
    /\ UNCHANGED <<opt, sigVars, said, ledger, hostVars, engineVars, log0, loopVars,
                   stop>>

\* The end of a pattern: the barrier, the tables of both nodes, fail_counter.
FinalCompare ==
    /\ pc = "final"
    /\ \/ Fail /\ UNCHANGED <<pats, rows, outs>>
       \/ /\ CallOk /\ lag = {}
          /\ \E fl \in {FALSE} \cup {"overtook" \in fault} :
                Row([o EXCEPT !.final = IF "differ" \in fault THEN "differ" ELSE "same",
                              !.fail = fl])
          /\ pc' = "pattern" /\ UNCHANGED code
    /\ UNCHANGED <<opt, sigVars, said, ledger, hostVars, o, engineVars, log0, loopVars,
                   stop>>

-----------------------------------------------------------------------------
(* stress and restart.                                                     *)

StartOutcome ==
    [hung |-> FALSE, kills |-> 0, down |-> FALSE, err |-> FALSE,
     stalled |-> FALSE, backlog |-> IF opt.table THEN 0 ELSE -1]

\* Stress and runStress up to the clients: the directory, the setup, the
\* barrier, fail_counter.  A run that only compares has none of it.
SetupStress ==
    /\ pc = "setup" /\ opt.verb = "stress"
    /\ o' = StartOutcome
    /\ \/ Fail /\ UNCHANGED clients
       \/ opt.only /\ pc' = "barrier" /\ UNCHANGED <<code, clients>>
       \/ ~opt.only /\ CallOk /\ clients' = TRUE /\ pc' = "clients" /\ UNCHANGED code
    /\ UNCHANGED <<cmdVars, sigVars, said, fileVars, pair, slave, engineVars, log0,
                   loopVars, stop>>

\* Restart up to the clients: as stress, with the applier's log, which has to
\* say that it started, and killLoop set off beside the clients.
SetupRestart ==
    /\ pc = "setup" /\ opt.verb = "restart" /\ watch # "read"
    /\ o' = StartOutcome
    /\ \/ Fail /\ UNCHANGED <<clients, log0, loop>>
       \/ /\ CallOk /\ log.started > 0
          /\ clients' = TRUE /\ pc' = "clients" /\ log0' = log /\ loop' = "wait"
          /\ UNCHANGED code
    /\ UNCHANGED <<cmdVars, sigVars, said, fileVars, pair, slave, engineVars, markers,
                   tries, stop>>

\* runClients: the clients' script.  The one whose clients finished without a
\* transaction fails the run.  A script that failed (cancelled, or by a slave
\* that is down) has its clients killed.
RunClients ==
    /\ pc = "clients"
    /\ \/ /\ CallOk /\ ~o.down
          /\ clients' = FALSE /\ pc' = "join"
          /\ \E h \in BOOLEAN :
                o' = [o EXCEPT !.hung = h, !.err = ~h /\ committed = 0]
       \/ pc' = "killclients" /\ UNCHANGED <<clients, o>>
    /\ UNCHANGED <<cmdVars, sigVars, endVars, fileVars, pair, slave, engineVars, log0,
                   loopVars, stop>>

\* runClients: the kill, which the run's cancel does not reach; one that fails
\* is said.
KillClients ==
    /\ pc = "killclients"
    /\ pc' = "join" /\ o' = [o EXCEPT !.err = TRUE]
    /\ \/ clients' = FALSE /\ UNCHANGED said
       \/ said' = said \cup {"clients"} /\ UNCHANGED clients
    /\ UNCHANGED <<cmdVars, sigVars, code, fileVars, pair, slave, engineVars, log0,
                   loopVars, stop>>

\* Restart: close(stop).
CloseStop ==
    /\ pc = "join" /\ ~stop
    /\ stop' = TRUE
    /\ UNCHANGED <<cmdVars, sigVars, pc, endVars, fileVars, hostVars, o, engineVars,
                   log0, loopVars>>

Joined_F == TRUE

\* wg.Wait returns.
Joined == loop \in {"off", "end"}

\* Restart: wg.Wait, and then what the clients or a slave that is down make of
\* the run.
Join ==
    /\ pc = "join" /\ stop /\ Joined
    /\ IF o.err \/ o.down
       THEN Fail /\ said' = said \cup (IF o.down THEN {"slave"} ELSE {})
       ELSE pc' = "barrier" /\ UNCHANGED endVars
    /\ UNCHANGED <<cmdVars, sigVars, fileVars, hostVars, o, engineVars, log0, loopVars,
                   stop>>

\* The barrier: the slave has applied up to its marker, or has not in time,
\* which is the engine's result; any other error is the run's.
Barrier ==
    /\ pc = "barrier"
    /\ \/ Fail /\ UNCHANGED o
       \/ /\ CallOk /\ applied = committed /\ applier
          /\ pc' = "compare" /\ UNCHANGED <<code, o>>
       \/ /\ CallOk /\ applied < committed
          /\ pc' = "compare" /\ o' = [o EXCEPT !.stalled = TRUE] /\ UNCHANGED code
    /\ UNCHANGED <<cmdVars, sigVars, said, fileVars, hostVars, engineVars, log0,
                   loopVars, stop>>

Differ == applied # committed \/ "differ" \in fault

\* compareStress, and fail_counter for a run that ran the clients.  The master's
\* own damage is the engine's.
CompareStress ==
    /\ pc = "compare" /\ opt.verb = "stress"
    /\ \/ Fail /\ UNCHANGED <<rows, fault>>
       \/ \E m \in {FALSE} \cup {opt.engine = "diverges"}, s \in BOOLEAN :
          /\ CallOk /\ (s => Differ)
          /\ fault' = IF m THEN fault \cup {"differ"} ELSE fault
          /\ rows' = Append(rows,
                 [verdict |-> JudgeStress([mheap |-> m, sheap |-> s, differ |-> Differ,
                                  stalled |-> o.stalled, fail |-> FALSE, hung |-> o.hung]),
                  fault |-> fault', cut |-> 0, backlog |-> 0])
          /\ pc' = "close" /\ UNCHANGED code
    /\ UNCHANGED <<cmdVars, sigVars, said, ledger, outs, hostVars, o, lag, committed,
                   applied, stored, applier, log, failed, cut, log0, loopVars, stop>>

\* lostSince: a count that went down.
LostSince == log.started < log0.started \/ log.dup < log0.dup

\* The -670s the log gained; of a log that lost lines only a gain counts.
Dup670 == IF LostSince /\ log.dup - log0.dup <= 0 THEN -1 ELSE log.dup - log0.dup

\* compareRestart, fail_counter and the applier's log.
CompareRestart ==
    /\ pc = "compare" /\ opt.verb = "restart"
    /\ \/ Fail /\ UNCHANGED rows
       \/ /\ CallOk
          /\ rows' = Append(rows,
                 [verdict |-> JudgeRestart([fail |-> failed, dup670 |-> Dup670,
                                   stalled |-> o.stalled, differ |-> Differ,
                                   kills |-> o.kills, backlog |-> o.backlog]),
                  fault |-> fault, cut |-> cut, backlog |-> o.backlog])
          /\ pc' = "close" /\ UNCHANGED code
    /\ UNCHANGED <<cmdVars, sigVars, said, ledger, outs, hostVars, o, engineVars, log0,
                   loopVars, stop>>

-----------------------------------------------------------------------------
(* restart: killLoop, beside the clients.                                  *)

LoopEnds_F == Cancelled
LoopEnds == stop \/ Cancelled

\* The wait between two kills.  No kill comes after the clients ended.
LoopWait ==
    /\ loop = "wait"
    /\ \/ LoopEnds /\ loop' = "end"
       \/ ~stop /\ tries < Kills /\ loop' = "script"
    /\ markers' = -1
    /\ UNCHANGED <<cmdVars, sigVars, pc, endVars, fileVars, hostVars, o, engineVars,
                   log0, tries, stop>>

\* killScript, its first line: the markers above the stored position, where the
\* slave has the table and answers in time.  A script that fails kills nothing.
LoopRead ==
    /\ loop = "script"
    /\ tries' = tries + 1
    /\ \/ loop' = "wait" /\ UNCHANGED markers
       \/ /\ CallOk /\ loop' = "kill"
          /\ markers' \in {-1} \cup (IF opt.table THEN {applied - stored} ELSE {})
    /\ UNCHANGED <<cmdVars, sigVars, pc, endVars, fileVars, hostVars, o, engineVars,
                   log0, stop>>

\* killLoop, for a kill that was made.
Killed ==
    [o EXCEPT !.kills = @ + 1,
              !.backlog = IF @ >= 0 /\ markers > 0 THEN @ + 1 ELSE @]

\* pkill: only an applier that runs is killed.
LoopKillApplier ==
    /\ loop = "kill" /\ ~opt.node
    /\ loop' = "wait" /\ applier' = FALSE
    /\ o' = IF applier THEN Killed ELSE o
    /\ UNCHANGED <<cmdVars, sigVars, pc, endVars, fileVars, hostVars, lag, fault,
                   committed, applied, stored, log, failed, cut, log0, markers, tries,
                   stop>>

\* CrashSlave, of a node whose applier runs.  It may fail and have reached the
\* node; the start follows either way, and neither takes the run's cancel.
LoopCrash ==
    /\ loop = "kill" /\ opt.node
    /\ IF ~applier
       THEN loop' = "wait" /\ UNCHANGED <<slave, applier, o>>
       ELSE /\ loop' = "start"
            /\ \/ slave' = FALSE /\ applier' = FALSE /\ o' = Killed
               \/ slave' \in BOOLEAN /\ applier' = slave' /\ UNCHANGED o
    /\ UNCHANGED <<cmdVars, sigVars, pc, endVars, fileVars, pair, clients, lag, fault,
                   committed, applied, stored, log, failed, cut, log0, markers, tries,
                   stop>>

LoopStart_F ==
    /\ loop = "start"
    /\ \/ /\ CallOk /\ slave' = TRUE /\ applier' = FALSE /\ loop' = "wait"
          /\ UNCHANGED o
       \/ loop' = "wait" /\ UNCHANGED <<slave, applier, o>>
    /\ UNCHANGED <<cmdVars, sigVars, pc, endVars, fileVars, pair, clients, lag, fault,
                   committed, applied, stored, log, failed, cut, log0, markers, tries,
                   stop>>

\* StartSlave, which begins with a stop.  A node that does not start ends the
\* kills, and the clients with them.
LoopStart ==
    /\ loop = "start"
    /\ \/ /\ slave' = TRUE /\ applier' = FALSE /\ loop' = "wait"
          /\ UNCHANGED o
       \/ /\ slave' = FALSE /\ applier' = FALSE /\ loop' = "end"
          /\ o' = [o EXCEPT !.down = TRUE]
    /\ UNCHANGED <<cmdVars, sigVars, pc, endVars, fileVars, pair, clients, lag, fault,
                   committed, applied, stored, log, failed, cut, log0, markers, tries,
                   stop>>

-----------------------------------------------------------------------------
(* The end.                                                                *)

\* The ledger is closed and, for restart, secondInterrupt stopped.
Close ==
    /\ pc = "close"
    /\ pc' = "teardown" /\ code' \in {code, 1} /\ watch' = "off"
    /\ Forget
    /\ UNCHANGED <<cmdVars, ints, n, dfl, said, fileVars, hostVars>>

\* The teardown of a pair this run stood up: the signals go back to their
\* default first, and the pair goes whatever the run's context says.
Teardown ==
    /\ pc = "teardown" /\ (dfl \/ ~(opt.build /\ ~opt.keep))
    /\ pc' = "drop"
    /\ \/ ~(opt.build /\ ~opt.keep) /\ UNCHANGED <<pair, said>>
       \/ opt.build /\ ~opt.keep /\ pair' = FALSE /\ UNCHANGED said
       \/ opt.build /\ ~opt.keep /\ said' = said \cup {"pair"} /\ UNCHANGED pair
    /\ UNCHANGED <<cmdVars, sigVars, code, fileVars, slave, clients, o, engineVars,
                   log0, loopVars, stop>>

StopSignals ==
    /\ pc = "teardown" /\ ~dfl /\ opt.build /\ ~opt.keep
    /\ dfl' = TRUE
    /\ UNCHANGED <<cmdVars, ints, watch, n, pc, endVars, fileVars, hostVars, o,
                   engineVars, log0, loopVars, stop>>

\* drop: a ledger this run created and wrote nothing to.
Drop == IF ledger = "empty" THEN "none" ELSE ledger

Exit ==
    /\ pc = "drop"
    /\ pc' = "exit" /\ ledger' = Drop
    /\ UNCHANGED <<cmdVars, sigVars, endVars, rows, outs, hostVars, o, engineVars,
                   log0, loopVars, stop>>

Command ==
    \/ OpenLedger \/ OpenPair \/ Probe \/ LedgerHead \/ Register
    \/ StartPattern \/ PreWrite \/ WriteRound \/ Look \/ CatchUp \/ FinalCompare
    \/ SetupStress \/ SetupRestart \/ RunClients \/ KillClients \/ CloseStop \/ Join \/ Barrier
    \/ CompareStress \/ CompareRestart
    \/ Close \/ StopSignals \/ Teardown \/ Exit

KillLoop == LoopWait \/ LoopRead \/ LoopKillApplier \/ LoopCrash \/ LoopStart

Engine ==
    \/ \E r \in 1..Rounds, t \in {"T1", "T2"} : ApplyRound(<<r, t>>)
    \/ Commit \/ Apply \/ Store \/ Stopped \/ HbStart \/ Rotate

\* What the engine does before the run's first write and after its last read
\* is left out.
Under == pc \in {"pre", "write", "look", "catchup", "final", "clients", "killclients",
                "join", "barrier", "compare"}

Next ==
    \/ pc # "exit" /\ (Command \/ KillLoop)
    \/ Under /\ Engine
    \/ Interrupt

\* Every call of the command and of the loop returns; nothing is asked of the
\* engine, of the user or of the timers.
Spec ==
    /\ Init /\ [][Next]_vars
    /\ WF_vars(pc # "exit" /\ Command) /\ WF_vars(pc # "exit" /\ KillLoop)

-----------------------------------------------------------------------------
(* Properties.                                                             *)

\* What is written of a pair, for the engine and against it.  A bad verdict
\* (Judge, JudgeStress, JudgeRestart) is never given to an engine that did
\* nothing wrong: not for a slave that is merely behind, not for transactions
\* that may rightly be reordered.  A good one never hides tables that differ,
\* needs a control that was seen to go first, and for restart a kill that found
\* commits to skip and no second apply, unless the applier's log lost the lines
\* that say so.  The comparison is of a quiet pair: no client, no kill under way.
VerdictsSound ==
    /\ \A i \in DOMAIN rows :
          /\ rows[i].verdict \in {"missed", "damaged", "diverged"} => rows[i].fault # {}
          /\ rows[i].verdict \in {"held", "same", "hung"} =>
                "differ" \notin rows[i].fault /\ "stopped" \notin rows[i].fault
          /\ rows[i].verdict = "held" /\ opt.verb = "pairs" =>
                \E j \in 1..(i - 1) : rows[j].verdict = "control-overtook"
                                      \/ (outs[j].pattern = "ctl" /\ outs[j].ahead > 0)
          /\ rows[i].verdict = "held" /\ opt.verb = "restart" =>
                rows[i].backlog > 0 /\ ("twice" \in rows[i].fault => rows[i].cut > 1)
    /\ pc = "compare" => ~clients /\ slave /\ loop \in {"off", "end"}

\* The ledger: a file that was there is untouched until this run writes its
\* header over it, none of its own is left empty unless the run was killed, and
\* a verdict is written when it can no longer change: the rows are what Judge
\* makes of all the outcomes at the end (the comment in pairs).
LedgerSound ==
    /\ opt.old => ledger \in {"old", "ours"}
    /\ pc = "exit" /\ code # 130 => ledger # "empty"
    /\ rows # <<>> => ledger = "ours"
    /\ opt.verb = "pairs" =>
          \A i \in DOMAIN rows : rows[i].verdict = Judge(outs)[i]

\* Whatever a run leaves behind it says: clients still writing on the master, a
\* slave that is down, a pair it stood up to take down.  And a single interrupt
\* never ends it at once, with its clients running and its slave down.
NothingLeft ==
    /\ pc = "exit" =>
          /\ clients => "clients" \in said
          /\ ~slave => "slave" \in said
          /\ opt.build /\ ~opt.keep /\ pair => "pair" \in said
    /\ pc = "exit" /\ code = 130 /\ ~dfl => ints >= 2

\* The command ends, interrupted or not, whatever the pair and the kills do:
\* nothing of it waits for a kill loop that does not end.
Ends == <>(pc = "exit")
=============================================================================
