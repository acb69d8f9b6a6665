--------------------------------- MODULE MCPage -------------------------------
(***************************************************************************)
(* Three cases on two slots of two lanes across a midnight, one failing    *)
(* and one that may end without writing its hour, with a plan that knows   *)
(* them all and without one; then their replay.  Or two watched runs of    *)
(* two cases each.  A behaviour is one or the other.                       *)
(***************************************************************************)
EXTENDS Page

VARIABLES machine, lanes, file, torn, src, at, redraw, mu, asked

Slots == {"slot0", "slot1"}
Cases == 1..3
Lane == [s \in Slots |-> IF s = "slot0" THEN "fast" ELSE "slow"]
Families == [c \in Cases |-> IF c = 3 THEN "_02_" ELSE "_01_"]
Edges == <<1, 2>>
May == [c \in Cases |-> {c # 2}]
Hour == [c \in Cases |-> IF c = 1 THEN BOOLEAN ELSE {TRUE}]
NoPlan == [c \in {} |-> 0]
Known == {NoPlan, [c \in Cases |-> IF c = 1 THEN 3 ELSE 1]}

Shards == [s \in Slots |-> IF s = "slot0" THEN 1..2 ELSE {3}]

W == INSTANCE Watch WITH
        CasesOf <- Shards, LinesMax <- 2, board <- lanes

pageVars == <<now, board, run, log, shown, r>>
ledgerVars == <<lanes, file, torn, src, at, redraw, mu, asked>>
mcVars == <<machine, pageVars, ledgerVars>>

Page0 ==
    /\ now = Dawn /\ board = New(0, Dawn)
    /\ run = [todo |-> {}, ended |-> <<>>, moments |-> <<>>, truth |-> {}, live |-> {}]
    /\ log = <<>> /\ shown = [remain |-> 0, was |-> 0, quiet |-> FALSE] /\ r = NoReplay

PageStart == machine = "page" /\ Init /\ W!WatchInit
WatchStart == machine = "watch" /\ W!WatchInit /\ Page0

PageStep == machine = "page" /\ PageNext /\ UNCHANGED <<machine, ledgerVars>>
WatchStep == machine = "watch" /\ W!WatchNext /\ UNCHANGED <<machine, pageVars>>

Fair ==
    /\ WF_mcVars(machine = "page" /\ play /\ UNCHANGED <<machine, ledgerVars>>)
    /\ WF_mcVars(machine = "page" /\ Fold /\ UNCHANGED <<machine, ledgerVars>>)
    /\ WF_mcVars(machine = "watch" /\ W!followAll /\ UNCHANGED <<machine, pageVars>>)
    /\ WF_mcVars(machine = "watch" /\ W!Answer /\ UNCHANGED <<machine, pageVars>>)
    /\ \A s \in Slot :
          WF_mcVars(machine = "watch" /\ W!poll(s) /\ UNCHANGED <<machine, pageVars>>)
MCSpec == (PageStart \/ WatchStart) /\ [][PageStep \/ WatchStep]_mcVars /\ Fair
WatchSpec == WatchStart /\ [][WatchStep]_mcVars /\ Fair

\* The live page: what it adds up, and the rate it draws.
BoardTrue == machine = "page" => AddsUp /\ RateTrue

\* The playback: of the run that happened, and of the moment asked for.
PlaybackTrue == machine = "page" => ReplayTrue /\ SeekTrue

\* The watched page: of the ledgers as they stand.
LedgerFollowed == machine = "watch" => W!FollowsLedger

\* Both pages move: the playback to its end, the watcher to the last line.
PageMoves == PlayEnds /\ W!CaughtUp

\* A page that is asked for is answered.
PageAnswers == W!PageAnswers
=============================================================================
