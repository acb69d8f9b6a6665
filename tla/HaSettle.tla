------------------------------ MODULE HaSettle ------------------------------
(***************************************************************************)
(* An HA side of the performance runner after a case that failed it over   *)
(* (internal/perf/cluster.go: haSettle, restoreN1, haCheck): csb ha status *)
(* is read until there is one active node and one standby, the node the    *)
(* case killed is started again, and n1 is made the master for the case    *)
(* after.  The nodes change while they are read, and a reading may have    *)
(* failed for one of them or for all.                                      *)
(***************************************************************************)
EXTENDS Integers, FiniteSets

CONSTANTS
    Readings,   \* readings before the settle's bound
    Troubles    \* readings that fail, and servers that die, in all

Nodes == {"n1", "n2"}
Peer(n) == CHOOSE m \in Nodes : m # n

VARIABLES
    role,       \* role[n]: what the node is; a dead server is "down"
    settle,     \* the settle under way: what it has seen and done
    goal,       \* "settle", "failback", "restored" or "lost"
    n1,         \* the node the runner has as N1
    troubles,   \* of Troubles, those to come
    cut         \* a start stopped the one master

haVars == <<role, settle, goal, n1, troubles, cut>>

\* haSettle's own variables, as it begins.
NewSettle == [left |-> Readings, started |-> {}, downBefore |-> {}, two |-> FALSE]

-----------------------------------------------------------------------------
(* The pair.  A name that ends in _F is a seeded fault.                    *)

\* The heartbeat: a standby whose peer is down takes over, by way of
\* to_be_active; a started node comes up as the standby; of two masters the one
\* that was told to steps down.
Heartbeat ==
    /\ \E n \in Nodes :
          \/ /\ role[n] = "standby" /\ role[Peer(n)] = "down"
             /\ role' = [role EXCEPT ![n] = "to_be_active"]
          \/ /\ role[n] = "to_be_active"
             /\ role' = [role EXCEPT ![n] = "active"]
          \/ /\ role[n] = "starting"
             /\ role' = [role EXCEPT ![n] =
                   IF role[Peer(n)] = "down" THEN "to_be_active" ELSE "standby"]
          \/ /\ role = [m \in Nodes |-> "active"] /\ n = "n2"
             /\ role' = [role EXCEPT ![n] = "standby"]
    /\ UNCHANGED <<settle, goal, n1, troubles, cut>>

\* A server dies while the runner waits for the pair.
ServerDies ==
    /\ troubles > 0 /\ goal \in {"settle", "failback"}
    /\ \E n \in Nodes :
          /\ role[n] # "down" /\ role[Peer(n)] # "down"
          /\ role' = [role EXCEPT ![n] = "down"]
    /\ troubles' = troubles - 1
    /\ UNCHANGED <<settle, goal, n1, cut>>

\* haRoles of a reading: the roles, with those of Q unknown.  A node that
\* changes roles is in none.
Seen(what, Q) == {n \in Nodes \ Q : role[n] = what}
SeenDown(Q) == Q \cup {n \in Nodes : role[n] = "down"}

\* The nodes a reading may not have an answer from.
Unknowns == IF troubles > 0 THEN {{}, {"n1"}, {"n2"}, Nodes} ELSE {{}}

-----------------------------------------------------------------------------
(* haSettle.                                                               *)

Startable_F(n, act) ==
    /\ n \notin settle.started /\ n \in settle.downBefore

\* A node is started when two readings in a row call it down while one other
\* node is active, and once.
Startable(n, act) ==
    /\ n \notin settle.started
    /\ n \in settle.downBefore
    /\ Cardinality(act) = 1

\* csb node start stops the node's service first.
NodeStart(S) ==
    /\ role' = [n \in Nodes |-> IF n \in S THEN "starting" ELSE role[n]]
    /\ cut' = (cut \/ \E n \in S : role[n] = "active"
                                   /\ role[Peer(n)] \notin {"active", "to_be_active"})

\* swapRoles: N1 is the node that is master now.
SwapRoles(m) == n1' = m

\* What follows a settle: the first of restoreN1's, or the one after the
\* failback, which n1 is then the master or the side is lost.
AfterSettle(m) ==
    /\ settle' = NewSettle
    /\ goal' = IF m = "n1" THEN "check"
               ELSE IF goal = "settle" THEN "failback" ELSE "lost"

Fail == goal' = "lost" /\ UNCHANGED settle

\* One reading, and what the settle does on it.
Reading ==
    /\ goal \in {"settle", "settle again"} /\ settle.left > 0
    /\ \E Q \in Unknowns :
          LET act == Seen("active", Q) stb == Seen("standby", Q)
              down == SeenDown(Q)
              S == {n \in down : Startable(n, act)} IN
          /\ troubles' = IF Q = {} THEN troubles ELSE troubles - 1
          /\ \/ /\ Cardinality(act) > 1 /\ settle.two
                /\ Fail /\ UNCHANGED <<role, n1, cut>>
             \/ /\ Cardinality(act) = 1 /\ Cardinality(stb) = 1
                /\ \E m \in act : SwapRoles(m) /\ AfterSettle(m)
                /\ UNCHANGED <<role, cut>>
             \/ /\ ~ (Cardinality(act) > 1 /\ settle.two)
                /\ ~ (Cardinality(act) = 1 /\ Cardinality(stb) = 1)
                /\ NodeStart(S)
                /\ settle' = [left |-> settle.left - 1, started |-> settle.started \cup S,
                              downBefore |-> down, two |-> Cardinality(act) > 1]
                /\ UNCHANGED <<goal, n1>>

\* csb could not be asked, or its start failed; a reading that failed is
\* forgotten, with what the one before it called down.
CallFails ==
    /\ goal \in {"settle", "settle again"} /\ settle.left > 0 /\ troubles > 0
    /\ troubles' = troubles - 1
    /\ \/ Fail
       \/ /\ settle' = [settle EXCEPT !.left = @ - 1, !.downBefore = {}]
          /\ UNCHANGED goal
    /\ UNCHANGED <<role, n1, cut>>

GiveUp_F ==
    /\ goal \in {"settle", "settle again"} /\ settle.left < 0
    /\ Fail
    /\ UNCHANGED <<role, n1, troubles, cut>>

\* The bound.
GiveUp ==
    /\ goal \in {"settle", "settle again"} /\ settle.left = 0
    /\ Fail
    /\ UNCHANGED <<role, n1, troubles, cut>>

-----------------------------------------------------------------------------
(* restoreN1.                                                              *)

\* csb ha failback: the master is moved to n1, if n1 is up, and n2 may take a
\* while to step down; an error is logged.
Failback ==
    /\ goal = "failback"
    /\ \/ /\ role["n1"] = "standby" /\ role["n2"] = "active"
          /\ role' \in {[role EXCEPT !["n1"] = "active"],
                       [n \in Nodes |-> IF n = "n1" THEN "active" ELSE "standby"]}
       \/ UNCHANGED role
    /\ goal' = "settle again" /\ settle' = NewSettle
    /\ UNCHANGED <<n1, troubles, cut>>

\* haCheck and the wait for the slave: N1 the one active node.
Check ==
    /\ goal = "check"
    /\ goal' = IF role[n1] = "active" /\ role[Peer(n1)] = "standby"
               THEN "restored" ELSE "lost"
    /\ UNCHANGED <<role, settle, n1, troubles, cut>>

-----------------------------------------------------------------------------
\* The case killed the master, which either node was.
SettleInit(m) ==
    /\ role = [n \in Nodes |-> IF n = m THEN "down" ELSE "standby"]
    /\ settle = NewSettle /\ goal = "settle" /\ n1 = m
    /\ troubles = Troubles /\ cut = FALSE

Settles == Reading \/ CallFails \/ GiveUp \/ Failback \/ Check
SettleNext == Settles \/ Heartbeat \/ ServerDies

-----------------------------------------------------------------------------
(* Properties.                                                             *)

\* haSettle: "starting on it would stop the one master": no reading, failed or
\* taken while the pair changes, has the settle start the only active node.
MasterKept == ~ cut

\* restoreN1: a side that is not lost has n1, which the runner takes for the
\* master, as its one active node, and the other following it.
RestoredTrue ==
    goal = "restored" => n1 = "n1" /\ role["n1"] = "active" /\ role["n2"] = "standby"

\* Every settle ends: each reading is one less.
SettleEnds == <>(goal \in {"restored", "lost"})
=============================================================================
