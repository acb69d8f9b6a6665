------------------------------- MODULE MCShell ------------------------------
(***************************************************************************)
(* Values for the parts of a shell run, and the fairness they have.        *)
(***************************************************************************)
EXTENDS ShellParts

\* Two cases, two slots, two EnvIDs, four runs.
TwoOverFour == [cases |-> {"c1", "c2"}, envs |-> {"e1", "e2"}, slots |-> {"s1", "s2"}, runs |-> 4]

\* Two slots, and two processes killed.
TwoKilled == [slots |-> 2, kills |-> 2]

\* Two directories: one long, with two cases, one short.
Plain == [macro |-> {}, only |-> {}, excluded |-> {},
          slowSecs |-> 0, slowMB |-> 0, slowMBps |-> 0,
          ram |-> FALSE, disk |-> FALSE, patches |-> {}, logs |-> "off"]
Confs ==
    {[Plain EXCEPT !.only = {"a1", "a2"}, !.ram = TRUE, !.logs = "all"],
     [Plain EXCEPT !.slowSecs = 3, !.ram = TRUE, !.patches = {"a1"}],
     [Plain EXCEPT !.slowMBps = 2, !.ram = TRUE, !.only = {"a2", "b1"}],
     [Plain EXCEPT !.patches = {"a1", "b1"}, !.only = {"a1", "b1"}, !.logs = "fail"],
     [Plain EXCEPT !.excluded = {"a2"}, !.macro = {"b1"}, !.disk = TRUE,
                   !.patches = {"a1"}]}

ThreeOverTwo ==
    [dirOf |-> [a1 |-> "a", a2 |-> "a", b1 |-> "b"], unit |-> 12,
     case |-> {"a1", "a2", "b1"}, slots |-> 2, settings |-> Confs,
     took |-> [a1 |-> 6, a2 |-> 1, b1 |-> 2], holds |-> [a |-> 6, b |-> 2],
     logKB |-> 2, logBudget |-> 3, maxRetry |-> 1, runs |-> 2, trouble |-> 1]

MCSpec ==
    /\ PartsSpec
    /\ WF_mcVars(MonitorDoes(Worker)) /\ WF_mcVars(MonitorDoes(Check))
    /\ WF_mcVars(MonitorDoes(Quit)) /\ WF_mcVars(MonitorDoes(Tick))
    /\ WF_mcVars(ContainDoes(C!Process)) /\ WF_mcVars(ContainDoes(C!Kernel))

RunSpec == MCInit /\ machine = "run" /\ [][RunDoes(S!Next)]_mcVars

-----------------------------------------------------------------------------
\* Worker and monitor both end; and once testkit is gone nothing goes on.
AllEnd == BothEnd /\ C!NothingGoesOn

\* patched.txt is there when the run patched something, and says what.
PatchedTold == S!PatchedTold
=============================================================================
