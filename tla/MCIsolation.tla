---------------------------- MODULE MCIsolation -----------------------------
(***************************************************************************)
(* Values for an isolation test case under its controller and for the      *)
(* suite that runs such cases, and the fairness they have.                 *)
(***************************************************************************)
EXTENDS IsolationParts

Of(op, c, n, q) == [op |-> op, client |-> c, count |-> n, quit |-> q]
Sql(c, n) == Of("send", c, n, FALSE)
Leave(c) == Of("send", c, 1, TRUE)
Until(op, c) == Of(op, c, 1, FALSE)
Mc(op) == Of(op, 0, 1, FALSE)

\* The shape of most of the corpus: one client blocks on the other.
Blocking == <<Mc("skip"), Sql(1, 2), Sql(2, 1), Until("blocked", 2), Sql(1, 1),
              Until("ready", 2), Leave(2), Leave(1)>>

\* The waits and the pause, and a file that ends without a quit.
Waiting2 == <<Sql(2, 1), Until("unblocked", 2), Mc("pause"), Until("ready", 1),
              Mc("sleep"), Sql(1, 1)>>

\* A statement after its client's quit; a refused one; a client nobody has.
Stray == <<Leave(1), Sql(1, 1), Sql(2, 2)>>
Refused == <<Sql(1, 1), Mc("bad")>>
Nobody == <<Sql(1, 1), Until("ready", 3)>>

\* Answers long enough to be read in two pieces.
LongAnswers == <<Sql(1, 1), Sql(1, 2), Until("ready", 1)>>

MCScripts == {Blocking, Waiting2, Stray, Refused, Nobody, LongAnswers}
MCLong == {LongAnswers}

\* Three files are found.  The line of the exclusion file matches two of them
\* and removes the first; the two left carry a patch each.
ThreeFound == [
    cases |-> 1..3, slots |-> {1, 2}, entries |-> <<{1, 2}>>, patches |-> {2, 3},
    wrecks |-> 2, runs |-> 2]

\* Where the suite moves, the script that stands by is one of them.
MCInit == PartsInit /\ (machine = "suite" => script = Blocking)

MCSpec ==
    /\ MCInit /\ [][MCNext]_mcVars
    /\ WF_mcVars(CtlDoes(Controller))
    /\ WF_mcVars(SuiteDoes(I!Main))
    /\ \A s \in OfSuite.slots : WF_mcVars(SuiteDoes(I!Working /\ I!Step(s)))

-----------------------------------------------------------------------------
\* A case ends whatever its clients do, and a run of the suite whatever its
\* cases do.
CaseAndRunEnd == (machine = "ctl" => Termination) /\ (machine = "suite" => I!RunEnds)
=============================================================================
