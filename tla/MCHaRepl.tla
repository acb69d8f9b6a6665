------------------------------ MODULE MCHaRepl ------------------------------
(***************************************************************************)
(* Values for the parts of the HA replication suite, and the fairness they *)
(* have.                                                                   *)
(*                                                                         *)
(* Case names say what is special about the case: r renames its object, d  *)
(* does not replicate, l reads first, e may be unreadable; a and b are     *)
(* ordinary.                                                               *)
(***************************************************************************)
EXTENDS HaParts

\* Two pairs and three directories, one run of either kind, nodes that stop
\* answering.  Under reset=case the cases alternate; under reset=dir r and l
\* stay together, and e meets what the reset could not take away after d.
FourOnTwo ==
    [pairs |-> 2, corpus |-> <<"r", "l", "d", "e">>,
     directory |-> [c \in {"r", "l", "d", "e"} |-> IF c \in {"r", "l"} THEN "x" ELSE c],
     resets |-> {"case", "dir"}, late |-> {"l"}, diverging |-> {"d"},
     renaming |-> {"r"}, stubborn |-> {"d"}, noRepair |-> {}, unreadable |-> {"e"},
     resumes |-> FALSE, outages |-> TRUE, runs |-> 1, kills |-> 0]

\* Two directories, the second with two cases, and a run resumed.
MixedOnOne ==
    [pairs |-> 1, corpus |-> <<"a", "b", "r">>,
     directory |-> [c \in {"a", "b", "r"} |-> IF c = "a" THEN "x" ELSE "y"],
     resets |-> {"dir"}, late |-> {}, diverging |-> {}, renaming |-> {},
     stubborn |-> {}, noRepair |-> {}, unreadable |-> {}, resumes |-> TRUE,
     outages |-> FALSE, runs |-> 3, kills |-> 0]

\* One pair and two cases, over three runs.
TwoOverThree ==
    [pairs |-> 1, corpus |-> <<"d", "r">>, directory |-> [c \in {"d", "r"} |-> "x"],
     resets |-> {"case"}, late |-> {}, diverging |-> {"d"}, renaming |-> {"r"},
     stubborn |-> {}, noRepair |-> {"r"}, unreadable |-> {}, resumes |-> TRUE,
     outages |-> FALSE, runs |-> 3, kills |-> 1]

\* The patterns, ts the one a pair may not have; what may be named; the ways the
\* lines of a cluster may fare.
Patterns == <<"ctl", "ts">>
NoneOrTs == {{}, {"ts"}}
LineFates == {<<TRUE, TRUE, FALSE>>, <<FALSE, FALSE, FALSE>>}

\* A name matters when the pair cannot have the pattern it names; the ledger
\* and the pair are handled alike by every verb, so one of them has one way.
MCInit ==
    /\ PartsInit
    /\ opt.trailing => opt.names = {}
    /\ opt.verb = "restart" => opt.build

MCSpec ==
    /\ MCInit /\ [][MCNext]_mcVars
    /\ WF_mcVars(ApplyDoes(pc # "exit" /\ Command))
    /\ WF_mcVars(ApplyDoes(pc # "exit" /\ KillLoop))

\* The suite and its runs alone.
SuiteSpec == MCInit /\ machine = "suite" /\ [][RunDoes("suite", Suite!Next)]_mcVars

-----------------------------------------------------------------------------
\* A command ends, whatever the pair and the kills do.
HaEnds == machine = "apply" => Ends

\* What a case starts from is its own (harepl.go:400), in the suite alone.
StartsOnItsOwn == Suite!StartsOnItsOwn
=============================================================================
