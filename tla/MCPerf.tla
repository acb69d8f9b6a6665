------------------------------- MODULE MCPerf -------------------------------
(***************************************************************************)
(* Values for the parts of the performance runner, and the fairness they   *)
(* have.                                                                   *)
(***************************************************************************)
EXTENDS PerfParts

\* One canary; a pair whose two cases are on two fixtures, the canary's among
\* them, and one of two groups, an HA one that fails over before another.
PerfKeys == [c \in {"n", "a", "b", "f"} |-> IF c = "f" THEN "ha" ELSE ""]
PerfFixtures == [c \in {"n", "a", "b", "f"} |->
               CASE c = "f" -> "wide" [] c = "b" -> "big" [] OTHER -> "narrow"]
PerfCanaries == <<"n">>
PerfPairs == <<<<"b", "a">>, <<"f", "a">>>>

\* What a case may ask of its passes.
Plain == [cold |-> FALSE, ha |-> FALSE, failover |-> FALSE, defer |-> FALSE,
          statdump |-> FALSE, reset |-> "none", metric |-> "elapsed_s"]
Cold == [Plain EXCEPT !.cold = TRUE, !.metric = "ops_per_s"]
CaseKinds == {Cold,
              [Plain EXCEPT !.reset = "restore", !.defer = TRUE],
              [Plain EXCEPT !.reset = "reload", !.statdump = TRUE],
              [Plain EXCEPT !.ha = TRUE, !.failover = TRUE],
              [Plain EXCEPT !.ha = TRUE, !.reset = "reload", !.metric = "ops_per_s"]}

\* Two repetitions and one more, two calls that fail; five reads; six readings.
TwoAndOne == [kinds |-> CaseKinds, warmup |-> 1, repeats |-> 2, remeasure |-> 1,
              pairs |-> 2, faults |-> 2,
              times |-> [target |-> {0, 1}, reference |-> {0}]]
FiveReads == [reads |-> 5, running |-> 2, unreadable |-> 2, pushes |-> 2,
              events |-> 4, offsets |-> {0, 1}]
SixReadings == [readings |-> 6, troubles |-> 3]

\* What stands still stands one way; how the server's checkpoints were is
\* nothing to vacuum.
MCInit ==
    /\ PartsInit
    /\ machine # "session" =>
           ~ keep /\ (\A q \in Pair : skipped[q] = "") /\ \A s \in Names : s = "r" <=> cluster[s] = None
    /\ machine # "pass" => kind = Cold
    /\ machine # "wait" => wait = "vacuum"
    /\ wait = "vacuum" => engine = W!NewEngine(FALSE, 0, 0) /\ ckpt.offset = 0
    /\ machine # "settle" => n1 = "n1"

MCSpec ==
    /\ MCInit /\ [][MCNext]_mcVars
    /\ WF_mcVars(PassDoes(P!Run))
    /\ WF_mcVars(WaitDoes(W!Waits)) /\ WF_mcVars(SettleDoes(H!Settles))

-----------------------------------------------------------------------------
\* The case, the wait and the settle end: each call has a bound, and each
\* reading is one less.
PerfEnds ==
    machine # "session" =>
        <>(CASE machine = "pass" -> step = "done"
             [] machine = "wait" -> wAt = "done"
             [] OTHER -> goal \in {"restored", "lost"})
=============================================================================
