------------------------------ MODULE MCSizing ------------------------------
(***************************************************************************)
(* Two machines on one file, one of them a guest that runs the suite now   *)
(* and then, and a corpus that is fastest on three slots.  Its sample is   *)
(* on a path of its own for the suite that is sized before it has counted  *)
(* its cases, and on the same path for the one that has.                   *)
(***************************************************************************)
EXTENDS Sizing

MCCases == [whole |-> 40, sample |-> 4]
MCPath == [shell     |-> [whole |-> "w", sample |-> "s"],
           isolation |-> [whole |-> "w", sample |-> "w"]]
MCFloor == [whole |-> 1100, sample |-> 600]
MCWall == <<400, 220, 120, 130, 160, 160, 160, 160>>
MCShipped == [shell |-> 0, isolation |-> 1900]
MCStart == [shell |-> 1, isolation |-> 4]

\* What is configured: a corpus, a lane, an engine, a mode, a count.
Measured == [corpus |-> "whole", lane |-> "disk", buffers |-> 200, configured |-> 0,
             mode |-> "measured"]
MCConfs ==
    {[Measured EXCEPT !.buffers = b, !.mode = m] :
        b \in {200, 768}, m \in {"measured", "conservative"}}
      \union {[Measured EXCEPT !.mode = "aggressive"], [Measured EXCEPT !.configured = 2],
              [Measured EXCEPT !.lane = "memory"], [Measured EXCEPT !.corpus = "sample"]}
=============================================================================
