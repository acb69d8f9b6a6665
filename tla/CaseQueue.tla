----------------------------- MODULE CaseQueue -----------------------------
(***************************************************************************)
(* What a queue of cases promises the runner that drains it: a case is     *)
(* with one slot at a time, and once it is finished it is never handed out *)
(* again.  Module Dispatch, which keeps lanes, cursors, held cases and     *)
(* retries, is shown to implement it; module Isolation runs on top of it.  *)
(***************************************************************************)

CONSTANT Case   \* the cases

VARIABLES
    left,       \* cases waiting for a slot
    out,        \* cases a slot has
    over        \* cases completed and not to be tried again

queueVars == <<left, out, over>>

QueueInit == left = Case /\ out = {} /\ over = {}

\* ClaimFor returns c.
HandOut(c) ==
    /\ c \in left
    /\ left' = left \ {c} /\ out' = out \cup {c}
    /\ UNCHANGED over

\* Complete: c is finished with ...
PutAway(c) ==
    /\ c \in out
    /\ out' = out \ {c} /\ over' = over \cup {c}
    /\ UNCHANGED left

\* ... or goes back for another attempt.
PutBack(c) ==
    /\ c \in out
    /\ out' = out \ {c} /\ left' = left \cup {c}
    /\ UNCHANGED over

QueueNext == \E c \in Case : HandOut(c) \/ PutAway(c) \/ PutBack(c)

QueueSpec == QueueInit /\ [][QueueNext]_queueVars
=============================================================================
