------------------------------- MODULE Corpus -------------------------------
(***************************************************************************)
(* What shell cases write while slots drain the queue of module Dispatch:  *)
(* the corpus overlay (shellsuite/corpus.go) and the database registry     *)
(* (shellsuite/registry.go).                                               *)
(*                                                                         *)
(* A case may leave a database in its directory and its name in            *)
(* databases.txt.  The directory's writes are dropped when its last case   *)
(* retires, and the registry is pruned after them: finish() is Complete,   *)
(* Retire and the prune, one after the other, with the other slots running *)
(* in between.                                                             *)
(*                                                                         *)
(* Without lanes one overlay, mounted before the slots, takes every        *)
(* slot's writes; with lanes each slot has its own.  The registry is each  *)
(* slot's own in either case.                                              *)
(***************************************************************************)
EXTENDS Dispatch

CONSTANT
    Registries  \* whether databases.txt is under $CUBRID, where every reset
                \* restores it; either way when it has both

VARIABLES
    inside,     \* this run's databases.txt is under $CUBRID
    pending,    \* pending[d]: the cases of directory d that have yet to retire
    files,      \* <<overlay, c>>: the database case c has left there
    entries,    \* <<slot, c>>: its name in that slot's databases.txt
    post,       \* post[s]: what finish() has still to do in slot s
    ended,      \* ended[s]: the case it does it for, 0 when there is none
    closed,     \* Corpus.Close has run
    failed      \* a reclaim or a prune failed (observation)

keptVars == <<inside, pending, files, entries>>
finishVars == <<inside, post, ended>>
corpusVars == <<keptVars, finishVars, closed, failed>>
allVars == <<vars, corpusVars>>

\* The directories of some cases.
Dirs(S) == {Dir[c] : c \in S}
In(d) == {c \in Case : Dir[c] = d}

-----------------------------------------------------------------------------
(* A name that ends in _F is a seeded fault.                               *)

\* The overlay slot s writes to.
Overlay(s) == IF Lanes THEN s ELSE "run"
Overlays(S) == {Overlay(s) : s \in S}

Idle(s) == post[s] = "none"

\* The worker asks the queue.
CorpusClaim(s) ==
    /\ Idle(s)
    /\ Claim(s)
    /\ UNCHANGED corpusVars

Restored_F(s) == entries

\* RestoreScript: the install is put back before the case runs, and with it
\* the registry when that is part of it.
Restored(s) ==
    IF inside THEN {e \in entries : e[1] # s} ELSE entries

\* The case starts, or the worker finds the run cancelled.
CorpusBegin(s) ==
    /\ Begin(s)
    /\ entries' = IF cancelled THEN entries ELSE Restored(s)
    /\ UNCHANGED <<pending, files, finishVars, closed, failed>>

\* The case creates its database ...
CreateDB(s) ==
    /\ pc[s] = "run"
    /\ files' = files \cup {<<Overlay(s), tcase[s]>>}
    /\ entries' = entries \cup {<<s, tcase[s]>>}
    /\ UNCHANGED <<vars, pending, finishVars, closed, failed>>

\* ... and may delete it again.
DeleteDB(s) ==
    /\ pc[s] = "run"
    /\ <<s, tcase[s]>> \in entries
    /\ files' = files \ {<<Overlay(s), tcase[s]>>}
    /\ entries' = entries \ {<<s, tcase[s]>>}
    /\ UNCHANGED <<vars, pending, finishVars, closed, failed>>

Retires_F(s, outcome) == TRUE

\* finish(): a case that goes back for a retry has not retired.
Retires(s, outcome) == ~ Retrying(outcome, tretry[s])

\* finish() begins with Complete.
CorpusComplete(s, outcome) ==
    /\ Complete(s, outcome)
    /\ IF Retires(s, outcome)
       THEN /\ post' = [post EXCEPT ![s] = "retire"]
            /\ ended' = [ended EXCEPT ![s] = tcase[s]]
       ELSE UNCHANGED finishVars
    /\ UNCHANGED <<keptVars, closed, failed>>

LastOf_F(d) == TRUE

\* The case that retires is the last of its directory.
LastOf(d) == pending[d] <= 1

Dropped_F(s, d) ==
    {f \in files : f[1] = Overlay(s) /\ f[2] = ended[s]}

\* dropInSlot and dropAdditions: all this overlay holds under the directory.
Dropped(s, d) == {f \in files : f[1] = Overlay(s) /\ f[2] \in In(d)}

\* Corpus.Retire, under the corpus's lock.  An error of the delete is not
\* looked at.
Retire(s) ==
    /\ post[s] = "retire"
    /\ LET d == Dir[ended[s]] IN
       IF ~ LastOf(d)
       THEN /\ pending' = [pending EXCEPT ![d] = @ - 1]
            /\ post' = [post EXCEPT ![s] = "none"]
            /\ ended' = [ended EXCEPT ![s] = 0]
            /\ UNCHANGED <<files, failed>>
       ELSE /\ pending' = [pending EXCEPT ![d] = 0]
            /\ post' = [post EXCEPT ![s] = "prune"]
            /\ \/ files' = files \ Dropped(s, d) /\ UNCHANGED failed
               \/ failed' = TRUE /\ UNCHANGED files
            /\ UNCHANGED ended
    /\ UNCHANGED <<vars, inside, entries, closed>>

Pruned_F(s, d) == {}

\* PruneRegistryScript on the slot's own channel.
Pruned(s, d) == {e \in entries : e[1] = s /\ e[2] \in In(d)}

Prune(s) ==
    /\ post[s] = "prune"
    /\ \/ entries' = entries \ Pruned(s, Dir[ended[s]]) /\ UNCHANGED failed
       \/ failed' = TRUE /\ UNCHANGED entries
    /\ post' = [post EXCEPT ![s] = "none"]
    /\ ended' = [ended EXCEPT ![s] = 0]
    /\ UNCHANGED <<vars, inside, pending, files, closed>>

\* A signal, or the ceiling's level as the gate sees it.
CorpusEnv ==
    /\ Cancel \/ Usage
    /\ UNCHANGED corpusVars

\* The slots have closed, and the overlays are taken down.
CloseCorpus ==
    /\ AllGone /\ ~ closed
    /\ closed' = TRUE
    /\ files' = {}
    /\ UNCHANGED <<vars, pending, entries, finishVars, failed>>

CorpusOver == closed /\ UNCHANGED allVars

CorpusStep(s) ==
    \/ CorpusClaim(s) \/ CorpusBegin(s)
    \/ CreateDB(s) \/ DeleteDB(s)
    \/ \E outcome \in Outcome : CorpusComplete(s, outcome)
    \/ Retire(s) \/ Prune(s)

\* Plan: how many cases each directory holds.
CorpusInit ==
    /\ Init
    /\ inside \in Registries
    /\ pending = [d \in Dirs(Case) |-> Cardinality(In(d))]
    /\ files = {} /\ entries = {}
    /\ post = [s \in Slots |-> "none"]
    /\ ended = [s \in Slots |-> 0]
    /\ closed = FALSE /\ failed = FALSE

CorpusNext ==
    (\E s \in Slots : CorpusStep(s)) \/ CorpusEnv \/ CloseCorpus \/ CorpusOver

CorpusSpec == CorpusInit /\ [][CorpusNext]_allVars

-----------------------------------------------------------------------------
(* Properties.                                                             *)

\* What the corpus keeps has its type, and a directory's count is the number
\* of its cases that have not retired.
CorpusTypeOK ==
    /\ files \subseteq Overlays(Slots) \X Case
    /\ entries \subseteq Slots \X Case
    /\ post \in [Slots -> {"none", "retire", "prune"}]
    /\ ended \in [Slots -> Case \cup {0}]
    /\ closed \in BOOLEAN /\ failed \in BOOLEAN
    /\ DOMAIN pending = Dirs(Case)
    /\ \A d \in Dirs(Case) :
          pending[d] = Cardinality(In(d) \ done)
                       + Cardinality({s \in Slots : post[s] = "retire"
                                                    /\ ended[s] \in In(d)})

\* corpus.go: `a case that set up a database for its sibling would find it
\* gone'.  A case's files go only by its own hand while it runs, or when every
\* case of its directory is done for good -- no sibling waits, runs or awaits a
\* retry -- or with the run.
KeptForSiblings ==
    [][\A f \in files \ files' :
          \/ In(Dir[f[2]]) \subseteq done
          \/ \E s \in Slots : pc[s] = "run" /\ tcase[s] = f[2]
          \/ closed']_allVars

\* Nothing is held to the end of the run: once every slot is out, a run that
\* was not cancelled and whose deletes worked holds no file of any case.
AllReclaimed ==
    AllGone /\ (\A s \in Slots : Idle(s)) /\ ~ cancelled /\ ~ failed
        => files = {}

\* The counts are well formed and come to nothing at the end.
CountsSound == CorpusTypeOK /\ AllReclaimed

\* registry.go: `the reclaim and the registry have to move together' -- no case
\* runs in a slot whose registry names a database this run has reclaimed.
RegistryTrue ==
    \A s \in Slots : pc[s] = "run" /\ ~ failed =>
        \A c \in Case : <<s, c>> \in entries => pending[Dir[c]] > 0

\* The counts are true, and what the registry names is there.
CorpusTrue == CountsSound /\ RegistryTrue
=============================================================================
