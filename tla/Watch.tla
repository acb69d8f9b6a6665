--------------------------------- MODULE Watch --------------------------------
(***************************************************************************)
(* The page of a run watched from outside it (hareplsuite/watch.go): the   *)
(* watcher follows each run's ledger and lays its lines on a board that    *)
(* the pair samplers write to and the page reads.                          *)
(*                                                                         *)
(* A ledger only grows by lines, each written in pieces; it shrinks when   *)
(* somebody clears the directory for another run.  A case is judged again  *)
(* when a run is resumed after a timeout or started over in the same       *)
(* directory.  Sizes and offsets count half lines, and of the board only   *)
(* what each lane has done and got right is kept (Board has the rest).     *)
(***************************************************************************)
EXTENDS Integers, Sequences, SequencesExt, FiniteSetsExt

CONSTANTS
    Slot,       \* the runs, each a lane of the page
    CasesOf,    \* [Slot -> cases]: the shard of the corpus each is given
    LinesMax    \* how many lines they write in all

VARIABLES
    board,   \* [Slot -> [done, ok]]
    file,    \* [Slot -> lines]: the ledger of each watched run
    torn,    \* [Slot -> BOOLEAN]: a line is half written at its end
    src,     \* [Slot -> [offset, order]]: what the watcher has read of it
    at,      \* where followAll is: the sources still to poll, or in Reset
    redraw,  \* a source has asked for the board to be laid down again
    mu,      \* whether the board's lock is held
    asked    \* somebody is waiting for the board

watchVars == <<board, file, torn, src, at, redraw, mu, asked>>

NoSource == [offset |-> 0, order |-> <<>>]
sizeOf(s) == 2 * Len(file[s]) + (IF torn[s] THEN 1 ELSE 0)
Written == LET n(s) == Len(file[s]) IN MapThenSumSet(n, Slot)

WatchInit ==
    /\ board = [s \in Slot |-> [done |-> 0, ok |-> 0]]
    /\ file = [s \in Slot |-> <<>>] /\ torn = [s \in Slot |-> FALSE]
    /\ src = [s \in Slot |-> NoSource]
    /\ at = Slot /\ redraw = FALSE /\ mu = FALSE /\ asked = FALSE

-----------------------------------------------------------------------------
(* The runs. *)

\* Half of a line is out.  A run that starts in a cleared directory has its
\* pair to stand up first, and the watcher looks twice a second: it has seen
\* the file shrink by then.
Half(s) ==
    /\ ~ torn[s] /\ Written < LinesMax /\ sizeOf(s) >= src[s].offset
    /\ torn' = [torn EXCEPT ![s] = TRUE]
    /\ UNCHANGED <<board, file, src, at, redraw, mu, asked>>

\* The rest of it: a verdict on a case, the first or another.
Line(s) ==
    /\ torn[s]
    /\ \E c \in CasesOf[s], ok \in BOOLEAN :
          file' = [file EXCEPT ![s] = Append(@, [case |-> c, ok |-> ok])]
    /\ torn' = [torn EXCEPT ![s] = FALSE]
    /\ UNCHANGED <<board, src, at, redraw, mu, asked>>

\* The directory is cleared for another run.
Clear(s) ==
    /\ file[s] # <<>> /\ ~ torn[s] /\ src[s].offset > 0
    /\ file' = [file EXCEPT ![s] = <<>>]
    /\ UNCHANGED <<board, torn, src, at, redraw, mu, asked>>

-----------------------------------------------------------------------------
(* The watcher. *)

\* Whole lines from the offset, and where the last of them ended.
readFrom_F(s) ==
    [lines |-> SubSeq(file[s], src[s].offset \div 2 + 1, Len(file[s])), n |-> sizeOf(s) + (sizeOf(s) % 2)]
readFrom(s) ==
    [lines |-> SubSeq(file[s], src[s].offset \div 2 + 1, Len(file[s])),
     n |-> 2 * Len(file[s])]

\* Begin and Record of a case already judged.
Record(lane, ok) == [done |-> lane.done + 1, ok |-> lane.ok + (IF ok THEN 1 ELSE 0)]

\* One line read: a new case goes on the board as it comes, a case judged
\* again takes the place of its earlier verdict, and not on the board.
each(acc, line) ==
    LET already == {i \in DOMAIN acc.order : acc.order[i].case = line.case}
    IN  IF already = {}
        THEN [acc EXCEPT !.order = Append(@, line),
                         !.lane = Record(@, line.ok)]
        ELSE [acc EXCEPT !.order[Min(already)] = line, !.replaced = TRUE]

\* What a source has written since the last look.
poll(s) ==
    LET offset == src[s].offset
        read == readFrom(s)
        laid == FoldLeft(each, [order |-> src[s].order, lane |-> board[s],
                                replaced |-> FALSE], read.lines)
    IN  /\ s \in at /\ ~ mu
        /\ at' = at \ {s}
        /\ \/ /\ sizeOf(s) < offset
              /\ src' = [src EXCEPT ![s] = NoSource]
              /\ redraw' = TRUE
              /\ UNCHANGED board
           \/ /\ sizeOf(s) = offset
              /\ UNCHANGED <<src, redraw, board>>
           \/ /\ sizeOf(s) > offset
              /\ src' = [src EXCEPT ![s] = [offset |-> read.n, order |-> laid.order]]
              /\ redraw' = (redraw \/ laid.replaced)
              /\ board' = [board EXCEPT ![s] = laid.lane]
        /\ UNCHANGED <<file, torn, mu, asked>>

\* Nothing to lay down again: the loop comes round.
Sleep ==
    /\ at = {} /\ ~ redraw
    /\ at' = Slot
    /\ UNCHANGED <<board, file, torn, src, redraw, mu, asked>>

\* Reset takes the board's lock and calls reset, which takes it too: the
\* lines that would lay the board down again come after that call.
Reset ==
    /\ at = {} /\ redraw /\ ~ mu
    /\ mu' = TRUE
    /\ UNCHANGED <<board, file, torn, src, at, redraw, asked>>

-----------------------------------------------------------------------------
(* The others who want the board: the page and the pair samplers. *)

Ask ==
    /\ ~ asked
    /\ asked' = TRUE
    /\ UNCHANGED <<board, file, torn, src, at, redraw, mu>>

Answer ==
    /\ asked /\ ~ mu
    /\ asked' = FALSE
    /\ UNCHANGED <<board, file, torn, src, at, redraw, mu>>

Runs == \E s \in Slot : Half(s) \/ Line(s) \/ Clear(s)
followAll == (\E s \in Slot : poll(s)) \/ Sleep \/ Reset
WatchNext == Runs \/ followAll \/ Ask \/ Answer

-----------------------------------------------------------------------------
(* What must hold. *)

\* The last verdict of each case among some lines, in the order the cases
\* first appeared.
Latest(lines) ==
    LET first == {i \in DOMAIN lines : \A j \in 1..i - 1 : lines[j].case # lines[i].case}
        last(i) == Max({j \in DOMAIN lines : lines[j].case = lines[i].case})
        firsts == SetToSortSeq(first, <)
    IN  [k \in DOMAIN firsts |-> lines[last(firsts[k])]]

\* However its writes and the watcher's looks fall, a run is read as it
\* stands: no line is read in halves or skipped, a case judged twice counts
\* once and by its last verdict, and the board holds exactly the cases read,
\* with those verdicts as long as no redraw is owed.
FollowsLedger ==
    /\ \A s \in Slot :
          src[s].offset <= sizeOf(s) =>
             src[s].order = Latest(SubSeq(file[s], 1, src[s].offset \div 2))
    /\ ~ redraw =>
          \A s \in Slot :
             /\ board[s].done = Len(src[s].order)
             /\ board[s].ok = Len(SelectSeq(src[s].order, LAMBDA l : l.ok))

\* A line that is whole gets to the page, unless a redraw is owed first.
CaughtUp ==
    \A s \in Slot : (sizeOf(s) > src[s].offset + 1) ~> (redraw \/ sizeOf(s) <= src[s].offset + 1)

\* A page that is asked for is answered: a board is reset and every run's lines
\* are laid down again, which "costs nothing but a redraw" (watch.go:207).
PageAnswers == asked ~> ~ asked
=============================================================================
