----------------------------- MODULE MCSlotCache -----------------------------
(***************************************************************************)
(* Instances of SlotCache for TLC.                                         *)
(***************************************************************************)
EXTENDS SlotCache

\* Nothing; one that fits; one that is truncated, to two tokens or, with one to
\* keep, to four.  All begin alike.
MCPrompts == {<<>>, <<1, 2, 1>>, <<1, 2, 2, 2, 1, 2>>}

\* A text, and what is left of it when two of its words are dropped.
Edited == {<<1, 2, 3, 4, 5, 6>>, <<1, 3, 6, 2>>}

\* A prompt of two batches, and one that begins with the token number 0.
WithZero == {<<1, 2, 1, 2>>, <<0, 0, 1>>}

MCKeeps == {-1, 0}
NoKeep  == {0}

\* The server's choice; the three tokens behind those to keep, or one more than
\* the two there are; more than all.
MCDiscards == {0, 3, 9}
=============================================================================
