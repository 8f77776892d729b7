------------------------------- MODULE Lists -------------------------------
(***************************************************************************)
(* What the loops of the program do with a list: the records of a history, *)
(* the lines of a file, the rows of a run.                                 *)
(***************************************************************************)
EXTENDS Integers, Sequences

\* A loop that appends every item but those in gone.
Without(s, gone) ==
  LET kept[n \in 0..Len(s)] ==
        IF n = 0 THEN <<>>
        ELSE IF s[n] \in gone THEN kept[n - 1] ELSE Append(kept[n - 1], s[n])
  IN  kept[Len(s)]

\* The newest n items; a limit of 0 or less keeps all.
Newest(s, n) == IF n > 0 /\ Len(s) > n THEN SubSeq(s, Len(s) - n + 1, Len(s)) ELSE s
=============================================================================
