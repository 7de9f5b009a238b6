------------------------------- MODULE Lists -------------------------------
(***************************************************************************)
(* The loop that the code goes through its lists with: over aliases, ids,  *)
(* entries, rows and paths.                                                *)
(***************************************************************************)
EXTENDS Naturals, Sequences

\* What a loop over a list leaves when it passes over the entries of a set: the
\* rest as they come, duplicates included.
Without(list, dropped) ==
    LET kept[n \in 0..Len(list)] ==
            IF n = 0 THEN <<>>
            ELSE IF list[n] \in dropped THEN kept[n - 1]
            ELSE Append(kept[n - 1], list[n])
    IN  kept[Len(list)]
=============================================================================
