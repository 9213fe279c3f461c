-------------------------------- MODULE Tty --------------------------------
(***************************************************************************)
(* What the console promises its readers: a line that is being edited, and *)
(* the text of finished lines that is handed out once and in order, never  *)
(* beyond the end of a line in one go.                                     *)
(***************************************************************************)
EXTENDS Naturals, Sequences

CONSTANTS Char, NL, EOF, Room

VARIABLES finished, edited

vars == <<finished, edited>>

Ends(c) == c \in {NL, EOF}

Init == finished = <<>> /\ edited = <<>>

\* A character is added while there is room; the end of the line and the last
\* character that fits finish the line.
Type(c) ==
  LET line == Append(edited, c)
      done == Ends(c) \/ Len(finished) + Len(line) = Room
  IN
  /\ Len(finished) + Len(edited) < Room
  /\ finished' = IF done THEN finished \o line ELSE finished
  /\ edited' = IF done THEN <<>> ELSE line

Erase == edited # <<>> /\ edited' = SubSeq(edited, 1, Len(edited) - 1) /\ UNCHANGED finished

Kill == edited' = <<>> /\ UNCHANGED finished

Read ==
  /\ \E k \in 1 .. Len(finished) :
       /\ \A i \in 1 .. k - 1 : ~Ends(finished[i])
       /\ finished' = SubSeq(finished, k + 1, Len(finished))
  /\ UNCHANGED edited

Next == (\E c \in Char : Type(c)) \/ Erase \/ Kill \/ Read

Spec == Init /\ [][Next]_vars
=============================================================================
