------------------------------- MODULE Screen -------------------------------
(***************************************************************************)
(* What cprintf() and consputc() put on the CGA screen (cgaputc() and      *)
(* printint() of console.c).  Of a cell of the screen only whether it is   *)
(* blank matters.                                                          *)
(***************************************************************************)
EXTENDS Integers, SequencesExt

CONSTANTS
  COLS, ROWS,            \* 80 and 25 in the code: 24 rows are shown, one more is in memory
  WORD                   \* number of values of an int, 2^32 in the code

Cells == 0 .. ROWS * COLS - 1

VARIABLES
  pos, ink,              \* the cursor, the cells that are not blank
  panic,
  num, radix,            \* the last number given to printint(), and its base
  minus, digits          \* what it printed

vars == <<pos, ink, panic, num, radix, minus, digits>>

Int32 == -(WORD \div 2) .. WORD \div 2 - 1

Init == pos = 0 /\ ink = {} /\ panic = FALSE /\ num = 0 /\ radix = 10 /\ minus = FALSE /\ digits = <<0>>

TypeOK == pos \in 0 .. ROWS * COLS /\ ink \subseteq Cells /\ panic \in BOOLEAN /\ num \in Int32

Scrolls(p) == p \div COLS >= ROWS - 1

\* consputc(c), which moves the cursor.
cgaputc(c) ==
  LET p     == CASE c = "\n" -> pos + (COLS - (pos % COLS))
                 [] c = "BACKSPACE" -> IF pos > 0 THEN pos - 1 ELSE pos
                 [] OTHER -> pos + 1
      drawn == IF c = "x" THEN ink \cup {pos} ELSE ink
      last  == (ROWS - 1) * COLS
      moved == {i - COLS : i \in {j \in drawn : j >= COLS /\ j < last}}
                 \cup {i \in drawn : i >= last - COLS}
  IN
  /\ ~panic
  /\ panic' = (p < 0 \/ p > ROWS * COLS)
  /\ IF panic' THEN UNCHANGED <<pos, ink>>
     ELSE /\ pos' = IF Scrolls(p) THEN p - COLS ELSE p
          /\ ink' = (IF Scrolls(p) THEN {i \in moved : i < p - COLS \/ i >= last} ELSE drawn) \ {pos'}
  /\ UNCHANGED <<num, radix, minus, digits>>

\* The loop of printint(): the digits, least significant first.
RECURSIVE DigitsOf(_, _)
DigitsOf(x, base) ==
  IF x \div base = 0 THEN <<x % base>> ELSE <<x % base>> \o DigitsOf(x \div base, base)

\* x = -xx and x = xx, in unsigned arithmetic.
Magnitude(xx, sign) == IF sign /\ xx < 0 THEN (-xx) % WORD ELSE xx % WORD

printint(xx, base, sign) ==
  /\ ~panic
  /\ num' = xx /\ radix' = base
  /\ minus' = (sign /\ xx < 0)
  /\ digits' = Reverse(DigitsOf(Magnitude(xx, sign), base))
  /\ UNCHANGED <<pos, ink, panic>>

Next ==
  \/ \E c \in {"x", "\n", "BACKSPACE"} : cgaputc(c)
  \/ \E xx \in Int32, b \in {<<10, TRUE>>, <<16, FALSE>>} : printint(xx, b[1], b[2])

Spec == Init /\ [][Next]_vars

-----------------------------------------------------------------------------
\* The cursor stays in the rows that are shown, so that cgaputc() never
\* panics, and all cells from it on are blank: what is erased with backspace
\* is gone and scrolling leaves nothing behind.
CursorAtEnd ==
  /\ ~panic /\ pos < (ROWS - 1) * COLS
  /\ \A i \in ink : i < pos

\* What printint() prints is the number, the least one included, whose
\* negative does not exist; in base 16 it is the number as an unsigned one.
Value == FoldLeft(LAMBDA v, d : v * radix + d, 0, digits)

PrintsNumber == (IF minus THEN -Value ELSE Value) = (IF radix = 10 THEN num ELSE num % WORD)
=============================================================================
