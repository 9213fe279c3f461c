-------------------------------- MODULE Kbd --------------------------------
(***************************************************************************)
(* kbdgetc() of kbd.c: from the bytes of the keyboard to characters.       *)
(*                                                                         *)
(* The keyboard is external.  A key is its place in the tables of kbd.h:   *)
(* those from 128 on are sent with the prefix E0, and a key that is        *)
(* released is sent with bit 7 set.                                        *)
(***************************************************************************)
EXTENDS Naturals, Sequences

CONSTANT Key             \* bound: the keys that are used

VARIABLES
  held,                  \* the keys that are down
  wire,                  \* bytes on their way
  shift,                 \* flags of kbdgetc()
  c                      \* what it has returned

vars == <<held, wire, shift, c>>

E0  == 224
Bit == 128

\* The tables of kbd.h, and the key of the letter a.
shiftcode(k)  == CASE k \in {29, 157} -> {"CTL"} [] k \in {42, 54} -> {"SHIFT"}
                   [] k \in {56, 184} -> {"ALT"} [] OTHER -> {}
togglecode(k) == CASE k = 58 -> {"CAPSLOCK"} [] k = 69 -> {"NUMLOCK"} [] k = 70 -> {"SCROLLLOCK"} [] OTHER -> {}
letter        == 30

Held == {"CTL", "SHIFT", "ALT"}

TypeOK ==
  /\ held \subseteq Key /\ shift \subseteq Held \cup {"CAPSLOCK", "NUMLOCK", "SCROLLLOCK", "E0ESC"}
  /\ c \in {"none", "a", "A", "^A"}

Init == held = {} /\ wire = <<>> /\ shift = {} /\ c = "none"

-----------------------------------------------------------------------------
\* A key goes down, or is down and repeats.
Press(k) ==
  /\ wire = <<>> /\ held' = held \cup {k}
  /\ wire' = IF k >= Bit THEN <<E0, k - Bit>> ELSE <<k>>
  /\ UNCHANGED <<shift, c>>

Release(k) ==
  /\ wire = <<>> /\ k \in held /\ held' = held \ {k}
  /\ wire' = IF k >= Bit THEN <<E0, k>> ELSE <<k + Bit>>
  /\ UNCHANGED <<shift, c>>

-----------------------------------------------------------------------------
\* A key has been released, and its prefix is used up.
Released(data) == shift \ (shiftcode(IF "E0ESC" \in shift THEN data ELSE data - Bit) \cup {"E0ESC"})

Toggled(f, g) == (f \ g) \cup (g \ f)

Pressed(k) == Toggled((shift \ {"E0ESC"}) \cup shiftcode(k), togglecode(k))

\* The letter in charcode[], and with CAPSLOCK in the other case.
charcode(f) == IF "CTL" \in f THEN "^A" ELSE IF ("SHIFT" \in f) # ("CAPSLOCK" \in f) THEN "A" ELSE "a"

kbdgetc ==
  LET data == Head(wire)
      k    == IF "E0ESC" \in shift THEN data + Bit ELSE data
  IN
  /\ wire # <<>> /\ wire' = Tail(wire)
  /\ CASE data = E0  -> shift' = shift \cup {"E0ESC"} /\ c' = "none"
       [] data # E0 /\ data >= Bit -> shift' = Released(data) /\ c' = "none"
       [] OTHER -> shift' = Pressed(k) /\ c' = IF k = letter THEN charcode(Pressed(k)) ELSE "none"
  /\ UNCHANGED held

Next == kbdgetc \/ \E k \in Key : Press(k) \/ Release(k)

Spec == Init /\ [][Next]_vars

-----------------------------------------------------------------------------
\* No modifier is stuck: what the flags of kbdgetc() say is down is down, and
\* a prefix is never left over for a later key.
NothingStuck ==
  wire = <<>> =>
    /\ "E0ESC" \notin shift
    /\ \A m \in Held \cap shift : \E k \in held : m \in shiftcode(k)
=============================================================================
