------------------------------ MODULE ByteFile ------------------------------
(***************************************************************************)
(* What read() and write() promise: a file is a sequence of words, and an  *)
(* open file has an offset into it.                                        *)
(***************************************************************************)
EXTENDS Integers, Sequences, FiniteSetsExt

CONSTANTS
  Inum, Handle, Ino,    \* files, open files, and which file each one is of
  Value(_),             \* the word that is written to a file
  MaxSize, MaxN

VARIABLES data, off, got

vars == <<data, off, got>>

Init ==
  /\ \E i \in Inum, n \in 0 .. MaxSize :
       data = [j \in Inum |-> IF j = i THEN [k \in 1 .. n |-> Value(i)] ELSE <<>>]
  /\ off = [f \in Handle |-> 0]
  /\ got = <<>>

\* s with the words of w from offset o on.
Overwritten(s, o, w) ==
  [k \in 1 .. Max({Len(s), o + Len(w)}) |-> IF k \in o + 1 .. o + Len(w) THEN w[k - o] ELSE s[k]]

\* n words, all of them or none.
Write(f, n) ==
  LET i == Ino[f] IN
  /\ off[f] + n <= MaxSize
  /\ off' = [off EXCEPT ![f] = @ + n]
  /\ got' = <<>>
  /\ data' = [data EXCEPT ![i] = Overwritten(@, off[f], [k \in 1 .. n |-> Value(i)])]

\* n words, or those that are left.
Read(f, n) ==
  LET s == SubSeq(data[Ino[f]], off[f] + 1, Min({off[f] + n, Len(data[Ino[f]])})) IN
  /\ off' = [off EXCEPT ![f] = @ + Len(s)]
  /\ got' = s
  /\ UNCHANGED data

Reopen(f) ==
  /\ off' = [off EXCEPT ![f] = 0]
  /\ got' = <<>>
  /\ UNCHANGED data

\* The file is removed and made again.
Recreate(i) ==
  /\ off' = [f \in Handle |-> IF Ino[f] = i THEN 0 ELSE off[f]]
  /\ got' = <<>>
  /\ data' = [data EXCEPT ![i] = <<>>]

Next ==
  \/ \E f \in Handle, n \in 1 .. MaxN : Read(f, n) \/ Write(f, n)
  \/ \E f \in Handle : Reopen(f)
  \/ \E i \in Inum : Recreate(i)

Spec == Init /\ [][Next]_vars
=============================================================================
