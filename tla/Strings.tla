------------------------------ MODULE Strings ------------------------------
(***************************************************************************)
(* The code that handles bytes: string.c, the arguments of system calls    *)
(* (syscall.c) and the elements of path names (fs.c), on a memory of a     *)
(* few bytes.                                                              *)
(*                                                                         *)
(* The memory of the process is text: the byte at address a is             *)
(* text[a + 1], and proc->sz is its length.  Addresses wrap at ADDR.       *)
(***************************************************************************)
EXTENDS Integers, SequencesExt, FiniteSetsExt

CONSTANTS
  Char,                  \* bytes besides 0 and the slash
  DIRSIZ, INT, ADDR,     \* length of a name, of an int; number of addresses
  MaxText                \* bound: the memory of the process

NUL   == 0
slash == 1

VARIABLE text

Init == text = <<>>

\* Any contents, byte by byte, up to the bound.
Grow == \E ch \in Char \cup {NUL, slash} : text' = IF Len(text) < MaxText THEN Append(text, ch) ELSE <<>>

Spec == Init /\ [][Grow]_text

-----------------------------------------------------------------------------
\* The order in which memmove() copies its n bytes.
CopyOrder(src, dst, n) ==
  IF src < dst /\ src + n > dst THEN [k \in 1 .. n |-> n - k] ELSE [k \in 1 .. n |-> k - 1]

memmove(m, dst, src, n) ==
  FoldLeft(LAMBDA x, i : [x EXCEPT ![dst + i] = x[src + i]], m, CopyOrder(src, dst, n))

\* 0 when the strings are equal up to n bytes.
strncmp(p, q, n) ==
  LET ends == {i \in 1 .. n : p[i] = NUL \/ p[i] # q[i]}
  IN  IF ends = {} THEN 0 ELSE p[Min(ends)] - q[Min(ends)]

strncpy(t, n) == [i \in 1 .. n |-> IF \E j \in 1 .. i : t[j] = NUL THEN NUL ELSE t[i]]

-----------------------------------------------------------------------------
(* The arguments of system calls; No is the return value -1. *)

No == -1

\* addr < proc->sz && addr + n <= proc->sz, in unsigned arithmetic.
Inside(addr, n) == addr < Len(text) /\ (addr + n) % ADDR <= Len(text)

fetchint(addr) == Inside(addr, INT)

fetchstr(addr) ==
  LET ends == {s \in addr .. Len(text) - 1 : text[s + 1] = NUL}
  IN  IF addr >= Len(text) \/ ends = {} THEN No ELSE Min(ends) - addr

\* argptr(), for the argument i; a negative size is a large one.
argptr(i, size) == Inside(i, size % ADDR)

-----------------------------------------------------------------------------
(* The elements of a path.  name is a buffer of DIRSIZ bytes: a shorter    *)
(* element ends with a 0, and what was in the buffer stays behind it.      *)

\* The number of bytes from i on that are in S, until the end.
Run(path, i, S) == Min({k \in 0 .. Len(path) : i + k > Len(path) \/ path[i + k] \notin S})

\* Mutant: a full name, too, gets its 0.
Ended(name, s, len) ==
  [k \in 1 .. DIRSIZ |-> IF k < Min({len + 1, DIRSIZ}) THEN s[k] ELSE IF k = Min({len + 1, DIRSIZ}) THEN NUL ELSE name[k]]

Copied(name, s, len) ==
  [k \in 1 .. DIRSIZ |-> IF k <= len THEN s[k] ELSE IF k = len + 1 THEN NUL ELSE name[k]]

RECURSIVE Names(_, _)
\* The names that skipelem() gives, one call after the other.
Names(path, name) ==
  LET s   == Run(path, 1, {slash}) + 1
      len == Run(path, s, Char)
      new == Copied(name, SubSeq(path, s, Len(path)), len)
  IN  IF s > Len(path) THEN <<>>
      ELSE <<new>> \o Names(SubSeq(path, s + len, Len(path)), new)

namecmp(s, t) == strncmp(s, t, DIRSIZ)

-----------------------------------------------------------------------------
\* memmove() copies what was there before, also when the blocks overlap.
CopiesOld ==
  \A n \in 0 .. Len(text) : \A dst, src \in 1 .. Len(text) - n + 1 :
    memmove(text, dst, src, n) =
      [a \in 1 .. Len(text) |-> IF a \in dst .. dst + n - 1 THEN text[src + a - dst] ELSE text[a]]

\* What the kernel reads and writes for a system call lies in the memory of
\* the process, and nothing that does is refused.  (An empty block must begin
\* there; of a negative size only the pointer is checked.)
ArgumentsInside ==
  \A addr \in 0 .. ADDR - 1 :
    LET In(n) == addr < Len(text) /\ addr .. addr + n - 1 \subseteq 0 .. Len(text) - 1
    IN  /\ fetchint(addr) <=> In(INT)
        /\ \A size \in 0 .. Len(text) + 1 : argptr(addr, size) <=> In(size)
        /\ \A n \in 0 .. Len(text) :
             fetchstr(addr) = n <=> In(n + 1) /\ text[addr + n + 1] = NUL /\ \A k \in 1 .. n : text[addr + k] # NUL

\* The path that is at the beginning of the memory, and its elements: the
\* longest pieces without a slash, cut after DIRSIZ bytes.
Path == IF NUL \in {text[i] : i \in DOMAIN text} THEN SubSeq(text, 1, fetchstr(0)) ELSE text

Elements(path) ==
  LET begins == {i \in DOMAIN path : path[i] # slash /\ (i = 1 \/ path[i - 1] = slash)}
      Piece(i) == SubSeq(path, i, Max({j \in i .. Len(path) : \A k \in i .. j : path[k] # slash}))
      Cut(s) == SubSeq(s, 1, Min({Len(s), DIRSIZ}))
  IN  LET b == SetToSortSeq(begins, <) IN [k \in 1 .. Len(b) |-> Cut(Piece(b[k]))]

\* A name that dirlink() has stored is found by dirlookup() under every path
\* element that is the same up to DIRSIZ bytes, and under no other: what was
\* in the buffer before does not matter, nor does the missing 0 of a name of
\* full length.
NamesMatch ==
  LET names == Names(Path, [k \in 1 .. DIRSIZ |-> NUL])
      elems == Elements(Path)
  IN  /\ Len(names) = Len(elems)
      /\ \A i, j \in DOMAIN names :
           (namecmp(names[i], strncpy(names[j], DIRSIZ)) = 0) <=> (elems[i] = elems[j])
=============================================================================
