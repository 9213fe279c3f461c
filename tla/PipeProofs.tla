----------------------------- MODULE PipeProofs -----------------------------
(***************************************************************************)
(* Proofs about the pipe, for any number of processes, any size of the     *)
(* buffer and any width of the counters: a pipe is freed only when nobody  *)
(* can use it any more, nobody sleeps without a cause, and the ring buffer *)
(* with its wrapping counters is a FIFO channel.                           *)
(***************************************************************************)
EXTENDS Pipe, TLAPS

-----------------------------------------------------------------------------
(* Remainders *)

LEMMA ModDiv ==
  ASSUME NEW w \in Nat \ {0}, NEW a \in Int
  PROVE  /\ a \div w \in Int /\ a = (a \div w) * w + (a % w)
         /\ a % w \in 0 .. w - 1
  OBVIOUS

LEMMA ModUnique ==
  ASSUME NEW w \in Nat \ {0}, NEW a \in Int, NEW q \in Int, NEW r \in 0 .. w - 1,
         a = q * w + r
  PROVE  a % w = r
  OBVIOUS

LEMMA ModAdd ==
  ASSUME NEW w \in Nat \ {0}, NEW a \in Int, NEW b \in Int, NEW q \in Int, b = a + q * w
  PROVE  b % w = a % w
<1> DEFINE d == a \div w
           r == a % w
<1>1. d \in Int /\ a = d * w + r /\ r \in 0 .. w - 1
  BY ModDiv
<1> HIDE DEF d, r
<1>2. b = (d + q) * w + r /\ d + q \in Int
  BY <1>1
<1>3. b % w = r
  BY <1>1, <1>2, ModUnique
<1> QED BY <1>3 DEF r

\* A remainder may be taken or not before adding.
LEMMA ModMod ==
  ASSUME NEW w \in Nat \ {0}, NEW a \in Int, NEW b \in Int
  PROVE  ((a % w) + b) % w = (a + b) % w
<1> DEFINE d == a \div w
           r == a % w
<1>1. d \in Int /\ a = d * w + r /\ r \in 0 .. w - 1
  BY ModDiv
<1> HIDE DEF d, r
<1>2. a + b \in Int /\ r + b \in Int /\ a + b = (r + b) + d * w
  BY <1>1
<1>3. (a + b) % w = (r + b) % w
  BY <1>1, <1>2, ModAdd
<1> QED BY <1>3 DEF r

\* A counter that wraps at a multiple of n still counts modulo n.
LEMMA ModDivides ==
  ASSUME NEW w \in Nat \ {0}, NEW n \in Nat \ {0}, w % n = 0, NEW a \in Int, NEW b \in Int
  PROVE  ((a % w) + b) % n = (a + b) % n
<1> DEFINE d == a \div w
           r == a % w
           m == w \div n
<1>1. d \in Int /\ a = d * w + r /\ r \in 0 .. w - 1
  BY ModDiv
<1>2. m \in Int /\ w = m * n
  BY ModDiv
<1> HIDE DEF d, r, m
<1>3. d * m \in Int /\ a + b \in Int /\ r + b \in Int
  BY <1>1, <1>2
<1>4. d * w = (d * m) * n
  BY <1>1, <1>2
<1>5. a + b = (r + b) + (d * m) * n
  BY <1>1, <1>4
<1>6. (a + b) % n = (r + b) % n
  BY <1>3, <1>5, ModAdd
<1> QED BY <1>6 DEF r

\* Min of two numbers.
LEMMA MinLemma ==
  ASSUME NEW a \in Int, NEW b \in Int
  PROVE  Min({a, b}) = IF a <= b THEN a ELSE b
<1> DEFINE m == IF a <= b THEN a ELSE b
<1>1. m \in {a, b} /\ \A y \in {a, b} : m <= y
  OBVIOUS
<1>2. \A x \in {a, b} : (\A y \in {a, b} : x <= y) => x = m
  OBVIOUS
<1> HIDE DEF m
<1>3. Min({a, b}) = m
  BY <1>1, <1>2 DEF Min
<1> QED BY <1>3 DEF m

-----------------------------------------------------------------------------
(* The inductive invariant *)

\* The flags of the pipe against the references to its ends: the last one to
\* close an end is alone with it, and who is inside a call holds the end.
EndsRight ==
  /\ freed <=> ~readopen /\ ~writeopen
  /\ ~readopen => readers = {} /\ \A p \in Proc : pc[p] # "closeR"
  /\ ~writeopen => writers = {} /\ \A p \in Proc : pc[p] # "closeW"
  /\ \A p \in Proc :
       /\ pc[p] \in {"read", "empty", "asleepR"} => p \in readers
       /\ pc[p] \in {"write", "full", "asleepW"} => p \in writers
       /\ pc[p] = "closeR" => readers = {} /\ \A q \in Proc : pc[q] = "closeR" => q = p
       /\ pc[p] = "closeW" => writers = {} /\ \A q \in Proc : pc[q] = "closeW" => q = p

\* Who is about to sleep holds the lock, and what it found is still so.
LockRight ==
  \A p \in Proc :
    /\ pc[p] \in {"full", "empty"} <=> lock = p
    /\ pc[p] = "empty" => Count = 0 /\ writeopen
    /\ pc[p] = "full" => Count = PIPESIZE /\ readopen

IInv == TypeOK /\ EndsRight /\ LockRight /\ SleepsForCause

-----------------------------------------------------------------------------
(* The ring buffer: d is data, r is nread and w is nwrite. *)

Cnt(r, w) == (w - r) % WIDTH

Ring(d, r, w) == [k \in 1 .. Cnt(r, w) |-> d[(r + k - 1) % PIPESIZE]]

Counter == 0 .. WIDTH - 1
Buffer == [0 .. PIPESIZE - 1 -> Byte]

LEMMA Sizes ==
  /\ PIPESIZE \in Nat \ {0} /\ WIDTH \in Nat \ {0} /\ PIPESIZE < WIDTH
  /\ WIDTH % PIPESIZE = 0
  BY PipeAssumption

LEMMA CntLemma ==
  ASSUME NEW r \in Counter, NEW w \in Counter
  PROVE  /\ Cnt(r, w) \in Counter /\ Cnt(r, w) \in Nat
         /\ Cnt(r, w) = 0 <=> r = w
<1>1. w - r \in Int /\ r \in Int /\ w \in Int /\ WIDTH \in Nat \ {0}
  BY Sizes DEF Counter
<1>2. Cnt(r, w) \in 0 .. WIDTH - 1
  BY <1>1, ModDiv DEF Cnt
<1>3. CASE w >= r
  <2>1. w - r \in 0 .. WIDTH - 1 /\ w - r = 0 * WIDTH + (w - r)
    BY <1>1, <1>3 DEF Counter
  <2>2. Cnt(r, w) = w - r
    BY <1>1, <2>1, ModUnique DEF Cnt
  <2> QED BY <1>1, <1>2, <2>2 DEF Counter
<1>4. CASE w < r
  <2>1. w - r + WIDTH \in 0 .. WIDTH - 1 /\ w - r = (-1) * WIDTH + (w - r + WIDTH)
    BY <1>1, <1>4 DEF Counter
  <2>2. Cnt(r, w) = w - r + WIDTH
    BY <1>1, <2>1, ModUnique DEF Cnt
  <2> QED BY <1>1, <1>2, <2>2 DEF Counter
<1> QED BY <1>1, <1>3, <1>4

\* k bytes more have been written.
LEMMA CntWrite ==
  ASSUME NEW r \in Counter, NEW w \in Counter, NEW k \in Nat, Cnt(r, w) + k <= PIPESIZE
  PROVE  /\ (w + k) % WIDTH \in Counter
         /\ Cnt(r, (w + k) % WIDTH) = Cnt(r, w) + k
<1>1. /\ w - r \in Int /\ r \in Int /\ w \in Int /\ w + k \in Int /\ -r \in Int
      /\ WIDTH \in Nat \ {0}
  BY Sizes DEF Counter
<1>2. (w + k) % WIDTH \in Counter /\ (w + k) % WIDTH \in Int
  BY <1>1, ModDiv DEF Counter
<1>3. (((w + k) % WIDTH) + (-r)) % WIDTH = (w + k + (-r)) % WIDTH
  BY <1>1, ModMod
<1>4. (((w - r) % WIDTH) + k) % WIDTH = (w - r + k) % WIDTH
  <2> DEFINE x == w - r
  <2>1. x \in Int /\ k \in Int
    BY <1>1
  <2> HIDE DEF x
  <2>2. ((x % WIDTH) + k) % WIDTH = (x + k) % WIDTH
    BY <1>1, <2>1, ModMod
  <2> QED BY <2>2 DEF x
<1>5. w + k + (-r) = w - r + k
  BY <1>1
<1> DEFINE c == (w - r) % WIDTH
           v == (w + k) % WIDTH
<1>6. c \in Nat /\ c + k \in 0 .. WIDTH - 1 /\ c + k = 0 * WIDTH + (c + k)
  BY CntLemma, Sizes DEF Cnt, Counter
<1>7. (c + k) % WIDTH = c + k
  BY <1>1, <1>6, ModUnique
<1>8. v - r = v + (-r)
  BY <1>1, <1>2
<1>9. (v - r) % WIDTH = c + k
  BY <1>3, <1>4, <1>5, <1>7, <1>8
<1> QED BY <1>2, <1>9 DEF Cnt

\* k bytes more have been read.
LEMMA CntRead ==
  ASSUME NEW r \in Counter, NEW w \in Counter, NEW k \in 0 .. Cnt(r, w)
  PROVE  /\ (r + k) % WIDTH \in Counter
         /\ Cnt((r + k) % WIDTH, w) = Cnt(r, w) - k
<1>1. /\ w - r \in Int /\ r \in Int /\ w \in Int /\ k \in Nat /\ r + k \in Int /\ -k \in Int
      /\ WIDTH \in Nat \ {0} /\ Cnt(r, w) \in Counter
  BY Sizes, CntLemma DEF Counter
<1> DEFINE c == (w - r) % WIDTH
           v == (r + k) % WIDTH
           d == (r + k) \div WIDTH
<1>2. v \in Counter /\ d \in Int /\ r + k = d * WIDTH + v
  BY <1>1, ModDiv DEF Counter
<1>3. (c + (-k)) % WIDTH = (w - r + (-k)) % WIDTH
  BY <1>1, ModMod
<1>4. c - k \in 0 .. WIDTH - 1 /\ c + (-k) = 0 * WIDTH + (c - k) /\ c + (-k) \in Int
  BY <1>1 DEF Cnt, Counter
<1>5. (c + (-k)) % WIDTH = c - k
  BY <1>1, <1>4, ModUnique
<1> HIDE DEF c, v, d
<1>6. w - v \in Int /\ w - r + (-k) \in Int /\ w - v = (w - r + (-k)) + d * WIDTH
  BY <1>1, <1>2 DEF Counter
<1>7. (w - v) % WIDTH = (w - r + (-k)) % WIDTH
  BY <1>1, <1>2, <1>6, ModAdd
<1>8. Cnt(v, w) = c - k
  BY <1>3, <1>5, <1>7 DEF Cnt
<1> QED BY <1>2, <1>8 DEF Cnt, c, v

\* How far the byte i after nread is from nwrite, in the buffer.
LEMMA RingPlace ==
  ASSUME NEW r \in Counter, NEW w \in Counter, NEW i \in Int
  PROVE  /\ (r + i) % PIPESIZE \in 0 .. PIPESIZE - 1
         /\ (((r + i) % PIPESIZE) - w) % PIPESIZE = (i - Cnt(r, w)) % PIPESIZE
<1>1. /\ r \in Int /\ w \in Int /\ r + i \in Int /\ -w \in Int /\ w - r \in Int
      /\ WIDTH \in Nat \ {0} /\ PIPESIZE \in Nat \ {0} /\ WIDTH % PIPESIZE = 0
      /\ Cnt(r, w) \in Int
  BY Sizes, CntLemma DEF Counter
<1> DEFINE x == (r + i) % PIPESIZE
           c == Cnt(r, w)
           q == (w - r) \div WIDTH
           m == WIDTH \div PIPESIZE
<1>2. x \in 0 .. PIPESIZE - 1 /\ x \in Int
  BY <1>1, ModDiv
<1>3. (x + (-w)) % PIPESIZE = (r + i + (-w)) % PIPESIZE
  BY <1>1, ModMod
<1>4. q \in Int /\ w - r = q * WIDTH + c
  BY <1>1, ModDiv DEF Cnt
<1>5. m \in Int /\ WIDTH = m * PIPESIZE
  BY <1>1, ModDiv
<1> HIDE DEF x, c, q, m
<1>6. c \in Int
  BY <1>1 DEF c
<1>7. q * WIDTH = (q * m) * PIPESIZE
  BY <1>1, <1>4, <1>5
<1>8. /\ q * m \in Int /\ -(q * m) \in Int /\ i - c \in Int /\ r + i + (-w) \in Int
      /\ (-(q * m)) * PIPESIZE = -((q * m) * PIPESIZE) /\ (q * m) * PIPESIZE \in Int
  BY <1>1, <1>4, <1>5, <1>6
<1>9. r + i + (-w) = (i - c) + (-(q * m)) * PIPESIZE
  BY <1>1, <1>4, <1>6, <1>7, <1>8
<1>10. (r + i + (-w)) % PIPESIZE = (i - c) % PIPESIZE
  BY <1>1, <1>8, <1>9, ModAdd
<1>11. x - w = x + (-w)
  BY <1>1, <1>2
<1>12. (x - w) % PIPESIZE = (i - c) % PIPESIZE
  BY <1>3, <1>10, <1>11
<1> QED BY <1>2, <1>12 DEF x, c

\* Sequences are equal if they have the same length and the same elements.
LEMMA SeqEqual ==
  ASSUME NEW S, NEW s \in Seq(S), NEW t \in Seq(S), Len(s) = Len(t),
         \A i \in 1 .. Len(s) : s[i] = t[i]
  PROVE  s = t
  OBVIOUS

LEMMA RingType ==
  ASSUME NEW d \in Buffer, NEW r \in Counter, NEW w \in Counter
  PROVE  Ring(d, r, w) \in Seq(Byte) /\ Len(Ring(d, r, w)) = Cnt(r, w)
<1>1. Cnt(r, w) \in Nat
  BY CntLemma
<1>2. ASSUME NEW k \in 1 .. Cnt(r, w)
      PROVE  d[(r + k - 1) % PIPESIZE] \in Byte
  <2>1. k - 1 \in Int /\ r + (k - 1) = r + k - 1
    BY <1>1 DEF Counter
  <2>2. (r + k - 1) % PIPESIZE \in 0 .. PIPESIZE - 1
    BY <2>1, RingPlace
  <2> QED BY <2>2 DEF Buffer
<1> QED BY <1>1, <1>2 DEF Ring

LEMMA CopyType ==
  ASSUME NEW d \in Buffer, NEW s \in Seq(Byte), NEW w \in Counter
  PROVE  Copy(d, s, w) \in Buffer
<1> SUFFICES ASSUME NEW k \in 0 .. PIPESIZE - 1
             PROVE  LET j == (k - w) % PIPESIZE
                    IN  (IF j < Len(s) THEN s[j + 1] ELSE d[k]) \in Byte
  BY DEF Copy, Buffer
<1>1. k - w \in Int /\ PIPESIZE \in Nat \ {0}
  BY Sizes DEF Counter
<1>2. (k - w) % PIPESIZE \in Nat
  BY <1>1, ModDiv
<1> QED BY <1>2 DEF Buffer

\* pipewrite() appends what it copies.
LEMMA RingWrite ==
  ASSUME NEW d \in Buffer, NEW r \in Counter, NEW w \in Counter, NEW s \in Seq(Byte),
         Cnt(r, w) + Len(s) <= PIPESIZE
  PROVE  Ring(Copy(d, s, w), r, (w + Len(s)) % WIDTH) = Ring(d, r, w) \o s
<1> DEFINE e == Copy(d, s, w)
           v == (w + Len(s)) % WIDTH
           c == Cnt(r, w)
           n == Len(s)
<1>1. /\ v \in Counter /\ Cnt(r, v) = c + n /\ c \in Nat /\ n \in Nat
      /\ PIPESIZE \in Nat \ {0}
  BY CntWrite, CntLemma, Sizes
<1>2. e \in Buffer
  BY CopyType
<1>3. /\ Ring(e, r, v) \in Seq(Byte) /\ Len(Ring(e, r, v)) = c + n
      /\ Ring(d, r, w) \in Seq(Byte) /\ Len(Ring(d, r, w)) = c
  BY <1>1, <1>2, RingType
<1>4. Ring(d, r, w) \o s \in Seq(Byte) /\ Len(Ring(d, r, w) \o s) = c + n
  BY <1>3
<1>5. ASSUME NEW i \in 1 .. c + n
      PROVE  Ring(e, r, v)[i] = (Ring(d, r, w) \o s)[i]
  <2> DEFINE x == (r + i - 1) % PIPESIZE
             j == (x - w) % PIPESIZE
  <2>1. i - 1 \in Int /\ r + (i - 1) = r + i - 1 /\ i - 1 - c \in Int
    BY <1>1 DEF Counter
  <2>2. x \in 0 .. PIPESIZE - 1 /\ j = (i - 1 - c) % PIPESIZE
    BY <2>1, RingPlace
  <2>3. Ring(e, r, v)[i] = e[x]
    BY <1>1 DEF Ring
  <2>4. e[x] = IF j < n THEN s[j + 1] ELSE d[x]
    BY <2>2 DEF Copy
  <2>5. i <= c => Ring(d, r, w)[i] = d[x]
    BY <1>1 DEF Ring
  <2> HIDE DEF e, v, c, n, x, j
  <2>6. CASE i <= c
    <3>1. /\ i - 1 - c + PIPESIZE \in 0 .. PIPESIZE - 1
          /\ i - 1 - c = (-1) * PIPESIZE + (i - 1 - c + PIPESIZE)
      BY <1>1, <2>1, <2>6 DEF c, n
    <3>2. j = i - 1 - c + PIPESIZE
      BY <1>1, <2>1, <2>2, <3>1, ModUnique
    <3>3. ~(j < n)
      BY <1>1, <3>2 DEF c, n
    <3>4. (Ring(d, r, w) \o s)[i] = Ring(d, r, w)[i]
      BY <1>3, <2>6 DEF c, n
    <3> QED BY <2>3, <2>4, <2>5, <2>6, <3>3, <3>4
  <2>7. CASE i > c
    <3>1. i - 1 - c \in 0 .. PIPESIZE - 1 /\ i - 1 - c = 0 * PIPESIZE + (i - 1 - c)
      BY <1>1, <2>1, <2>7 DEF c, n
    <3>2. (i - 1 - c) % PIPESIZE = i - 1 - c
      <4> DEFINE y == i - 1 - c
      <4>1. y \in 0 .. PIPESIZE - 1 /\ y = 0 * PIPESIZE + y /\ y \in Int /\ 0 \in Int
        BY <1>1, <2>1, <3>1
      <4> HIDE DEF y
      <4>2. y % PIPESIZE = y
        BY <1>1, <4>1, ModUnique
      <4> QED BY <4>2 DEF y
    <3>3. j < n /\ j + 1 = i - c
      BY <1>1, <2>1, <2>2, <3>2
    <3>4. (Ring(d, r, w) \o s)[i] = s[i - c]
      BY <1>3, <2>7 DEF c, n
    <3> QED BY <2>3, <2>4, <3>3, <3>4
  <2>8. i <= c \/ i > c
    BY <1>1
  <2> QED BY <2>6, <2>7, <2>8
<1> HIDE DEF e, v, c, n
<1>6. Ring(e, r, v) = Ring(d, r, w) \o s
  BY <1>3, <1>4, <1>5, SeqEqual
<1> QED BY <1>6 DEF e, v, n

\* piperead() takes away what it returns.
LEMMA RingRead ==
  ASSUME NEW d \in Buffer, NEW r \in Counter, NEW w \in Counter, NEW k \in 0 .. Cnt(r, w)
  PROVE  LET q == Ring(d, r, w)
         IN  /\ [j \in 1 .. k |-> d[(r + j - 1) % PIPESIZE]] = SubSeq(q, 1, k)
             /\ Ring(d, (r + k) % WIDTH, w) = SubSeq(q, k + 1, Len(q))
<1> DEFINE q == Ring(d, r, w)
           v == (r + k) % WIDTH
           c == Cnt(r, w)
<1>1. /\ v \in Counter /\ Cnt(v, w) = c - k /\ c \in Nat /\ k \in Nat /\ k <= c
      /\ PIPESIZE \in Nat \ {0} /\ WIDTH \in Nat \ {0} /\ WIDTH % PIPESIZE = 0
  BY CntRead, CntLemma, Sizes
<1>2. /\ q \in Seq(Byte) /\ Len(q) = c
      /\ Ring(d, v, w) \in Seq(Byte) /\ Len(Ring(d, v, w)) = c - k
  BY <1>1, RingType
<1>3. \A i \in 1 .. c : q[i] = d[(r + i - 1) % PIPESIZE]
  BY DEF Ring
<1>4. [j \in 1 .. k |-> d[(r + j - 1) % PIPESIZE]] = SubSeq(q, 1, k)
  <2> DEFINE g == [j \in 1 .. k |-> d[(r + j - 1) % PIPESIZE]]
  <2> HIDE DEF q, c
  <2>1. SubSeq(q, 1, k) \in Seq(Byte) /\ Len(SubSeq(q, 1, k)) = k
    BY <1>1, <1>2
  <2>2. \A j \in 1 .. k : SubSeq(q, 1, k)[j] = q[j] /\ j \in 1 .. c
    BY <1>1, <1>2
  <2>3. \A j \in 1 .. k : g[j] = q[j] /\ q[j] \in Byte
    BY <1>2, <1>3, <2>2
  <2>4. g \in Seq(Byte) /\ Len(g) = k
    BY <1>1, <2>3
  <2> HIDE DEF g
  <2>5. g = SubSeq(q, 1, k)
    BY <2>1, <2>2, <2>3, <2>4, SeqEqual
  <2> QED BY <2>5 DEF g
<1>5. Ring(d, v, w) = SubSeq(q, k + 1, Len(q))
  <2>1. ASSUME NEW i \in 1 .. c - k PROVE Ring(d, v, w)[i] = q[k + i]
    <3>1. Ring(d, v, w)[i] = d[(v + i - 1) % PIPESIZE]
      BY <1>1 DEF Ring
    <3>2. r + k \in Int /\ i - 1 \in Int /\ v + (i - 1) = v + i - 1
          /\ r + k + (i - 1) = r + (k + i) - 1 /\ k + i \in 1 .. c
      BY <1>1 DEF Counter
    <3>3. (((r + k) % WIDTH) + (i - 1)) % PIPESIZE = (r + k + (i - 1)) % PIPESIZE
      <4> DEFINE x == r + k
                 y == i - 1
      <4>1. x \in Int /\ y \in Int
        BY <3>2
      <4> HIDE DEF x, y, v, c, q
      <4>2. ((x % WIDTH) + y) % PIPESIZE = (x + y) % PIPESIZE
        BY <1>1, <4>1, ModDivides
      <4> QED BY <4>2 DEF x, y
    <3>4. (v + i - 1) % PIPESIZE = (r + (k + i) - 1) % PIPESIZE
      BY <3>2, <3>3
    <3> HIDE DEF q, c, v
    <3> QED BY <1>3, <3>1, <3>2, <3>4
  <2> HIDE DEF q, c, v
  <2>2. /\ SubSeq(q, k + 1, c) \in Seq(Byte) /\ Len(SubSeq(q, k + 1, c)) = c - k
        /\ \A i \in 1 .. c - k : SubSeq(q, k + 1, c)[i] = q[k + i]
    BY <1>1, <1>2
  <2>3. Ring(d, v, w) = SubSeq(q, k + 1, c)
    BY <1>2, <2>1, <2>2, SeqEqual
  <2> QED BY <1>2, <2>3
<1> QED BY <1>4, <1>5

-----------------------------------------------------------------------------
(* What the steps do to the buffer *)

LEMMA CountLemma ==
  ASSUME TypeOK
  PROVE  /\ Count = Cnt(nread, nwrite) /\ Contents = Ring(data, nread, nwrite)
         /\ Count \in 0 .. PIPESIZE /\ Room \in 0 .. PIPESIZE /\ Count + Room = PIPESIZE
         /\ Count = 0 <=> nread = nwrite
         /\ Contents \in Seq(Byte) /\ Len(Contents) = Count
<1>1. data \in Buffer /\ nread \in Counter /\ nwrite \in Counter
  BY DEF TypeOK, Buffer, Counter
<1>2. Count = Cnt(nread, nwrite) /\ Contents = Ring(data, nread, nwrite)
  BY DEF Count, Contents, Cnt, Ring
<1>3. Count \in Nat /\ Count <= PIPESIZE
  BY <1>1, <1>2, CntLemma DEF TypeOK, Count
<1>4. Count \in 0 .. PIPESIZE /\ Room \in 0 .. PIPESIZE /\ Count + Room = PIPESIZE
  BY <1>3, Sizes DEF Room
<1>5. Count = 0 <=> nread = nwrite
  BY <1>1, <1>2, CntLemma
<1>6. Contents \in Seq(Byte) /\ Len(Contents) = Count
  BY <1>1, <1>2, RingType
<1> QED BY <1>2, <1>4, <1>5, <1>6

\* The bytes that pipewrite() copies and piperead() takes.
Copied(p) == Min({Room, Len(todo[p])})
Taken(n) == Min({Count, n})

LEMMA WriteBuffer ==
  ASSUME TypeOK, NEW p \in Proc, pipewrite(p)
  PROVE  LET k == Copied(p)
         IN  /\ k \in 0 .. Len(todo[p]) /\ k <= Room
             /\ k # Len(todo[p]) => k = Room
             /\ data' \in Buffer /\ nwrite' \in Counter /\ nread' = nread
             /\ Count' = Count + k
             /\ Contents' = Contents \o SubSeq(todo[p], 1, k)
<1> DEFINE k == Copied(p)
           s == SubSeq(todo[p], 1, k)
<1>1. /\ data \in Buffer /\ nread \in Counter /\ nwrite \in Counter
      /\ todo[p] \in Seq(Byte) /\ Len(todo[p]) \in Nat
  BY DEF TypeOK, Buffer, Counter
<1>2. Room \in Nat /\ Count \in Nat /\ Count + Room = PIPESIZE /\ PIPESIZE \in Nat
  BY CountLemma, Sizes
<1>3. k = IF Room <= Len(todo[p]) THEN Room ELSE Len(todo[p])
  BY <1>1, <1>2, MinLemma DEF Copied
<1>4. data' = Copy(data, s, nwrite) /\ nwrite' = (nwrite + k) % WIDTH /\ nread' = nread
  BY DEF pipewrite, Copied
<1> HIDE DEF k
<1>5. k \in 0 .. Len(todo[p]) /\ k <= Room /\ (k # Len(todo[p]) => k = Room) /\ k \in Nat
  BY <1>1, <1>2, <1>3
<1>6. s \in Seq(Byte) /\ Len(s) = k
  BY <1>1, <1>5
<1>7. Count = Cnt(nread, nwrite) /\ Contents = Ring(data, nread, nwrite)
  BY CountLemma
<1> HIDE DEF s
<1>8. Cnt(nread, nwrite) + k <= PIPESIZE
  BY <1>2, <1>5, <1>7
<1>9. nwrite' \in Counter /\ Cnt(nread, nwrite') = Count + k
  BY <1>1, <1>4, <1>5, <1>7, <1>8, CntWrite
<1>10. data' \in Buffer
  BY <1>1, <1>4, <1>6, CopyType
<1>11. Ring(data', nread, nwrite') = Contents \o s
  BY <1>1, <1>4, <1>6, <1>7, <1>8, RingWrite
<1>12. Count' = Cnt(nread, nwrite') /\ Contents' = Ring(data', nread, nwrite')
  BY <1>4 DEF Count, Contents, Cnt, Ring
<1> QED BY <1>4, <1>5, <1>9, <1>10, <1>11, <1>12 DEF k, s

LEMMA ReadBuffer ==
  ASSUME TypeOK, NEW p \in Proc, NEW n \in Nat, piperead(p, n)
  PROVE  LET k == Taken(n)
         IN  /\ k \in 0 .. Count
             /\ data' = data /\ nread' \in Counter /\ nwrite' = nwrite
             /\ Count' = Count - k
             /\ got' = SubSeq(Contents, 1, k)
             /\ Contents' = SubSeq(Contents, k + 1, Len(Contents))
<1> DEFINE k == Taken(n)
<1>1. data \in Buffer /\ nread \in Counter /\ nwrite \in Counter
  BY DEF TypeOK, Buffer, Counter
<1>2. /\ Count \in Nat /\ Count = Cnt(nread, nwrite)
      /\ Contents = Ring(data, nread, nwrite)
  BY CountLemma
<1>3. k = IF Count <= n THEN Count ELSE n
  BY <1>2, MinLemma DEF Taken
<1>4. /\ got' = [j \in 1 .. k |-> data[(nread + j - 1) % PIPESIZE]]
      /\ nread' = (nread + k) % WIDTH /\ data' = data /\ nwrite' = nwrite
  BY DEF piperead, Taken
<1> HIDE DEF k
<1>5. k \in 0 .. Count /\ k \in 0 .. Cnt(nread, nwrite)
  BY <1>2, <1>3
<1>6. nread' \in Counter /\ Cnt(nread', nwrite) = Count - k
  BY <1>1, <1>2, <1>4, <1>5, CntRead
<1>7. /\ got' = SubSeq(Contents, 1, k)
      /\ Ring(data, nread', nwrite) = SubSeq(Contents, k + 1, Len(Contents))
  BY <1>1, <1>2, <1>4, <1>5, RingRead
<1>8. Count' = Cnt(nread', nwrite) /\ Contents' = Ring(data, nread', nwrite)
  BY <1>4 DEF Count, Contents, Cnt, Ring
<1> QED BY <1>4, <1>5, <1>6, <1>7, <1>8 DEF k

-----------------------------------------------------------------------------
(* The steps keep the invariant *)

LEMMA InitIInv == Init => IInv
<1> SUFFICES ASSUME Init PROVE IInv
  OBVIOUS
<1>1. 0 \in Counter /\ Cnt(0, 0) = 0 /\ PIPESIZE \in Nat
  BY Sizes, CntLemma DEF Counter
<1>2. Count = 0
  BY <1>1 DEF Init, Count, Cnt
<1>3. TypeOK
  <2>1. data \in [0 .. PIPESIZE - 1 -> Byte]
    BY DEF Init
  <2>2. nread \in 0 .. WIDTH - 1 /\ nwrite \in 0 .. WIDTH - 1
    BY <1>1 DEF Init, Counter
  <2>3. (nwrite - nread) % WIDTH <= PIPESIZE
    BY <1>1, <1>2 DEF Count
  <2>4. /\ {readopen, writeopen, freed} \subseteq BOOLEAN
        /\ readers \subseteq Proc /\ writers \subseteq Proc /\ lock \in Proc \cup {NULL}
    BY DEF Init
  <2>5. /\ pc \in [Proc -> Places] /\ todo \in [Proc -> Seq(Byte)] /\ got \in Seq(Byte)
    BY DEF Init, Places
  <2>6. killed \in [Proc -> BOOLEAN]
    BY DEF Init
  <2> QED BY <2>1, <2>2, <2>3, <2>4, <2>5, <2>6 DEF TypeOK
<1>4. EndsRight
  BY DEF Init, EndsRight
<1>5. LockRight
  BY PipeAssumption DEF Init, LockRight
<1>6. SleepsForCause
  BY DEF Init, SleepsForCause
<1> QED BY <1>3, <1>4, <1>5, <1>6 DEF IInv

\* A freed pipe is out of use.
LEMMA FreedIdle ==
  ASSUME TypeOK, EndsRight, freed
  PROVE  /\ ~readopen /\ ~writeopen /\ readers = {} /\ writers = {}
         /\ \A p \in Proc : pc[p] = "idle"
<1>1. ~readopen /\ ~writeopen /\ readers = {} /\ writers = {}
  BY DEF EndsRight
<1>2. ASSUME NEW p \in Proc PROVE pc[p] = "idle"
  BY <1>1 DEF TypeOK, EndsRight, Places
<1> QED BY <1>1, <1>2

\* The steps that leave the buffer alone keep Count.
LEMMA CountSame ==
  ASSUME UNCHANGED bufVars
  PROVE  Count' = Count /\ Contents' = Contents
  BY DEF bufVars, Count, Contents

LEMMA AllocStep ==
  ASSUME IInv, NEW p \in Proc, pipealloc(p)
  PROVE  IInv'
<1>1. /\ UNCHANGED <<data, todo, got, lock, pc, killed>>
      /\ ~freed' /\ readopen' /\ writeopen' /\ nread' = 0 /\ nwrite' = 0
      /\ readers' = {p} /\ writers' = {p} /\ freed
      /\ freed' \in BOOLEAN /\ readopen' \in BOOLEAN /\ writeopen' \in BOOLEAN
  BY DEF pipealloc, callVars
<1>2. \A q \in Proc : pc[q] = "idle" /\ pc'[q] = "idle"
  BY <1>1, FreedIdle DEF IInv
<1>3. 0 \in Counter /\ Cnt(0, 0) = 0 /\ PIPESIZE \in Nat
  BY Sizes, CntLemma DEF Counter
<1>4. (nwrite' - nread') % WIDTH <= PIPESIZE
  BY <1>1, <1>3 DEF Cnt
<1>5. TypeOK'
  BY <1>1, <1>3, <1>4 DEF IInv, TypeOK, Counter
<1>6. EndsRight'
  BY <1>1, <1>2 DEF EndsRight
<1>7. LockRight'
  BY <1>1, <1>2 DEF IInv, LockRight
<1>8. SleepsForCause'
  BY <1>2 DEF SleepsForCause
<1> QED BY <1>5, <1>6, <1>7, <1>8 DEF IInv

LEMMA ForkStep ==
  ASSUME IInv, NEW p \in Proc, NEW q \in Proc, Fork(p, q)
  PROVE  IInv'
<1>1. /\ UNCHANGED <<data, nread, nwrite, readopen, writeopen, freed, todo, got, lock, pc, killed>>
      /\ readers' = IF p \in readers THEN readers \cup {q} ELSE readers
      /\ writers' = IF p \in writers THEN writers \cup {q} ELSE writers
  BY DEF Fork, bufVars, callVars
<1>2. Count' = Count
  BY <1>1, CountSame DEF bufVars
<1>3. TypeOK'
  BY <1>1 DEF IInv, TypeOK
<1>4. EndsRight'
  <2>1. /\ readers = {} => readers' = {} /\ readers \subseteq readers'
        /\ writers = {} => writers' = {} /\ writers \subseteq writers'
    BY <1>1
  <2>2. readers \subseteq readers' /\ writers \subseteq writers'
    BY <1>1
  <2> QED BY <1>1, <2>1, <2>2 DEF IInv, EndsRight
<1>5. LockRight'
  BY <1>1, <1>2 DEF IInv, LockRight
<1>6. SleepsForCause'
  BY <1>1, <1>2 DEF IInv, SleepsForCause
<1> QED BY <1>3, <1>4, <1>5, <1>6 DEF IInv

LEMMA CloseReadStep ==
  ASSUME IInv, NEW p \in Proc, CloseReadEnd(p)
  PROVE  IInv'
<1>1. /\ UNCHANGED <<data, nread, nwrite, readopen, writeopen, freed, writers, todo, got, lock, killed>>
      /\ readers' = readers \ {p} /\ p \in readers /\ pc[p] = "idle"
  BY DEF CloseReadEnd, bufVars, callVars
<1>2. Count' = Count
  BY <1>1, CountSame DEF bufVars
<1>3. /\ pc' \in [Proc -> Places]
      /\ \A q \in Proc : q # p => pc'[q] = pc[q]
      /\ pc'[p] = IF readers = {p} THEN "closeR" ELSE "idle"
  BY DEF CloseReadEnd, IInv, TypeOK, Places
<1>4. TypeOK'
  BY <1>1, <1>3 DEF IInv, TypeOK
<1>5. EndsRight'
  <2>1. readopen /\ \A q \in Proc : pc[q] # "closeR"
    BY <1>1 DEF IInv, EndsRight
  <2> QED BY <1>1, <1>3, <2>1 DEF IInv, EndsRight
<1>6. LockRight'
  BY <1>1, <1>2, <1>3 DEF IInv, LockRight
<1>7. SleepsForCause'
  BY <1>1, <1>2, <1>3 DEF IInv, SleepsForCause
<1> QED BY <1>4, <1>5, <1>6, <1>7 DEF IInv

LEMMA CloseWriteStep ==
  ASSUME IInv, NEW p \in Proc, CloseWriteEnd(p)
  PROVE  IInv'
<1>1. /\ UNCHANGED <<data, nread, nwrite, readopen, writeopen, freed, readers, todo, got, lock, killed>>
      /\ writers' = writers \ {p} /\ p \in writers /\ pc[p] = "idle"
  BY DEF CloseWriteEnd, bufVars, callVars
<1>2. Count' = Count
  BY <1>1, CountSame DEF bufVars
<1>3. /\ pc' \in [Proc -> Places]
      /\ \A q \in Proc : q # p => pc'[q] = pc[q]
      /\ pc'[p] = IF writers = {p} THEN "closeW" ELSE "idle"
  BY DEF CloseWriteEnd, IInv, TypeOK, Places
<1>4. TypeOK'
  BY <1>1, <1>3 DEF IInv, TypeOK
<1>5. EndsRight'
  <2>1. writeopen /\ \A q \in Proc : pc[q] # "closeW"
    BY <1>1 DEF IInv, EndsRight
  <2> QED BY <1>1, <1>3, <2>1 DEF IInv, EndsRight
<1>6. LockRight'
  BY <1>1, <1>2, <1>3 DEF IInv, LockRight
<1>7. SleepsForCause'
  BY <1>1, <1>2, <1>3 DEF IInv, SleepsForCause
<1> QED BY <1>4, <1>5, <1>6, <1>7 DEF IInv

LEMMA PipecloseStep ==
  ASSUME IInv, NEW p \in Proc, pipeclose(p)
  PROVE  IInv'
<1>1. /\ UNCHANGED <<data, nread, nwrite, readers, writers, todo, got, lock, killed>>
      /\ lock = NULL /\ pc[p] \in {"closeR", "closeW"}
  BY DEF pipeclose, bufVars, callVars
<1>2. Count' = Count
  BY <1>1, CountSame DEF bufVars
<1>3. /\ freed' \in BOOLEAN /\ readopen' \in BOOLEAN /\ writeopen' \in BOOLEAN
      /\ freed' <=> ~readopen' /\ ~writeopen'
      /\ pc[p] = "closeW" => ~writeopen' /\ readopen' = readopen
      /\ pc[p] = "closeR" => ~readopen' /\ writeopen' = writeopen
  BY <1>1 DEF pipeclose, IInv, TypeOK
<1>4. /\ pc' \in [Proc -> Places] /\ pc'[p] = "idle"
      /\ pc[p] = "closeW" => \A q \in Proc : q # p =>
           pc'[q] = IF pc[q] = "asleepR" THEN "read" ELSE pc[q]
      /\ pc[p] = "closeR" => \A q \in Proc : q # p =>
           pc'[q] = IF pc[q] = "asleepW" THEN "write" ELSE pc[q]
  BY <1>1 DEF pipeclose, WakeReaders, WakeWriters, wakeup, IInv, TypeOK, Places
<1>5. \A q \in Proc : pc[q] \notin {"full", "empty"}
  BY <1>1, PipeAssumption DEF IInv, LockRight
<1>6. TypeOK'
  BY <1>1, <1>3, <1>4 DEF IInv, TypeOK
<1>7. EndsRight'
  BY <1>1, <1>3, <1>4 DEF IInv, EndsRight
<1>8. LockRight'
  <2>1. \A q \in Proc : pc'[q] \notin {"full", "empty"} /\ lock' # q
    BY <1>1, <1>4, <1>5, PipeAssumption
  <2> QED BY <2>1 DEF LockRight
<1>9. SleepsForCause'
  BY <1>1, <1>2, <1>3, <1>4 DEF IInv, SleepsForCause
<1> QED BY <1>6, <1>7, <1>8, <1>9 DEF IInv

\* A process that is idle begins a call and holds the end that the call uses.
LEMMA BeginWriteStep ==
  ASSUME IInv, NEW p \in Proc, NEW s \in Writes, BeginWrite(p, s)
  PROVE  IInv'
<1>1. /\ UNCHANGED <<data, nread, nwrite, readopen, writeopen, freed, readers, writers, got, lock, killed>>
      /\ p \in writers /\ pc[p] = "idle"
  BY DEF BeginWrite, bufVars, endVars
<1>2. Count' = Count
  BY <1>1, CountSame DEF bufVars
<1>3. /\ pc' \in [Proc -> Places] /\ pc'[p] = "write"
      /\ \A q \in Proc : q # p => pc'[q] = pc[q]
  BY DEF BeginWrite, IInv, TypeOK, Places
<1>4. todo' \in [Proc -> Seq(Byte)]
  BY PipeAssumption DEF BeginWrite, IInv, TypeOK
<1>5. TypeOK'
  BY <1>1, <1>3, <1>4 DEF IInv, TypeOK
<1>6. EndsRight'
  BY <1>1, <1>3 DEF IInv, EndsRight
<1>7. LockRight'
  BY <1>1, <1>2, <1>3 DEF IInv, LockRight
<1>8. SleepsForCause'
  BY <1>1, <1>2, <1>3 DEF IInv, SleepsForCause
<1> QED BY <1>5, <1>6, <1>7, <1>8 DEF IInv

LEMMA BeginReadStep ==
  ASSUME IInv, NEW p \in Proc, BeginRead(p)
  PROVE  IInv'
<1>1. /\ UNCHANGED <<data, nread, nwrite, readopen, writeopen, freed, readers, writers, todo, got, lock, killed>>
      /\ p \in readers /\ pc[p] = "idle"
  BY DEF BeginRead, bufVars, endVars, callVars
<1>2. Count' = Count
  BY <1>1, CountSame DEF bufVars
<1>3. /\ pc' \in [Proc -> Places] /\ pc'[p] = "read"
      /\ \A q \in Proc : q # p => pc'[q] = pc[q]
  BY DEF BeginRead, IInv, TypeOK, Places
<1>4. TypeOK'
  BY <1>1, <1>3 DEF IInv, TypeOK
<1>5. EndsRight'
  BY <1>1, <1>3 DEF IInv, EndsRight
<1>6. LockRight'
  BY <1>1, <1>2, <1>3 DEF IInv, LockRight
<1>7. SleepsForCause'
  BY <1>1, <1>2, <1>3 DEF IInv, SleepsForCause
<1> QED BY <1>4, <1>5, <1>6, <1>7 DEF IInv

LEMMA ReadWaitStep ==
  ASSUME IInv, NEW p \in Proc, PipeReadWait(p)
  PROVE  IInv'
<1>1. /\ UNCHANGED <<data, nread, nwrite, readopen, writeopen, freed, readers, writers, todo, got, killed>>
      /\ pc[p] = "read" /\ lock = NULL /\ nread = nwrite /\ writeopen
  BY DEF PipeReadWait, MustWait, bufVars, endVars, callVars
<1>2. Count' = Count /\ Count = 0
  BY <1>1, CountSame, CountLemma DEF bufVars, IInv
<1>3. /\ pc' \in [Proc -> Places]
      /\ \A q \in Proc : q # p => pc'[q] = pc[q]
      /\ \/ pc'[p] = "idle" /\ lock' = NULL
         \/ pc'[p] = "empty" /\ lock' = p
  BY <1>1 DEF PipeReadWait, IInv, TypeOK, Places
<1>4. \A q \in Proc : pc[q] \notin {"full", "empty"} /\ q # NULL
  BY <1>1, PipeAssumption DEF IInv, LockRight
<1>5. TypeOK'
  BY <1>1, <1>3 DEF IInv, TypeOK
<1>6. EndsRight'
  BY <1>1, <1>3 DEF IInv, EndsRight
<1>7. LockRight'
  BY <1>1, <1>2, <1>3, <1>4 DEF LockRight
<1>8. SleepsForCause'
  BY <1>1, <1>2, <1>3 DEF IInv, SleepsForCause
<1> QED BY <1>5, <1>6, <1>7, <1>8 DEF IInv

\* A writer that finds no reader cannot leave one asleep: who sleeps in
\* piperead() holds the read end.
LEMMA WriteStep ==
  ASSUME IInv, NEW p \in Proc, pipewrite(p)
  PROVE  IInv'
<1> DEFINE k == Copied(p)
           done == k = Len(todo[p])
           fail == ~done /\ (~readopen \/ killed[p])
<1>0. TypeOK /\ PIPESIZE \in Nat /\ Len(todo[p]) \in Nat
  BY Sizes DEF IInv, TypeOK
<1>1. /\ UNCHANGED <<readopen, writeopen, freed, readers, writers, got, killed>>
      /\ pc[p] = "write" /\ lock = NULL
  BY DEF pipewrite, endVars
<1>2. /\ k \in 0 .. Len(todo[p]) /\ k <= Room /\ (~done => k = Room)
      /\ data' \in Buffer /\ nwrite' \in Counter /\ nread' = nread /\ Count' = Count + k
  BY <1>0, WriteBuffer
<1>3. Count \in Nat /\ Room \in Nat /\ Count + Room = PIPESIZE
  BY <1>0, CountLemma
<1>4. /\ pc' \in [Proc -> Places] /\ (killed[p] \in BOOLEAN)
      /\ pc'[p] = IF done \/ fail THEN "idle" ELSE "full"
      /\ \A q \in Proc : q # p =>
           pc'[q] = IF ~fail /\ pc[q] = "asleepR" THEN "read" ELSE pc[q]
  <2> DEFINE f == [pc EXCEPT ![p] = IF done \/ fail THEN "idle" ELSE "full"]
  <2>1. pc' = IF fail THEN f ELSE WakeReaders(f)
    BY DEF pipewrite, Copied
  <2> HIDE DEF done, fail, k
  <2>2. pc \in [Proc -> Places]
    BY DEF IInv, TypeOK
  <2>3. /\ f \in [Proc -> Places] /\ f[p] = IF done \/ fail THEN "idle" ELSE "full"
        /\ \A q \in Proc : q # p => f[q] = pc[q]
    BY <2>2 DEF Places
  <2> HIDE DEF f
  <2>4. killed[p] \in BOOLEAN
    BY DEF IInv, TypeOK
  <2> QED BY <2>1, <2>3, <2>4 DEF WakeReaders, wakeup, Places
<1>5. lock' = IF done \/ fail THEN NULL ELSE p
  BY <1>4 DEF pipewrite, Copied, IInv, TypeOK
<1>6. todo' \in [Proc -> Seq(Byte)]
  <2>1. todo[p] \in Seq(Byte) /\ SubSeq(todo[p], k + 1, Len(todo[p])) \in Seq(Byte)
    BY <1>2 DEF IInv, TypeOK
  <2>2. todo' = [todo EXCEPT ![p] = IF fail THEN <<>>
                                    ELSE SubSeq(todo[p], k + 1, Len(todo[p]))]
    BY DEF pipewrite, Copied
  <2> HIDE DEF k, done, fail
  <2> QED BY <2>1, <2>2 DEF IInv, TypeOK
<1>7. ~done /\ ~fail => Count' = PIPESIZE /\ readopen
  BY <1>2, <1>3, <1>0
<1>8. Count' \in Nat /\ Count' <= PIPESIZE /\ (Count = PIPESIZE => Count' = PIPESIZE)
  BY <1>0, <1>2, <1>3
<1>9. fail => ~readopen \/ killed[p]
  OBVIOUS
<1> HIDE DEF k, done, fail
<1>10. \A q \in Proc : pc[q] \notin {"full", "empty"} /\ q # NULL
  BY <1>1, PipeAssumption DEF IInv, LockRight
<1>11. TypeOK'
  <2>1. (nwrite' - nread') % WIDTH <= PIPESIZE
    BY <1>8 DEF Count
  <2>2. lock' \in Proc \cup {NULL}
    BY <1>5
  <2> QED BY <1>1, <1>2, <1>4, <1>6, <2>1, <2>2 DEF IInv, TypeOK, Buffer, Counter
<1>12. EndsRight'
  BY <1>1, <1>4 DEF IInv, EndsRight
<1>13. LockRight'
  BY <1>1, <1>4, <1>5, <1>7, <1>10 DEF LockRight
<1>14. SleepsForCause'
  <2> SUFFICES ASSUME \A q \in Proc : ~killed[q], NEW q \in Proc
               PROVE  /\ pc'[q] = "asleepR" => Count' = 0 /\ writeopen
                      /\ pc'[q] = "asleepW" => Count' = PIPESIZE /\ readopen
    BY <1>1 DEF SleepsForCause
  <2>1. pc'[q] # "asleepR"
    BY <1>4, <1>9 DEF IInv, EndsRight
  <2>2. pc'[q] = "asleepW" => pc[q] = "asleepW"
    BY <1>4
  <2> QED BY <2>1, <2>2, <1>8 DEF IInv, SleepsForCause
<1> QED BY <1>11, <1>12, <1>13, <1>14 DEF IInv

\* Nobody sleeps in piperead() while another reader finds bytes.
LEMMA ReadStep ==
  ASSUME IInv, NEW p \in Proc, NEW n \in Nat, piperead(p, n)
  PROVE  IInv'
<1>0. TypeOK /\ PIPESIZE \in Nat
  BY Sizes DEF IInv
<1>1. /\ UNCHANGED <<readopen, writeopen, freed, readers, writers, todo, lock, killed>>
      /\ pc[p] = "read" /\ lock = NULL /\ ~(nread = nwrite /\ writeopen)
  BY DEF piperead, endVars, MustWait
<1>2. /\ Taken(n) \in 0 .. Count /\ data' = data /\ nread' \in Counter /\ nwrite' = nwrite
      /\ Count' = Count - Taken(n) /\ got' = SubSeq(Contents, 1, Taken(n))
  BY <1>0, ReadBuffer
<1>3. /\ Count \in 0 .. PIPESIZE /\ (Count = 0 <=> nread = nwrite)
      /\ Contents \in Seq(Byte) /\ Len(Contents) = Count
  BY <1>0, CountLemma
<1>4. Count' \in Nat /\ Count' <= PIPESIZE
  BY <1>0, <1>2, <1>3
<1>5. /\ pc' \in [Proc -> Places] /\ pc'[p] = "idle"
      /\ \A q \in Proc : q # p => pc'[q] = IF pc[q] = "asleepW" THEN "write" ELSE pc[q]
  BY DEF piperead, WakeWriters, wakeup, IInv, TypeOK, Places
<1>6. \A q \in Proc : pc[q] \notin {"full", "empty"} /\ q # NULL
  BY <1>1, PipeAssumption DEF IInv, LockRight
<1>7. TypeOK'
  <2>1. (nwrite' - nread') % WIDTH <= PIPESIZE
    BY <1>4 DEF Count
  <2>2. got' \in Seq(Byte)
    BY <1>2, <1>3
  <2> QED BY <1>1, <1>2, <1>5, <2>1, <2>2 DEF IInv, TypeOK, Counter
<1>8. EndsRight'
  BY <1>1, <1>5 DEF IInv, EndsRight
<1>9. LockRight'
  BY <1>1, <1>5, <1>6 DEF LockRight
<1>10. SleepsForCause'
  <2> SUFFICES ASSUME \A q \in Proc : ~killed[q], NEW q \in Proc
               PROVE  pc'[q] # "asleepR" /\ pc'[q] # "asleepW"
    BY <1>1 DEF SleepsForCause
  <2> QED BY <1>1, <1>3, <1>5 DEF IInv, SleepsForCause
<1> QED BY <1>7, <1>8, <1>9, <1>10 DEF IInv

LEMMA SleepStep ==
  ASSUME IInv, NEW p \in Proc, Sleep(p)
  PROVE  IInv'
<1>1. /\ UNCHANGED <<data, nread, nwrite, readopen, writeopen, freed, readers, writers, todo, got, killed>>
      /\ pc[p] \in {"full", "empty"} /\ lock' = NULL
  BY DEF Sleep, bufVars, endVars, callVars
<1>2. Count' = Count
  BY <1>1, CountSame DEF bufVars
<1>3. /\ pc' \in [Proc -> Places]
      /\ \A q \in Proc : q # p => pc'[q] = pc[q]
      /\ pc'[p] = IF pc[p] = "full" THEN "asleepW" ELSE "asleepR"
  BY DEF Sleep, IInv, TypeOK, Places
<1>4. lock = p /\ p # NULL
  BY <1>1, PipeAssumption DEF IInv, LockRight
<1>5. TypeOK'
  BY <1>1, <1>3 DEF IInv, TypeOK
<1>6. EndsRight'
  BY <1>1, <1>3 DEF IInv, EndsRight
<1>7. LockRight'
  <2>1. \A q \in Proc : pc'[q] \notin {"full", "empty"} /\ lock' # q
    BY <1>1, <1>3, <1>4, PipeAssumption DEF IInv, LockRight
  <2> QED BY <2>1 DEF LockRight
<1>8. SleepsForCause'
  BY <1>1, <1>2, <1>3 DEF IInv, SleepsForCause, LockRight
<1> QED BY <1>5, <1>6, <1>7, <1>8 DEF IInv

LEMMA KillStep ==
  ASSUME IInv, NEW p \in Proc, Kill(p)
  PROVE  IInv'
<1>1. UNCHANGED <<data, nread, nwrite, readopen, writeopen, freed, readers, writers, todo, got, lock>>
  BY DEF Kill, bufVars, endVars, callVars
<1>2. Count' = Count
  BY <1>1, CountSame DEF bufVars
<1>3. /\ pc' \in [Proc -> Places]
      /\ \A q \in Proc : q # p => pc'[q] = pc[q]
      /\ pc'[p] = IF pc[p] = "asleepW" THEN "write"
                  ELSE IF pc[p] = "asleepR" THEN "read" ELSE pc[p]
  BY DEF Kill, IInv, TypeOK, Places
<1>4. killed' \in [Proc -> BOOLEAN] /\ killed'[p]
  BY DEF Kill, IInv, TypeOK
<1>5. TypeOK'
  BY <1>1, <1>3, <1>4 DEF IInv, TypeOK
<1>6. EndsRight'
  BY <1>1, <1>3 DEF IInv, EndsRight
<1>7. LockRight'
  BY <1>1, <1>2, <1>3 DEF IInv, LockRight
<1>8. SleepsForCause'
  BY <1>4 DEF SleepsForCause
<1> QED BY <1>5, <1>6, <1>7, <1>8 DEF IInv

LEMMA StutterStep ==
  ASSUME IInv, UNCHANGED vars
  PROVE  IInv'
<1>1. UNCHANGED <<data, nread, nwrite, readopen, writeopen, freed, readers, writers, todo, got,
                  lock, pc, killed>>
  BY DEF vars, bufVars, endVars, callVars
<1>2. Count' = Count
  BY <1>1, CountSame DEF bufVars
<1>3. TypeOK'
  BY <1>1 DEF IInv, TypeOK
<1>4. EndsRight'
  BY <1>1 DEF IInv, EndsRight
<1>5. LockRight' /\ SleepsForCause'
  BY <1>1, <1>2 DEF IInv, LockRight, SleepsForCause
<1> QED BY <1>3, <1>4, <1>5 DEF IInv

LEMMA NextIInv == IInv /\ [Next]_vars => IInv'
<1> SUFFICES ASSUME IInv, [Next]_vars PROVE IInv'
  OBVIOUS
<1>1. CASE UNCHANGED vars
  BY <1>1, StutterStep
<1>2. ASSUME NEW p \in Proc, pipealloc(p) PROVE IInv'
  BY <1>2, AllocStep
<1>3. ASSUME NEW p \in Proc, CloseReadEnd(p) PROVE IInv'
  BY <1>3, CloseReadStep
<1>4. ASSUME NEW p \in Proc, CloseWriteEnd(p) PROVE IInv'
  BY <1>4, CloseWriteStep
<1>5. ASSUME NEW p \in Proc, pipeclose(p) PROVE IInv'
  BY <1>5, PipecloseStep
<1>6. ASSUME NEW p \in Proc, NEW q \in Proc, Fork(p, q) PROVE IInv'
  BY <1>6, ForkStep
<1>7. ASSUME NEW p \in Proc, NEW s \in Writes, BeginWrite(p, s) PROVE IInv'
  BY <1>7, BeginWriteStep
<1>8. ASSUME NEW p \in Proc, pipewrite(p) PROVE IInv'
  BY <1>8, WriteStep
<1>9. ASSUME NEW p \in Proc, BeginRead(p) PROVE IInv'
  BY <1>9, BeginReadStep
<1>10. ASSUME NEW p \in Proc, PipeReadWait(p) PROVE IInv'
  BY <1>10, ReadWaitStep
<1>11. ASSUME NEW p \in Proc, NEW n \in Reads, piperead(p, n) PROVE IInv'
  BY <1>11, ReadStep, PipeAssumption
<1>12. ASSUME NEW p \in Proc, Sleep(p) PROVE IInv'
  BY <1>12, SleepStep
<1>13. ASSUME NEW p \in Proc, Kill(p) PROVE IInv'
  BY <1>13, KillStep
<1> QED BY <1>1, <1>2, <1>3, <1>4, <1>5, <1>6, <1>7, <1>8, <1>9, <1>10, <1>11, <1>12, <1>13
        DEF Next

-----------------------------------------------------------------------------
(* The theorems *)

\* The inductive invariant of the pipe: the types, the open flags against the
\* references to the ends, the lock against the two places before sleep(),
\* and the cause of every sleep.
THEOREM PipeInvariant == Spec => []IInv
<1>1. Init => IInv
  BY InitIInv
<1>2. IInv /\ [Next]_vars => IInv'
  BY NextIInv
<1> QED BY <1>1, <1>2, PTL DEF Spec

\* pipeclose() frees the page of the pipe only when no process holds an end of
\* it and none is inside pipewrite(), piperead() or pipeclose(), however many
\* processes share it, and nwrite - nread never exceeds PIPESIZE although both
\* counters wrap.
THEOREM FreedOnlyUnused == Spec => []FreedUnused
<1>1. IInv => FreedUnused
  BY FreedIdle DEF IInv, FreedUnused
<1> QED BY <1>1, PipeInvariant, PTL

\* As long as nobody is killed, who sleeps in piperead() has an empty pipe that
\* is open for writing, and who sleeps in pipewrite() a full one that is open
\* for reading: no wakeup is missing, for any number of readers and writers.
THEOREM SleepersHaveCause == Spec => []SleepsForCause
<1>1. IInv => SleepsForCause
  BY DEF IInv
<1> QED BY <1>1, PipeInvariant, PTL

\* An empty ring is an empty queue.
LEMMA EmptyRing ==
  ASSUME nread = 0, nwrite = 0
  PROVE  Contents = <<>>
<1>1. 0 \in Counter /\ Cnt(0, 0) = 0
  BY Sizes, CntLemma DEF Counter
<1>2. Count = 0
  BY <1>1 DEF Count, Cnt
<1> QED BY <1>2 DEF Contents

LEMMA ChannelInit == Init => C!Init
<1> SUFFICES ASSUME Init PROVE C!Init
  OBVIOUS
<1>1. Contents = <<>>
  BY EmptyRing DEF Init
<1> QED BY <1>1 DEF Init, C!Init

LEMMA ChannelNext == IInv /\ [Next]_vars => [C!Next]_(C!cvars)
<1> SUFFICES ASSUME IInv, [Next]_vars PROVE [C!Next]_(C!cvars)
  OBVIOUS
<1>0. TypeOK
  BY DEF IInv
<1>1. ASSUME UNCHANGED bufVars, UNCHANGED callVars PROVE UNCHANGED C!cvars
  BY <1>1, CountSame DEF callVars, C!cvars
<1>2. CASE UNCHANGED vars
  BY <1>1, <1>2 DEF vars
<1>3. ASSUME NEW p \in Proc, pipealloc(p) PROVE C!Next
  <2>1. nread' = 0 /\ nwrite' = 0 /\ UNCHANGED <<todo, got>>
    BY <1>3 DEF pipealloc, callVars
  <2>2. 0 \in Counter /\ Cnt(0, 0) = 0
    BY Sizes, CntLemma DEF Counter
  <2>3. Count' = 0
    BY <2>1, <2>2 DEF Count, Cnt
  <2>4. Contents' = <<>>
    BY <2>3 DEF Contents
  <2> QED BY <2>1, <2>4 DEF C!Next, C!Renew
<1>4. ASSUME NEW p \in Proc, NEW s \in Writes, BeginWrite(p, s) PROVE C!Next
  <2>1. todo' = [todo EXCEPT ![p] = s] /\ got' = got /\ Contents' = Contents
    BY <1>4, CountSame DEF BeginWrite
  <2> QED BY <2>1 DEF C!Next, C!Call
<1>5. ASSUME NEW p \in Proc, pipewrite(p) PROVE C!Next
  <2> DEFINE k == Copied(p)
  <2>1. /\ k \in 0 .. Len(todo[p]) /\ k <= Room
        /\ Contents' = Contents \o SubSeq(todo[p], 1, k)
    BY <1>0, <1>5, WriteBuffer
  <2>2. Len(todo[p]) \in Nat /\ Room \in Nat /\ Count \in Nat /\ Count + Room = PIPESIZE
        /\ Len(Contents) = Count
    BY <1>0, CountLemma DEF TypeOK
  <2>3. \/ todo' = [todo EXCEPT ![p] = <<>>]
        \/ todo' = [todo EXCEPT ![p] = SubSeq(todo[p], k + 1, Len(todo[p]))]
    BY <1>5 DEF pipewrite, Copied
  <2>4. got' = got
    BY <1>5 DEF pipewrite
  <2> HIDE DEF k
  <2>5. Len(Contents) + k <= PIPESIZE
    BY <2>1, <2>2
  <2>6. C!Send(p, k)
    BY <2>1, <2>3, <2>4, <2>5 DEF C!Send
  <2> QED BY <2>1, <2>6 DEF C!Next
<1>6. ASSUME NEW p \in Proc, NEW n \in Reads, piperead(p, n) PROVE C!Next
  <2>1. n \in Nat /\ todo' = todo
    BY <1>6, PipeAssumption DEF piperead
  <2>2. /\ Taken(n) \in 0 .. Count /\ got' = SubSeq(Contents, 1, Taken(n))
        /\ Contents' = SubSeq(Contents, Taken(n) + 1, Len(Contents))
    BY <1>0, <1>6, <2>1, ReadBuffer
  <2>3. Len(Contents) = Count
    BY <1>0, CountLemma
  <2>4. C!Receive(Taken(n))
    BY <2>1, <2>2 DEF C!Receive
  <2> QED BY <2>2, <2>3, <2>4 DEF C!Next
<1>7. ASSUME NEW p \in Proc,
             \/ CloseReadEnd(p) \/ CloseWriteEnd(p) \/ pipeclose(p)
             \/ \E q \in Proc : Fork(p, q)
             \/ BeginRead(p) \/ PipeReadWait(p) \/ Sleep(p) \/ Kill(p)
      PROVE  UNCHANGED C!cvars
  <2>1. UNCHANGED bufVars /\ UNCHANGED callVars
    BY <1>7 DEF CloseReadEnd, CloseWriteEnd, pipeclose, Fork, BeginRead, PipeReadWait, Sleep, Kill
  <2> QED BY <1>1, <2>1
<1> QED BY <1>2, <1>3, <1>4, <1>5, <1>6, <1>7 DEF Next

\* The pipe implements the FIFO channel of Channel: the bytes that piperead()
\* returns are those that pipewrite() copied, once each and in order, for any
\* size of the buffer, any width of the counters that it divides, and any
\* number of processes.
THEOREM PipeImplementsChannel == Spec => ImplementsChannel
<1>1. Init => C!Init
  BY ChannelInit
<1>2. IInv /\ [Next]_vars => [C!Next]_(C!cvars)
  BY ChannelNext
<1> QED BY <1>1, <1>2, PipeInvariant, PTL DEF Spec, ImplementsChannel, C!Spec
=============================================================================
