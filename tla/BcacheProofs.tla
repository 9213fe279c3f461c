---------------------------- MODULE BcacheProofs ----------------------------
(***************************************************************************)
(* The buffer cache gives a block one buffer, and a buffer one holder, for *)
(* any number of processes, blocks and buffers: BuffersExclusive.          *)
(*                                                                         *)
(* To be inductive it needs the types, and that every buffer is on the LRU *)
(* list, where bget() looks for one to recycle.                            *)
(***************************************************************************)
EXTENDS Bcache, TLAPS, FiniteSetTheorems, WellFoundedInduction

Labels == {"idle", "get", "asleep", "rw", "io", "done", "have"}

Types ==
  /\ blockno \in [Buf -> Block \cup {NULL}]
  /\ flags \in [Buf -> SUBSET Flag]
  /\ pc \in [Proc -> Labels]
  /\ want \in [Proc -> Block \cup {NULL}]
  /\ buf \in [Proc -> Buf \cup {NULL}]
  /\ \A p \in Proc : pc[p] # "idle" => want[p] \in Block
  /\ \A p \in Proc : Holding(p) => buf[p] \in Buf

AllLinked ==
  /\ lru \in [1 .. Cardinality(Buf) -> Buf]
  /\ \A b \in Buf : \E i \in 1 .. Cardinality(Buf) : lru[i] = b

IInv == Types /\ AllLinked /\ BuffersExclusive

-----------------------------------------------------------------------------
\* A set of places in a list that is not empty has a last one.
LEMMA LastPlace ==
  ASSUME NEW N \in Nat, NEW T, T \subseteq 1 .. N, T # {}
  PROVE  \E x \in T : \A y \in T : y <= x
<1> DEFINE R == OpToRel(<, Nat)
           D == {N - i : i \in T}
<1>1. D \subseteq Nat /\ D # {}
  <2>1. \A i \in T : i \in Int /\ 1 <= i /\ i <= N
    OBVIOUS
  <2>2. \A i \in T : N - i \in Nat
    BY <2>1
  <2>3. PICK t : t \in T
    OBVIOUS
  <2>4. N - t \in D
    BY <2>3
  <2>5. QED
    BY <2>2, <2>4
<1>2. IsWellFoundedOn(R, Nat)
  BY NatLessThanWellFounded
<1> HIDE DEF R
<1>3. PICK d \in D : \A e \in D : <<e, d>> \notin R
  BY <1>1, <1>2, WFMin
<1>4. \A e \in D : ~(e < d)
  BY <1>1, <1>3 DEF R, OpToRel
<1>5. PICK x \in T : d = N - x
  OBVIOUS
<1>6. \A y \in T : N - y \in D
  OBVIOUS
<1>7. \A y \in T : ~(N - y < N - x)
  BY <1>4, <1>5, <1>6
<1>8. \A y \in T : y \in Int
  OBVIOUS
<1>9. \A y \in T : y <= x
  BY <1>5, <1>7, <1>8
<1>10. QED
  BY <1>5, <1>9

LEMMA SizeType == ASSUME BcacheConstants PROVE Cardinality(Buf) \in Nat
  BY FS_CardinalityType DEF BcacheConstants

\* bget() recycles a buffer that is neither busy nor dirty.
LEMMA OldestIsRecyclable ==
  ASSUME BcacheConstants, AllLinked, \E b \in Buf : Recyclable(b)
  PROVE  Oldest \in Buf /\ Recyclable(Oldest)
<1> DEFINE T == {i \in DOMAIN lru : Recyclable(lru[i])}
<1>1. DOMAIN lru = 1 .. Cardinality(Buf) /\ T \subseteq 1 .. Cardinality(Buf) /\ T # {}
  BY DEF AllLinked
<1>2. PICK x \in T : \A y \in T : y <= x
  BY <1>1, SizeType, LastPlace
<1>3. \E i \in DOMAIN lru : Recyclable(lru[i]) /\ \A j \in DOMAIN lru : Recyclable(lru[j]) => j <= i
  BY <1>2
<1>4. QED
  BY <1>1, <1>3 DEF Oldest, AllLinked

\* brelse() keeps all buffers on the list.
LEMMA MoveKeepsAll ==
  ASSUME BcacheConstants, AllLinked, NEW b \in Buf, lru' = MoveToFront(b)
  PROVE  AllLinked'
<1> DEFINE N == Cardinality(Buf)
           at == CHOOSE i \in DOMAIN lru : lru[i] = b
<1>1. N \in Nat /\ DOMAIN lru = 1 .. N
  BY SizeType DEF AllLinked
<1>2. at \in 1 .. N /\ lru[at] = b
  BY <1>1 DEF AllLinked
<1>3. lru' = [i \in 1 .. N |-> IF i = 1 THEN b ELSE IF i <= at THEN lru[i - 1] ELSE lru[i]]
  BY <1>1 DEF MoveToFront
<1> HIDE DEF N, at
<1>4. lru' \in [1 .. N -> Buf]
  BY <1>1, <1>2, <1>3 DEF AllLinked, N
<1>5. ASSUME NEW c \in Buf PROVE \E i \in 1 .. N : lru'[i] = c
  <2>1. PICK j \in 1 .. N : lru[j] = c
    BY DEF AllLinked, N
  <2>2. CASE c = b
    BY <1>1, <1>2, <1>3, <2>2
  <2>3. CASE c # b /\ j < at
    <3>1. j + 1 \in 1 .. N /\ lru'[j + 1] = lru[j]
      BY <1>1, <1>2, <1>3, <2>3
    <3>2. QED
      BY <2>1, <3>1
  <2>4. CASE c # b /\ j > at
    BY <1>1, <1>2, <1>3, <2>1, <2>4
  <2>5. j # at \/ c = b
    BY <1>2, <2>1
  <2>6. QED
    BY <1>1, <1>2, <2>2, <2>3, <2>4, <2>5
<1>6. QED
  BY <1>4, <1>5 DEF AllLinked, N

-----------------------------------------------------------------------------
LEMMA InitInv == ASSUME BcacheConstants, Init PROVE IInv
<1>1. Types
  BY DEF Init, binit, Types, Holding, Labels
<1>2. AllLinked
  BY DEF BcacheConstants, Init, binit, AllLinked
<1>3. BuffersExclusive
  BY DEF Init, binit, BuffersExclusive, Holding
<1>4. QED
  BY <1>1, <1>2, <1>3 DEF IInv

\* wakeup(b) changes no holder.
LEMMA WakeupKeeps ==
  ASSUME Types, NEW f \in [Proc -> Labels], NEW b, NEW p \in Proc
  PROVE  /\ wakeup(f, b) \in [Proc -> Labels]
         /\ wakeup(f, b)[p] \in {"rw", "io", "done", "have"} <=> f[p] \in {"rw", "io", "done", "have"}
         /\ wakeup(f, b)[p] = "idle" <=> f[p] = "idle"
  BY DEF wakeup, Labels

\* What leaves holders, blocks and busy flags alone keeps the invariant.
LEMMA Quiet ==
  ASSUME IInv,
         pc' \in [Proc -> Labels], flags' \in [Buf -> SUBSET Flag], buf' \in [Proc -> Buf \cup {NULL}],
         want' \in [Proc -> Block \cup {NULL}],
         \A p \in Proc : Holding(p)' <=> Holding(p),
         \A p \in Proc : Holding(p) => buf'[p] = buf[p] /\ want'[p] = want[p],
         \A p \in Proc : pc'[p] # "idle" => want'[p] \in Block,
         \A b \in Buf : "BUSY" \in flags'[b] <=> "BUSY" \in flags[b],
         UNCHANGED <<lru, blockno>>
  PROVE  IInv'
<1>1. Types'
  BY DEF IInv, Types
<1>2. AllLinked'
  BY DEF IInv, AllLinked
<1>3. BuffersExclusive'
  BY DEF IInv, BuffersExclusive
<1>4. QED
  BY <1>1, <1>2, <1>3 DEF IInv

\* bget() returns a buffer of the wanted block that nobody holds.
LEMMA Taken ==
  ASSUME IInv, NEW p \in Proc, NEW b \in Buf, NEW fl \in SUBSET Flag,
         pc[p] = "get", "BUSY" \notin flags[b], Take(p, b, fl),
         blockno' = [blockno EXCEPT ![b] = want[p]],
         \A c \in Buf \ {b} : blockno[c] # want[p]
  PROVE  IInv'
<1>1. /\ flags' = [flags EXCEPT ![b] = fl \cup {"BUSY"}] /\ buf' = [buf EXCEPT ![p] = b]
      /\ \E l \in {"have", "rw"} : pc' = [pc EXCEPT ![p] = l]
      /\ UNCHANGED <<lru, want>> /\ want[p] \in Block /\ ~Holding(p)
  BY DEF Take, IInv, Types, Holding
<1>2. \A q \in Proc : Holding(q) => buf[q] # b
  BY DEF IInv, BuffersExclusive
<1>3. /\ \A q \in Proc : Holding(q)' <=> Holding(q) \/ q = p
      /\ buf'[p] = b /\ \A q \in Proc \ {p} : buf'[q] = buf[q]
      /\ "BUSY" \in flags'[b] /\ \A c \in Buf \ {b} : flags'[c] = flags[c]
      /\ blockno'[b] = want[p] /\ \A c \in Buf \ {b} : blockno'[c] = blockno[c]
  BY <1>1 DEF IInv, Types, Holding
<1>4. Types'
  <2>1. flags' \in [Buf -> SUBSET Flag]
    BY <1>1 DEF IInv, Types, Flag
  <2>2. blockno' \in [Buf -> Block \cup {NULL}] /\ buf' \in [Proc -> Buf \cup {NULL}] /\ pc' \in [Proc -> Labels]
    BY <1>1 DEF IInv, Types, Labels
  <2>3. QED
    BY <1>1, <1>3, <2>1, <2>2 DEF IInv, Types
<1>5. AllLinked'
  BY <1>1 DEF IInv, AllLinked
<1>6. BuffersExclusive'
  <2>1. \A c, d \in Buf : blockno'[c] = blockno'[d] /\ blockno'[c] # NULL => c = d
    BY <1>3 DEF IInv, BuffersExclusive
  <2>2. \A c \in Buf : "BUSY" \in flags'[c] <=> \E q \in Proc : Holding(q)' /\ buf'[q] = c
    BY <1>1, <1>3 DEF IInv, BuffersExclusive
  <2>3. \A q, r \in Proc : Holding(q)' /\ Holding(r)' /\ buf'[q] = buf'[r] => q = r
    BY <1>2, <1>3 DEF IInv, BuffersExclusive
  <2>4. \A q \in Proc : Holding(q)' => blockno'[buf'[q]] = want'[q]
    BY <1>1, <1>2, <1>3 DEF IInv, Types, BuffersExclusive
  <2>5. QED
    BY <2>1, <2>2, <2>3, <2>4 DEF BuffersExclusive
<1>7. QED
  BY <1>4, <1>5, <1>6 DEF IInv

\* brelse(): the holder gives the buffer up, and is the only one.
LEMMA Released ==
  ASSUME BcacheConstants, IInv, NEW p \in Proc, brelse(p)
  PROVE  IInv'
<1> DEFINE b == buf[p]
<1>1. /\ b \in Buf /\ Holding(p) /\ lru' = MoveToFront(b)
      /\ flags' = [flags EXCEPT ![b] = @ \ {"BUSY"}]
      /\ pc' = wakeup([pc EXCEPT ![p] = "idle"], b)
      /\ buf' = [buf EXCEPT ![p] = NULL] /\ want' = [want EXCEPT ![p] = NULL] /\ UNCHANGED blockno
  BY DEF brelse, IInv, Types, Holding
<1> HIDE DEF b
<1>2. [pc EXCEPT ![p] = "idle"] \in [Proc -> Labels]
  BY DEF IInv, Types, Labels
<1>3. /\ pc' \in [Proc -> Labels] /\ pc'[p] = "idle"
      /\ \A q \in Proc \ {p} : (Holding(q)' <=> Holding(q)) /\ (pc'[q] = "idle" <=> pc[q] = "idle")
  <2> DEFINE f == [pc EXCEPT ![p] = "idle"]
  <2>1. f \in [Proc -> Labels] /\ f[p] = "idle" /\ \A q \in Proc \ {p} : f[q] = pc[q]
    BY <1>2 DEF IInv, Types
  <2>2. pc' = wakeup(f, b) /\ Types
    BY <1>1 DEF IInv
  <2> HIDE DEF f
  <2>3. \A q \in Proc : /\ pc'[q] \in {"rw", "io", "done", "have"} <=> f[q] \in {"rw", "io", "done", "have"}
                        /\ pc'[q] = "idle" <=> f[q] = "idle"
    BY <2>1, <2>2, WakeupKeeps
  <2>4. pc'[p] = "idle"
    BY <2>1, <2>3
  <2>5. ASSUME NEW q \in Proc \ {p}
        PROVE  (Holding(q)' <=> Holding(q)) /\ (pc'[q] = "idle" <=> pc[q] = "idle")
    <3>1. q \in Proc /\ f[q] = pc[q]
      BY <2>1
    <3>2. QED
      BY <2>3, <3>1 DEF Holding
  <2>6. pc' \in [Proc -> Labels]
    BY <2>1, <2>2, WakeupKeeps
  <2>7. QED
    BY <2>4, <2>5, <2>6
<1>4. /\ ~Holding(p)' /\ \A q \in Proc \ {p} : buf'[q] = buf[q] /\ want'[q] = want[q]
      /\ "BUSY" \notin flags'[b] /\ \A c \in Buf \ {b} : flags'[c] = flags[c]
  BY <1>1, <1>3 DEF IInv, Types, Holding
<1>5. \A q \in Proc \ {p} : Holding(q) => buf[q] # b
  BY <1>1 DEF IInv, BuffersExclusive, b
<1>6. Types'
  <2>1. flags' \in [Buf -> SUBSET Flag]
    BY <1>1 DEF IInv, Types
  <2>2. buf' \in [Proc -> Buf \cup {NULL}] /\ want' \in [Proc -> Block \cup {NULL}]
    BY <1>1 DEF IInv, Types
  <2>3. QED
    BY <1>1, <1>3, <1>4, <2>1, <2>2 DEF IInv, Types
<1>7. AllLinked'
  BY <1>1, MoveKeepsAll DEF IInv
<1>8. BuffersExclusive'
  <2>1. \A c \in Buf : "BUSY" \in flags'[c] <=> \E q \in Proc : Holding(q)' /\ buf'[q] = c
    BY <1>1, <1>3, <1>4, <1>5 DEF IInv, BuffersExclusive, b
  <2>2. QED
    BY <1>1, <1>3, <1>4, <2>1 DEF IInv, BuffersExclusive
<1>9. QED
  BY <1>6, <1>7, <1>8 DEF IInv

-----------------------------------------------------------------------------
LEMMA ProcStep ==
  ASSUME BcacheConstants, IInv, NEW p \in Proc, Step(p)
  PROVE  IInv'
<1>1. ASSUME NEW k \in Block, bread(p, k) PROVE IInv'
  BY <1>1, Quiet DEF bread, cacheVars, IInv, Types, Holding, Labels
<1>2. CASE bgetHit(p)
  <2>1. PICK b \in Cached(want[p]) : "BUSY" \notin flags[b] /\ Take(p, b, flags[b])
    BY <1>2 DEF bgetHit
  <2>2. /\ pc[p] = "get" /\ b \in Buf /\ blockno[b] = want[p] /\ UNCHANGED blockno
        /\ flags[b] \in SUBSET Flag /\ want[p] \in Block
    BY <1>2 DEF bgetHit, Cached, IInv, Types
  <2>3. blockno' = [blockno EXCEPT ![b] = want[p]]
    BY <2>2 DEF IInv, Types
  <2>4. \A c \in Buf \ {b} : blockno[c] # want[p]
    BY <2>2 DEF BcacheConstants, IInv, BuffersExclusive
  <2>5. QED
    BY <2>1, <2>2, <2>3, <2>4, Taken
<1>3. CASE bgetSleep(p)
  <2>1. PICK b \in Buf : buf' = [buf EXCEPT ![p] = b]
    BY <1>3 DEF bgetSleep, Cached
  <2>2. pc[p] = "get" /\ pc' = [pc EXCEPT ![p] = "asleep"] /\ UNCHANGED <<flags, lru, blockno, want>>
    BY <1>3 DEF bgetSleep, cacheVars
  <2>3. QED
    BY <2>1, <2>2, Quiet DEF IInv, Types, Holding, Labels
<1>4. CASE bgetMiss(p)
  <2>1. CASE \E b \in Buf : Recyclable(b)
    <3>1. Oldest \in Buf /\ Recyclable(Oldest)
      BY <2>1, OldestIsRecyclable DEF IInv
    <3>2. /\ pc[p] = "get" /\ \A c \in Buf : blockno[c] # want[p]
          /\ blockno' = [blockno EXCEPT ![Oldest] = want[p]] /\ Take(p, Oldest, {})
      BY <1>4, <2>1 DEF bgetMiss, Cached, RecycledFlags
    <3>3. "BUSY" \notin flags[Oldest]
      BY <3>1 DEF Recyclable
    <3>4. QED
      BY <3>1, <3>2, <3>3, Taken
  <2>2. CASE ~\E b \in Buf : Recyclable(b)
    BY <1>4, <2>2, Quiet DEF bgetMiss, cacheVars, procVars, IInv, Types, Holding
  <2>3. QED
    BY <2>1, <2>2
<1>5. ASSUME NEW v \in Contents, log_write(p, v) PROVE IInv'
  <2>1. flags' \in [Buf -> SUBSET Flag] /\ \A b \in Buf : "BUSY" \in flags'[b] <=> "BUSY" \in flags[b]
    BY <1>5 DEF log_write, Change, IInv, Types, Flag
  <2>2. QED
    BY <1>5, <2>1, Quiet DEF log_write, Change, IInv, Types, Holding
<1>6. ASSUME NEW v \in Contents, bwrite(p, v) PROVE IInv'
  <2>1. flags' \in [Buf -> SUBSET Flag] /\ \A b \in Buf : "BUSY" \in flags'[b] <=> "BUSY" \in flags[b]
    BY <1>6 DEF bwrite, Change, IInv, Types, Flag
  <2>2. QED
    BY <1>6, <2>1, Quiet DEF bwrite, Change, IInv, Types, Holding, Labels
<1>7. CASE brelse(p)
  BY <1>7, Released
<1>8. CASE iderw(p)
  BY <1>8, Quiet DEF iderw, cacheVars, IInv, Types, Holding, Labels
<1>9. CASE iderwDone(p)
  BY <1>9, Quiet DEF iderwDone, cacheVars, IInv, Types, Holding, Labels
<1>10. QED
  BY <1>1, <1>2, <1>3, <1>4, <1>5, <1>6, <1>7, <1>8, <1>9 DEF Step

LEMMA DiskStep ==
  ASSUME IInv, NEW ok \in BOOLEAN, ideintr(ok)
  PROVE  IInv'
<1> DEFINE b == Head(idequeue)
<1>1. /\ flags' = [flags EXCEPT ![b] = (@ \ {"DIRTY"}) \cup {"VALID"}] /\ pc' = wakeup(pc, b)
      /\ UNCHANGED <<lru, blockno, want, buf>> /\ Types
  BY DEF ideintr, IInv
<1> HIDE DEF b
<1>2. flags' \in [Buf -> SUBSET Flag] /\ \A c \in Buf : "BUSY" \in flags'[c] <=> "BUSY" \in flags[c]
  BY <1>1 DEF Types, Flag
<1>3. pc \in [Proc -> Labels]
  BY <1>1 DEF Types
<1>4. /\ pc' \in [Proc -> Labels]
      /\ \A q \in Proc : (Holding(q)' <=> Holding(q)) /\ (pc'[q] = "idle" <=> pc[q] = "idle")
  <2>1. pc' \in [Proc -> Labels]
    BY <1>1, WakeupKeeps DEF wakeup, Labels, Types
  <2>2. ASSUME NEW q \in Proc
        PROVE  (Holding(q)' <=> Holding(q)) /\ (pc'[q] = "idle" <=> pc[q] = "idle")
    BY <1>1, <1>3, WakeupKeeps DEF Holding
  <2>3. QED
    BY <2>1, <2>2
<1>5. QED
  BY <1>1, <1>2, <1>4, Quiet DEF Types

LEMMA NextInv == ASSUME BcacheConstants, IInv, [Next]_vars PROVE IInv'
<1>1. ASSUME NEW p \in Proc, Step(p) PROVE IInv'
  BY <1>1, ProcStep
<1>2. ASSUME NEW ok \in BOOLEAN, ideintr(ok) PROVE IInv'
  BY <1>2, DiskStep
<1>3. CASE UNCHANGED vars
  BY <1>3 DEF vars, cacheVars, procVars, ideVars, IInv, Types, AllLinked, BuffersExclusive, Holding
<1>4. QED
  BY <1>1, <1>2, <1>3 DEF Next

\* bget() and brelse(), for every number of processes, buffers and blocks: two
\* processes never hold the same buffer, a block is never in two buffers, and
\* a holder's buffer is never recycled under it (bio.c, B_BUSY).
THEOREM OneHolder == ASSUME BcacheConstants PROVE Spec => []BuffersExclusive
<1>1. Init => IInv
  BY InitInv
<1>2. IInv /\ [Next]_vars => IInv'
  BY NextInv
<1>3. IInv => BuffersExclusive
  BY DEF IInv
<1>4. QED
  BY <1>1, <1>2, <1>3, PTL DEF Spec
=============================================================================
