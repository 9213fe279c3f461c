------------------------------ MODULE FileData ------------------------------
(***************************************************************************)
(* The contents of files: the free block bitmap, the block map of an inode *)
(* with its indirect block, readi(), writei() and itrunc() (fs.c), and     *)
(* fileread() and filewrite() on top of them (file.c), on a disk made by   *)
(* mkfs.                                                                   *)
(*                                                                         *)
(* Sizes and offsets count words of four bytes, so that a block of BSIZE   *)
(* words holds BSIZE block numbers when it is an indirect block; what a    *)
(* block holds is the same for both uses.  A call under the inode's lock   *)
(* is one action, so a chunk of filewrite() is one transaction of the log. *)
(***************************************************************************)
EXTENDS Integers, Sequences, FiniteSetsExt, SequencesExt

CONSTANTS
  Inum, Handle, Ino,     \* inodes, struct files, and the inode of each
  Readable, Writable,    \* f->readable, f->writable
  Proc, Uses,            \* which process has which file open
  NDIRECT, BSIZE,
  NBLOCKS,               \* bound: enough for all files of the largest size
  BPB,                   \* blocks per bitmap block
  LOGSIZE,
  MkfsSize,              \* words that mkfs puts in the first file
  Lengths                \* bound: words of one read() or write()

\* Bound: the word that is written to a file tells the files apart.
Value(i) == i

Block     == 1 .. NBLOCKS
NINDIRECT == BSIZE
MAXFILE   == NDIRECT + NINDIRECT
Zero      == [w \in 0 .. BSIZE - 1 |-> 0]
Junk      == [w \in 0 .. BSIZE - 1 |-> 1]

VARIABLES
  disk,     \* [bitmap, blk, addrs, size]
  off, got, \* f->off; what the last read() returned
  todo,     \* what is left of a write(): [f, n]
  nlogged   \* blocks of the last transaction

vars == <<disk, off, got, todo, nlogged>>

NoWrite == [f |-> 0, n |-> 0]

TypeOK ==
  /\ disk.bitmap \subseteq Block
  /\ disk.blk \in [Block -> [0 .. BSIZE - 1 -> Nat]]
  /\ disk.addrs \in [Inum -> [0 .. NDIRECT -> Block \cup {0}]]
  /\ disk.size \in [Inum -> 0 .. MAXFILE * BSIZE]
  /\ \A f \in Handle : off[f] \in 0 .. disk.size[Ino[f]]
  /\ todo \in [Proc -> [f : Handle \cup {0}, n : Nat]]

-----------------------------------------------------------------------------
(* Blocks.  An operation works on a copy s of the disk and adds what it    *)
(* passes to log_write() to s.logged.                                      *)

BBLOCK(b) == <<"bitmap", b \div BPB>>
IBLOCK    == <<"inode", 0>>
DBLOCK(b) == <<"data", b>>

\* balloc(): the block it returns, and the disk afterwards.
NewBlock(s) == Min(Block \ s.bitmap)

ballocDirty(s) == [s EXCEPT !.bitmap = @ \cup {NewBlock(s)},
                            !.logged = @ \cup {BBLOCK(NewBlock(s)), DBLOCK(NewBlock(s))}]

balloc(s) ==
  LET b == NewBlock(s)
  IN  [s EXCEPT !.bitmap = @ \cup {b}, !.blk[b] = Zero, !.logged = @ \cup {BBLOCK(b), DBLOCK(b)}]

\* bfree() leaves the block as it is; Junk stands for whatever that is.
bfree(s, b) ==
  [s EXCEPT !.bitmap = @ \ {b}, !.blk[b] = Junk, !.logged = @ \cup {BBLOCK(b)}]

\* The block of inode i that has its bn-th words, 0 when there is none.
Addr(s, i, bn) ==
  IF bn < NDIRECT THEN s.addrs[i][bn]
  ELSE IF s.addrs[i][NDIRECT] = 0 THEN 0 ELSE s.blk[s.addrs[i][NDIRECT]][bn - NDIRECT]

\* bmap(): the disk after it, when Addr() finds the block that it returns.
AllocAddr(s, i, k) ==
  IF s.addrs[i][k] # 0 THEN s ELSE [balloc(s) EXCEPT !.addrs[i][k] = NewBlock(s)]

bmap(s, i, bn) ==
  IF bn < NDIRECT THEN AllocAddr(s, i, bn)
  ELSE LET t   == AllocAddr(s, i, NDIRECT)
           ind == t.addrs[i][NDIRECT]
       IN  IF t.blk[ind][bn - NDIRECT] # 0 THEN t
           ELSE [balloc(t) EXCEPT !.blk[ind][bn - NDIRECT] = NewBlock(t), !.logged = @ \cup {DBLOCK(ind)}]

-----------------------------------------------------------------------------
(* Contents. *)

\* writei(), past its checks: n words of value v from offset o on.
PutWord(s, i, o, v) ==
  LET t == bmap(s, i, o \div BSIZE)
      b == Addr(t, i, o \div BSIZE)
  IN  [t EXCEPT !.blk[b][o % BSIZE] = v, !.logged = @ \cup {DBLOCK(b)}]

writei(s, i, o, v, n) ==
  LET Put(t, k) == PutWord(t, i, o + k - 1, v)
      t         == FoldLeft(Put, s, [k \in 1 .. n |-> k])
  IN  IF o + n > t.size[i] THEN [t EXCEPT !.size[i] = o + n, !.logged = @ \cup {IBLOCK}] ELSE t

\* iappend() of mkfs, which takes blocks in order; they are zero.
iappend(s, i, v, n) == writei(s, i, s.size[i], v, n)

\* readi(): the number of words, the disk after it, and the words.
ReadLen(s, i, o, n) == IF o + n > s.size[i] THEN s.size[i] - o ELSE n

readi(s, i, o, n) ==
  LET Map(t, k) == bmap(t, i, (o + k - 1) \div BSIZE)
  IN  FoldLeft(Map, s, [k \in 1 .. n |-> k])

Word(s, i, o) == s.blk[Addr(s, i, o \div BSIZE)][o % BSIZE]

\* itrunc().
itruncDirect(s, i) ==
  LET Free(b, t) == bfree(t, b)
  IN  [FoldSet(Free, s, {s.addrs[i][k] : k \in 0 .. NDIRECT} \ {0})
         EXCEPT !.addrs[i] = [k \in 0 .. NDIRECT |-> 0], !.size[i] = 0]

itrunc(s, i) ==
  LET ind        == s.addrs[i][NDIRECT]
      direct     == {s.addrs[i][k] : k \in 0 .. NDIRECT}
      listed     == IF ind = 0 THEN {} ELSE {s.blk[ind][w] : w \in 0 .. NINDIRECT - 1}
      Free(b, t) == bfree(t, b)
  IN  [FoldSet(Free, s, (direct \cup listed) \ {0})
         EXCEPT !.addrs[i] = [k \in 0 .. NDIRECT |-> 0], !.size[i] = 0]

-----------------------------------------------------------------------------
(* The calls. *)

Empty == [bitmap |-> {}, blk |-> [b \in Block |-> Zero],
          addrs |-> [i \in Inum |-> [k \in 0 .. NDIRECT |-> 0]],
          size |-> [i \in Inum |-> 0], logged |-> {}]

\* The disk without the log's share of it.
Disk(s) == [bitmap |-> s.bitmap, blk |-> s.blk, addrs |-> s.addrs, size |-> s.size]
Op      == [bitmap |-> disk.bitmap, blk |-> disk.blk, addrs |-> disk.addrs, size |-> disk.size,
            logged |-> {}]

Init ==
  /\ disk = Disk(iappend(Empty, Min(Inum), Value(Min(Inum)), MkfsSize))
  /\ off = [f \in Handle |-> 0]
  /\ got = <<>>
  /\ todo = [p \in Proc |-> NoWrite]
  /\ nlogged = 0

\* sys_read(), fileread(): under the inode's lock, in no transaction.
fileread(p, f, n) ==
  LET i == Ino[f]
      r == ReadLen(disk, i, off[f], n)
      t == readi(Op, i, off[f], r)
  IN
  /\ todo[p] = NoWrite /\ f \in Readable
  /\ disk' = Disk(t)
  /\ got' = [k \in 1 .. r |-> Word(t, i, off[f] + k - 1)]
  /\ off' = [off EXCEPT ![f] = @ + r]
  /\ nlogged' = 0
  /\ UNCHANGED todo

\* sys_write(), filewrite(): the call, and one round of its loop.
filewrite(p, f, n) ==
  /\ todo[p] = NoWrite /\ f \in Writable
  /\ todo' = [todo EXCEPT ![p] = [f |-> f, n |-> n]]
  /\ UNCHANGED <<disk, off, got, nlogged>>

ChunkMax == ((LOGSIZE - 1 - 1 - 2) \div 2) * BSIZE

filewriteChunk(p) ==
  LET f  == todo[p].f
      i  == Ino[f]
      n1 == Min({todo[p].n, ChunkMax})
      t  == writei(Op, i, off[f], Value(i), n1)
  IN
  /\ todo[p] # NoWrite
  /\ IF off[f] > disk.size[i] \/ off[f] + n1 > MAXFILE * BSIZE
     THEN /\ todo' = [todo EXCEPT ![p] = NoWrite]
          /\ UNCHANGED <<disk, off, got, nlogged>>
     ELSE /\ disk' = Disk(t)
          /\ off' = [off EXCEPT ![f] = @ + n1]
          /\ nlogged' = Cardinality(t.logged)
          /\ got' = <<>>
          /\ todo' = [todo EXCEPT ![p] = IF @.n = n1 THEN NoWrite ELSE [@ EXCEPT !.n = @ - n1]]

\* sys_close() and sys_open() again, by whoever has f (bound: a file that is
\* only written is written once).
Reopen(f) ==
  /\ f \in Readable
  /\ \A p \in Proc : todo[p].f # f
  /\ off' = [off EXCEPT ![f] = 0]
  /\ got' = <<>>
  /\ nlogged' = 0
  /\ UNCHANGED <<disk, todo>>

\* The last iput() of an inode without links, and create() of it again.
Recreate(i) ==
  /\ i \notin {Ino[todo[p].f] : p \in {q \in Proc : todo[q] # NoWrite}}
  /\ disk' = Disk(itrunc(Op, i))
  /\ off' = [f \in Handle |-> IF Ino[f] = i THEN 0 ELSE off[f]]
  /\ got' = <<>>
  /\ nlogged' = 0
  /\ UNCHANGED todo

Next ==
  \/ \E u \in Uses, n \in Lengths : fileread(u[1], u[2], n) \/ filewrite(u[1], u[2], n)
  \/ \E p \in Proc : filewriteChunk(p)
  \/ \E f \in Handle : Reopen(f)
  \/ \E i \in Inum : Recreate(i)

Spec == Init /\ [][Next]_vars

-----------------------------------------------------------------------------
\* The places in inode i that hold a block number, the last of them for the
\* indirect block, and what they hold.
Slots(i) == {<<i, bn>> : bn \in 0 .. MAXFILE}
Held(c)  == IF c[2] = MAXFILE THEN disk.addrs[c[1]][NDIRECT] ELSE Addr(disk, c[1], c[2])

\* The bitmap, which balloc() and bfree() change bit by bit, says exactly
\* which blocks are in use; a block is in use at one place only, so no write
\* to a file changes another file or an indirect block, and none is lost.
\* A file has the blocks up to its size and no others, so that bmap() under
\* readi(), which runs outside of any transaction, never has to allocate one.
BlocksOwned ==
  LET all == {c \in UNION {Slots(i) : i \in Inum} : Held(c) # 0}
  IN  /\ TypeOK
      /\ {Held(c) : c \in all} = disk.bitmap
      /\ \A c, d \in all : Held(c) = Held(d) => c = d
      /\ \A i \in Inum, bn \in 0 .. MAXFILE - 1 :
           Addr(disk, i, bn) # 0 <=> bn * BSIZE < disk.size[i]

\* file.c: filewrite() writes "a few blocks at a time to avoid exceeding the
\* maximum log transaction size", even when the chunk is not aligned, needs
\* the indirect block, and each block it takes has a bitmap block of its own.
ChunkFitsLog == nlogged <= LOGSIZE

\* Through blocks, bitmap and chunks, files behave as sequences of words: a
\* read returns what was written last, each chunk of a write is applied at
\* the shared offset at once, and writers through one struct file never
\* overwrite each other.
B == INSTANCE ByteFile WITH
       data <- [i \in Inum |-> [k \in 1 .. disk.size[i] |-> Word(disk, i, k - 1)]],
       MaxSize <- MAXFILE * BSIZE,
       MaxN <- Max(Lengths)

ImplementsByteFile == B!Spec
=============================================================================
