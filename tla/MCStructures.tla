---------------------------- MODULE MCStructures ----------------------------
(***************************************************************************)
(* Data structures whose operations run one at a time, in one run of TLC:  *)
(* the state lists of the process table (StateLists), the contents of      *)
(* files (FileData), the heap of a program (Umalloc) and strings in memory *)
(* (Strings).  Each behaviour works on one of them; the others stay as     *)
(* they are initially.                                                     *)
(***************************************************************************)
EXTENDS StateLists

VARIABLES
  which,
  disk, off, got, todo, nlogged,
  heap, brk, used, core,
  text

fileVars == <<disk, off, got, todo, nlogged>>
heapVars == <<heap, brk, used, core>>
allVars  == <<which, vars, fileVars, heapVars, text>>

\* Two processes share a file that is open for reading and writing; one of
\* them writes to a second file.  A file has a direct block and an indirect
\* block with two entries, and blocks of two words.
FileIno  == <<1, 2>>
FileUses == {<<1, 1>>, <<2, 1>>, <<2, 2>>}

File == INSTANCE FileData WITH
  Inum <- {1, 2}, Handle <- {1, 2}, Ino <- FileIno, Readable <- {1}, Writable <- {1, 2},
  Proc <- {1, 2}, Uses <- FileUses, NDIRECT <- 1, BSIZE <- 2, NBLOCKS <- 8, BPB <- 1,
  LOGSIZE <- 6, MkfsSize <- 3, Lengths <- {3}

\* Requests of one, two and four units besides the header.
Heap == INSTANCE Umalloc WITH
  HEADER <- 2, MinUnits <- 4, MaxBrk <- 15, Requests <- {1, 3, 8}

\* Names of two bytes, and paths and memories of up to six.
Text == INSTANCE Strings WITH Char <- {2, 3}, DIRSIZ <- 2, INT <- 2, ADDR <- 16, MaxText <- 6

MCInit ==
  /\ which \in {"lists", "file", "heap", "text"}
  /\ IF which = "lists" THEN Init ELSE AllFree(CHOOSE s \in L!Orders(Proc) : TRUE)
  /\ File!Init
  /\ Heap!Init
  /\ Text!Init

MCNext ==
  \/ which = "lists" /\ Next /\ UNCHANGED <<which, fileVars, heapVars, text>>
  \/ which = "file" /\ File!Next /\ UNCHANGED <<which, vars, heapVars, text>>
  \/ which = "heap" /\ Heap!Next /\ UNCHANGED <<which, vars, fileVars, text>>
  \/ which = "text" /\ Text!Grow /\ UNCHANGED <<which, vars, fileVars, heapVars>>

MCSpec == MCInit /\ [][MCNext]_allVars

-----------------------------------------------------------------------------
\* The pointer code of the state lists does what ProcTable says on sequences.
\* It implements ListTable (ImplementsTable of StateLists): prioadjust() moves
\* the head of each ready list, and no other process.  And wakeup1(), which
\* takes processes off the list it is walking on, wakes the right ones in the
\* right order (WakeupAgrees of StateLists).
PointersImplementTable ==
  Table!Init /\ [][which = "lists" /\ Table!Next]_pLists /\ []WakeupAgrees

\* Through blocks, bitmap and the chunks of filewrite() files behave as
\* sequences of words: see ImplementsByteFile of FileData.
ImplementsByteFile ==
  File!B!Init /\ [][which = "file" /\ File!B!Next]_(File!B!vars)

\* The bitmap, the block maps and the sizes agree, and a chunk of filewrite()
\* fits the log in the worst case: see BlocksOwned and ChunkFitsLog of FileData.
BlocksOwned == File!BlocksOwned /\ File!ChunkFitsLog

\* malloc() and free() keep every unit in one block: see Umalloc.
UnitsInOneBlock == Heap!UnitsInOneBlock

\* memmove() copies overlapping blocks right, the arguments of system calls
\* that are accepted are those inside the memory of the process, and names
\* match up to DIRSIZ bytes: see CopiesOld, ArgumentsInside and NamesMatch of
\* Strings.
StringsRight == Text!CopiesOld /\ Text!ArgumentsInside /\ Text!NamesMatch
=============================================================================
