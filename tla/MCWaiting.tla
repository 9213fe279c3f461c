----------------------------- MODULE MCWaiting ------------------------------
(***************************************************************************)
(* Two parts of the kernel in which processes wait for each other with     *)
(* sleep() and wakeup(), in one run of TLC: a pipe (Pipe) and the buffer   *)
(* cache with the disk (Bcache).  Each behaviour is one of the two; the    *)
(* other stays as it is initially.                                         *)
(***************************************************************************)
EXTENDS Pipe, TLC

CONSTANTS b1, b2, b3, k1, k2, k3, k4, r1, r2, Junk

VARIABLES
  which,
  lru, blockno, flags, bdata, disk, idequeue, active, place, want, buf, panic

cacheVars == <<lru, blockno, flags, bdata, disk, idequeue, active, place, want, buf, panic>>

\* A write that fits into the pipe and one that does not.
MCWrites == {<<0>>, <<0, 1, 1>>}

\* One buffer for each process and one for each logged block, and one block
\* more, so that buffers are recycled.  The code looks at no block's contents:
\* one block has contents to tell apart.
MCBlock == {k1, k2, k3, k4}
MCBoot  == <<b3, b2, b1>>
MCVal   == [k \in MCBlock |-> IF k = k1 THEN {0, 1} ELSE {0}]

Cache == INSTANCE Bcache WITH
  Proc <- {r1, r2}, Block <- MCBlock, Buf <- {b1, b2, b3}, Val <- MCVal, MaxLogged <- 1,
  BootOrder <- MCBoot, data <- bdata, pc <- place

ASSUME Cache!BcacheConstants

\* The boot order of the buffers is the only thing that tells them apart, and
\* no property depends on it; the processes that are not killed are alike.
MCSymmetry == Permutations({b1, b2, b3}) \cup Permutations(Proc \ Killable)

MCInit ==
  /\ which \in {"pipe", "buffers"}
  /\ Init /\ (which = "buffers" => data = [k \in 0 .. PIPESIZE - 1 |-> 0])
  /\ Cache!Init

\* The processes may all be done with the pipe.
Done == which = "pipe" /\ UNCHANGED <<which, vars, cacheVars>>

MCNext ==
  \/ which = "pipe" /\ Next /\ UNCHANGED <<which, cacheVars>>
  \/ which = "buffers" /\ Cache!Next /\ UNCHANGED <<which, vars>>
  \/ Done

MCSpec == MCInit /\ [][MCNext]_<<which, vars, cacheVars>>

-----------------------------------------------------------------------------
\* The bytes come through the pipe once and in order: see ImplementsChannel of
\* Pipe.
PipeIsChannel == C!Init /\ [][which = "pipe" /\ C!Next]_(C!cvars)

\* No wakeup is lost, neither between the ends of a pipe (unless a process is
\* killed) nor between processes that wait for a buffer or for the disk: see
\* SleepsForCause of Pipe and of Bcache.
AsleepForCause == SleepsForCause /\ Cache!SleepsForCause

\* A block has one buffer and a buffer one holder, the process that asked for
\* the block: see BuffersExclusive of Bcache.
BuffersExclusive == Cache!BuffersExclusive

\* bget() finds a buffer when there is one for each process and each logged
\* block: see BuffersSuffice of Bcache.
BuffersSuffice == Cache!TypeOK /\ Cache!BuffersSuffice

\* The content of a block changes only by the holder of its buffer, and what
\* was read or written is what the disk has: see OnlyHolderChanges and
\* SyncedWithDisk of Bcache.
BlocksKept == Cache!OnlyHolderChanges /\ []Cache!SyncedWithDisk
=============================================================================
