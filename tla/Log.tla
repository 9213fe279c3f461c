-------------------------------- MODULE Log ---------------------------------
(***************************************************************************)
(* The write-ahead log of the file system (log.c): system calls that run   *)
(* concurrently between begin_op and end_op and write blocks with          *)
(* log_write, the commit by the last of them, a crash at any moment, and   *)
(* the recovery at the next boot.                                          *)
(*                                                                         *)
(* The disk is a header block and the blocks Addr, in their order on the   *)
(* disk: log blocks 1 .. SIZE - 1, then the blocks of the file system.     *)
(* Block numbers are relative to log.start.  The write of one block is     *)
(* atomic and finished when bwrite returns (ide.c).  cache is what bread   *)
(* returns (bio.c).  One action is one critical section of log.lock or one *)
(* disk write.  The commit and the recovery share install_trans and        *)
(* write_head; stage is the place of whichever of them is running.         *)
(***************************************************************************)
EXTENDS Integers, Sequences, FiniteSets

CONSTANTS
  Proc,               \* the processes that make file system calls
  Value,              \* contents of a block
  SIZE,               \* log.size, the blocks of the log with its header
  LOGSIZE, MAXOPBLOCKS,
  NHome,              \* blocks of the file system
  NULL

ASSUME LogAssumption ==
  /\ {SIZE, LOGSIZE, MAXOPBLOCKS, NHome} \subseteq Nat \ {0}
  /\ NULL \notin Nat
  /\ IsFiniteSet(Proc)

VARIABLES
  disk, head,         \* the blocks and the header block on the disk
  cache,
  lh,                 \* log.lh.block, whose length is log.lh.n
  outstanding, committing,
  pc,                 \* where in the log's functions a process is
  blk,                \* the block a process has in log_write()
  wrote,              \* the blocks that a process' system call has written
  up,                 \* initlog() has returned
  stage, tail,
  panic

procVars == <<pc, blk, wrote>>
vars == <<disk, head, cache, lh, outstanding, committing, procVars, up, stage,
          tail, panic>>

Addr  == 1 .. SIZE + NHome - 1
Block == SIZE .. SIZE + NHome - 1

\* begin: woken up in begin_op; op: between begin_op and end_op; logging: in
\* log_write(), before it takes log.lock; commit: the last one in end_op.
Places == {"idle", "begin", "asleep", "op", "logging", "commit"}

Stages == {"none", "log", "head", "install", "erase", "release", "read"}

TypeOK ==
  /\ disk \in [Addr -> Value]
  /\ cache \in [Addr -> Value]
  /\ head \in Seq(Block)
  /\ lh \in Seq(Block)
  /\ outstanding \in 0 .. Cardinality(Proc)
  /\ committing \in BOOLEAN
  /\ pc \in [Proc -> Places]
  /\ blk \in [Proc -> Block \cup {NULL}]
  /\ wrote \in [Proc -> SUBSET Block]
  /\ up \in BOOLEAN
  /\ stage \in Stages
  /\ tail \in 0 .. Len(lh)
  /\ panic \in {"no", "too big a transaction", "log_write outside of trans",
                "log.committing"}

Init ==
  /\ disk \in [Addr -> Value]
  /\ \E zero \in Value : \A a \in Addr \ Block : disk[a] = zero
  /\ head = <<>>
  /\ cache = disk
  /\ lh = <<>>
  /\ outstanding = 0
  /\ committing = FALSE
  /\ pc = [i \in Proc |-> "idle"]
  /\ blk = [i \in Proc |-> NULL]
  /\ wrote = [i \in Proc |-> {}]
  /\ up = FALSE
  /\ stage = "read"
  /\ tail = 0
  /\ panic = "no"

Running == up /\ panic = "no"

-----------------------------------------------------------------------------
(* begin_op() and end_op(). *)

NoWakeup(f) == f

wakeup(f) == [i \in Proc |-> IF f[i] = "asleep" THEN "begin" ELSE f[i]]

ForgetsItself ==
  \/ committing
  \/ Len(lh) + outstanding * MAXOPBLOCKS > LOGSIZE

\* The system call may not start: a commit is running, or there might not be
\* room in the log for what the calls under way and this one may write.
MustWait ==
  \/ committing
  \/ Len(lh) + (outstanding + 1) * MAXOPBLOCKS > LOGSIZE

BeginSleep(i) ==
  /\ Running /\ pc[i] \in {"idle", "begin"}
  /\ MustWait
  /\ pc' = [pc EXCEPT ![i] = "asleep"]
  /\ UNCHANGED <<disk, head, cache, lh, outstanding, committing, blk, wrote,
                 up, stage, tail, panic>>

BeginOp(i) ==
  /\ Running /\ pc[i] \in {"idle", "begin"}
  /\ ~MustWait
  /\ outstanding' = outstanding + 1
  /\ pc' = [pc EXCEPT ![i] = "op"]
  /\ wrote' = [wrote EXCEPT ![i] = {}]
  /\ UNCHANGED <<disk, head, cache, lh, committing, blk, up, stage, tail, panic>>

\* Not the last one: begin_op() may be waiting for log space.
EndOp(i) ==
  /\ Running /\ pc[i] = "op" /\ outstanding > 1
  /\ outstanding' = outstanding - 1
  /\ panic' = IF committing THEN "log.committing" ELSE "no"
  /\ pc' = wakeup([pc EXCEPT ![i] = "idle"])
  /\ UNCHANGED <<disk, head, cache, lh, committing, blk, wrote, up, stage, tail>>

\* The last one commits, unless nothing was written.
EndOpLast(i) ==
  /\ Running /\ pc[i] = "op" /\ outstanding = 1
  /\ outstanding' = 0
  /\ panic' = IF committing THEN "log.committing" ELSE "no"
  /\ committing' = TRUE
  /\ pc' = [pc EXCEPT ![i] = "commit"]
  /\ stage' = IF lh = <<>> THEN "release" ELSE "log"
  /\ tail' = 0
  /\ UNCHANGED <<disk, head, cache, lh, blk, wrote, up>>

\* The committer comes back from commit().
EndCommit(i) ==
  /\ Running /\ pc[i] = "commit" /\ stage = "release"
  /\ committing' = FALSE
  /\ stage' = "none"
  /\ pc' = wakeup([pc EXCEPT ![i] = "idle"])
  /\ UNCHANGED <<disk, head, cache, lh, outstanding, blk, wrote, up, tail, panic>>

-----------------------------------------------------------------------------
(* log_write(): its caller has the buffer busy, has changed its contents,  *)
(* and releases it afterwards.  The checks come before the lock is taken.  *)

TooBig == Len(lh) >= LOGSIZE \/ Len(lh) >= SIZE - 1

Busy == {blk[i] : i \in Proc}

LogCheck(i, b, v) ==
  /\ Running /\ pc[i] = "op"
  /\ b \notin Busy \cup wrote[i]
  /\ Cardinality(wrote[i]) < MAXOPBLOCKS
  /\ cache' = [cache EXCEPT ![b] = v]
  /\ blk' = [blk EXCEPT ![i] = b]
  /\ wrote' = [wrote EXCEPT ![i] = @ \cup {b}]
  /\ pc' = [pc EXCEPT ![i] = "logging"]
  /\ panic' = CASE TooBig          -> "too big a transaction"
                [] outstanding < 1 -> "log_write outside of trans"
                [] OTHER           -> "no"
  /\ UNCHANGED <<disk, head, lh, outstanding, committing, up, stage, tail>>

\* Log absorption: a block that is in the log already is not added again.
Absorbed(l, b) == IF \E k \in DOMAIN l : l[k] = b THEN l ELSE Append(l, b)

LogAppend(i) ==
  /\ Running /\ pc[i] = "logging"
  /\ lh' = Absorbed(lh, blk[i])
  /\ blk' = [blk EXCEPT ![i] = NULL]
  /\ pc' = [pc EXCEPT ![i] = "op"]
  /\ UNCHANGED <<disk, head, cache, outstanding, committing, wrote, up, stage,
                 tail, panic>>

-----------------------------------------------------------------------------
(* commit() and recover_from_log(), one disk write at a time.              *)

WithoutHead(s) ==
  CASE s = "log" -> "install" [] s = "install" -> "erase"

\* The order of the steps of commit().
After(s) ==
  CASE s = "log" -> "head" [] s = "head" -> "install" [] s = "install" -> "erase"

LoopStopsEarly ==
  IF tail + 2 < Len(lh)
  THEN tail' = tail + 1 /\ UNCHANGED stage
  ELSE tail' = 0 /\ stage' = After(stage)

\* The loop of write_log() and of install_trans() goes on or is left.
LoopStep ==
  IF tail + 1 < Len(lh)
  THEN tail' = tail + 1 /\ UNCHANGED stage
  ELSE tail' = 0 /\ stage' = After(stage)

CopyBlock(from, to) ==
  /\ cache' = [cache EXCEPT ![to] = cache[from]]
  /\ disk' = [disk EXCEPT ![to] = cache[from]]

write_log ==
  /\ stage = "log"
  /\ CopyBlock(lh[tail + 1], tail + 1)
  /\ LoopStep
  /\ UNCHANGED <<head, lh, outstanding, committing, procVars, up, panic>>

\* The commit point.
write_head ==
  /\ stage = "head"
  /\ head' = lh
  /\ stage' = After(stage)
  /\ UNCHANGED <<disk, cache, lh, outstanding, committing, procVars, up, tail,
                 panic>>

install_trans ==
  /\ stage = "install"
  /\ CopyBlock(tail + 1, lh[tail + 1])
  /\ LoopStep
  /\ UNCHANGED <<head, lh, outstanding, committing, procVars, up, panic>>

\* Takes the transaction out of the log; the last step of a recovery.
EraseLog ==
  /\ stage = "erase"
  /\ lh' = <<>>
  /\ head' = <<>>
  /\ stage' = IF up THEN "release" ELSE "none"
  /\ up' = TRUE
  /\ UNCHANGED <<disk, cache, outstanding, committing, procVars, tail, panic>>

read_head ==
  /\ stage = "read"
  /\ lh' = head
  /\ stage' = IF head = <<>> THEN "erase" ELSE "install"
  /\ UNCHANGED <<disk, head, cache, outstanding, committing, procVars, up, tail,
                 panic>>

DiskStep == panic = "no" /\ (write_log \/ write_head \/ install_trans \/ EraseLog
                             \/ read_head)

\* Power is lost, or the machine is switched off after a panic, and it boots:
\* all that was in memory is gone.
Crash ==
  /\ cache' = disk
  /\ lh' = <<>>
  /\ outstanding' = 0
  /\ committing' = FALSE
  /\ pc' = [i \in Proc |-> "idle"]
  /\ blk' = [i \in Proc |-> NULL]
  /\ wrote' = [i \in Proc |-> {}]
  /\ up' = FALSE
  /\ stage' = "read"
  /\ tail' = 0
  /\ panic' = "no"
  /\ UNCHANGED <<disk, head>>

CallStep(i) ==
  \/ BeginSleep(i) \/ BeginOp(i)
  \/ \E b \in Block, v \in Value : LogCheck(i, b, v)
  \/ LogAppend(i)
  \/ EndOp(i) \/ EndOpLast(i) \/ EndCommit(i)

Next == (\E i \in Proc : CallStep(i)) \/ DiskStep \/ Crash

Spec == Init /\ [][Next]_vars

-----------------------------------------------------------------------------
(* Fairness: a process in a file system call goes on with it (it is kept   *)
(* scheduled, and a disk request is answered).  Nothing makes a process    *)
(* start a call, so an idle process is under no obligation.                *)

FairSpec ==
  /\ Spec
  /\ WF_vars(DiskStep)
  /\ \A i \in Proc : WF_vars(pc[i] # "idle" /\ CallStep(i))

-----------------------------------------------------------------------------
(* Properties *)

\* The file system blocks that a recovery from the disk as it is would leave:
\* those named by the header come from the log.
Recovered ==
  [b \in Block |->
     IF \E k \in DOMAIN head : head[k] = b
     THEN disk[CHOOSE k \in DOMAIN head : head[k] = b]
     ELSE disk[b]]

J == INSTANCE Journal WITH
  active  <- {i \in Proc : pc[i] \in {"op", "logging"}},
  mem     <- IF up THEN [b \in Block |-> cache[b]] ELSE Recovered,
  durable <- Recovered

\* The log is the atomic journal: whatever the order in which calls, commit,
\* crashes and recoveries interleave, the recoverable contents of the disk
\* change only at the header write of commit(), from one state without an
\* unfinished system call to the next ("there is never any reasoning required
\* about whether a commit might write an uncommitted system call's updates").
ImplementsJournal == J!Spec

\* When no system call is under way and no commit is running, all that was
\* ever written is on the disk at its home location, and the log is empty.
QuietIsDurable ==
  Running /\ outstanding = 0 /\ ~committing
    => /\ head = <<>>
       /\ \A b \in Block : disk[b] = cache[b]

\* A process that sleeps in begin_op() is woken up (or the machine crashes).
SleepersWake == \A i \in Proc : (pc[i] = "asleep") ~> (pc[i] # "asleep" \/ panic # "no")

\* The blocks that the system calls under way may still add to the transaction,
\* MAXOPBLOCKS in all for each: one pair for each of them.
MayAdd ==
  {s \in {i \in Proc : pc[i] \in {"op", "logging"}} \X (1 .. MAXOPBLOCKS) :
     s[2] > Cardinality(wrote[s[1]] \ {blk[s[1]]})}

\* The reservation of begin_op(): the log always has room, counted as LOGSIZE
\* blocks ("max data blocks in on-disk log", param.h), for what the system
\* calls under way may still write.  So although log_write() compares lh.n with
\* log.size - 1 before it takes the lock, the transaction outgrows the log by
\* no more than LOGSIZE - (log.size - 1), which mkfs makes one block, and all of
\* it stays within the types of TypeOK.
RoomReserved == TypeOK /\ (Running => Len(lh) + Cardinality(MayAdd) <= LOGSIZE)
=============================================================================
