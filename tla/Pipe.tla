-------------------------------- MODULE Pipe --------------------------------
(***************************************************************************)
(* One pipe (pipe.c) and the processes that share its two ends: a process  *)
(* makes it, hands the ends on by fork, writes, reads, closes its ends and *)
(* can be killed at any moment.                                            *)
(*                                                                         *)
(* One action is one critical section of the pipe's lock up to a return or *)
(* to the call of sleep().  sleep() is an action of its own, because kill()*)
(* takes only ptable.lock and can come between the test of proc->killed    *)
(* and sleep(); lock is the process that holds the pipe's lock in between. *)
(* A process whose sleep ends waits for the lock and tests again.          *)
(***************************************************************************)
EXTENDS Integers, Sequences, FiniteSetsExt

CONSTANTS
  Proc,
  Byte,
  PIPESIZE,
  WIDTH,              \* nread and nwrite are counted modulo this (2^32)
  Writes,             \* bound: what is passed to pipewrite()
  Reads,              \* bound: how many bytes piperead() is asked for
  Killable,           \* bound: the processes that kill() is called for, once
  NULL

ASSUME PipeAssumption ==
  /\ PIPESIZE \in Nat \ {0}
  /\ WIDTH \in Nat /\ WIDTH > PIPESIZE /\ WIDTH % PIPESIZE = 0
  /\ Writes \subseteq Seq(Byte) /\ Reads \subseteq Nat
  /\ Killable \subseteq Proc
  /\ NULL \notin Proc

VARIABLES
  data, nread, nwrite,
  readopen, writeopen,
  freed,              \* the page of the pipe is not allocated
  readers, writers,   \* the processes that hold each end (ref of its file)
  lock,
  pc,
  todo,               \* what a process in pipewrite() has not copied yet
  killed,
  got                 \* the bytes that the last piperead() returned

bufVars  == <<data, nread, nwrite>>
endVars  == <<readopen, writeopen, freed, readers, writers>>
callVars == <<todo, got>>
vars == <<bufVars, endVars, callVars, lock, pc, killed>>

\* write, read: about to take the lock; full, empty: have the lock and will
\* sleep; asleepW, asleepR: asleep on &nwrite, on &nread; closeR, closeW: in
\* fileclose() with the last reference, before pipeclose().
Places == {"idle", "write", "full", "asleepW", "read", "empty", "asleepR",
           "closeR", "closeW"}

TypeOK ==
  /\ data \in [0 .. PIPESIZE - 1 -> Byte]
  /\ nread \in 0 .. WIDTH - 1
  /\ nwrite \in 0 .. WIDTH - 1
  /\ (nwrite - nread) % WIDTH <= PIPESIZE
  /\ {readopen, writeopen, freed} \subseteq BOOLEAN
  /\ readers \subseteq Proc
  /\ writers \subseteq Proc
  /\ lock \in Proc \cup {NULL}
  /\ pc \in [Proc -> Places]
  /\ todo \in [Proc -> Seq(Byte)]
  /\ killed \in [Proc -> BOOLEAN]
  /\ got \in Seq(Byte)

\* No pipe yet.  What is in data is never looked at before it is written.
Init ==
  /\ \E x \in Byte : data = [k \in 0 .. PIPESIZE - 1 |-> x]
  /\ nread = 0
  /\ nwrite = 0
  /\ readopen = FALSE
  /\ writeopen = FALSE
  /\ freed = TRUE
  /\ readers = {}
  /\ writers = {}
  /\ lock = NULL
  /\ pc = [p \in Proc |-> "idle"]
  /\ todo = [p \in Proc |-> <<>>]
  /\ killed = [p \in Proc |-> FALSE]
  /\ got = <<>>

-----------------------------------------------------------------------------
(* Making, sharing and closing the ends. *)

pipealloc(p) ==
  /\ freed /\ pc[p] = "idle" /\ ~killed[p]
  /\ freed' = FALSE
  /\ readopen' = TRUE
  /\ writeopen' = TRUE
  /\ nread' = 0
  /\ nwrite' = 0
  /\ readers' = {p}
  /\ writers' = {p}
  /\ UNCHANGED <<data, callVars, lock, pc, killed>>

\* fork(): the child q, a process without an end, gets what its parent has.
\* (A slot whose process was killed is not used again.)
Fork(p, q) ==
  /\ pc[p] = "idle" /\ pc[q] = "idle" /\ ~killed[p] /\ ~killed[q]
  /\ p \in readers \cup writers /\ q \notin readers \cup writers
  /\ readers' = IF p \in readers THEN readers \cup {q} ELSE readers
  /\ writers' = IF p \in writers THEN writers \cup {q} ELSE writers
  /\ UNCHANGED <<bufVars, readopen, writeopen, freed, callVars, lock, pc, killed>>

\* fileclose() of the read end and of the write end: whoever drops the last
\* reference goes on to pipeclose().
CloseReadEnd(p) ==
  /\ pc[p] = "idle" /\ p \in readers
  /\ readers' = readers \ {p}
  /\ pc' = [pc EXCEPT ![p] = IF readers = {p} THEN "closeR" ELSE "idle"]
  /\ UNCHANGED <<bufVars, readopen, writeopen, freed, writers, callVars, lock, killed>>

CloseWriteEnd(p) ==
  /\ pc[p] = "idle" /\ p \in writers
  /\ writers' = writers \ {p}
  /\ pc' = [pc EXCEPT ![p] = IF writers = {p} THEN "closeW" ELSE "idle"]
  /\ UNCHANGED <<bufVars, readopen, writeopen, freed, readers, callVars, lock, killed>>

\* wakeup(): the processes asleep at a take their next turn at b.
NoWakeup(f, a, b) == f

wakeup(f, a, b) == [p \in Proc |-> IF f[p] = a THEN b ELSE f[p]]

WakeReaders(f) == wakeup(f, "asleepR", "read")
WakeWriters(f) == wakeup(f, "asleepW", "write")

PipecloseEager(p) ==
  /\ pc[p] \in {"closeR", "closeW"} /\ lock = NULL
  /\ LET f == [pc EXCEPT ![p] = "idle"]
     IN  IF pc[p] = "closeW"
         THEN writeopen' = FALSE /\ pc' = WakeReaders(f) /\ UNCHANGED readopen
         ELSE readopen' = FALSE /\ pc' = WakeWriters(f) /\ UNCHANGED writeopen
  /\ freed' = (~readopen' \/ ~writeopen')
  /\ UNCHANGED <<bufVars, readers, writers, callVars, lock, killed>>

pipeclose(p) ==
  /\ pc[p] \in {"closeR", "closeW"} /\ lock = NULL
  /\ LET f == [pc EXCEPT ![p] = "idle"]
     IN  IF pc[p] = "closeW"
         THEN writeopen' = FALSE /\ pc' = WakeReaders(f) /\ UNCHANGED readopen
         ELSE readopen' = FALSE /\ pc' = WakeWriters(f) /\ UNCHANGED writeopen
  /\ freed' = (~readopen' /\ ~writeopen')
  /\ UNCHANGED <<bufVars, readers, writers, callVars, lock, killed>>

-----------------------------------------------------------------------------
(* pipewrite() and piperead(). *)

Count == (nwrite - nread) % WIDTH

Room == PIPESIZE - Count

BeginWrite(p, s) ==
  /\ pc[p] = "idle" /\ p \in writers /\ ~killed[p]
  /\ todo' = [todo EXCEPT ![p] = s]
  /\ pc' = [pc EXCEPT ![p] = "write"]
  /\ UNCHANGED <<bufVars, endVars, got, lock, killed>>

CopyFromStart(d, s, at) ==
  [k \in 0 .. PIPESIZE - 1 |-> IF k < Len(s) THEN s[k + 1] ELSE d[k]]

Copy(d, s, at) ==
  [k \in 0 .. PIPESIZE - 1 |->
     LET j == (k - at) % PIPESIZE IN IF j < Len(s) THEN s[j + 1] ELSE d[k]]

\* Copies what there is room for.  All copied: wakes the readers and returns.
\* No room left: fails if nobody reads or the caller is killed, else wakes the
\* readers and goes to sleep.
pipewrite(p) ==
  /\ pc[p] = "write" /\ lock = NULL
  /\ LET k    == Min({Room, Len(todo[p])})
         done == k = Len(todo[p])
         fail == ~done /\ (~readopen \/ killed[p])
         f    == [pc EXCEPT ![p] = IF done \/ fail THEN "idle" ELSE "full"]
     IN  /\ data' = Copy(data, SubSeq(todo[p], 1, k), nwrite)
         /\ nwrite' = (nwrite + k) % WIDTH
         /\ todo' = [todo EXCEPT ![p] = IF fail THEN <<>> ELSE SubSeq(@, k + 1, Len(@))]
         /\ pc' = IF fail THEN f ELSE WakeReaders(f)
         /\ lock' = IF f[p] = "full" THEN p ELSE NULL
  /\ UNCHANGED <<nread, endVars, got, killed>>

BeginRead(p) ==
  /\ pc[p] = "idle" /\ p \in readers /\ ~killed[p]
  /\ pc' = [pc EXCEPT ![p] = "read"]
  /\ UNCHANGED <<bufVars, endVars, callVars, lock, killed>>

\* The reader has to wait: the pipe is empty and may still be written to.
MustWait == nread = nwrite /\ writeopen

PipeReadWait(p) ==
  /\ pc[p] = "read" /\ lock = NULL /\ MustWait
  /\ IF killed[p]
     THEN pc' = [pc EXCEPT ![p] = "idle"] /\ UNCHANGED lock
     ELSE pc' = [pc EXCEPT ![p] = "empty"] /\ lock' = p
  /\ UNCHANGED <<bufVars, endVars, callVars, killed>>

piperead(p, n) ==
  /\ pc[p] = "read" /\ lock = NULL /\ ~MustWait
  /\ LET k == Min({Count, n})
     IN  /\ got' = [j \in 1 .. k |-> data[(nread + j - 1) % PIPESIZE]]
         /\ nread' = (nread + k) % WIDTH
  /\ pc' = WakeWriters([pc EXCEPT ![p] = "idle"])
  /\ UNCHANGED <<data, nwrite, endVars, todo, lock, killed>>

\* sleep() on &nwrite or on &nread, which releases the pipe's lock.
Sleep(p) ==
  /\ pc[p] \in {"full", "empty"}
  /\ pc' = [pc EXCEPT ![p] = IF @ = "full" THEN "asleepW" ELSE "asleepR"]
  /\ lock' = NULL
  /\ UNCHANGED <<bufVars, endVars, callVars, killed>>

\* kill() wakes the process if it is asleep.
Kill(p) ==
  /\ p \in Killable /\ ~killed[p] /\ p \in readers \cup writers
  /\ killed' = [killed EXCEPT ![p] = TRUE]
  /\ pc' = [pc EXCEPT ![p] = CASE @ = "asleepW" -> "write"
                               [] @ = "asleepR" -> "read"
                               [] OTHER         -> @]
  /\ UNCHANGED <<bufVars, endVars, callVars, lock>>

Next ==
  \E p \in Proc :
    \/ pipealloc(p) \/ CloseReadEnd(p) \/ CloseWriteEnd(p) \/ pipeclose(p)
    \/ \E q \in Proc : Fork(p, q)
    \/ \E s \in Writes : BeginWrite(p, s)
    \/ pipewrite(p)
    \/ BeginRead(p) \/ PipeReadWait(p)
    \/ \E n \in Reads : piperead(p, n)
    \/ Sleep(p) \/ Kill(p)

Spec == Init /\ [][Next]_vars

-----------------------------------------------------------------------------
(* Properties *)

Contents == [k \in 1 .. Count |-> data[(nread + k - 1) % PIPESIZE]]

C == INSTANCE Channel WITH
  Capacity <- PIPESIZE,
  Messages <- Writes,
  queue    <- Contents

\* The ring buffer with its wrapping counters is a FIFO channel: the bytes of
\* the writers come out once, in order, whatever calls are interrupted,
\* killed or resumed in between.
ImplementsChannel == C!Spec

\* The pipe is freed (kfree in pipeclose) only when no process holds an end or
\* is inside a call that will still look at it; until then its counters and
\* flags keep their types.
FreedUnused ==
  TypeOK /\ (freed => readers = {} /\ writers = {} /\ \A p \in Proc : pc[p] = "idle")

\* Processes sleep only for cause, unless one of them was killed: a reader only
\* while the pipe is empty and open for writing ("pipe-empty"), a writer only
\* while it is full and open for reading ("pipewrite-full").  No wakeup of
\* pipewrite(), piperead() and pipeclose() is missing or comes too early.
SleepsForCause ==
  (\A p \in Proc : ~killed[p]) =>
    \A p \in Proc :
      /\ pc[p] = "asleepR" => Count = 0 /\ writeopen
      /\ pc[p] = "asleepW" => Count = PIPESIZE /\ readopen
=============================================================================
