------------------------------- MODULE Bcache -------------------------------
(***************************************************************************)
(* The buffer cache (bio.c) on top of the IDE driver (ide.c), and the      *)
(* processes that read, change and write disk blocks through it.           *)
(*                                                                         *)
(* One action is one critical section of bcache.lock or of idelock.  The   *)
(* flags and the data of a busy buffer belong to its holder between them.  *)
(* sleep(b) and wakeup(b) use the same channel b in both files: a process  *)
(* in bget() waits there for the buffer, one in iderw() for the disk.      *)
(***************************************************************************)
EXTENDS Integers, Sequences, FiniteSets

CONSTANTS
  Proc,
  Block,
  Buf,
  Val,                \* Val[k]: what a process may put into block k
  Junk,               \* what is in a buffer whose read failed
  MaxLogged,          \* bound: blocks log.c may have logged and not installed
  BootOrder,          \* the order in which binit() links the buffers
  NULL

\* What the constants are like.
BcacheConstants ==
  /\ IsFiniteSet(Buf) /\ IsFiniteSet(Proc)
  /\ MaxLogged \in Nat
  /\ BootOrder \in [1 .. Cardinality(Buf) -> Buf]
  /\ \A b \in Buf : \E k \in DOMAIN BootOrder : BootOrder[k] = b
  /\ DOMAIN Val = Block /\ \A k \in Block : Val[k] # {} /\ Junk \notin Val[k]
  /\ NULL \notin Proc \cup Block \cup Buf

VARIABLES
  lru,                \* bcache.head.next ... head.prev: most recent first
  blockno, flags, data,
  disk,
  idequeue,
  active,             \* the request that the disk is working on
  pc, want, buf,      \* per process: the block it asked for, its buffer
  panic               \* "bget: no buffers"

cacheVars == <<lru, blockno, flags, data>>
ideVars   == <<disk, idequeue, active>>
procVars  == <<pc, want, buf>>
vars == <<cacheVars, ideVars, procVars, panic>>

Contents == UNION {Val[k] : k \in Block}

Flag == {"BUSY", "VALID", "DIRTY"}

\* get: about to run bget()'s loop; asleep: in its sleep(b); rw: at the start
\* of iderw(); io: in iderw()'s sleep(b); done: woken from it; have: holds
\* the buffer.
TypeOK ==
  /\ lru \in [1 .. Cardinality(Buf) -> Buf]
  /\ blockno \in [Buf -> Block \cup {NULL}]
  /\ flags \in [Buf -> SUBSET Flag]
  /\ data \in [Buf -> Contents \cup {Junk}]
  /\ disk \in [Block -> Contents]
  /\ idequeue \in Seq(Buf)
  /\ active \in Buf \cup {NULL}
  /\ pc \in [Proc -> {"idle", "get", "asleep", "rw", "io", "done", "have"}]
  /\ want \in [Proc -> Block \cup {NULL}]
  /\ buf \in [Proc -> Buf \cup {NULL}]
  /\ panic \in BOOLEAN

binit ==
  /\ lru = BootOrder
  /\ blockno = [b \in Buf |-> NULL]
  /\ flags = [b \in Buf |-> {}]
  /\ data = [b \in Buf |-> Junk]

Init ==
  /\ binit
  /\ disk = [k \in Block |-> CHOOSE v \in Val[k] : TRUE]
  /\ idequeue = <<>>
  /\ active = NULL
  /\ pc = [p \in Proc |-> "idle"]
  /\ want = [p \in Proc |-> NULL]
  /\ buf = [p \in Proc |-> NULL]
  /\ panic = FALSE

-----------------------------------------------------------------------------
(* bio.c *)

Cached(k) == {b \in Buf : blockno[b] = k}

\* "busy" and "dirty but not busy" (logged, not installed) are not recycled.
RecyclableDirty(b) == flags[b] \cap {"BUSY"} = {}

RecyclableUnused(b) == flags[b] = {}

Recyclable(b) == flags[b] \cap {"BUSY", "DIRTY"} = {}

\* The recyclable buffer nearest to head.prev.
Oldest == lru[CHOOSE i \in DOMAIN lru : /\ Recyclable(lru[i])
                                        /\ \A j \in DOMAIN lru : Recyclable(lru[j]) => j <= i]

\* bread() up to its first look at the cache.
bread(p, k) ==
  /\ pc[p] = "idle"
  /\ pc' = [pc EXCEPT ![p] = "get"]
  /\ want' = [want EXCEPT ![p] = k]
  /\ UNCHANGED <<cacheVars, ideVars, buf, panic>>

\* bget() returns the buffer b; bread() goes on to iderw() unless it is valid.
Take(p, b, fl) ==
  /\ flags' = [flags EXCEPT ![b] = fl \cup {"BUSY"}]
  /\ buf' = [buf EXCEPT ![p] = b]
  /\ pc' = [pc EXCEPT ![p] = IF "VALID" \in fl THEN "have" ELSE "rw"]
  /\ UNCHANGED <<lru, ideVars, want, panic>>

bgetHit(p) ==
  /\ pc[p] = "get"
  /\ \E b \in Cached(want[p]) :
       /\ "BUSY" \notin flags[b]
       /\ Take(p, b, flags[b])
  /\ UNCHANGED <<blockno, data>>

bgetSleep(p) ==
  /\ pc[p] = "get"
  /\ \E b \in Cached(want[p]) :
       /\ "BUSY" \in flags[b]
       /\ pc' = [pc EXCEPT ![p] = "asleep"]
       /\ buf' = [buf EXCEPT ![p] = b]
  /\ UNCHANGED <<cacheVars, ideVars, want, panic>>

\* b->flags = B_BUSY, not |=: what is in the buffer is another block's.
RecycledFlags(fl) == {}

bgetMiss(p) ==
  /\ pc[p] = "get" /\ Cached(want[p]) = {}
  /\ IF \E b \in Buf : Recyclable(b)
     THEN /\ blockno' = [blockno EXCEPT ![Oldest] = want[p]]
          /\ Take(p, Oldest, RecycledFlags(flags[Oldest]))
          /\ UNCHANGED data
     ELSE /\ panic' = TRUE
          /\ UNCHANGED <<cacheVars, ideVars, procVars>>

\* wakeup(b): bget() looks again from the start, iderw() tests the flags.
\* The first form is a wakeup() after which bget() does not look again.
WakeToTake(f, b) ==
  [p \in Proc |-> CASE buf[p] = b /\ f[p] = "asleep" -> "have"
                    [] buf[p] = b /\ f[p] = "io"     -> "done"
                    [] OTHER -> f[p]]

wakeup(f, b) ==
  [p \in Proc |-> CASE buf[p] = b /\ f[p] = "asleep" -> "get"
                    [] buf[p] = b /\ f[p] = "io"     -> "done"
                    [] OTHER -> f[p]]

\* Unlink b and link it again behind head.
MoveToFront(b) ==
  LET at == CHOOSE i \in DOMAIN lru : lru[i] = b
  IN  [i \in DOMAIN lru |-> IF i = 1 THEN b ELSE IF i <= at THEN lru[i - 1] ELSE lru[i]]

brelse(p) ==
  /\ pc[p] = "have"
  /\ LET b == buf[p]
     IN  /\ lru' = MoveToFront(b)
         /\ flags' = [flags EXCEPT ![b] = @ \ {"BUSY"}]
         /\ pc' = wakeup([pc EXCEPT ![p] = "idle"], b)
  /\ buf' = [buf EXCEPT ![p] = NULL]
  /\ want' = [want EXCEPT ![p] = NULL]
  /\ UNCHANGED <<blockno, data, ideVars, panic>>

\* The holder changes the block and leaves it to the log (log_write() sets
\* B_DIRTY; the log admits MaxLogged blocks), or writes it to the disk now,
\* changed or as it is (install_trans(), write_log(), write_head()).
Change(p, v) ==
  /\ v \in Val[want[p]]
  /\ data' = [data EXCEPT ![buf[p]] = v]
  /\ flags' = [flags EXCEPT ![buf[p]] = @ \cup {"DIRTY"}]
  /\ UNCHANGED <<lru, blockno, ideVars, want, buf, panic>>

log_write(p, v) ==
  /\ pc[p] = "have"
  /\ Cardinality({b \in Buf \ {buf[p]} : "DIRTY" \in flags[b]}) < MaxLogged
  /\ Change(p, v)
  /\ UNCHANGED pc

bwrite(p, v) ==
  /\ pc[p] = "have"
  /\ Change(p, v)
  /\ pc' = [pc EXCEPT ![p] = "rw"]

-----------------------------------------------------------------------------
(* ide.c *)

\* iderw() up to its sleep(): the flags cannot be right before the interrupt.
iderw(p) ==
  /\ pc[p] = "rw"
  /\ idequeue' = Append(idequeue, buf[p])
  /\ active' = Head(idequeue')
  /\ pc' = [pc EXCEPT ![p] = "io"]
  /\ UNCHANGED <<cacheVars, disk, want, buf, panic>>

\* iderw() after its sleep().
Complete(b) == flags[b] \cap {"VALID", "DIRTY"} = {"VALID"}

iderwDone(p) ==
  /\ pc[p] = "done"
  /\ pc' = [pc EXCEPT ![p] = IF Complete(buf[p]) THEN "have" ELSE "io"]
  /\ UNCHANGED <<cacheVars, ideVars, want, buf, panic>>

\* The request that idestart() starts next; no request is started twice.
NoNext(q) == NULL

NextRequest(q) == IF q = <<>> THEN NULL ELSE Head(q)

\* ideintr(): the disk has done what idestart() asked for.  A write put the
\* data on the disk; after a read that failed the buffer is marked valid and
\* holds something else than the block.
ideintr(ok) ==
  /\ active # NULL
  /\ LET b == Head(idequeue)
     IN  /\ IF "DIRTY" \in flags[b]
            THEN disk' = [disk EXCEPT ![blockno[b]] = data[b]] /\ UNCHANGED data
            ELSE data' = [data EXCEPT ![b] = IF ok THEN disk[blockno[b]] ELSE Junk] /\ UNCHANGED disk
         /\ flags' = [flags EXCEPT ![b] = (@ \ {"DIRTY"}) \cup {"VALID"}]
         /\ pc' = wakeup(pc, b)
  /\ active' = NextRequest(Tail(idequeue))
  /\ idequeue' = Tail(idequeue)
  /\ UNCHANGED <<lru, blockno, want, buf, panic>>

-----------------------------------------------------------------------------
Step(p) ==
  \/ \E k \in Block : bread(p, k)
  \/ bgetHit(p) \/ bgetSleep(p) \/ bgetMiss(p)
  \/ \E v \in Contents : log_write(p, v) \/ bwrite(p, v)
  \/ brelse(p)
  \/ iderw(p) \/ iderwDone(p)

Next ==
  \/ \E p \in Proc : Step(p)
  \/ \E ok \in BOOLEAN : ideintr(ok)

Spec == Init /\ [][Next]_vars

-----------------------------------------------------------------------------
\* The processes to which bget() has returned a buffer.
Holding(p) == pc[p] \in {"rw", "io", "done", "have"}

\* bget(): a block is in one buffer at most, a busy buffer has exactly one
\* holder, and it is the buffer of the block that the holder asked for.  A
\* process that slept must not take what it slept for: the buffer may have
\* become the buffer of another block meanwhile.
BuffersExclusive ==
  /\ \A b, c \in Buf : blockno[b] = blockno[c] /\ blockno[b] # NULL => b = c
  /\ \A b \in Buf : "BUSY" \in flags[b] <=> \E p \in Proc : Holding(p) /\ buf[p] = b
  /\ \A p, q \in Proc : Holding(p) /\ Holding(q) /\ buf[p] = buf[q] => p = q
  /\ \A p \in Proc : Holding(p) => blockno[buf[p]] = want[p]

\* What a process that reads block k now would see.
Content(k) ==
  LET good == {b \in Cached(k) : flags[b] \cap {"VALID", "DIRTY"} # {} /\ data[b] # Junk}
  IN  IF good = {} THEN disk[k] ELSE data[CHOOSE b \in good : TRUE]

\* Reads, writes, recycling and completed requests never change the content
\* of a block; only the process that holds its buffer does.  Recycling a
\* buffer that log.c has marked B_DIRTY would lose the block's last change.
OnlyHolderChanges ==
  [][\A k \in Block : Content(k)' # Content(k) =>
       \E p \in Proc : pc[p] = "have" /\ want[p] = k /\ pc'[p] \in {"have", "rw"}]_vars

\* A process has the buffer only after its request was carried out: what it
\* read is the content of the disk, and what bwrite() wrote is on the disk.
SyncedWithDisk ==
  \A p \in Proc : pc[p] = "have" /\ "DIRTY" \notin flags[buf[p]]
                    => data[buf[p]] \in {disk[want[p]], Junk}

\* No wakeup(b) is lost: whoever sleeps in bget() waits for a busy buffer, and
\* whoever sleeps in iderw() waits for a request that is in the queue, whose
\* head the disk is working on.
SleepsForCause ==
  /\ \A p \in Proc : pc[p] = "asleep" => "BUSY" \in flags[buf[p]]
  /\ \A p \in Proc : pc[p] = "io" => \E i \in DOMAIN idequeue : idequeue[i] = buf[p]
  /\ active = NextRequest(idequeue)

\* bget() never runs out of buffers when there is one for each process and
\* one for each block that the log may have pinned.
BuffersSuffice ==
  MaxLogged + Cardinality(Proc) <= Cardinality(Buf) => ~panic
=============================================================================
