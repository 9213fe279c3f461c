------------------------------ MODULE Console ------------------------------
(***************************************************************************)
(* Console input: the handler of the keyboard and the serial line          *)
(* (consoleintr() in console.c), the processes that read and write the     *)
(* console, and the two spinlocks they use, cons.lock and ptable.lock,     *)
(* with the nesting of pushcli() and popcli() (spinlock.c).                *)
(*                                                                         *)
(* Both interrupts go to CPU 0.  There the handler runs on top of whatever *)
(* the CPU was doing, which goes on when the handler has returned.  A step *)
(* ends where an actor starts to spin for a lock; the step after that one  *)
(* starts when the actor gets it.                                          *)
(***************************************************************************)
EXTENDS Integers, Sequences, FiniteSetsExt

CONSTANTS
  Proc, CPU,             \* CPU: 0 .. number of CPUs - 1
  INPUT_BUF, WIDTH,      \* WIDTH: number of values of an index, 2^32 in the code
  Sizes,                 \* bound: arguments of read()
  MaxJobs                \* bound: listings asked for in one interrupt

None == "none"

ASSUME IndexAssumption ==
  /\ INPUT_BUF \in Nat \ {0} /\ WIDTH \in Nat
  /\ WIDTH % INPUT_BUF = 0 /\ WIDTH > INPUT_BUF
ASSUME ActorAssumption ==
  /\ CPU \subseteq Nat /\ 0 \in CPU
  /\ None \notin Proc /\ "intr" \notin Proc
ASSUME SizeAssumption == Sizes \subseteq Nat

Char == {"x", "\n", "^D"}
Keys == Char \cup {"^U", "^H", "^P", "^R", "^F"}
Locks == {"cons", "ptable"}
Jobs == {"procdump", "printReadyList", "freeListSize"}

VARIABLES
  buf, r, w, e,          \* input
  m,                     \* the locks and the interrupt state of the CPUs, see Machine
  pc, on,                \* of a process: where it is, its CPU
  left, target, eof,     \* of consoleread(): n, target, whether the last one to end returned 0
  killed,
  hpc, todo,             \* of the handler: where it is; what is left to print
  at                     \* its place in the operations of Head(todo)

vars == <<buf, r, w, e, m, pc, on, left, target, eof, killed, hpc, todo, at>>

input == <<buf, r, w, e>>
procs == <<pc, on, left, target, eof, killed>>
handler == <<hpc, todo, at>>

Machine == [lock : [Locks -> Proc \cup {None, "intr"}],   \* who holds it
            ncli : [CPU -> Int], intena : [CPU -> BOOLEAN],
            ie : [CPU -> BOOLEAN],                        \* FL_IF
            panic : BOOLEAN]

TypeOK ==
  /\ buf \in [0 .. INPUT_BUF - 1 -> Char] /\ {r, w, e} \subseteq 0 .. WIDTH - 1
  /\ DOMAIN m = {"lock", "ncli", "intena", "ie", "panic"}
  /\ m.lock \in [Locks -> Proc \cup {None, "intr"}]
  /\ \A c \in CPU : m.ncli[c] \in 0 .. 2
  /\ pc \in [Proc -> {"user", "read", "write", "sleep", "asleep", "ready"}]
  /\ on \in [Proc -> CPU \cup {-1}]
  /\ hpc \in {"idle", "enter", "wakeup", "more", "print", "spin"}

-----------------------------------------------------------------------------
(* spinlock.c, as operators on m. *)

CPUof(a) == IF a = "intr" THEN 0 ELSE on[a]

\* Mutant: interrupts stay on.
KeepInterrupts(s, c) ==
  [s EXCEPT !.intena[c] = IF s.ncli[c] = 0 THEN s.ie[c] ELSE @, !.ncli[c] = @ + 1]

pushcli(s, c) ==
  [s EXCEPT !.intena[c] = IF s.ncli[c] = 0 THEN s.ie[c] ELSE @,
            !.ncli[c] = @ + 1, !.ie[c] = FALSE]

popcli(s, c) ==
  [s EXCEPT !.ncli[c] = @ - 1,
            !.ie[c] = IF s.ncli[c] = 1 /\ s.intena[c] THEN TRUE ELSE @,
            !.panic = @ \/ s.ie[c] \/ s.ncli[c] < 1]

holding(s, c, l) == s.lock[l] # None /\ CPUof(s.lock[l]) = c

\* acquire() up to the loop, and from where the loop ends.
Spin(s, c, l)    == [pushcli(s, c) EXCEPT !.panic = @ \/ holding(s, c, l)]
Locked(s, a, l)  == [s EXCEPT !.lock[l] = a]

release(s, a, c, l) ==
  [popcli([s EXCEPT !.lock[l] = None], c) EXCEPT !.panic = @ \/ s.lock[l] # a]

Free(l) == m.lock[l] = None

-----------------------------------------------------------------------------
(* The ring. *)

Size(a, b) == (b - a) % WIDTH           \* b - a, of unsigned integers

Up(i) == (i + 1) % WIDTH
At(i)      == i % INPUT_BUF

\* How many characters the loop of consoleread() takes from index i on, of n
\* that are wanted, before it meets one of stops or the end of the input.
Plain(i, n, stops) ==
  Min({k \in 0 .. n : k = n \/ (i + k) % WIDTH = w \/ buf[At((i + k) % WIDTH)] \in stops})

\* Mutant: a read goes on behind the end of a line.
PastLine(i, n, t) ==
  LET k == Plain(i, n, {"^D"})
      j == (i + k) % WIDTH
  IN
  IF k = n THEN [r |-> j, n |-> 0, done |-> TRUE]
  ELSE IF j = w THEN [r |-> j, n |-> n - k, done |-> FALSE]
  ELSE [r |-> IF n - k < t THEN j ELSE Up(j), n |-> n - k, done |-> TRUE]

\* The loop of consoleread() from index i with n characters still wanted: it
\* ends at the end of a line, at ^D, with n characters, or for lack of input.
\* A ^D stays for the next call when this one has characters to return.
ReadLoop(i, n, t) ==
  LET k == Plain(i, n, {"\n", "^D"})
      j == (i + k) % WIDTH
  IN
  IF k = n THEN [r |-> j, n |-> 0, done |-> TRUE]
  ELSE IF j = w THEN [r |-> j, n |-> n - k, done |-> FALSE]
  ELSE IF buf[At(j)] = "\n" THEN [r |-> Up(j), n |-> n - k - 1, done |-> TRUE]
  ELSE [r |-> IF n - k < t THEN j ELSE Up(j), n |-> n - k, done |-> TRUE]

\* Bytes outside r .. e-1 are never read again: they are "x" here.
Forget(b, from, to) ==
  [i \in DOMAIN b |-> IF \E k \in 0 .. Size(from, to) - 1 : At((from + k) % WIDTH) = i THEN "x" ELSE b[i]]

-----------------------------------------------------------------------------
(* The processes. *)

Init ==
  /\ buf = [i \in 0 .. INPUT_BUF - 1 |-> "x"] /\ r = 0 /\ w = 0 /\ e = 0
  /\ m = [lock |-> [l \in Locks |-> None], ncli |-> [c \in CPU |-> 0],
          intena |-> [c \in CPU |-> FALSE], ie |-> [c \in CPU |-> TRUE], panic |-> FALSE]
  /\ pc = [p \in Proc |-> "user"]
  /\ on \in [Proc -> CPU] /\ IsInjective(on)
  /\ left = [p \in Proc |-> 0] /\ target = [p \in Proc |-> 0] /\ eof = [p \in Proc |-> FALSE]
  /\ killed = [p \in Proc |-> FALSE]
  /\ hpc = "idle" /\ todo = <<>> /\ at = 0

\* p takes a step of code label: its CPU is not running the handler.
Step(p, label) == ~m.panic /\ pc[p] = label /\ (on[p] = 0 => hpc = "idle")

Goto(p, label) == pc' = [pc EXCEPT ![p] = label]

consoleread(p, n) ==
  /\ Step(p, "user")
  /\ m' = Spin(m, on[p], "cons")
  /\ left' = [left EXCEPT ![p] = n] /\ target' = [target EXCEPT ![p] = n]
  /\ Goto(p, "read")
  /\ UNCHANGED <<input, on, eof, killed, handler>>

\* The reader has cons.lock: it returns, -1 if it was killed, or goes on to
\* acquire ptable.lock in sleep().  A killed process exits; a new one takes
\* its place.
readLocked(p) ==
  LET s   == Locked(m, p, "cons")
      got == ReadLoop(r, left[p], target[p])
      end == got.done \/ killed[p]
  IN
  /\ Step(p, "read") /\ Free("cons")
  /\ r' = got.r /\ buf' = Forget(buf, r, got.r)
  /\ left' = [left EXCEPT ![p] = IF end THEN 0 ELSE got.n]
  /\ target' = [target EXCEPT ![p] = IF end THEN 0 ELSE @]
  /\ eof' = [q \in Proc |-> q = p /\ got.done /\ got.n = target[p]]
  /\ m' = IF end THEN release(s, p, on[p], "cons") ELSE Spin(s, on[p], "ptable")
  /\ Goto(p, IF end THEN "user" ELSE "sleep")
  /\ killed' = [killed EXCEPT ![p] = @ /\ ~end]
  /\ UNCHANGED <<w, e, on, handler>>

\* sleep() has ptable.lock; it gives up the lock of the caller and the CPU,
\* whose scheduler releases ptable.lock.
sleep(p) ==
  LET c == on[p]
      s == release(Locked(m, p, "ptable"), p, c, "cons")
  IN
  /\ Step(p, "sleep") /\ Free("ptable")
  /\ m' = release([s EXCEPT !.panic = @ \/ s.ncli[c] # 1], p, c, "ptable")
  /\ on' = [on EXCEPT ![p] = -1]
  /\ Goto(p, "asleep")
  /\ UNCHANGED <<input, left, target, eof, killed, handler>>

\* A scheduler runs a process that was woken; sleep() acquires cons.lock.
scheduler(p, c) ==
  /\ ~m.panic /\ pc[p] = "ready" /\ \A q \in Proc : on[q] # c
  /\ c = 0 => hpc = "idle"
  /\ Free("ptable")
  /\ on' = [on EXCEPT ![p] = c]
  /\ m' = Spin(m, c, "cons")
  /\ Goto(p, "read")
  /\ UNCHANGED <<input, left, target, eof, killed, handler>>

consolewrite(p) ==
  /\ Step(p, "user")
  /\ m' = Spin(m, on[p], "cons")
  /\ Goto(p, "write")
  /\ UNCHANGED <<input, on, left, target, eof, killed, handler>>

writeLocked(p) ==
  /\ Step(p, "write") /\ Free("cons")
  /\ m' = release(Locked(m, p, "cons"), p, on[p], "cons")
  /\ Goto(p, "user")
  /\ killed' = [killed EXCEPT ![p] = FALSE]
  /\ UNCHANGED <<input, on, left, target, eof, handler>>

\* kill() of p by q.
kill(q, p) ==
  /\ Step(q, "user") /\ q # p /\ Free("ptable")
  /\ killed' = [killed EXCEPT ![p] = pc[p] # "user"]
  /\ Goto(p, IF pc[p] = "asleep" THEN "ready" ELSE pc[p])
  /\ UNCHANGED <<input, m, on, left, target, eof, handler>>

-----------------------------------------------------------------------------
(* The handler. *)

\* The locks that a listing takes (+) and gives back (-).  ^S and ^Z take the
\* same ones as ^R.
cprintf        == <<<<"+", "cons">>, <<"-", "cons">>>>
procdump       == cprintf
printReadyList == cprintf \o <<<<"+", "ptable">>>> \o cprintf \o <<<<"-", "ptable">>>>
freeListSize   == <<<<"+", "ptable">>, <<"-", "ptable">>>> \o cprintf

Ops(job) ==
  CASE job = "procdump" -> procdump
    [] job = "printReadyList" -> printReadyList
    [] job = "freeListSize" -> freeListSize

\* The interrupt with a character: the gate clears FL_IF.
Interrupt ==
  /\ ~m.panic /\ hpc = "idle" /\ m.ie[0]
  /\ m' = Spin([m EXCEPT !.ie[0] = FALSE], 0, "cons")
  /\ hpc' = "enter"
  /\ UNCHANGED <<input, procs, todo, at>>

\* Is the line complete with c, up to index end?
Finishes(c, end) == c \in {"\n", "^D"} \/ end = (r + INPUT_BUF) % WIDTH

\* What is left to print, in the order in which consoleintr() looks at its flags.
Flagged(j, jobs) == IF j \in jobs THEN <<j>> ELSE <<>>
Listings(jobs) ==
  Flagged("procdump", jobs) \o Flagged("printReadyList", jobs) \o Flagged("freeListSize", jobs)

\* One turn of the loop of consoleintr(), which has cons.lock in state s.
consoleintr(c, s) ==
  LET fits == c \in Char /\ Size(r, e) < INPUT_BUF
      back == CASE c = "^U" -> w [] c = "^H" /\ e # w -> (e - 1) % WIDTH [] OTHER -> e
      wake == fits /\ Finishes(c, Up(e))
      job  == CASE c = "^P" -> {"procdump"} [] c = "^R" -> {"printReadyList"}
                [] c = "^F" -> {"freeListSize"} [] OTHER -> {}
      jobs == Range(todo) \cup job
  IN
  /\ Cardinality(jobs) <= MaxJobs
  /\ e' = IF fits THEN Up(e) ELSE back
  /\ buf' = IF fits THEN [buf EXCEPT ![At(e)] = c] ELSE Forget(buf, back, e)
  /\ w' = IF wake THEN Up(e) ELSE w
  /\ m' = IF wake THEN Spin(s, 0, "ptable") ELSE s
  /\ hpc' = IF wake THEN "wakeup" ELSE "more"
  /\ todo' = Listings(jobs)
  /\ UNCHANGED <<r, procs, at>>

FirstKey(c) == ~m.panic /\ hpc = "enter" /\ Free("cons") /\ consoleintr(c, Locked(m, "intr", "cons"))

NextKey(c) == ~m.panic /\ hpc = "more" /\ consoleintr(c, m)

\* Mutant: nobody is woken.
NoWakeup ==
  /\ ~m.panic /\ hpc = "wakeup" /\ Free("ptable")
  /\ m' = release(Locked(m, "intr", "ptable"), "intr", 0, "ptable")
  /\ hpc' = "more"
  /\ UNCHANGED <<input, procs, todo, at>>

\* wakeup(&input.r) has ptable.lock.
wakeup ==
  /\ ~m.panic /\ hpc = "wakeup" /\ Free("ptable")
  /\ pc' = [p \in Proc |-> IF pc[p] = "asleep" THEN "ready" ELSE pc[p]]
  /\ m' = release(Locked(m, "intr", "ptable"), "intr", 0, "ptable")
  /\ hpc' = "more"
  /\ UNCHANGED <<input, on, left, target, eof, killed, todo, at>>

\* No more characters.
Drained ==
  /\ ~m.panic /\ hpc = "more"
  /\ m' = release(m, "intr", 0, "cons")
  /\ hpc' = "print" /\ at' = 1
  /\ UNCHANGED <<input, procs, todo>>

\* The next lock operation of the listing, or the return from the interrupt.
Listing ==
  LET op == Ops(Head(todo))[at]
      s  == IF op[1] = "+" THEN Spin(m, 0, op[2]) ELSE release(m, "intr", 0, op[2])
  IN
  /\ ~m.panic /\ hpc = "print"
  /\ IF todo = <<>> THEN m' = [m EXCEPT !.ie[0] = TRUE] /\ hpc' = "idle" /\ at' = 0 /\ todo' = todo
     ELSE IF at > Len(Ops(Head(todo))) THEN todo' = Tail(todo) /\ at' = 1 /\ UNCHANGED <<m, hpc>>
     ELSE IF op[1] = "+" THEN m' = s /\ hpc' = "spin" /\ UNCHANGED <<at, todo>>
     ELSE m' = s /\ at' = at + 1 /\ UNCHANGED <<hpc, todo>>
  /\ UNCHANGED <<input, procs>>

ListingLocked ==
  LET l == Ops(Head(todo))[at][2]
  IN
  /\ ~m.panic /\ hpc = "spin" /\ Free(l)
  /\ m' = Locked(m, "intr", l)
  /\ hpc' = "print" /\ at' = at + 1
  /\ UNCHANGED <<input, procs, todo>>

Next ==
  \/ \E p \in Proc :
       \/ \E n \in Sizes : consoleread(p, n)
       \/ readLocked(p) \/ sleep(p) \/ consolewrite(p) \/ writeLocked(p)
       \/ \E c \in CPU : scheduler(p, c)
       \/ \E q \in Proc : kill(q, p)
  \/ \E c \in Keys : FirstKey(c) \/ NextKey(c)
  \/ Interrupt \/ wakeup \/ Drained \/ Listing \/ ListingLocked

Spec == Init /\ [][Next]_vars

-----------------------------------------------------------------------------
\* acquire(), release(), popcli() and sched() never panic: no interrupt comes
\* in on a CPU that holds or waits for a lock, and every pushcli() has its
\* popcli() although sleep() acquires and releases out of order.
LocksNest == ~m.panic /\ \A c \in CPU : m.ncli[c] > 0 => ~m.ie[c]

\* Two actors wait for each other only when the handler prints a list of
\* processes with ptable.lock held while a reader that holds cons.lock goes
\* to sleep.  All other uses take cons.lock before ptable.lock.
CycleOnlyWhenListing ==
  \A p \in Proc :
    pc[p] = "sleep" /\ m.lock["ptable"] = "intr" /\ hpc = "spin"
      => Head(todo) = "printReadyList"

\* Nobody spins for ever for cons.lock or ptable.lock, neither because of an
\* interrupt nor in a circle, but for the circle of CycleOnlyWhenListing.
LocksSafe == TypeOK /\ LocksNest /\ CycleOnlyWhenListing

\* Readers get what is typed.  No wakeup is lost: a reader sleeps only while
\* there is nothing to read, or the wakeup for it is on its way.  And a full
\* buffer never waits for an end of line that cannot be typed: when there is
\* no room for another character there is something to read.
ReadersServed ==
  /\ \A p \in Proc : pc[p] = "asleep" => r = w \/ hpc = "wakeup"
  /\ Size(r, e) = INPUT_BUF => r # w

\* A ^D is used up by exactly the reads that return 0 characters: neither is
\* it lost in a read that returns some, nor seen twice.
Count(c) == Cardinality({k \in 0 .. Size(r, w) - 1 : buf[At((r + k) % WIDTH)] = c})

EOFOnce ==
  [][r' # r => LET p == CHOOSE q \in Proc : pc[q] = "read" /\ pc'[q] # "read"
               IN  Count("^D")' = Count("^D") - (IF eof'[p] THEN 1 ELSE 0)]_vars

\* The indices, which wrap around, and the ring implement the line editor of
\* Tty for any number of readers.
Text(a, b) == [k \in 1 .. Size(a, b) |-> buf[At((a + k - 1) % WIDTH)]]

T == INSTANCE Tty WITH NL <- "\n", EOF <- "^D", Room <- INPUT_BUF, finished <- Text(r, w), edited <- Text(w, e)

ImplementsTty == T!Spec
=============================================================================
