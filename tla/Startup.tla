------------------------------ MODULE Startup ------------------------------
(***************************************************************************)
(* How the kernel starts (main.c, lapic.c, entryother.S): the boot         *)
(* processor starts the others one at a time, through one mailbox below    *)
(* the entry code at 0x7000, while the page allocator has no lock and      *)
(* knows the first 4 Mbyte only; then it gives the allocator the rest of   *)
(* the memory and its lock, and makes the first process.                   *)
(*                                                                         *)
(* main() is the sequence Order; step is where the boot processor is.      *)
(***************************************************************************)
EXTENDS Naturals, Sequences

CONSTANTS
  ncpu, bsp,             \* number of processors, the one that boots
  Low, High,             \* pages below and above 4 Mbyte
  NoPage

Cpu == 0 .. ncpu - 1

\* What mpinit() and the memory layout guarantee.
Machine == ncpu \in Nat /\ bsp \in Cpu /\ NoPage \notin Low \cup High /\ Low \cap High = {}

VARIABLES
  pc,                    \* of a processor: what it runs
  step,                  \* of main(): the place in Order
  c,                     \* of startothers(): the processor to start
  code,                  \* the mailbox: the stack for entryother.S
  stack, started,        \* of a processor
  free, use_lock,        \* of the page allocator
  first                  \* the first process

vars == <<pc, step, c, code, stack, started, free, use_lock, first>>

Labels == {"halted", "main", "spin", "entry", "mpenter", "mpmain", "scheduler", "process"}

TypeOK ==
  /\ pc \in [Cpu -> Labels] /\ step \in 1 .. 5 /\ c \in 0 .. ncpu
  /\ code \in Low \cup High \cup {NoPage} /\ stack \in [Cpu -> Low \cup High \cup {NoPage}]
  /\ started \in [Cpu -> BOOLEAN] /\ free \in SUBSET (Low \cup High) /\ use_lock \in BOOLEAN
  /\ first \in {"unused", "embryo", "runnable", "running"}

\* kinit2() is freerange and use_lock; userinit() makes an embryo, and puts
\* it on the ready list when it is complete.
Order == <<"startothers", "freerange", "use_lock", "allocproc", "userinit">>

\* kinit1() has freed the low pages.  The boot processor has a stack of its
\* own, outside the pages.
Init ==
  /\ pc = [i \in Cpu |-> IF i = bsp THEN "main" ELSE "halted"]
  /\ step = 1 /\ c = 0 /\ code = NoPage
  /\ stack = [i \in Cpu |-> NoPage] /\ started = [i \in Cpu |-> FALSE]
  /\ free = Low /\ use_lock = FALSE /\ first = "unused"

-----------------------------------------------------------------------------
At(call) == pc[bsp] = "main" /\ Order[step] = call

\* The call at step returns; after the last one comes mpmain().
Return ==
  IF step < 5 THEN step' = step + 1 /\ pc' = pc ELSE step' = step /\ pc' = [pc EXCEPT ![bsp] = "mpmain"]

\* startothers() for processor c: kalloc(), the mailbox, lapicstartap().
\* The second STARTUP finds the processor running and is ignored.
startap ==
  /\ At("startothers") /\ c < ncpu /\ c # bsp
  /\ \E page \in free : code' = page /\ free' = free \ {page}
  /\ pc' = [pc EXCEPT ![bsp] = "spin", ![c] = "entry"]
  /\ UNCHANGED <<step, c, stack, started, use_lock, first>>

\* Mutant: startothers() does not wait.
Hasty == TRUE

\* while(c->started == 0);
Seen == started[c]

startedSeen ==
  /\ pc[bsp] = "spin" /\ Seen
  /\ c' = c + 1 /\ pc' = [pc EXCEPT ![bsp] = "main"]
  /\ UNCHANGED <<step, code, stack, started, free, use_lock, first>>

skipSelf ==
  /\ At("startothers") /\ c = bsp /\ c' = c + 1
  /\ UNCHANGED <<pc, step, code, stack, started, free, use_lock, first>>

startothers == At("startothers") /\ c = ncpu /\ Return /\ UNCHANGED <<c, code, stack, started, free, use_lock, first>>

freerange == At("freerange") /\ free' = free \cup High /\ Return /\ UNCHANGED <<c, code, stack, started, use_lock, first>>

kinit2 == At("use_lock") /\ use_lock' = TRUE /\ Return /\ UNCHANGED <<c, code, stack, started, free, first>>

\* allocproc() takes a page for the kernel stack, among others.
allocproc ==
  /\ At("allocproc") /\ first' = "embryo" /\ Return
  /\ \E page \in free : free' = free \ {page}
  /\ UNCHANGED <<c, code, stack, started, use_lock>>

userinit == At("userinit") /\ first' = "runnable" /\ Return /\ UNCHANGED <<c, code, stack, started, free, use_lock>>

-----------------------------------------------------------------------------
\* entryother.S reads the mailbox, with entrypgdir as its page table.
entryother(i) ==
  /\ pc[i] = "entry"
  /\ stack' = [stack EXCEPT ![i] = code] /\ pc' = [pc EXCEPT ![i] = "mpenter"]
  /\ UNCHANGED <<step, c, code, started, free, use_lock, first>>

\* switchkvm(), and the registers of the processor.
mpenter(i) ==
  /\ pc[i] = "mpenter" /\ pc' = [pc EXCEPT ![i] = "mpmain"]
  /\ UNCHANGED <<step, c, code, stack, started, free, use_lock, first>>

Announced(i) == [started EXCEPT ![i] = TRUE]

mpmain(i) ==
  /\ pc[i] = "mpmain" /\ started' = Announced(i) /\ pc' = [pc EXCEPT ![i] = "scheduler"]
  /\ UNCHANGED <<step, c, code, stack, free, use_lock, first>>

scheduler(i) ==
  /\ pc[i] = "scheduler" /\ first = "runnable"
  /\ first' = "running" /\ pc' = [pc EXCEPT ![i] = "process"]
  /\ UNCHANGED <<step, c, code, stack, started, free, use_lock>>

yield(i) ==
  /\ pc[i] = "process" /\ first' = "runnable" /\ pc' = [pc EXCEPT ![i] = "scheduler"]
  /\ UNCHANGED <<step, c, code, stack, started, free, use_lock>>

Boot == startap \/ startedSeen \/ skipSelf \/ startothers \/ freerange \/ kinit2 \/ allocproc \/ userinit

Starting(i) == entryother(i) \/ mpenter(i) \/ mpmain(i)

Next == Boot \/ \E i \in Cpu : Starting(i) \/ scheduler(i) \/ yield(i)

\* Every processor executes instructions.
Spec == Init /\ [][Next]_vars /\ WF_vars(Boot) /\ \A i \in Cpu : WF_vars(Starting(i))

-----------------------------------------------------------------------------
InC(i) == pc[i] \in {"mpenter", "mpmain", "scheduler", "process"}

\* Every processor that startothers() has started runs on a stack of its own,
\* which is not free either: the mailbox is not reused before it is read.
OwnStack ==
  \A i, j \in Cpu \ {bsp} : InC(i) => stack[i] \notin free \cup {NoPage} /\ (InC(j) /\ i # j => stack[i] # stack[j])

\* While a processor runs with entrypgdir, which maps 4 Mbyte, its stack is
\* there: "must come after startothers()" of main().
StackMapped == \A i \in Cpu : pc[i] = "mpenter" => stack[i] \in Low

\* No process runs, which could allocate pages, before the allocator has its
\* lock and startothers() is over.
ProcessesLast == \A i \in Cpu : pc[i] = "process" => use_lock /\ c = ncpu

\* All processors come up, and none keeps the others from it.
AllUp == <>(\A i \in Cpu : pc[i] \in {"scheduler", "process"})
=============================================================================
