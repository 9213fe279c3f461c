--------------------------- MODULE StartupProofs ---------------------------
(***************************************************************************)
(* Startup is right for any number of processors and of pages.             *)
(*                                                                         *)
(* The inductive invariant says how far each processor can be, given where *)
(* the boot processor is: at most one is between its start and mpmain(),   *)
(* and then the boot processor spins for it; the mailbox holds the stack   *)
(* of that one.                                                            *)
(***************************************************************************)
EXTENDS Startup, TLAPS

Other == Cpu \ {bsp}

\* The boot processor: what its place in main() says about the rest.
BootInv ==
  /\ pc[bsp] \in {"main", "spin", "mpmain", "scheduler", "process"}
  /\ pc[bsp] = "spin" => step = 1 /\ c \in Other
  /\ pc[bsp] \in {"mpmain", "scheduler", "process"} => step = 5
  /\ step = 1 => free \subseteq Low
  /\ step > 1 => c = ncpu
  /\ step > 3 => use_lock
  /\ first \in {"runnable", "running"} => step = 5

\* The others: started up to c, the one in between, and halted beyond.
CpuInv ==
  \A i \in Other :
    /\ pc[i] \in {"halted", "entry", "mpenter", "mpmain", "scheduler", "process"}
    /\ pc[i] \in {"entry", "mpenter", "mpmain"} => pc[bsp] = "spin" /\ i = c
    /\ started[i] => pc[i] \in {"scheduler", "process"}
    /\ i > c \/ (i = c /\ pc[bsp] # "spin") => pc[i] = "halted"
    /\ pc[i] = "entry" => code \in Low \ free
    /\ pc[i] = "mpenter" => stack[i] \in Low

\* The stacks, and the one that waits in the mailbox.
StackInv ==
  \A i \in Other : InC(i) =>
    /\ stack[i] \in Low \ free
    /\ \A j \in Other \ {i} : (InC(j) => stack[i] # stack[j]) /\ (pc[j] = "entry" => stack[i] # code)

\* A process runs only when main() has made it.
ProcessInv == \A i \in Cpu : pc[i] = "process" => step = 5

IInv == TypeOK /\ BootInv /\ CpuInv /\ StackInv /\ ProcessInv

-----------------------------------------------------------------------------
\* Where main() is when it makes a call.
LEMMA OrderIs ==
  ASSUME NEW s \in 1 .. 5
  PROVE  /\ Order[s] = "startothers" <=> s = 1
         /\ Order[s] = "freerange" <=> s = 2
         /\ Order[s] = "use_lock" <=> s = 3
         /\ Order[s] = "allocproc" <=> s = 4
         /\ Order[s] = "userinit" <=> s = 5
<1>1. s = 1 \/ s = 2 \/ s = 3 \/ s = 4 \/ s = 5
  OBVIOUS
<1>2. QED
  BY <1>1 DEF Order

LEMMA InitInv == ASSUME Machine, Init PROVE IInv
<1>1. TypeOK
  <2>1. pc \in [Cpu -> Labels] /\ stack \in [Cpu -> Low \cup High \cup {NoPage}] /\ started \in [Cpu -> BOOLEAN]
    BY DEF Init, Labels
  <2>2. step \in 1 .. 5 /\ c \in 0 .. ncpu
    BY DEF Init, Machine
  <2>3. free \in SUBSET (Low \cup High) /\ code \in Low \cup High \cup {NoPage} /\ use_lock \in BOOLEAN
    BY DEF Init
  <2>4. QED
    BY <2>1, <2>2, <2>3 DEF Init, TypeOK
<1>2. BootInv
  BY DEF Machine, Init, BootInv
<1>3. CpuInv
  BY DEF Machine, Init, CpuInv, Other, Cpu
<1>4. StackInv
  BY DEF Init, StackInv, InC, Other
<1>5. ProcessInv
  BY DEF Init, ProcessInv
<1>6. QED
  BY <1>1, <1>2, <1>3, <1>4, <1>5 DEF IInv

\* The boot processor does not change the invariant of the others unless it
\* starts one.
LEMMA BootStep == ASSUME Machine, IInv, Boot PROVE IInv'
<1> USE DEF Machine, Cpu
<1>0. /\ At("startothers") => step = 1 /\ pc[bsp] = "main"
      /\ At("freerange") => step = 2 /\ pc[bsp] = "main"
      /\ At("use_lock") => step = 3 /\ pc[bsp] = "main"
      /\ At("allocproc") => step = 4 /\ pc[bsp] = "main"
      /\ At("userinit") => step = 5 /\ pc[bsp] = "main"
  BY OrderIs DEF At, IInv, TypeOK
<1>1. CASE startap
  <2>1. PICK page \in free : code' = page /\ free' = free \ {page}
    BY <1>1 DEF startap
  <2>2. /\ step = 1 /\ pc[bsp] = "main" /\ c \in Other /\ page \in Low
        /\ pc' = [pc EXCEPT ![bsp] = "spin", ![c] = "entry"]
        /\ UNCHANGED <<step, c, stack, started, use_lock, first>>
    BY <1>0, <1>1, <2>1 DEF startap, IInv, TypeOK, BootInv, Other
  <2>3. TypeOK'
    BY <2>1, <2>2 DEF IInv, TypeOK, Labels
  <2>4. BootInv'
    BY <2>1, <2>2 DEF IInv, TypeOK, BootInv, Other
  <2>5. CpuInv'
    BY <2>1, <2>2 DEF IInv, TypeOK, CpuInv, Other
  <2>6. StackInv'
    BY <2>1, <2>2 DEF IInv, TypeOK, StackInv, InC, Other
  <2>7. ProcessInv'
    BY <2>2 DEF IInv, TypeOK, ProcessInv, Other
  <2>8. QED
    BY <2>3, <2>4, <2>5, <2>6, <2>7 DEF IInv
<1>2. CASE startedSeen
  <2>1. /\ step = 1 /\ c \in Other /\ pc[bsp] = "spin" /\ started[c] /\ c' = c + 1
        /\ pc' = [pc EXCEPT ![bsp] = "main"]
        /\ UNCHANGED <<step, code, stack, started, free, use_lock, first>>
    BY <1>2 DEF startedSeen, Seen, IInv, BootInv
  <2>2. pc[c] \in {"scheduler", "process"}
    BY <2>1 DEF IInv, CpuInv
  <2>3. TypeOK'
    BY <2>1 DEF IInv, TypeOK, Labels, Other
  <2>4. BootInv'
    BY <2>1 DEF IInv, TypeOK, BootInv
  <2>5. CpuInv'
    BY <2>1, <2>2 DEF IInv, TypeOK, CpuInv, Other
  <2>6. StackInv'
    BY <2>1 DEF IInv, TypeOK, StackInv, InC, Other
  <2>7. ProcessInv'
    BY <2>1 DEF IInv, TypeOK, ProcessInv, Other
  <2>8. QED
    BY <2>3, <2>4, <2>5, <2>6, <2>7 DEF IInv
<1>3. CASE skipSelf
  <2>1. /\ step = 1 /\ c = bsp /\ pc[bsp] = "main" /\ c' = c + 1
        /\ UNCHANGED <<pc, step, code, stack, started, free, use_lock, first>>
    BY <1>0, <1>3 DEF skipSelf
  <2>2. TypeOK' /\ BootInv'
    BY <2>1 DEF IInv, TypeOK, BootInv
  <2>3. CpuInv'
    BY <2>1 DEF IInv, TypeOK, CpuInv, Other
  <2>4. StackInv' /\ ProcessInv'
    BY <2>1 DEF IInv, TypeOK, StackInv, ProcessInv, InC, Other
  <2>5. QED
    BY <2>2, <2>3, <2>4 DEF IInv
<1>4. CASE startothers \/ freerange \/ kinit2 \/ allocproc \/ userinit
  <2>1. /\ pc[bsp] = "main" /\ Return
        /\ UNCHANGED <<c, code, stack, started>>
        /\ c = ncpu /\ free' \subseteq free \cup High
    BY <1>0, <1>4 DEF startothers, freerange, kinit2, allocproc, userinit, At, IInv, BootInv
  <2>2. /\ step' \in 2 .. 5 /\ (step = 5 => step' = 5)
        /\ \A i \in Cpu : pc'[i] = pc[i] \/ (i = bsp /\ pc'[i] = "mpmain" /\ step' = 5)
        /\ pc' \in [Cpu -> Labels]
    BY <1>0, <1>4, <2>1 DEF startothers, freerange, kinit2, allocproc, userinit, Return, IInv, TypeOK, Labels
  <2>3. TypeOK'
    <3>1. free' \in SUBSET (Low \cup High)
      BY <2>1 DEF IInv, TypeOK
    <3>2. use_lock' \in BOOLEAN /\ first' \in {"unused", "embryo", "runnable", "running"}
      BY <1>4 DEF startothers, freerange, kinit2, allocproc, userinit, IInv, TypeOK
    <3>3. QED
      BY <2>1, <2>2, <3>1, <3>2 DEF IInv, TypeOK
  <2>4. BootInv'
    BY <1>0, <1>4, <2>1, <2>2 DEF startothers, freerange, kinit2, allocproc, userinit, Return, IInv, TypeOK, BootInv
  <2>5. CpuInv'
    BY <2>1, <2>2 DEF IInv, TypeOK, CpuInv, Other
  <2>6. StackInv'
    BY <2>1, <2>2 DEF IInv, TypeOK, CpuInv, StackInv, InC, Other
  <2>7. ProcessInv'
    BY <2>2 DEF IInv, TypeOK, ProcessInv
  <2>8. QED
    BY <2>3, <2>4, <2>5, <2>6, <2>7 DEF IInv
<1>5. QED
  BY <1>1, <1>2, <1>3, <1>4 DEF Boot

\* A processor changes its own place, and the boot processor its own.
LEMMA CpuStep ==
  ASSUME Machine, IInv, NEW i \in Cpu, Starting(i) \/ scheduler(i) \/ yield(i)
  PROVE  IInv'
<1> USE DEF Machine, Cpu
<1>1. CASE entryother(i)
  <2>1. /\ i \in Other /\ pc[i] = "entry" /\ i = c /\ code \in Low \ free
        /\ stack' = [stack EXCEPT ![i] = code] /\ pc' = [pc EXCEPT ![i] = "mpenter"]
        /\ UNCHANGED <<step, c, code, started, free, use_lock, first>>
    BY <1>1 DEF entryother, IInv, BootInv, CpuInv, Other
  <2>2. TypeOK' /\ BootInv'
    BY <2>1 DEF IInv, TypeOK, BootInv, Labels, Other
  <2>3. CpuInv'
    BY <2>1 DEF IInv, TypeOK, CpuInv, Other
  <2>4. StackInv'
    <3>1. \A j \in Other \ {i} : pc'[j] = pc[j] /\ stack'[j] = stack[j] /\ pc[j] # "entry"
      BY <2>1 DEF IInv, TypeOK, CpuInv, Other
    <3>2. pc'[i] = "mpenter" /\ stack'[i] = code
      BY <2>1 DEF IInv, TypeOK
    <3>3. \A j \in Other \ {i} : InC(j) => stack[j] # code
      BY <2>1 DEF IInv, StackInv
    <3>4. QED
      BY <2>1, <3>1, <3>2, <3>3 DEF IInv, StackInv, InC
  <2>5. ProcessInv'
    BY <2>1 DEF IInv, TypeOK, ProcessInv
  <2>6. QED
    BY <2>2, <2>3, <2>4, <2>5 DEF IInv
<1>2. CASE mpenter(i) \/ mpmain(i)
  <2>1. /\ pc[i] \in {"mpenter", "mpmain"} /\ (i = bsp => pc[i] = "mpmain")
        /\ (pc[i] = "mpenter" => pc' = [pc EXCEPT ![i] = "mpmain"] /\ started' = started)
        /\ (pc[i] = "mpmain" => pc' = [pc EXCEPT ![i] = "scheduler"] /\ started' = [started EXCEPT ![i] = TRUE])
        /\ UNCHANGED <<step, c, code, stack, free, use_lock, first>>
    BY <1>2 DEF mpenter, mpmain, Announced, IInv, BootInv
  <2>2. TypeOK' /\ BootInv'
    BY <2>1 DEF IInv, TypeOK, BootInv, Labels
  <2>3. CpuInv'
    BY <2>1 DEF IInv, TypeOK, CpuInv, Other
  <2>4. StackInv'
    BY <2>1 DEF IInv, TypeOK, StackInv, InC, Other
  <2>5. ProcessInv'
    BY <2>1 DEF IInv, TypeOK, ProcessInv
  <2>6. QED
    BY <2>2, <2>3, <2>4, <2>5 DEF IInv
<1>3. CASE scheduler(i) \/ yield(i)
  <2>1. /\ pc[i] \in {"scheduler", "process"} /\ step = 5
        /\ \E l \in {"scheduler", "process"} : pc' = [pc EXCEPT ![i] = l]
        /\ first' \in {"runnable", "running"}
        /\ UNCHANGED <<step, c, code, stack, started, free, use_lock>>
    <3>1. CASE scheduler(i)
      BY <3>1 DEF scheduler, IInv, BootInv, TypeOK
    <3>2. CASE yield(i)
      BY <3>2 DEF yield, IInv, ProcessInv
    <3>3. QED
      BY <1>3, <3>1, <3>2
  <2>2. TypeOK' /\ BootInv'
    BY <2>1 DEF IInv, TypeOK, BootInv, Labels
  <2>3. CpuInv'
    BY <2>1 DEF IInv, TypeOK, CpuInv, Other
  <2>4. StackInv'
    BY <2>1 DEF IInv, TypeOK, StackInv, InC, Other
  <2>5. ProcessInv'
    BY <2>1 DEF IInv, TypeOK, BootInv, ProcessInv
  <2>6. QED
    BY <2>2, <2>3, <2>4, <2>5 DEF IInv
<1>4. QED
  BY <1>1, <1>2, <1>3 DEF Starting

LEMMA NextInv == ASSUME Machine, IInv, [Next]_vars PROVE IInv'
<1>1. CASE Boot
  BY <1>1, BootStep
<1>2. CASE \E i \in Cpu : Starting(i) \/ scheduler(i) \/ yield(i)
  BY <1>2, CpuStep
<1>3. CASE UNCHANGED vars
  BY <1>3 DEF vars, IInv, TypeOK, BootInv, CpuInv, StackInv, ProcessInv, InC
<1>4. QED
  BY <1>1, <1>2, <1>3 DEF Next

LEMMA Invariant == ASSUME Machine PROVE Spec => []IInv
<1>1. Init => IInv
  BY InitInv
<1>2. IInv /\ [Next]_vars => IInv'
  BY NextInv
<1>3. QED
  BY <1>1, <1>2, PTL DEF Spec

-----------------------------------------------------------------------------
\* However many processors there are, each one that startothers() starts gets
\* a stack of its own: see OwnStack.
THEOREM StacksApart == ASSUME Machine PROVE Spec => []OwnStack
<1>1. IInv => OwnStack
  BY DEF Machine, IInv, StackInv, OwnStack, InC, Other
<1>2. QED
  BY <1>1, Invariant, PTL

\* The stack of a processor that runs with entrypgdir is in the memory which
\* that maps: see StackMapped.
THEOREM StacksLow == ASSUME Machine PROVE Spec => []StackMapped
<1>1. IInv => StackMapped
  BY DEF IInv, BootInv, CpuInv, StackMapped, Other
<1>2. QED
  BY <1>1, Invariant, PTL

\* No process runs before the page allocator has its lock and all processors
\* have been started: see ProcessesLast.
THEOREM StartedFirst == ASSUME Machine PROVE Spec => []ProcessesLast
<1>1. IInv => ProcessesLast
  BY DEF IInv, TypeOK, BootInv, ProcessInv, ProcessesLast
<1>2. QED
  BY <1>1, Invariant, PTL
=============================================================================
