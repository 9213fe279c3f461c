------------------------------- MODULE Clock -------------------------------
(***************************************************************************)
(* sys_sleep() (sysproc.c) and the timer interrupt (trap.c).  The test of  *)
(* the time and the sleep are not under one lock: ticks is only ever       *)
(* incremented, and wakeup() comes after it.                               *)
(***************************************************************************)
EXTENDS Integers

CONSTANTS
  Sleeper,
  WIDTH,                 \* number of values of ticks, 2^32 in the code
  MaxDelay,              \* bound: ticks that a process that can run waits for the CPU
  Delays                 \* bound: arguments of sleep(), as unsigned numbers

VARIABLES
  ticks,
  waking,                \* the timer interrupt is between atom_inc() and wakeup()
  at, ticks0, n,         \* of a process in sys_sleep()
  killed,
  elapsed,               \* ticks since the process read ticks0, up to WIDTH
  delay                  \* ticks that it has waited for the CPU

vars == <<ticks, waking, at, ticks0, n, killed, elapsed, delay>>

TypeOK ==
  /\ ticks \in 0 .. WIDTH - 1 /\ waking \in BOOLEAN
  /\ at \in [Sleeper -> {"user", "test", "sleep", "asleep"}]
  /\ ticks0 \in [Sleeper -> 0 .. WIDTH - 1] /\ n \in [Sleeper -> 0 .. WIDTH - 1]
  /\ killed \in [Sleeper -> BOOLEAN] /\ elapsed \in [Sleeper -> 0 .. WIDTH]
  /\ delay \in [Sleeper -> 0 .. MaxDelay]

Init ==
  /\ ticks = 0 /\ waking = FALSE
  /\ at = [p \in Sleeper |-> "user"]
  /\ ticks0 = [p \in Sleeper |-> 0] /\ n = [p \in Sleeper |-> 0]
  /\ killed = [p \in Sleeper |-> FALSE] /\ elapsed = [p \in Sleeper |-> 0]
  /\ delay = [p \in Sleeper |-> 0]

\* atom_inc(&ticks) on CPU 0.
CanRun(p) == at[p] \in {"test", "sleep"}

Tick ==
  /\ ~waking
  /\ \A p \in Sleeper : delay[p] < MaxDelay
  /\ ticks' = (ticks + 1) % WIDTH /\ waking' = TRUE
  /\ elapsed' = [p \in Sleeper |-> IF at[p] = "user" \/ elapsed[p] = WIDTH THEN elapsed[p] ELSE elapsed[p] + 1]
  /\ delay' = [p \in Sleeper |-> IF CanRun(p) THEN delay[p] + 1 ELSE 0]
  /\ UNCHANGED <<at, ticks0, n, killed>>

\* Mutant: nobody is woken.
NoWakeup ==
  waking /\ waking' = FALSE /\ UNCHANGED <<ticks, at, ticks0, n, killed, elapsed, delay>>

\* wakeup(&ticks).
wakeup ==
  /\ waking /\ waking' = FALSE
  /\ at' = [p \in Sleeper |-> IF at[p] = "asleep" THEN "test" ELSE at[p]]
  /\ UNCHANGED <<ticks, ticks0, n, killed, elapsed, delay>>

sys_sleep(p, k) ==
  /\ at[p] = "user"
  /\ at' = [at EXCEPT ![p] = "test"]
  /\ ticks0' = [ticks0 EXCEPT ![p] = ticks] /\ n' = [n EXCEPT ![p] = k]
  /\ elapsed' = [elapsed EXCEPT ![p] = 0]
  /\ UNCHANGED <<ticks, waking, killed, delay>>

\* The condition of the loop, between unsigned numbers.
Waits(p) == (ticks - ticks0[p]) % WIDTH < n[p]

Test(p) ==
  LET stay == Waits(p) /\ ~killed[p]
  IN
  /\ at[p] = "test"
  /\ at' = [at EXCEPT ![p] = IF stay THEN "sleep" ELSE "user"]
  /\ ticks0' = IF stay THEN ticks0 ELSE [ticks0 EXCEPT ![p] = 0]
  /\ n' = IF stay THEN n ELSE [n EXCEPT ![p] = 0]
  /\ elapsed' = IF stay THEN elapsed ELSE [elapsed EXCEPT ![p] = 0]
  /\ killed' = IF stay THEN killed ELSE [killed EXCEPT ![p] = FALSE]
  /\ delay' = [delay EXCEPT ![p] = 0]
  /\ UNCHANGED <<ticks, waking>>

\* sleep(&ticks, 0) has ptable.lock.
Sleep(p) ==
  /\ at[p] = "sleep"
  /\ at' = [at EXCEPT ![p] = "asleep"]
  /\ delay' = [delay EXCEPT ![p] = 0]
  /\ UNCHANGED <<ticks, waking, ticks0, n, killed, elapsed>>

kill(p) ==
  /\ at[p] # "user" /\ ~killed[p]
  /\ killed' = [killed EXCEPT ![p] = TRUE]
  /\ at' = [at EXCEPT ![p] = IF @ = "asleep" THEN "test" ELSE @]
  /\ UNCHANGED <<ticks, waking, ticks0, n, elapsed, delay>>

Step(p) == Test(p) \/ Sleep(p)

Next ==
  \/ Tick \/ wakeup
  \/ \E p \in Sleeper : Step(p) \/ kill(p) \/ \E k \in Delays : sys_sleep(p, k)

\* The timer goes on, its handler ends, and the scheduler gets to every
\* process that can run.
Fairness == WF_vars(Tick) /\ WF_vars(wakeup) /\ \A p \in Sleeper : WF_vars(Step(p))

Spec == Init /\ [][Next]_vars /\ Fairness

-----------------------------------------------------------------------------
\* sleep(n) does not return before n ticks have gone by, unless the process
\* was killed, also when ticks wraps around in between.
NotEarly ==
  [][\A p \in Sleeper : at[p] = "test" /\ at'[p] = "user" /\ ~killed[p] => elapsed[p] >= n[p]]_vars

\* Every sleep() for a positive time ends, although a wakeup that comes
\* between the test and sleep() is lost and one that comes for the last tick
\* may be.  A negative time is taken for a number near the largest one, which
\* the test may miss altogether.
SleepEnds ==
  \A p \in Sleeper : (at[p] # "user" /\ n[p] < WIDTH \div 2) ~> (at[p] = "user")
=============================================================================
