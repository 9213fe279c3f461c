---------------------------- MODULE MCInterrupts ----------------------------
(***************************************************************************)
(* What interrupts and devices drive, in one run of TLC: console input     *)
(* (Console), the clock (Clock), the start of the processors (Startup),    *)
(* date() (Rtc), the keyboard (Kbd) and the screen (Screen).  Each         *)
(* behaviour works on one of them; the others stay as they are initially.  *)
(***************************************************************************)
EXTENDS Console

VARIABLES
  which,
  ticks, waking, place, ticks0, delayed, dead, elapsed, delay,
  pos, ink, panic, num, radix, minus, digits,
  cpu, step, c, code, stack, started, free, use_lock, first,
  now, binary, uip, updated, reads, t1, t2, seen, date,
  held, wire, shift, char

clockVars   == <<ticks, waking, place, ticks0, delayed, dead, elapsed, delay>>
screenVars  == <<pos, ink, panic, num, radix, minus, digits>>
startVars   == <<cpu, step, c, code, stack, started, free, use_lock, first>>
rtcVars     == <<now, binary, uip, updated, reads, t1, t2, seen, date>>
kbdVars     == <<held, wire, shift, char>>
allVars     == <<which, vars, clockVars, screenVars, startVars, rtcVars, kbdVars>>

\* A negative time (7) besides short ones.
Timer == INSTANCE Clock WITH
  Sleeper <- {"s1"}, WIDTH <- 8, MaxDelay <- 1, Delays <- {0, 2, 7},
  at <- place, n <- delayed, killed <- dead

CGA == INSTANCE Screen WITH COLS <- 3, ROWS <- 4, WORD <- 32

\* Three processors, the second of which boots.
SMP == INSTANCE Startup WITH
  ncpu <- 3, bsp <- 1, Low <- {"a", "b", "c"}, High <- {"x"}, NoPage <- "none", pc <- cpu

\* Registers of eleven seconds, so that one of them has two digits.
CMOS == INSTANCE Rtc WITH Limits <- <<11, 2>>, at <- reads

\* The control keys and shift keys, CAPSLOCK, a letter and a cursor key.
PS2 == INSTANCE Kbd WITH Key <- {29, 157, 42, 54, 58, 30, 200}, c <- char

Parts == {"console", "clock", "screen", "start", "rtc", "kbd"}

\* Part p takes a step, and the other parts none.
Only(p) ==
  /\ which = p /\ which' = which
  /\ (p # "console" => UNCHANGED vars) /\ (p # "clock" => UNCHANGED clockVars)
  /\ (p # "screen" => UNCHANGED screenVars) /\ (p # "start" => UNCHANGED startVars)
  /\ (p # "rtc" => UNCHANGED rtcVars) /\ (p # "kbd" => UNCHANGED kbdVars)

MCInit ==
  /\ which \in Parts
  /\ Init /\ (which # "console" => \A p \in Proc : on[p] = IF p = "p1" THEN 0 ELSE 1)
  /\ CMOS!Init /\ (which # "rtc" => now = <<0, 0>> /\ binary)
  /\ Timer!Init /\ CGA!Init /\ SMP!Init /\ PS2!Init

MCNext ==
  \/ Only("console") /\ Next
  \/ Only("clock") /\ Timer!Next
  \/ Only("screen") /\ CGA!Next
  \/ Only("start") /\ SMP!Next
  \/ Only("rtc") /\ CMOS!Next
  \/ Only("kbd") /\ PS2!Next

\* The fairness of Clock and of Startup.
MCSpec ==
  /\ MCInit /\ [][MCNext]_allVars
  /\ WF_allVars(Only("clock") /\ Timer!Tick)
  /\ WF_allVars(Only("clock") /\ Timer!wakeup)
  /\ WF_allVars(Only("clock") /\ Timer!Step("s1"))
  /\ WF_allVars(Only("start") /\ SMP!Boot)
  /\ \A i \in 0 .. 2 : WF_allVars(Only("start") /\ SMP!Starting(i))

-----------------------------------------------------------------------------
\* The ring of the console implements the line editor, and a ^D ends exactly
\* one read: see ImplementsTty and EOFOnce of Console.
RingImplementsTty == T!Init /\ [][which = "console" /\ T!Next]_(T!vars) /\ EOFOnce

\* sleep(n) ends, and not before n ticks: see SleepEnds and NotEarly of Clock.
SleepsItsTime == Timer!NotEarly /\ Timer!SleepEnds

\* Every processor comes up, on a mapped stack of its own, and processes run
\* only after that: see OwnStack, StackMapped, ProcessesLast and AllUp of
\* Startup.
ProcessorsStart ==
  /\ [](SMP!TypeOK /\ SMP!OwnStack /\ SMP!StackMapped /\ SMP!ProcessesLast)
  /\ which = "start" => SMP!AllUp

\* Devices whose state changes under the driver: the date is one that the
\* clock showed during the call, no modifier of the keyboard is stuck, and the
\* cursor of the screen stays where the text ends and numbers are printed
\* right: see DateWasShown of Rtc, NothingStuck of Kbd, CursorAtEnd and
\* PrintsNumber of Screen.
DevicesRight ==
  /\ Timer!TypeOK /\ CGA!TypeOK /\ CMOS!TypeOK /\ PS2!TypeOK
  /\ CMOS!DateWasShown
  /\ PS2!NothingStuck
  /\ CGA!CursorAtEnd /\ CGA!PrintsNumber
=============================================================================
