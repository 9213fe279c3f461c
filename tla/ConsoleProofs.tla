--------------------------- MODULE ConsoleProofs ---------------------------
(***************************************************************************)
(* Proofs about the console, for any number of processes and CPUs and any  *)
(* size of the input buffer: the spinlocks and the nesting of pushcli()    *)
(* and popcli() are used right, readers get what is typed, and the ring    *)
(* implements the line editor of Tty.                                      *)
(***************************************************************************)
EXTENDS Console, TLAPS, FiniteSetTheorems, NaturalsInduction, WellFoundedInduction

-----------------------------------------------------------------------------
(* The inductive invariant *)

\* A listing holds cons.lock, and ptable.lock, before its operation i.
ConsAt(job, i) ==
  \/ job = "procdump" /\ i = 2
  \/ job = "printReadyList" /\ i \in {2, 5}
  \/ job = "freeListSize" /\ i = 4

PtableAt(job, i) ==
  \/ job = "printReadyList" /\ i \in {4, 5, 6}
  \/ job = "freeListSize" /\ i = 2

\* The handler holds cons.lock, and ptable.lock.
Printing  == hpc \in {"print", "spin"} /\ todo # <<>>
HasCons   == hpc \in {"more", "wakeup"} \/ (Printing /\ ConsAt(Head(todo), at))
HasPtable == Printing /\ PtableAt(Head(todo), at)

\* Where the handler can be: it prints up to the operation behind the last
\* one, and it spins only for a lock that it is about to take.
PrintAt(job, i) ==
  \/ job = "procdump" /\ i \in 1 .. 3
  \/ job = "printReadyList" /\ i \in 1 .. 7
  \/ job = "freeListSize" /\ i \in 1 .. 5

SpinAt(job, i) ==
  \/ job = "procdump" /\ i = 1
  \/ job = "printReadyList" /\ i \in {1, 3, 4}
  \/ job = "freeListSize" /\ i \in {1, 3}

Places ==
  /\ hpc = "print" /\ todo # <<>> => PrintAt(Head(todo), at)
  /\ hpc = "spin" => todo # <<>> /\ SpinAt(Head(todo), at)

\* The calls of pushcli() by a process, and by the handler, that have had no
\* popcli() yet.
Depth(label) == IF label = "sleep" THEN 2 ELSE IF label \in {"read", "write"} THEN 1 ELSE 0

One(b) == IF b THEN 1 ELSE 0
HandlerDepth == One(HasCons) + One(HasPtable) + One(hpc \in {"enter", "wakeup", "spin"})

Types ==
  /\ buf \in [0 .. INPUT_BUF - 1 -> Char]
  /\ r \in 0 .. WIDTH - 1 /\ w \in 0 .. WIDTH - 1 /\ e \in 0 .. WIDTH - 1
  /\ m \in Machine
  /\ pc \in [Proc -> {"user", "read", "write", "sleep", "asleep", "ready"}]
  /\ on \in [Proc -> CPU \cup {-1}]
  /\ left \in [Proc -> Nat]
  /\ hpc \in {"idle", "enter", "wakeup", "more", "print", "spin"}
  /\ todo \in Seq(Jobs)

\* A process has a CPU of its own unless it sleeps or waits for one.
OnRight ==
  /\ \A p \in Proc : on[p] = -1 <=> pc[p] \in {"asleep", "ready"}
  /\ \A p, q \in Proc : on[p] = on[q] /\ on[p] # -1 => p = q

\* CPU c runs a process or its scheduler, not the handler.
Plainly(c) == c = 0 => hpc = "idle"

\* ncli counts the calls of pushcli() of what the CPU runs.  The handler came
\* in on a process in user code, or on a scheduler.
CountRight ==
  /\ \A p \in Proc : on[p] # -1 /\ Plainly(on[p]) => m.ncli[on[p]] = Depth(pc[p])
  /\ \A c \in CPU : Plainly(c) /\ (\A p \in Proc : on[p] # c) => m.ncli[c] = 0
  /\ hpc # "idle" => m.ncli[0] = HandlerDepth
  /\ hpc # "idle" => \A p \in Proc : on[p] = 0 => pc[p] = "user"

\* Interrupts are off on a CPU from its first pushcli() to the last popcli(),
\* and in the handler; intena tells the two apart.
InterruptsRight ==
  /\ \A c \in CPU : m.ie[c] <=> m.ncli[c] = 0 /\ Plainly(c)
  /\ \A c \in CPU : m.ncli[c] > 0 => (m.intena[c] <=> Plainly(c))

\* Who holds the locks between two steps.
HoldersRight ==
  /\ \A p \in Proc : m.lock["cons"] = p <=> pc[p] = "sleep"
  /\ m.lock["cons"] = "intr" <=> HasCons
  /\ m.lock["ptable"] = "intr" <=> HasPtable
  /\ m.lock["ptable"] \in {None, "intr"}

\* r, w and e come in this order and at most INPUT_BUF apart, and a line that
\* is being edited never fills the buffer.
Ordered == Size(r, w) + Size(w, e) <= INPUT_BUF /\ Size(w, e) < INPUT_BUF

\* Who goes to sleep, or sleeps, has nothing to read or is about to be woken.
Waiting ==
  \A p \in Proc :
    /\ pc[p] = "sleep" => r = w
    /\ pc[p] = "asleep" => r = w \/ hpc = "wakeup"

LockInv == OnRight /\ CountRight /\ InterruptsRight /\ HoldersRight /\ Places /\ ~m.panic
IInv == Types /\ LockInv /\ Ordered /\ Waiting

-----------------------------------------------------------------------------
(* What the operations of spinlock.c do, field by field *)

\* n is s after Spin(s, c, l), after Locked(s, a, l), and after
\* release(s, a, c, l).
Spun(n, s, c, l) ==
  /\ n \in Machine /\ n.lock = s.lock
  /\ n.ncli[c] = s.ncli[c] + 1 /\ ~n.ie[c]
  /\ s.ncli[c] = 0 => (n.intena[c] <=> s.ie[c])
  /\ s.ncli[c] # 0 => (n.intena[c] <=> s.intena[c])
  /\ n.panic <=> s.panic \/ holding(s, c, l)
  /\ \A d \in CPU \ {c} : n.ncli[d] = s.ncli[d] /\ (n.ie[d] <=> s.ie[d])
                         /\ (n.intena[d] <=> s.intena[d])

Taken(n, s, a, l) ==
  /\ n \in Machine /\ n.lock[l] = a
  /\ \A k \in Locks \ {l} : n.lock[k] = s.lock[k]
  /\ n.ncli = s.ncli /\ n.ie = s.ie /\ n.intena = s.intena /\ n.panic = s.panic

Released(n, s, a, c, l) ==
  /\ n \in Machine /\ n.lock[l] = None
  /\ \A k \in Locks \ {l} : n.lock[k] = s.lock[k]
  /\ n.ncli[c] = s.ncli[c] - 1 /\ n.intena = s.intena
  /\ n.ie[c] <=> s.ie[c] \/ (s.ncli[c] = 1 /\ s.intena[c])
  /\ n.panic <=> s.panic \/ s.ie[c] \/ s.ncli[c] < 1 \/ s.lock[l] # a
  /\ \A d \in CPU \ {c} : n.ncli[d] = s.ncli[d] /\ (n.ie[d] <=> s.ie[d])

LEMMA SpinFields ==
  ASSUME NEW s \in Machine, NEW c \in CPU, NEW l \in Locks, NEW n, n = Spin(s, c, l)
  PROVE  Spun(n, s, c, l)
<1>1. n = [lock |-> s.lock, ncli |-> [s.ncli EXCEPT ![c] = @ + 1],
           intena |-> [s.intena EXCEPT ![c] = IF s.ncli[c] = 0 THEN s.ie[c] ELSE @],
           ie |-> [s.ie EXCEPT ![c] = FALSE], panic |-> s.panic \/ holding(s, c, l)]
  BY DEF Machine, Spin, pushcli
<1>2. s.ncli \in [CPU -> Int] /\ s.intena \in [CPU -> BOOLEAN] /\ s.ie \in [CPU -> BOOLEAN]
      /\ s.lock \in [Locks -> Proc \cup {None, "intr"}] /\ s.panic \in BOOLEAN
  BY DEF Machine
<1>3. n \in Machine
  BY <1>1, <1>2 DEF Machine, holding
<1>4. n.panic = (s.panic \/ holding(s, c, l))
  BY <1>1
<1>5. n.panic <=> s.panic \/ holding(s, c, l)
  BY <1>4, Zenon
<1> QED BY <1>1, <1>2, <1>3, <1>5 DEF Spun

LEMMA LockedFields ==
  ASSUME NEW s \in Machine, NEW a \in Proc \cup {None, "intr"}, NEW l \in Locks,
         NEW n, n = Locked(s, a, l)
  PROVE  Taken(n, s, a, l)
  BY DEF Machine, Locked, Taken

LEMMA ReleaseFields ==
  ASSUME NEW s \in Machine, NEW a, NEW c \in CPU, NEW l \in Locks, NEW n, n = release(s, a, c, l)
  PROVE  Released(n, s, a, c, l)
<1>1. n = [lock |-> [s.lock EXCEPT ![l] = None], ncli |-> [s.ncli EXCEPT ![c] = @ - 1],
           intena |-> s.intena,
           ie |-> [s.ie EXCEPT ![c] = IF s.ncli[c] = 1 /\ s.intena[c] THEN TRUE ELSE @],
           panic |-> (s.panic \/ s.ie[c] \/ s.ncli[c] < 1) \/ s.lock[l] # a]
  BY DEF Machine, release, popcli
<1>2. s.ncli \in [CPU -> Int] /\ s.intena \in [CPU -> BOOLEAN] /\ s.ie \in [CPU -> BOOLEAN]
      /\ s.lock \in [Locks -> Proc \cup {None, "intr"}] /\ s.panic \in BOOLEAN
  BY DEF Machine
<1>3. n \in Machine
  <2>1. n.panic = ((s.panic \/ s.ie[c] \/ s.ncli[c] < 1) \/ s.lock[l] # a)
    BY <1>1
  <2>2. n.panic \in BOOLEAN
    BY <2>1, Zenon
  <2>3. /\ n = [lock |-> n.lock, ncli |-> n.ncli, intena |-> n.intena, ie |-> n.ie, panic |-> n.panic]
        /\ n.lock = [s.lock EXCEPT ![l] = None] /\ n.ncli = [s.ncli EXCEPT ![c] = @ - 1]
        /\ n.intena = s.intena
        /\ n.ie = [s.ie EXCEPT ![c] = IF s.ncli[c] = 1 /\ s.intena[c] THEN TRUE ELSE @]
    BY <1>1
  <2>4. n.lock \in [Locks -> Proc \cup {None, "intr"}] /\ n.ncli \in [CPU -> Int]
        /\ n.intena \in [CPU -> BOOLEAN]
    BY <1>2, <2>3
  <2>5. n.ie \in [CPU -> BOOLEAN]
    <3>1. CASE s.ncli[c] = 1 /\ s.intena[c]
      BY <1>2, <2>3, <3>1
    <3>2. CASE ~(s.ncli[c] = 1 /\ s.intena[c])
      <4>1. n.ie = [s.ie EXCEPT ![c] = @]
        BY <2>3, <3>2
      <4> QED BY <1>2, <4>1
    <3> QED BY <3>1, <3>2
  <2> QED BY <2>2, <2>3, <2>4, <2>5 DEF Machine
<1>4. n.panic <=> s.panic \/ s.ie[c] \/ s.ncli[c] < 1 \/ s.lock[l] # a
  <2>1. n.panic = ((s.panic \/ s.ie[c] \/ s.ncli[c] < 1) \/ s.lock[l] # a)
    BY <1>1
  <2> QED BY <2>1, Zenon
<1>5. n.ie[c] <=> s.ie[c] \/ (s.ncli[c] = 1 /\ s.intena[c])
  BY <1>1, <1>2
<1> QED BY <1>1, <1>2, <1>3, <1>4, <1>5 DEF Released

-----------------------------------------------------------------------------
(* A step of a process, and a step of the handler, keep LockInv *)

Labels == {"user", "read", "write", "sleep", "asleep", "ready"}

\* CPUs other than c notice nothing.
OthersSame(c) ==
  \A d \in CPU \ {c} : m'.ncli[d] = m.ncli[d] /\ (m'.ie[d] <=> m.ie[d])
                       /\ (m'.intena[d] <=> m.intena[d])

\* Process p goes to label on CPU c, where it was or which was free; d is its
\* CPU after the step, -1 if it goes to sleep.
ProcStep(p, c, d, label) ==
  /\ Plainly(c) /\ UNCHANGED handler
  /\ on[p] = c \/ (on[p] = -1 /\ \A q \in Proc : on[q] # c)
  /\ d \in {c, -1} /\ (d = -1 <=> label \in {"asleep", "ready"})
  /\ pc' = [pc EXCEPT ![p] = label] /\ on' = [on EXCEPT ![p] = d]
  /\ m' \in Machine /\ ~m'.panic
  /\ m'.ncli[c] = Depth(label) /\ OthersSame(c)
  /\ m'.ie[c] <=> Depth(label) = 0
  /\ Depth(label) > 0 => m'.intena[c]
  /\ m'.lock["ptable"] = m.lock["ptable"]
  /\ label = "sleep" => m'.lock["cons"] = p /\ m.lock["cons"] = None
  /\ label # "sleep" /\ pc[p] = "sleep" => m'.lock["cons"] = None
  /\ label # "sleep" /\ pc[p] # "sleep" => m'.lock["cons"] = m.lock["cons"]

LEMMA ProcKeeps ==
  ASSUME Types, LockInv, NEW p \in Proc, NEW c \in CPU, NEW d \in CPU \cup {-1}, NEW label \in Labels,
         ProcStep(p, c, d, label)
  PROVE  LockInv'
<1> USE ActorAssumption
<1>1. /\ hpc' = hpc /\ todo' = todo /\ at' = at
      /\ pc'[p] = label /\ \A q \in Proc \ {p} : pc'[q] = pc[q]
      /\ on'[p] = d /\ \A q \in Proc \ {p} : on'[q] = on[q]
      /\ -1 \notin CPU /\ 0 \in CPU
  BY DEF Types, ProcStep, handler
<1>2. /\ Plainly(c)
      /\ on[p] = c \/ (on[p] = -1 /\ \A q \in Proc : on[q] # c)
      /\ d \in {c, -1} /\ (d = -1 <=> label \in {"asleep", "ready"})
      /\ \A q \in Proc \ {p} : on[q] # c
      /\ m'.ncli[c] = Depth(label) /\ ~m'.panic
  BY <1>1 DEF ProcStep, LockInv, OnRight
<1>3. OnRight'
  BY <1>1, <1>2 DEF LockInv, OnRight
<1>4. CountRight'
  <2>1. \A x \in CPU \ {c} : m'.ncli[x] = m.ncli[x]
    BY DEF ProcStep, OthersSame
  <2>2. \A q \in Proc : on[q] \in CPU \cup {-1}
    BY DEF Types
  <2>3. \A x \in CPU : Plainly(x)' <=> Plainly(x)
    BY <1>1 DEF Plainly
  <2>4. \A q \in Proc : on'[q] # -1 /\ Plainly(on[q])' => m'.ncli[on'[q]] = Depth(pc'[q])
    <3> TAKE q \in Proc
    <3>1. CASE q = p
      BY <3>1, <1>1, <1>2
    <3>2. CASE q # p
      <4>1. on'[q] = on[q] /\ pc'[q] = pc[q] /\ on[q] # c
        BY <3>2, <1>1, <1>2
      <4>2. on[q] # -1 => m'.ncli[on[q]] = m.ncli[on[q]] /\ (Plainly(on[q])' <=> Plainly(on[q]))
        BY <4>1, <1>1, <2>1, <2>2 DEF Plainly
      <4> QED BY <4>1, <4>2 DEF LockInv, CountRight
    <3> QED BY <3>1, <3>2
  <2>5. \A x \in CPU : Plainly(x)' /\ (\A q \in Proc : on'[q] # x) => m'.ncli[x] = 0
    <3> SUFFICES ASSUME NEW x \in CPU, Plainly(x)', \A q \in Proc : on'[q] # x
                 PROVE  m'.ncli[x] = 0
      OBVIOUS
    <3>1. CASE x = c
      <4>1. label \in {"asleep", "ready"}
        BY <3>1, <1>1, <1>2
      <4> QED BY <3>1, <4>1, <1>2 DEF Depth
    <3>2. CASE x # c
      <4>1. \A q \in Proc : on[q] # x
        BY <3>2, <1>1, <1>2
      <4> QED BY <3>2, <4>1, <2>1, <2>3 DEF LockInv, CountRight
    <3> QED BY <3>1, <3>2
  <2>6. hpc' # "idle" => m'.ncli[0] = HandlerDepth' /\ \A q \in Proc : on'[q] = 0 => pc'[q] = "user"
    <3> SUFFICES ASSUME hpc # "idle"
                 PROVE  m'.ncli[0] = HandlerDepth' /\ \A q \in Proc : on'[q] = 0 => pc'[q] = "user"
      BY <1>1
    <3>1. c # 0
      BY <1>2 DEF Plainly
    <3>2. HandlerDepth' = HandlerDepth
      BY <1>1 DEF HandlerDepth, HasCons, HasPtable, Printing
    <3>3. m'.ncli[0] = m.ncli[0]
      BY <3>1, <2>1, <1>1
    <3>4. \A q \in Proc : on'[q] = 0 => pc'[q] = "user"
      BY <3>1, <1>1, <1>2 DEF LockInv, CountRight
    <3> QED BY <3>2, <3>3, <3>4 DEF LockInv, CountRight
  <2> QED BY <2>4, <2>5, <2>6 DEF CountRight
<1>5. InterruptsRight'
  <2>1. \A x \in CPU : Plainly(x)' <=> Plainly(x)
    BY <1>1 DEF Plainly
  <2>2. Depth(label) \in Nat
    BY DEF Depth
  <2>3. /\ m'.ie[c] <=> Depth(label) = 0
        /\ Depth(label) > 0 => m'.intena[c]
        /\ OthersSame(c)
    BY DEF ProcStep
  <2>4. ASSUME NEW x \in CPU
        PROVE  /\ m'.ie[x] <=> m'.ncli[x] = 0 /\ Plainly(x)'
               /\ m'.ncli[x] > 0 => (m'.intena[x] <=> Plainly(x)')
    <3>1. CASE x = c
      BY <3>1, <2>1, <2>2, <2>3, <1>2
    <3>2. CASE x # c
      BY <3>2, <2>1, <2>3 DEF OthersSame, LockInv, InterruptsRight
    <3> QED BY <3>1, <3>2
  <2> QED BY <2>4 DEF InterruptsRight
<1>6. HoldersRight'
  <2>1. (HasCons' <=> HasCons) /\ (HasPtable' <=> HasPtable)
    BY <1>1 DEF HasCons, HasPtable, Printing
  <2>2. m'.lock["ptable"] = m.lock["ptable"]
    BY DEF ProcStep
  <2>3. /\ label = "sleep" => m'.lock["cons"] = p /\ m.lock["cons"] = None
        /\ label # "sleep" /\ pc[p] = "sleep" => m'.lock["cons"] = None
        /\ label # "sleep" /\ pc[p] # "sleep" => m'.lock["cons"] = m.lock["cons"]
    BY DEF ProcStep
  <2>4. p # None /\ p # "intr" /\ None # "intr" /\ None \notin Proc
    BY DEF None
  <2>5. /\ \A q \in Proc : m'.lock["cons"] = q <=> pc'[q] = "sleep"
        /\ m'.lock["cons"] = "intr" <=> HasCons'
    BY <1>1, <2>1, <2>3, <2>4 DEF LockInv, HoldersRight
  <2> QED BY <2>1, <2>2, <2>5 DEF LockInv, HoldersRight
<1>7. Places'
  BY <1>1 DEF LockInv, Places
<1> QED BY <1>2, <1>3, <1>4, <1>5, <1>6, <1>7 DEF LockInv

\* The handler has lock l before the step if h holds, and after it if h1 does.
Held(l, h, h1) ==
  /\ h1 => m'.lock[l] = "intr"
  /\ h1 /\ ~h => m.lock[l] = None
  /\ h /\ ~h1 => m'.lock[l] = None
  /\ ~h /\ ~h1 => m'.lock[l] = m.lock[l]

\* The handler goes on, on CPU 0; it may wake processes.
HandlerStep ==
  /\ hpc # "idle" /\ hpc' # "idle" /\ on' = on
  /\ \A p \in Proc : pc'[p] = pc[p] \/ (pc[p] = "asleep" /\ pc'[p] = "ready")
  /\ m' \in Machine /\ ~m'.panic
  /\ m'.ncli[0] = HandlerDepth' /\ OthersSame(0)
  /\ ~m'.ie[0] /\ (HandlerDepth' > 0 => ~m'.intena[0])
  /\ Held("cons", HasCons, HasCons') /\ Held("ptable", HasPtable, HasPtable')
  /\ Places'

LEMMA HandlerKeeps ==
  ASSUME Types, LockInv, HandlerStep
  PROVE  LockInv'
<1> USE ActorAssumption
<1>1. /\ hpc # "idle" /\ hpc' # "idle" /\ on' = on /\ ~m'.panic /\ Places'
      /\ \A p \in Proc : pc'[p] = pc[p] \/ (pc[p] = "asleep" /\ pc'[p] = "ready")
      /\ -1 \notin CPU /\ 0 \in CPU
  BY DEF HandlerStep
<1>2. OnRight'
  BY <1>1 DEF LockInv, OnRight
<1>3. \A p \in Proc : on[p] # -1 => pc'[p] = pc[p]
  BY <1>1 DEF LockInv, OnRight
<1>4. /\ m'.ncli[0] = HandlerDepth' /\ OthersSame(0)
      /\ ~m'.ie[0] /\ (HandlerDepth' > 0 => ~m'.intena[0])
  BY DEF HandlerStep
<1>5. \A c \in CPU : Plainly(c)' <=> c # 0
  BY <1>1 DEF Plainly
<1>6. \A c \in CPU : Plainly(c) <=> c # 0
  BY <1>1 DEF Plainly
<1>7. CountRight'
  <2>1. \A p \in Proc : on[p] \in CPU \cup {-1}
    BY DEF Types
  <2>2. \A p \in Proc : on'[p] # -1 /\ Plainly(on[p])' => m'.ncli[on'[p]] = Depth(pc'[p])
    <3> SUFFICES ASSUME NEW p \in Proc, on[p] # -1, Plainly(on[p])'
                 PROVE  m'.ncli[on[p]] = Depth(pc'[p])
      BY <1>1
    <3>1. on[p] \in CPU \ {0}
      BY <1>1, <2>1 DEF Plainly
    <3>2. m'.ncli[on[p]] = m.ncli[on[p]] /\ pc'[p] = pc[p]
      BY <3>1, <1>3, <1>4 DEF OthersSame
    <3>3. Plainly(on[p])
      BY <3>1, <1>6
    <3> QED BY <3>2, <3>3 DEF LockInv, CountRight
  <2>3. \A c \in CPU : Plainly(c)' /\ (\A p \in Proc : on'[p] # c) => m'.ncli[c] = 0
    BY <1>1, <1>4, <1>5, <1>6 DEF LockInv, CountRight, OthersSame
  <2>4. \A p \in Proc : on'[p] = 0 => pc'[p] = "user"
    BY <1>1, <1>3 DEF LockInv, CountRight
  <2> QED BY <1>4, <2>2, <2>3, <2>4 DEF CountRight
<1>8. InterruptsRight'
  <2>1. ASSUME NEW c \in CPU
        PROVE  /\ m'.ie[c] <=> m'.ncli[c] = 0 /\ Plainly(c)'
               /\ m'.ncli[c] > 0 => (m'.intena[c] <=> Plainly(c)')
    <3>1. CASE c = 0
      BY <3>1, <1>4, <1>5
    <3>2. CASE c # 0
      BY <3>2, <1>4, <1>5, <1>6 DEF OthersSame, LockInv, InterruptsRight
    <3> QED BY <3>1, <3>2
  <2> QED BY <2>1 DEF InterruptsRight
<1>9. HoldersRight'
  <2>1. Held("cons", HasCons, HasCons') /\ Held("ptable", HasPtable, HasPtable')
    BY DEF HandlerStep
  <2>2. \A p \in Proc : p # None /\ p # "intr"
    BY DEF None
  <2>3. None # "intr"
    BY DEF None
  <2>4. \A p \in Proc : pc'[p] = "sleep" <=> pc[p] = "sleep"
    BY <1>1
  <2>5. \A p \in Proc : m'.lock["cons"] = p <=> pc'[p] = "sleep"
    BY <2>1, <2>2, <2>3, <2>4 DEF LockInv, HoldersRight, Held
  <2>6. m'.lock["cons"] = "intr" <=> HasCons'
    BY <2>1, <2>3 DEF LockInv, HoldersRight, Held
  <2>7. /\ m'.lock["ptable"] = "intr" <=> HasPtable'
        /\ m'.lock["ptable"] \in {None, "intr"}
    BY <2>1, <2>3 DEF LockInv, HoldersRight, Held
  <2> QED BY <2>5, <2>6, <2>7 DEF HoldersRight
<1> QED BY <1>1, <1>2, <1>7, <1>8, <1>9 DEF LockInv

-----------------------------------------------------------------------------
(* The steps of the processes *)

\* A process that takes a step has its CPU to itself, in the state that its
\* place says, and it may spin for a lock: nobody on its CPU holds one but
\* itself.
LEMMA AtWork ==
  ASSUME Types, LockInv, NEW p \in Proc, NEW label \in {"user", "read", "write", "sleep"}, Step(p, label)
  PROVE  /\ on[p] \in CPU /\ Plainly(on[p]) /\ pc[p] = label /\ ~m.panic
         /\ m.ncli[on[p]] = Depth(label)
         /\ m.ie[on[p]] <=> Depth(label) = 0
         /\ Depth(label) > 0 => m.intena[on[p]]
         /\ ~holding(m, on[p], "ptable")
         /\ label # "sleep" => ~holding(m, on[p], "cons")
<1> USE ActorAssumption
<1>1. on[p] \in CPU /\ Plainly(on[p]) /\ pc[p] = label /\ ~m.panic /\ on[p] # -1
  BY DEF Types, LockInv, OnRight, Step, Plainly
<1>2. m.ncli[on[p]] = Depth(label) /\ Depth(label) \in Nat
  BY <1>1 DEF LockInv, CountRight, Depth
<1>3. /\ m.ie[on[p]] <=> Depth(label) = 0
      /\ Depth(label) > 0 => m.intena[on[p]]
  BY <1>1, <1>2 DEF LockInv, InterruptsRight
<1>4. hpc = "idle" => m.lock["cons"] # "intr" /\ m.lock["ptable"] # "intr"
  BY DEF LockInv, HoldersRight, HasCons, HasPtable, Printing
<1>5. ~holding(m, on[p], "ptable")
  BY <1>1, <1>4 DEF holding, CPUof, Plainly, LockInv, HoldersRight
<1>6. ASSUME label # "sleep", holding(m, on[p], "cons")
      PROVE  FALSE
  <2>1. m.lock["cons"] \in Proc \cup {None, "intr"}
    BY DEF Types, Machine, Locks
  <2>2. m.lock["cons"] \in Proc
    BY <1>1, <1>4, <1>6, <2>1 DEF holding, CPUof, Plainly
  <2>3. on[m.lock["cons"]] = on[p]
    BY <1>6, <2>2 DEF holding, CPUof
  <2>4. m.lock["cons"] = p
    BY <1>1, <2>2, <2>3 DEF LockInv, OnRight
  <2> QED BY <1>1, <1>6, <2>4 DEF LockInv, HoldersRight
<1> QED BY <1>1, <1>2, <1>3, <1>5, <1>6

\* A process in user code starts to spin for cons.lock.
LEMMA SpinStep ==
  ASSUME Types, LockInv, NEW p \in Proc, Step(p, "user"), NEW label \in {"read", "write"},
         m' = Spin(m, on[p], "cons"), Goto(p, label), UNCHANGED <<on, handler>>
  PROVE  LockInv' /\ m' \in Machine
<1> USE ActorAssumption
<1>1. /\ on[p] \in CPU /\ Plainly(on[p]) /\ pc[p] = "user" /\ ~m.panic
      /\ m.ncli[on[p]] = 0 /\ m.ie[on[p]] /\ ~holding(m, on[p], "cons")
  BY AtWork DEF Depth
<1>2. m \in Machine /\ "cons" \in Locks
  BY DEF Types, Locks
<1>3. Spun(m', m, on[p], "cons")
  BY <1>1, <1>2, SpinFields
<1>4. Depth(label) = 1 /\ label \in Labels /\ label \notin {"sleep", "asleep", "ready"}
  BY DEF Depth, Labels
<1>5. on' = [on EXCEPT ![p] = on[p]]
  BY DEF Types
<1>6. on[p] # -1
  BY <1>1
<1>7. ProcStep(p, on[p], on[p], label)
  <2>1. /\ m'.ncli[on[p]] = Depth(label) /\ ~m'.panic
        /\ m'.ie[on[p]] <=> Depth(label) = 0
        /\ Depth(label) > 0 => m'.intena[on[p]]
    BY <1>1, <1>3, <1>4 DEF Spun
  <2>2. /\ m'.lock["ptable"] = m.lock["ptable"] /\ m'.lock["cons"] = m.lock["cons"]
        /\ m' \in Machine /\ OthersSame(on[p])
    BY <1>3 DEF Spun, OthersSame
  <2> QED BY <1>1, <1>3, <1>4, <1>5, <1>6, <2>1, <2>2 DEF ProcStep, Goto
<1>8. LockInv'
  BY <1>1, <1>4, <1>7, ProcKeeps
<1> QED BY <1>3, <1>8 DEF Spun

\* A process takes cons.lock and gives it back in one step.
LEMMA UseStep ==
  ASSUME Types, LockInv, NEW p \in Proc, NEW label \in {"read", "write"}, Step(p, label), Free("cons"),
         m' = release(Locked(m, p, "cons"), p, on[p], "cons"), Goto(p, "user"), UNCHANGED <<on, handler>>
  PROVE  LockInv' /\ m' \in Machine
<1> USE ActorAssumption
<1> DEFINE s == Locked(m, p, "cons")
<1>1. /\ on[p] \in CPU /\ Plainly(on[p]) /\ pc[p] = label /\ ~m.panic
      /\ m.ncli[on[p]] = 1 /\ ~m.ie[on[p]] /\ m.intena[on[p]]
  BY AtWork DEF Depth
<1>2. m \in Machine /\ "cons" \in Locks /\ "ptable" \in Locks /\ "cons" # "ptable"
  BY DEF Types, Locks
<1>3. Taken(s, m, p, "cons")
  BY <1>2, LockedFields
<1>4. Released(m', s, p, on[p], "cons")
  BY <1>1, <1>2, <1>3, ReleaseFields DEF Taken
<1> HIDE DEF s
<1>5. /\ m'.ncli[on[p]] = 0 /\ m'.ie[on[p]] /\ ~m'.panic /\ OthersSame(on[p])
      /\ m'.lock["ptable"] = m.lock["ptable"] /\ m'.lock["cons"] = None /\ m' \in Machine
  BY <1>1, <1>2, <1>3, <1>4 DEF OthersSame, Taken, Released
<1>6. on' = [on EXCEPT ![p] = on[p]] /\ on[p] # -1
  BY <1>1 DEF Types
<1>7. m.lock["cons"] = None
  BY DEF Free
<1>8. ProcStep(p, on[p], on[p], "user")
  <2>1. Depth("user") = 0
    BY DEF Depth
  <2>2. /\ m'.ncli[on[p]] = Depth("user")
        /\ m'.ie[on[p]] <=> Depth("user") = 0
        /\ Depth("user") > 0 => m'.intena[on[p]]
    BY <1>5, <2>1
  <2> QED BY <1>1, <1>5, <1>6, <1>7, <2>2 DEF ProcStep, Goto
<1>9. LockInv'
  BY <1>1, <1>8, ProcKeeps DEF Labels
<1> QED BY <1>5, <1>9

\* A reader takes cons.lock and starts to spin for ptable.lock, in sleep().
LEMMA WaitStep ==
  ASSUME Types, LockInv, NEW p \in Proc, Step(p, "read"), Free("cons"),
         m' = Spin(Locked(m, p, "cons"), on[p], "ptable"), Goto(p, "sleep"), UNCHANGED <<on, handler>>
  PROVE  LockInv' /\ m' \in Machine
<1> USE ActorAssumption
<1> DEFINE s == Locked(m, p, "cons")
<1>1. /\ on[p] \in CPU /\ Plainly(on[p]) /\ pc[p] = "read" /\ ~m.panic
      /\ m.ncli[on[p]] = 1 /\ m.intena[on[p]] /\ ~holding(m, on[p], "ptable")
  BY AtWork DEF Depth
<1>2. m \in Machine /\ "cons" \in Locks /\ "ptable" \in Locks /\ "cons" # "ptable"
  BY DEF Types, Locks
<1>3. Taken(s, m, p, "cons")
  BY <1>2, LockedFields
<1>4. Spun(m', s, on[p], "ptable")
  BY <1>1, <1>2, <1>3, SpinFields DEF Taken
<1> HIDE DEF s
<1>5. ~holding(s, on[p], "ptable")
  BY <1>1, <1>2, <1>3 DEF Taken, holding
<1>6. /\ m'.ncli[on[p]] = 2 /\ ~m'.ie[on[p]] /\ m'.intena[on[p]] /\ ~m'.panic /\ OthersSame(on[p])
      /\ m'.lock["ptable"] = m.lock["ptable"] /\ m'.lock["cons"] = p /\ m' \in Machine
  BY <1>1, <1>2, <1>3, <1>4, <1>5 DEF OthersSame, Taken, Spun
<1>7. on' = [on EXCEPT ![p] = on[p]] /\ on[p] # -1
  BY <1>1 DEF Types
<1>8. m.lock["cons"] = None
  BY DEF Free
<1>9. ProcStep(p, on[p], on[p], "sleep")
  <2>1. Depth("sleep") = 2
    BY DEF Depth
  <2>2. /\ m'.ncli[on[p]] = Depth("sleep")
        /\ m'.ie[on[p]] <=> Depth("sleep") = 0
        /\ Depth("sleep") > 0 => m'.intena[on[p]]
    BY <1>6, <2>1
  <2> QED BY <1>1, <1>6, <1>7, <1>8, <2>2 DEF ProcStep, Goto
<1>10. LockInv'
  BY <1>1, <1>9, ProcKeeps DEF Labels
<1> QED BY <1>6, <1>10

LEMMA SleepStep ==
  ASSUME Types, LockInv, NEW p \in Proc, sleep(p)
  PROVE  LockInv' /\ m' \in Machine
<1> USE ActorAssumption
<1> DEFINE c == on[p]
           s1 == Locked(m, p, "ptable")
           s2 == release(s1, p, c, "cons")
           s3 == [s2 EXCEPT !.panic = @ \/ s2.ncli[c] # 1]
<1>1. /\ Step(p, "sleep") /\ Free("ptable") /\ m' = release(s3, p, c, "ptable")
      /\ on' = [on EXCEPT ![p] = -1] /\ Goto(p, "asleep") /\ UNCHANGED handler
  BY DEF sleep
<1>2. /\ on[p] \in CPU /\ Plainly(on[p]) /\ pc[p] = "sleep" /\ ~m.panic
      /\ m.ncli[on[p]] = 2 /\ ~m.ie[on[p]] /\ m.intena[on[p]]
  BY <1>1, AtWork DEF Depth
<1>3. m \in Machine /\ "cons" \in Locks /\ "ptable" \in Locks /\ "cons" # "ptable"
  BY DEF Types, Locks
<1>4. m.lock["ptable"] = None /\ m.lock["cons"] = p
  BY <1>1, <1>2 DEF Free, LockInv, HoldersRight
<1>5. Taken(s1, m, p, "ptable")
  BY <1>3, LockedFields
<1>6. Released(s2, s1, p, c, "cons")
  BY <1>2, <1>3, <1>5, ReleaseFields DEF Taken
<1> HIDE DEF s1, s2
<1>7. /\ s2 \in Machine /\ s2.lock["cons"] = None /\ s2.lock["ptable"] = p
      /\ s2.ncli[c] = 1 /\ ~s2.ie[c] /\ s2.intena = m.intena /\ ~s2.panic
      /\ \A d \in CPU \ {c} : s2.ncli[d] = m.ncli[d] /\ (s2.ie[d] <=> m.ie[d])
  BY <1>2, <1>3, <1>4, <1>5, <1>6 DEF Taken, Released
<1>8. /\ s3 \in Machine /\ s3.lock = s2.lock /\ s3.ncli = s2.ncli /\ s3.ie = s2.ie
      /\ s3.intena = s2.intena /\ s3.panic = (s2.panic \/ s2.ncli[c] # 1)
  BY <1>7 DEF Machine
<1>9. ~s3.panic
  <2>1. ~(s2.panic \/ s2.ncli[c] # 1)
    BY <1>7
  <2> QED BY <1>8, <2>1, Zenon
<1> HIDE DEF s3
<1>10. Released(m', s3, p, c, "ptable")
  BY <1>1, <1>2, <1>3, <1>8, ReleaseFields
<1>11. /\ m'.ncli[on[p]] = 0 /\ m'.ie[on[p]] /\ ~m'.panic /\ OthersSame(on[p])
       /\ m'.lock["ptable"] = m.lock["ptable"] /\ m'.lock["cons"] = None /\ m' \in Machine
  BY <1>2, <1>3, <1>4, <1>7, <1>8, <1>9, <1>10 DEF OthersSame, Released
<1>12. ProcStep(p, on[p], -1, "asleep")
  <2>1. Depth("asleep") = 0
    BY DEF Depth
  <2>2. /\ m'.ncli[on[p]] = Depth("asleep")
        /\ m'.ie[on[p]] <=> Depth("asleep") = 0
        /\ Depth("asleep") > 0 => m'.intena[on[p]]
    BY <1>11, <2>1
  <2> QED BY <1>1, <1>2, <1>11, <2>2 DEF ProcStep, Goto
<1>13. LockInv'
  BY <1>2, <1>12, ProcKeeps DEF Labels
<1> QED BY <1>11, <1>13

LEMMA SchedulerStep ==
  ASSUME Types, LockInv, NEW p \in Proc, NEW c \in CPU, scheduler(p, c)
  PROVE  LockInv' /\ m' \in Machine
<1> USE ActorAssumption
<1>1. /\ ~m.panic /\ pc[p] = "ready" /\ (\A q \in Proc : on[q] # c) /\ Plainly(c)
      /\ on' = [on EXCEPT ![p] = c] /\ m' = Spin(m, c, "cons") /\ Goto(p, "read") /\ UNCHANGED handler
  BY DEF scheduler, Plainly
<1>2. m.ncli[c] = 0 /\ on[p] = -1 /\ c # -1
  BY <1>1 DEF LockInv, CountRight, OnRight
<1>3. m.ie[c]
  BY <1>1, <1>2 DEF LockInv, InterruptsRight
<1>4. m \in Machine /\ "cons" \in Locks
  BY DEF Types, Locks
<1>5. ~holding(m, c, "cons")
  <2>1. m.lock["cons"] \in Proc \cup {None, "intr"}
    BY <1>4 DEF Machine
  <2>2. hpc = "idle" => m.lock["cons"] # "intr"
    BY DEF LockInv, HoldersRight, HasCons, Printing
  <2> QED BY <1>1, <2>1, <2>2 DEF holding, CPUof, Plainly
<1>6. Spun(m', m, c, "cons")
  BY <1>1, <1>4, SpinFields
<1>7. ProcStep(p, c, c, "read")
  <2>1. Depth("read") = 1
    BY DEF Depth
  <2>2. /\ m'.ncli[c] = Depth("read") /\ ~m'.panic
        /\ m'.ie[c] <=> Depth("read") = 0
        /\ Depth("read") > 0 => m'.intena[c]
    BY <1>1, <1>2, <1>3, <1>5, <1>6, <2>1 DEF Spun
  <2>3. /\ m'.lock["ptable"] = m.lock["ptable"] /\ m'.lock["cons"] = m.lock["cons"]
        /\ m' \in Machine /\ OthersSame(c)
    BY <1>6 DEF Spun, OthersSame
  <2> QED BY <1>1, <1>2, <2>2, <2>3 DEF ProcStep, Goto
<1>8. LockInv'
  BY <1>7, ProcKeeps DEF Labels
<1> QED BY <1>6, <1>8 DEF Spun

LEMMA KillStep ==
  ASSUME Types, LockInv, NEW p \in Proc, NEW q \in Proc, kill(q, p)
  PROVE  LockInv'
<1>1. /\ UNCHANGED <<m, on, hpc, todo, at>>
      /\ \A x \in Proc : pc'[x] = pc[x] \/ (pc[x] = "asleep" /\ pc'[x] = "ready")
  BY DEF kill, handler, Goto, Types
<1>2. OnRight'
  BY <1>1 DEF LockInv, OnRight
<1>3. \A x \in Proc : (on[x] # -1 => pc'[x] = pc[x]) /\ (pc'[x] = "sleep" <=> pc[x] = "sleep")
  BY <1>1 DEF LockInv, OnRight
<1>4. /\ HandlerDepth' = HandlerDepth /\ (HasCons' <=> HasCons) /\ (HasPtable' <=> HasPtable)
      /\ \A c \in CPU \cup {-1} : Plainly(c)' <=> Plainly(c)
  BY <1>1 DEF HandlerDepth, HasCons, HasPtable, Printing, Plainly
<1>5. CountRight'
  <2>1. ASSUME NEW x \in Proc, on'[x] # -1, Plainly(on[x])'
        PROVE  m'.ncli[on'[x]] = Depth(pc'[x])
    BY <1>1, <1>3, <2>1 DEF LockInv, CountRight, Plainly
  <2>2. ASSUME NEW c \in CPU, Plainly(c)', \A x \in Proc : on'[x] # c
        PROVE  m'.ncli[c] = 0
    BY <1>1, <2>2 DEF LockInv, CountRight, Plainly
  <2>3. hpc' # "idle" => m'.ncli[0] = HandlerDepth' /\ \A x \in Proc : on'[x] = 0 => pc'[x] = "user"
    BY <1>1, <1>3, <1>4 DEF LockInv, CountRight
  <2> QED BY <2>1, <2>2, <2>3 DEF CountRight
<1>6. InterruptsRight'
  BY <1>1 DEF LockInv, InterruptsRight, Plainly
<1>7. HoldersRight'
  BY <1>1, <1>3, <1>4 DEF LockInv, HoldersRight
<1>8. Places' /\ ~m'.panic
  BY <1>1 DEF LockInv, Places
<1> QED BY <1>2, <1>5, <1>6, <1>7, <1>8 DEF LockInv

-----------------------------------------------------------------------------
(* The handler *)

LEMMA OpsLemma ==
  /\ Len(Ops("procdump")) = 2 /\ Len(Ops("printReadyList")) = 6 /\ Len(Ops("freeListSize")) = 4
  /\ Ops("procdump")[1] = <<"+", "cons">> /\ Ops("procdump")[2] = <<"-", "cons">>
  /\ Ops("printReadyList")[1] = <<"+", "cons">> /\ Ops("printReadyList")[2] = <<"-", "cons">>
  /\ Ops("printReadyList")[3] = <<"+", "ptable">>
  /\ Ops("printReadyList")[4] = <<"+", "cons">> /\ Ops("printReadyList")[5] = <<"-", "cons">>
  /\ Ops("printReadyList")[6] = <<"-", "ptable">>
  /\ Ops("freeListSize")[1] = <<"+", "ptable">> /\ Ops("freeListSize")[2] = <<"-", "ptable">>
  /\ Ops("freeListSize")[3] = <<"+", "cons">> /\ Ops("freeListSize")[4] = <<"-", "cons">>
<1>1. /\ Ops("procdump") = procdump /\ Ops("printReadyList") = printReadyList
      /\ Ops("freeListSize") = freeListSize
  BY DEF Ops
<1>2. Len(procdump) = 2 /\ procdump[1] = <<"+", "cons">> /\ procdump[2] = <<"-", "cons">>
  BY DEF procdump, cprintf
<1>3. /\ Len(freeListSize) = 4
      /\ freeListSize[1] = <<"+", "ptable">> /\ freeListSize[2] = <<"-", "ptable">>
      /\ freeListSize[3] = <<"+", "cons">> /\ freeListSize[4] = <<"-", "cons">>
  BY DEF freeListSize, cprintf
<1>4. /\ Len(printReadyList) = 6
      /\ printReadyList[1] = <<"+", "cons">> /\ printReadyList[2] = <<"-", "cons">>
      /\ printReadyList[3] = <<"+", "ptable">>
      /\ printReadyList[4] = <<"+", "cons">> /\ printReadyList[5] = <<"-", "cons">>
      /\ printReadyList[6] = <<"-", "ptable">>
  BY DEF printReadyList, cprintf
<1> QED BY <1>1, <1>2, <1>3, <1>4

\* What an operation of a listing does to the locks that the listing holds.
Effect(job, i, sign, l) ==
  /\ l \in {"cons", "ptable"} /\ sign \in {"+", "-"} /\ PrintAt(job, i + 1)
  /\ sign = "+" => SpinAt(job, i)
  /\ l = "cons" => /\ ConsAt(job, i) <=> sign = "-"
                   /\ ConsAt(job, i + 1) <=> sign = "+"
                   /\ PtableAt(job, i + 1) <=> PtableAt(job, i)
  /\ l = "ptable" => /\ PtableAt(job, i) <=> sign = "-"
                     /\ PtableAt(job, i + 1) <=> sign = "+"
                     /\ ConsAt(job, i + 1) <=> ConsAt(job, i)

LEMMA OpEffect ==
  ASSUME NEW job \in Jobs, NEW i, PrintAt(job, i), i <= Len(Ops(job)),
         NEW sign, NEW l, sign = Ops(job)[i][1], l = Ops(job)[i][2]
  PROVE  Effect(job, i, sign, l)
<1>1. CASE job = "procdump"
  BY <1>1, OpsLemma DEF Effect, PrintAt, SpinAt, ConsAt, PtableAt
<1>2. CASE job = "printReadyList"
  <2>1. i \in {1, 2, 3, 4, 5, 6}
    BY <1>2, OpsLemma DEF Effect, PrintAt
  <2> QED BY <1>2, <2>1, OpsLemma DEF Effect, PrintAt, SpinAt, ConsAt, PtableAt
<1>3. CASE job = "freeListSize"
  <2>1. i \in {1, 2, 3, 4}
    BY <1>3, OpsLemma DEF Effect, PrintAt
  <2> QED BY <1>3, <2>1, OpsLemma DEF Effect, PrintAt, SpinAt, ConsAt, PtableAt
<1> QED BY <1>1, <1>2, <1>3 DEF Jobs

LEMMA OpsEnd ==
  ASSUME NEW job \in Jobs, NEW i, PrintAt(job, i), i > Len(Ops(job))
  PROVE  ~ConsAt(job, i) /\ ~PtableAt(job, i)
  BY OpsLemma DEF Jobs, PrintAt, ConsAt, PtableAt

LEMMA OpsStart ==
  ASSUME NEW job \in Jobs
  PROVE  PrintAt(job, 1) /\ ~ConsAt(job, 1) /\ ~PtableAt(job, 1)
  BY DEF Jobs, PrintAt, ConsAt, PtableAt

LEMMA SpinPlus ==
  ASSUME NEW job \in Jobs, NEW i, SpinAt(job, i)
  PROVE  PrintAt(job, i) /\ i <= Len(Ops(job)) /\ Ops(job)[i][1] = "+"
  BY OpsLemma DEF Jobs, PrintAt, SpinAt

\* In s the locks are held by others than in m, and all else is as in m.
SameButLocks(s) ==
  s \in Machine /\ s.ncli = m.ncli /\ s.ie = m.ie /\ s.intena = m.intena /\ s.panic = m.panic

\* The handler never spins for a lock that its own CPU holds: it came in where
\* no lock was held.
LEMMA HandlerMaySpin ==
  ASSUME Types, LockInv, hpc # "idle", NEW l \in Locks, m.lock[l] # "intr"
  PROVE  ~holding(m, 0, l)
<1> USE ActorAssumption
<1>1. m.lock[l] \in Proc \cup {None, "intr"}
  BY DEF Types, Machine
<1>2. CASE l = "ptable"
  BY <1>2 DEF LockInv, HoldersRight, holding
<1>3. CASE l = "cons"
  <2>1. ASSUME m.lock["cons"] \in Proc, on[m.lock["cons"]] = 0 PROVE FALSE
    BY <2>1 DEF LockInv, HoldersRight, CountRight
  <2> QED BY <1>1, <1>3, <2>1 DEF holding, CPUof
<1> QED BY <1>2, <1>3 DEF Locks

LEMMA HandlerSpins ==
  ASSUME Types, LockInv, hpc # "idle", NEW l \in Locks, NEW s, SameButLocks(s), ~holding(s, 0, l),
         m' = Spin(s, 0, l)
  PROVE  /\ m' \in Machine /\ ~m'.panic /\ m'.lock = s.lock /\ m'.ncli[0] = m.ncli[0] + 1
         /\ ~m'.ie[0] /\ ~m'.intena[0] /\ OthersSame(0)
<1> USE ActorAssumption
<1>1. Spun(m', s, 0, l)
  BY SpinFields DEF SameButLocks
<1>2. ~Plainly(0) /\ 0 \in CPU
  BY DEF Plainly
<1>3. ~m.ie[0] /\ (m.ncli[0] > 0 => ~m.intena[0]) /\ ~m.panic
  BY <1>2 DEF LockInv, InterruptsRight
<1>4. m.ncli[0] >= 0
  <2>1. HandlerDepth >= 0
    BY DEF HandlerDepth, One
  <2> QED BY <2>1 DEF LockInv, CountRight
<1>5. m.ncli[0] \in Int
  BY <1>2 DEF Types, Machine
<1>6. s.ncli[0] = m.ncli[0] /\ (s.ie[0] <=> m.ie[0]) /\ (s.intena[0] <=> m.intena[0])
  BY DEF SameButLocks
<1>7. ~m'.intena[0]
  BY <1>1, <1>3, <1>4, <1>5, <1>6 DEF Spun
<1>8. m' \in Machine /\ ~m'.panic /\ m'.lock = s.lock /\ m'.ncli[0] = m.ncli[0] + 1 /\ ~m'.ie[0]
  BY <1>1, <1>3, <1>6 DEF Spun, SameButLocks
<1>9. OthersSame(0)
  BY <1>1 DEF Spun, SameButLocks, OthersSame
<1> QED BY <1>7, <1>8, <1>9

LEMMA HandlerReleases ==
  ASSUME Types, LockInv, hpc # "idle", m.ncli[0] > 0, NEW l \in Locks, NEW s, SameButLocks(s),
         s.lock[l] = "intr", m' = release(s, "intr", 0, l)
  PROVE  /\ m' \in Machine /\ ~m'.panic /\ m'.lock[l] = None
         /\ \A k \in Locks \ {l} : m'.lock[k] = s.lock[k]
         /\ m'.ncli[0] = m.ncli[0] - 1 /\ ~m'.ie[0] /\ ~m'.intena[0] /\ OthersSame(0)
<1> USE ActorAssumption
<1>1. Released(m', s, "intr", 0, l)
  BY ReleaseFields DEF SameButLocks
<1>2. ~Plainly(0) /\ 0 \in CPU
  BY DEF Plainly
<1>3. ~m.ie[0] /\ ~m.intena[0] /\ ~m.panic
  BY <1>2 DEF LockInv, InterruptsRight
<1>4. m.ncli[0] \in Int
  BY <1>2 DEF Types, Machine
<1>5. /\ m' \in Machine /\ ~m'.panic /\ m'.lock[l] = None
      /\ \A k \in Locks \ {l} : m'.lock[k] = s.lock[k]
      /\ m'.ncli[0] = m.ncli[0] - 1 /\ ~m'.ie[0] /\ ~m'.intena[0]
  BY <1>1, <1>3, <1>4 DEF Released, SameButLocks
<1>6. OthersSame(0)
  BY <1>1 DEF Released, SameButLocks, OthersSame
<1> QED BY <1>5, <1>6

LEMMA InterruptStep ==
  ASSUME Types, LockInv, Interrupt
  PROVE  LockInv' /\ m' \in Machine
<1> USE ActorAssumption
<1> DEFINE s == [m EXCEPT !.ie[0] = FALSE]
<1>1. /\ ~m.panic /\ hpc = "idle" /\ m.ie[0] /\ m' = Spin(s, 0, "cons") /\ hpc' = "enter"
      /\ pc' = pc /\ on' = on /\ todo' = todo /\ at' = at
  BY DEF Interrupt, procs
<1>2. m \in Machine /\ "cons" \in Locks
  BY DEF Types, Locks
<1>3. /\ s \in Machine /\ s.lock = m.lock /\ s.ncli = m.ncli /\ s.intena = m.intena /\ s.panic = m.panic
      /\ s.ie = [m.ie EXCEPT ![0] = FALSE] /\ m.ie \in [CPU -> BOOLEAN]
  BY <1>2 DEF Machine
<1>4. ~s.ie[0] /\ \A d \in CPU \ {0} : s.ie[d] <=> m.ie[d]
  BY <1>3
<1>5. Spun(m', s, 0, "cons")
  BY <1>1, <1>2, <1>3, SpinFields
<1> HIDE DEF s
<1>6. m.ncli[0] = 0 /\ \A c \in CPU : Plainly(c)
  BY <1>1 DEF LockInv, InterruptsRight, Plainly
<1>7. \A p \in Proc : on[p] = 0 => pc[p] = "user"
  <2> SUFFICES ASSUME NEW p \in Proc, on[p] = 0 PROVE pc[p] = "user"
    OBVIOUS
  <2>1. Depth(pc[p]) = 0
    BY <1>6 DEF LockInv, CountRight
  <2>2. pc[p] \notin {"asleep", "ready"}
    BY DEF LockInv, OnRight
  <2> QED BY <2>1, <2>2 DEF Depth, Types
<1>8. ~holding(s, 0, "cons")
  <2>1. m.lock["cons"] \in Proc \cup {None, "intr"} /\ m.lock["cons"] # "intr"
    BY <1>1, <1>2 DEF Machine, LockInv, HoldersRight, HasCons, Printing
  <2>2. ASSUME m.lock["cons"] \in Proc, on[m.lock["cons"]] = 0 PROVE FALSE
    BY <1>7, <2>2 DEF LockInv, HoldersRight
  <2> QED BY <1>3, <2>1, <2>2 DEF holding, CPUof
<1>9. /\ m' \in Machine /\ ~m'.panic /\ m'.lock = m.lock /\ m'.ncli[0] = 1
      /\ ~m'.ie[0] /\ ~m'.intena[0] /\ OthersSame(0)
  BY <1>1, <1>3, <1>4, <1>5, <1>6, <1>8 DEF Spun, OthersSame
<1>10. ~HasCons /\ ~HasPtable /\ ~HasCons' /\ ~HasPtable' /\ HandlerDepth' = 1
  BY <1>1 DEF HasCons, HasPtable, Printing, HandlerDepth, One
<1>11. OnRight'
  BY <1>1 DEF LockInv, OnRight
<1>12. \A c \in CPU : Plainly(c)' <=> c # 0
  BY <1>1 DEF Plainly
<1>13. CountRight'
  <2>1. ASSUME NEW p \in Proc, on'[p] # -1, Plainly(on[p])'
        PROVE  m'.ncli[on'[p]] = Depth(pc'[p])
    <3>1. on[p] \in CPU \ {0}
      BY <1>1, <2>1 DEF Plainly, Types
    <3>2. m.ncli[on[p]] = Depth(pc[p])
      BY <1>1, <1>6, <2>1, <3>1 DEF LockInv, CountRight
    <3> QED BY <1>1, <1>9, <3>1, <3>2 DEF OthersSame
  <2>2. ASSUME NEW c \in CPU, Plainly(c)', \A p \in Proc : on'[p] # c
        PROVE  m'.ncli[c] = 0
    <3>1. c # 0
      BY <1>12, <2>2
    <3> QED BY <1>1, <1>6, <1>9, <2>2, <3>1 DEF LockInv, CountRight, OthersSame
  <2> QED BY <1>1, <1>7, <1>9, <1>10, <2>1, <2>2 DEF CountRight
<1>14. InterruptsRight'
  <2>1. ASSUME NEW c \in CPU
        PROVE  /\ m'.ie[c] <=> m'.ncli[c] = 0 /\ Plainly(c)'
               /\ m'.ncli[c] > 0 => (m'.intena[c] <=> Plainly(c)')
    <3>1. CASE c = 0
      BY <3>1, <1>9, <1>12
    <3>2. CASE c # 0
      BY <3>2, <1>6, <1>9, <1>12 DEF OthersSame, LockInv, InterruptsRight
    <3> QED BY <3>1, <3>2
  <2> QED BY <2>1 DEF InterruptsRight
<1>15. HoldersRight'
  BY <1>1, <1>9, <1>10 DEF LockInv, HoldersRight
<1>16. Places'
  BY <1>1 DEF Places
<1> QED BY <1>9, <1>11, <1>13, <1>14, <1>15, <1>16 DEF LockInv

\* The return from the interrupt.
LEMMA ReturnStep ==
  ASSUME Types, LockInv, hpc = "print", todo = <<>>, m' = [m EXCEPT !.ie[0] = TRUE], hpc' = "idle",
         todo' = todo, UNCHANGED procs
  PROVE  LockInv' /\ m' \in Machine
<1> USE ActorAssumption
<1>1. pc' = pc /\ on' = on
  BY DEF procs
<1>2. m \in Machine
  BY DEF Types
<1>3. /\ m' \in Machine /\ m'.lock = m.lock /\ m'.ncli = m.ncli /\ m'.intena = m.intena /\ m'.panic = m.panic
      /\ m'.ie = [m.ie EXCEPT ![0] = TRUE] /\ m.ie \in [CPU -> BOOLEAN]
  BY <1>2 DEF Machine
<1>4. m'.ie[0] /\ \A d \in CPU \ {0} : m'.ie[d] <=> m.ie[d]
  BY <1>3
<1>5. ~HasCons /\ ~HasPtable /\ ~HasCons' /\ ~HasPtable' /\ HandlerDepth = 0
  BY DEF HasCons, HasPtable, Printing, HandlerDepth, One
<1>6. /\ m.ncli[0] = 0 /\ ~m.panic
      /\ \A p \in Proc : on[p] = 0 => pc[p] = "user"
  BY <1>5 DEF LockInv, CountRight
<1>7. \A c \in CPU : Plainly(c)' /\ (Plainly(c) <=> c # 0)
  BY DEF Plainly
<1>8. OnRight'
  BY <1>1 DEF LockInv, OnRight
<1>9. CountRight'
  <2>1. ASSUME NEW p \in Proc, on'[p] # -1
        PROVE  m'.ncli[on'[p]] = Depth(pc'[p])
    <3>1. on[p] \in CPU
      BY <1>1, <2>1 DEF Types
    <3>2. CASE on[p] = 0
      BY <1>1, <1>3, <1>6, <3>2 DEF Depth
    <3>3. CASE on[p] # 0
      BY <1>1, <1>3, <1>7, <2>1, <3>1, <3>3 DEF LockInv, CountRight
    <3> QED BY <3>2, <3>3
  <2>2. ASSUME NEW c \in CPU, \A p \in Proc : on'[p] # c
        PROVE  m'.ncli[c] = 0
    <3>1. CASE c = 0
      BY <1>3, <1>6, <3>1
    <3>2. CASE c # 0
      BY <1>1, <1>3, <1>7, <2>2, <3>2 DEF LockInv, CountRight
    <3> QED BY <3>1, <3>2
  <2> QED BY <2>1, <2>2 DEF CountRight
<1>10. InterruptsRight'
  <2>1. ASSUME NEW c \in CPU
        PROVE  /\ m'.ie[c] <=> m'.ncli[c] = 0 /\ Plainly(c)'
               /\ m'.ncli[c] > 0 => (m'.intena[c] <=> Plainly(c)')
    <3>1. CASE c = 0
      BY <3>1, <1>3, <1>4, <1>6, <1>7
    <3>2. CASE c # 0
      BY <3>2, <1>3, <1>4, <1>7 DEF LockInv, InterruptsRight
    <3> QED BY <3>1, <3>2
  <2> QED BY <2>1 DEF InterruptsRight
<1>11. HoldersRight'
  BY <1>1, <1>3, <1>5 DEF LockInv, HoldersRight
<1>12. Places' /\ ~m'.panic
  BY <1>3, <1>6 DEF Places
<1> QED BY <1>3, <1>8, <1>9, <1>10, <1>11, <1>12 DEF LockInv

\* In the loop of consoleintr() the handler has cons.lock and nothing else.
LEMMA InLoop ==
  ASSUME Types, LockInv, hpc \in {"enter", "more", "wakeup"}
  PROVE  /\ ~HasPtable /\ m.lock["ptable"] # "intr" /\ 0 \in CPU
         /\ hpc = "enter" => ~HasCons /\ m.ncli[0] = 1
         /\ hpc = "more" => HasCons /\ m.ncli[0] = 1 /\ m.lock["cons"] = "intr"
         /\ hpc = "wakeup" => HasCons /\ m.ncli[0] = 2 /\ m.lock["cons"] = "intr"
         /\ ~m.ie[0] /\ ~m.intena[0] /\ ~m.panic
<1> USE ActorAssumption
<1>1. /\ ~HasPtable /\ (HasCons <=> hpc # "enter")
      /\ HandlerDepth = IF hpc = "wakeup" THEN 2 ELSE 1
  BY DEF HasCons, HasPtable, Printing, HandlerDepth, One
<1>2. m.ncli[0] = HandlerDepth /\ ~m.panic
  BY DEF LockInv, CountRight
<1>3. ~Plainly(0)
  BY DEF Plainly
<1> QED BY <1>1, <1>2, <1>3 DEF LockInv, HoldersRight, InterruptsRight

LEMMA WakeupStep ==
  ASSUME Types, LockInv, wakeup
  PROVE  LockInv' /\ m' \in Machine
<1> USE ActorAssumption
<1> DEFINE s == Locked(m, "intr", "ptable")
<1>1. /\ hpc = "wakeup" /\ hpc' = "more" /\ Free("ptable") /\ m' = release(s, "intr", 0, "ptable")
      /\ on' = on /\ todo' = todo /\ at' = at
      /\ \A p \in Proc : pc'[p] = pc[p] \/ (pc[p] = "asleep" /\ pc'[p] = "ready")
  BY DEF wakeup
<1>2. m \in Machine /\ "cons" \in Locks /\ "ptable" \in Locks /\ "cons" # "ptable"
  BY DEF Types, Locks
<1>3. ~HasPtable /\ HasCons /\ m.ncli[0] = 2 /\ m.lock["cons"] = "intr"
  BY <1>1, InLoop
<1>4. Taken(s, m, "intr", "ptable")
  BY <1>2, LockedFields
<1>5. SameButLocks(s) /\ s.lock["ptable"] = "intr" /\ s.lock["cons"] = "intr"
  BY <1>2, <1>3, <1>4 DEF Taken, SameButLocks
<1> HIDE DEF s
<1>6. /\ m' \in Machine /\ ~m'.panic /\ m'.lock["ptable"] = None
      /\ \A k \in Locks \ {"ptable"} : m'.lock[k] = s.lock[k]
      /\ m'.ncli[0] = m.ncli[0] - 1 /\ ~m'.ie[0] /\ ~m'.intena[0] /\ OthersSame(0)
  BY <1>1, <1>2, <1>3, <1>5, HandlerReleases
<1>7. HasCons' /\ ~HasPtable' /\ HandlerDepth' = 1
  BY <1>1 DEF HasCons, HasPtable, Printing, HandlerDepth, One
<1>8. Held("cons", HasCons, HasCons') /\ Held("ptable", HasPtable, HasPtable')
  BY <1>1, <1>2, <1>3, <1>5, <1>6, <1>7 DEF Held, Free
<1>9. Places'
  BY <1>1 DEF Places
<1>10. HandlerStep
  <2>1. m'.ncli[0] = HandlerDepth'
    BY <1>3, <1>6, <1>7
  <2> QED BY <1>1, <1>6, <1>8, <1>9, <2>1 DEF HandlerStep
<1> QED BY <1>6, <1>10, HandlerKeeps

\* A turn of the loop of consoleintr(), as far as the locks are concerned.
LEMMA KeyStep ==
  ASSUME Types, LockInv, NEW c \in Keys, FirstKey(c) \/ NextKey(c)
  PROVE  LockInv' /\ m' \in Machine
<1> USE ActorAssumption
<1>1. PICK s : /\ consoleintr(c, s)
               /\ \/ hpc = "enter" /\ Free("cons") /\ s = Locked(m, "intr", "cons")
                  \/ hpc = "more" /\ s = m
  BY DEF FirstKey, NextKey
<1>2. m \in Machine /\ "cons" \in Locks /\ "ptable" \in Locks /\ "cons" # "ptable"
  BY DEF Types, Locks
<1>3. /\ ~HasPtable /\ m.lock["ptable"] # "intr" /\ m.ncli[0] = 1 /\ 0 \in CPU
      /\ HasCons <=> hpc = "more"
      /\ ~m.ie[0] /\ ~m.intena[0] /\ ~m.panic
  BY <1>1, InLoop
<1>4. SameButLocks(s) /\ s.lock["cons"] = "intr" /\ s.lock["ptable"] = m.lock["ptable"]
  <2>1. CASE hpc = "more" /\ s = m
    BY <1>2, <2>1, InLoop DEF SameButLocks
  <2>2. CASE s = Locked(m, "intr", "cons")
    <3>1. Taken(s, m, "intr", "cons")
      BY <1>2, <2>2, LockedFields
    <3> QED BY <1>2, <3>1 DEF Taken, SameButLocks
  <2> QED BY <1>1, <2>1, <2>2
<1>5. /\ pc' = pc /\ on' = on /\ at' = at
      /\ \/ hpc' = "wakeup" /\ m' = Spin(s, 0, "ptable")
         \/ hpc' = "more" /\ m' = s
  BY <1>1 DEF consoleintr, procs
<1>6. HasCons' /\ ~HasPtable' /\ HandlerDepth' = IF hpc' = "wakeup" THEN 2 ELSE 1
  BY <1>5 DEF HasCons, HasPtable, Printing, HandlerDepth, One
<1>7. hpc \in {"enter", "more"} /\ (hpc = "enter" => m.lock["cons"] = None)
  BY <1>1 DEF Free
<1>8. /\ m' \in Machine /\ ~m'.panic /\ m'.lock["cons"] = "intr" /\ m'.lock["ptable"] = m.lock["ptable"]
      /\ m'.ncli[0] = HandlerDepth' /\ ~m'.ie[0] /\ ~m'.intena[0] /\ OthersSame(0)
  <2>1. CASE hpc' = "more" /\ m' = s
    BY <1>3, <1>4, <1>6, <2>1 DEF SameButLocks, OthersSame
  <2>2. CASE hpc' = "wakeup" /\ m' = Spin(s, 0, "ptable")
    <3>1. ~holding(m, 0, "ptable")
      BY <1>2, <1>3, <1>7, HandlerMaySpin
    <3>2. ~holding(s, 0, "ptable")
      BY <1>4, <3>1 DEF holding
    <3>3. /\ m' \in Machine /\ ~m'.panic /\ m'.lock = s.lock /\ m'.ncli[0] = m.ncli[0] + 1
          /\ ~m'.ie[0] /\ ~m'.intena[0] /\ OthersSame(0)
      BY <1>2, <1>4, <1>7, <2>2, <3>2, HandlerSpins
    <3> QED BY <1>3, <1>4, <1>6, <2>2, <3>3
  <2> QED BY <1>5, <2>1, <2>2
<1>9. Held("cons", HasCons, HasCons') /\ Held("ptable", HasPtable, HasPtable')
  BY <1>3, <1>6, <1>7, <1>8 DEF Held
<1>10. Places'
  BY <1>5 DEF Places
<1>11. HandlerStep
  BY <1>5, <1>7, <1>8, <1>9, <1>10 DEF HandlerStep
<1> QED BY <1>8, <1>11, HandlerKeeps

LEMMA DrainedStep ==
  ASSUME Types, LockInv, Drained
  PROVE  LockInv' /\ m' \in Machine
<1> USE ActorAssumption
<1>1. /\ hpc = "more" /\ hpc' = "print" /\ at' = 1 /\ m' = release(m, "intr", 0, "cons")
      /\ pc' = pc /\ on' = on /\ todo' = todo
  BY DEF Drained, procs
<1>2. m \in Machine /\ "cons" \in Locks /\ "ptable" \in Locks /\ "cons" # "ptable"
  BY DEF Types, Locks
<1>3. ~HasPtable /\ HasCons /\ m.ncli[0] = 1 /\ m.lock["cons"] = "intr"
  BY <1>1, InLoop
<1>4. SameButLocks(m)
  BY <1>2 DEF SameButLocks
<1>5. /\ m' \in Machine /\ ~m'.panic /\ m'.lock["cons"] = None
      /\ \A k \in Locks \ {"cons"} : m'.lock[k] = m.lock[k]
      /\ m'.ncli[0] = m.ncli[0] - 1 /\ ~m'.ie[0] /\ ~m'.intena[0] /\ OthersSame(0)
  BY <1>1, <1>2, <1>3, <1>4, HandlerReleases
<1>6. todo # <<>> => Head(todo) \in Jobs
  BY DEF Types
<1>7. ~HasCons' /\ ~HasPtable' /\ Places'
  BY <1>1, <1>6, OpsStart DEF HasCons, HasPtable, Printing, Places
<1>8. HandlerDepth' = 0
  BY <1>1, <1>7 DEF HandlerDepth, One
<1>9. Held("cons", HasCons, HasCons') /\ Held("ptable", HasPtable, HasPtable')
  BY <1>2, <1>3, <1>5, <1>7 DEF Held
<1>10. HandlerStep
  <2>1. m'.ncli[0] = HandlerDepth'
    BY <1>3, <1>5, <1>8
  <2> QED BY <1>1, <1>5, <1>7, <1>9, <2>1 DEF HandlerStep
<1> QED BY <1>5, <1>10, HandlerKeeps

\* Where the handler is in a listing, and what it holds there.
LEMMA InListing ==
  ASSUME Types, LockInv, hpc \in {"print", "spin"}, todo # <<>>
  PROVE  /\ Head(todo) \in Jobs /\ PrintAt(Head(todo), at)
         /\ HasCons <=> ConsAt(Head(todo), at)
         /\ HasPtable <=> PtableAt(Head(todo), at)
         /\ m.ncli[0] = One(HasCons) + One(HasPtable) + One(hpc = "spin")
         /\ ~m.ie[0] /\ (m.ncli[0] > 0 => ~m.intena[0]) /\ ~m.panic /\ 0 \in CPU
<1> USE ActorAssumption
<1>1. Head(todo) \in Jobs
  BY DEF Types
<1>2. PrintAt(Head(todo), at)
  BY <1>1, SpinPlus DEF LockInv, Places
<1>3. (HasCons <=> ConsAt(Head(todo), at)) /\ (HasPtable <=> PtableAt(Head(todo), at))
  BY DEF HasCons, HasPtable, Printing
<1>4. m.ncli[0] = HandlerDepth /\ ~m.panic
  BY DEF LockInv, CountRight
<1>5. One(hpc \in {"enter", "wakeup", "spin"}) = One(hpc = "spin")
  BY DEF One
<1>6. ~Plainly(0)
  BY DEF Plainly
<1>7. ~m.ie[0] /\ (m.ncli[0] > 0 => ~m.intena[0])
  BY <1>6 DEF LockInv, InterruptsRight
<1> QED BY <1>1, <1>2, <1>3, <1>4, <1>5, <1>7 DEF HandlerDepth

\* A listing starts to spin for a lock.
LEMMA PlusStep ==
  ASSUME Types, LockInv, hpc = "print", todo # <<>>, at <= Len(Ops(Head(todo))),
         Ops(Head(todo))[at][1] = "+", m' = Spin(m, 0, Ops(Head(todo))[at][2]),
         hpc' = "spin", UNCHANGED <<at, todo, procs>>
  PROVE  LockInv' /\ m' \in Machine
<1> DEFINE j == Head(todo)
           l == Ops(j)[at][2]
<1>1. /\ j \in Jobs /\ PrintAt(j, at) /\ (HasCons <=> ConsAt(j, at)) /\ (HasPtable <=> PtableAt(j, at))
      /\ m.ncli[0] = One(HasCons) + One(HasPtable) + One(hpc = "spin")
  BY InListing
<1>2. /\ l \in {"cons", "ptable"} /\ SpinAt(j, at)
      /\ l = "cons" => ~ConsAt(j, at)
      /\ l = "ptable" => ~PtableAt(j, at)
  <2>1. Effect(j, at, "+", l)
    BY <1>1, OpEffect
  <2> HIDE DEF j, l
  <2> QED BY <2>1 DEF Effect
<1>3. j' = j /\ at' = at /\ pc' = pc /\ on' = on /\ todo' = todo /\ m' = Spin(m, 0, l)
  BY DEF procs
<1>4. (HasCons' <=> HasCons) /\ (HasPtable' <=> HasPtable)
  BY <1>3 DEF HasCons, HasPtable, Printing
<1>5. Places'
  BY <1>2, <1>3 DEF Places
<1> HIDE DEF l, j
<1>6. m.lock[l] # "intr" /\ l \in Locks /\ m \in Machine
  BY <1>1, <1>2 DEF LockInv, HoldersRight, Locks, Types
<1>7. ~holding(m, 0, l)
  BY <1>6, HandlerMaySpin
<1>8. /\ m' \in Machine /\ ~m'.panic /\ m'.lock = m.lock /\ m'.ncli[0] = m.ncli[0] + 1
      /\ ~m'.ie[0] /\ ~m'.intena[0] /\ OthersSame(0)
  <2>1. SameButLocks(m)
    BY <1>6 DEF SameButLocks
  <2> QED BY <1>3, <1>6, <1>7, <2>1, HandlerSpins
<1>9. m'.ncli[0] = HandlerDepth'
  <2>1. HandlerDepth' = One(HasCons) + One(HasPtable) + 1
    BY <1>4 DEF HandlerDepth, One
  <2>2. m.ncli[0] = One(HasCons) + One(HasPtable) + 0
    BY <1>1 DEF One
  <2>3. One(HasCons) \in Int /\ One(HasPtable) \in Int
    BY DEF One
  <2> QED BY <1>8, <2>1, <2>2, <2>3
<1>10. Held("cons", HasCons, HasCons') /\ Held("ptable", HasPtable, HasPtable')
  BY <1>4, <1>8 DEF Held, LockInv, HoldersRight
<1>11. HandlerStep
  BY <1>3, <1>5, <1>8, <1>9, <1>10 DEF HandlerStep
<1> QED BY <1>8, <1>11, HandlerKeeps

\* A listing gives a lock back.
LEMMA MinusStep ==
  ASSUME Types, LockInv, hpc = "print", todo # <<>>, at <= Len(Ops(Head(todo))),
         Ops(Head(todo))[at][1] # "+", m' = release(m, "intr", 0, Ops(Head(todo))[at][2]),
         at' = at + 1, UNCHANGED <<hpc, todo, procs>>
  PROVE  LockInv' /\ m' \in Machine
<1> DEFINE j == Head(todo)
           l == Ops(j)[at][2]
<1>1. /\ j \in Jobs /\ PrintAt(j, at) /\ (HasCons <=> ConsAt(j, at)) /\ (HasPtable <=> PtableAt(j, at))
      /\ m.ncli[0] = One(HasCons) + One(HasPtable) + One(hpc = "spin")
  BY InListing
<1>2. /\ l \in {"cons", "ptable"} /\ PrintAt(j, at + 1)
      /\ l = "cons" => ConsAt(j, at) /\ ~ConsAt(j, at + 1) /\ (PtableAt(j, at + 1) <=> PtableAt(j, at))
      /\ l = "ptable" => PtableAt(j, at) /\ ~PtableAt(j, at + 1) /\ (ConsAt(j, at + 1) <=> ConsAt(j, at))
  <2> DEFINE sign == Ops(j)[at][1]
  <2>1. Effect(j, at, sign, l) /\ sign # "+"
    BY <1>1, OpEffect
  <2> HIDE DEF j, l, sign
  <2> QED BY <2>1 DEF Effect
<1>3. /\ j' = j /\ at' = at + 1 /\ pc' = pc /\ on' = on /\ todo' = todo /\ hpc' = hpc
      /\ m' = release(m, "intr", 0, l)
  BY DEF procs
<1>4. (HasCons' <=> ConsAt(j, at + 1)) /\ (HasPtable' <=> PtableAt(j, at + 1))
  BY <1>3 DEF HasCons, HasPtable, Printing
<1>5. Places'
  BY <1>2, <1>3 DEF Places
<1> HIDE DEF l, j
<1>6. m.lock[l] = "intr" /\ l \in Locks /\ m \in Machine
  BY <1>1, <1>2 DEF LockInv, HoldersRight, Locks, Types
<1>7. /\ m.ncli[0] > 0
      /\ HandlerDepth' = m.ncli[0] - 1
  <2>1. HandlerDepth' = One(HasCons') + One(HasPtable')
    BY <1>3 DEF HandlerDepth, One
  <2>2. m.ncli[0] = One(HasCons) + One(HasPtable)
    BY <1>1 DEF One
  <2>3. CASE l = "cons"
    <3>1. HasCons /\ ~HasCons' /\ (HasPtable' <=> HasPtable)
      BY <1>1, <1>2, <1>4, <2>3, Zenon
    <3>2. One(HasCons) = 1 /\ One(HasCons') = 0 /\ One(HasPtable') = One(HasPtable) /\ One(HasPtable) \in Nat
      BY <3>1 DEF One
    <3> QED BY <2>1, <2>2, <3>2
  <2>4. CASE l = "ptable"
    <3>1. HasPtable /\ ~HasPtable' /\ (HasCons' <=> HasCons)
      BY <1>1, <1>2, <1>4, <2>4, Zenon
    <3>2. One(HasPtable) = 1 /\ One(HasPtable') = 0 /\ One(HasCons') = One(HasCons) /\ One(HasCons) \in Nat
      BY <3>1 DEF One
    <3> QED BY <2>1, <2>2, <3>2
  <2> QED BY <1>2, <2>3, <2>4
<1>8. /\ m' \in Machine /\ ~m'.panic /\ m'.lock[l] = None
      /\ \A k \in Locks \ {l} : m'.lock[k] = m.lock[k]
      /\ m'.ncli[0] = m.ncli[0] - 1 /\ ~m'.ie[0] /\ ~m'.intena[0] /\ OthersSame(0)
  <2>1. SameButLocks(m)
    BY <1>6 DEF SameButLocks
  <2> QED BY <1>3, <1>6, <1>7, <2>1, HandlerReleases
<1>9. Held("cons", HasCons, HasCons') /\ Held("ptable", HasPtable, HasPtable')
  <2>1. CASE l = "cons"
    BY <1>1, <1>2, <1>4, <1>8, <2>1 DEF Held, Locks, LockInv, HoldersRight
  <2>2. CASE l = "ptable"
    BY <1>1, <1>2, <1>4, <1>8, <2>2 DEF Held, Locks, LockInv, HoldersRight
  <2> QED BY <1>2, <2>1, <2>2
<1>10. HandlerStep
  BY <1>3, <1>5, <1>7, <1>8, <1>9 DEF HandlerStep
<1> QED BY <1>8, <1>10, HandlerKeeps

\* The next listing.
LEMMA NextListingStep ==
  ASSUME Types, LockInv, hpc = "print", todo # <<>>, at > Len(Ops(Head(todo))),
         todo' = Tail(todo), at' = 1, UNCHANGED <<m, hpc, procs>>
  PROVE  LockInv' /\ m' \in Machine
<1>1. /\ Head(todo) \in Jobs /\ PrintAt(Head(todo), at)
      /\ HasCons <=> ConsAt(Head(todo), at)
      /\ HasPtable <=> PtableAt(Head(todo), at)
      /\ m.ncli[0] = One(HasCons) + One(HasPtable) + One(hpc = "spin")
      /\ ~m.ie[0] /\ (m.ncli[0] > 0 => ~m.intena[0]) /\ ~m.panic
  BY InListing
<1>2. ~HasCons /\ ~HasPtable
  BY <1>1, OpsEnd
<1>3. /\ pc' = pc /\ on' = on /\ m' = m /\ hpc' = hpc
      /\ todo' \in Seq(Jobs) /\ (todo' # <<>> => Head(todo') \in Jobs)
  BY DEF procs, Types
<1>4. ~HasCons' /\ ~HasPtable' /\ Places'
  BY <1>3, OpsStart DEF HasCons, HasPtable, Printing, Places
<1>5. HandlerDepth' = 0
  BY <1>3, <1>4 DEF HandlerDepth, One
<1>6. m.ncli[0] = 0
  BY <1>1, <1>2 DEF One
<1>7. Held("cons", HasCons, HasCons') /\ Held("ptable", HasPtable, HasPtable') /\ OthersSame(0)
  BY <1>2, <1>3, <1>4 DEF Held, OthersSame
<1>8. m' \in Machine
  BY <1>3 DEF Types
<1>9. HandlerStep
  BY <1>1, <1>3, <1>4, <1>5, <1>6, <1>7, <1>8 DEF HandlerStep
<1> QED BY <1>8, <1>9, HandlerKeeps

\* A listing gets the lock for which it spins.
LEMMA ListingLockedStep ==
  ASSUME Types, LockInv, ListingLocked
  PROVE  LockInv' /\ m' \in Machine
<1> DEFINE j == Head(todo)
           l == Ops(j)[at][2]
<1>1. /\ hpc = "spin" /\ Free(l) /\ m' = Locked(m, "intr", l) /\ hpc' = "print" /\ at' = at + 1
      /\ pc' = pc /\ on' = on /\ todo' = todo
  BY DEF ListingLocked, procs
<1>2. todo # <<>> /\ SpinAt(j, at)
  BY <1>1 DEF LockInv, Places
<1>3. /\ j \in Jobs /\ PrintAt(j, at) /\ (HasCons <=> ConsAt(j, at)) /\ (HasPtable <=> PtableAt(j, at))
      /\ m.ncli[0] = One(HasCons) + One(HasPtable) + One(hpc = "spin")
      /\ ~m.ie[0] /\ (m.ncli[0] > 0 => ~m.intena[0]) /\ ~m.panic
  BY <1>1, <1>2, InListing
<1>4. at <= Len(Ops(j)) /\ Ops(j)[at][1] = "+"
  BY <1>2, <1>3, SpinPlus
<1>5. /\ l \in {"cons", "ptable"} /\ PrintAt(j, at + 1)
      /\ l = "cons" => ~ConsAt(j, at) /\ ConsAt(j, at + 1) /\ (PtableAt(j, at + 1) <=> PtableAt(j, at))
      /\ l = "ptable" => ~PtableAt(j, at) /\ PtableAt(j, at + 1) /\ (ConsAt(j, at + 1) <=> ConsAt(j, at))
  <2>1. Effect(j, at, "+", l)
    BY <1>3, <1>4, OpEffect
  <2> HIDE DEF j, l
  <2> QED BY <2>1 DEF Effect
<1>6. (HasCons' <=> ConsAt(j, at + 1)) /\ (HasPtable' <=> PtableAt(j, at + 1)) /\ Places'
  BY <1>1, <1>2, <1>5 DEF HasCons, HasPtable, Printing, Places
<1> HIDE DEF l, j
<1>7. l \in Locks /\ m \in Machine /\ m.lock[l] = None
  BY <1>1, <1>5 DEF Locks, Types, Free
<1>8. Taken(m', m, "intr", l)
  BY <1>1, <1>7, LockedFields
<1>9. HandlerDepth' = m.ncli[0]
  <2>1. HandlerDepth' = One(HasCons') + One(HasPtable')
    BY <1>1 DEF HandlerDepth, One
  <2>2. m.ncli[0] = One(HasCons) + One(HasPtable) + 1
    BY <1>1, <1>3 DEF One
  <2>3. CASE l = "cons"
    BY <1>3, <1>5, <1>6, <2>1, <2>2, <2>3 DEF One
  <2>4. CASE l = "ptable"
    BY <1>3, <1>5, <1>6, <2>1, <2>2, <2>4 DEF One
  <2> QED BY <1>5, <2>3, <2>4
<1>10. Held("cons", HasCons, HasCons') /\ Held("ptable", HasPtable, HasPtable')
  <2>1. CASE l = "cons"
    BY <1>3, <1>5, <1>6, <1>7, <1>8, <2>1 DEF Held, Locks, Taken, LockInv, HoldersRight
  <2>2. CASE l = "ptable"
    BY <1>3, <1>5, <1>6, <1>7, <1>8, <2>2 DEF Held, Locks, Taken, LockInv, HoldersRight
  <2> QED BY <1>5, <2>1, <2>2
<1>11. /\ m' \in Machine /\ ~m'.panic /\ OthersSame(0)
       /\ m'.ncli[0] = HandlerDepth' /\ ~m'.ie[0] /\ (HandlerDepth' > 0 => ~m'.intena[0])
  BY <1>3, <1>8, <1>9 DEF Taken, OthersSame
<1>12. HandlerStep
  BY <1>1, <1>6, <1>10, <1>11 DEF HandlerStep
<1> QED BY <1>11, <1>12, HandlerKeeps

-----------------------------------------------------------------------------
(* Indices that wrap around *)

Index == 0 .. WIDTH - 1

LEMMA ModUnique ==
  ASSUME NEW d \in Nat \ {0}, NEW a \in Int, NEW q \in Int, NEW x \in 0 .. d - 1, a = q * d + x
  PROVE  a % d = x
  OBVIOUS

LEMMA Widths ==
  /\ WIDTH \in Nat \ {0} /\ INPUT_BUF \in Nat \ {0} /\ INPUT_BUF < WIDTH
  BY IndexAssumption

\* b - a of unsigned integers, without the remainder.
LEMMA SizeIs ==
  ASSUME NEW a \in Index, NEW b \in Index
  PROVE  Size(a, b) = IF a <= b THEN b - a ELSE b - a + WIDTH
<1>1. a \in Int /\ b \in Int /\ b - a \in Int /\ WIDTH \in Nat \ {0}
  BY Widths DEF Index
<1>2. CASE a <= b
  <2>1. b - a \in 0 .. WIDTH - 1 /\ b - a = 0 * WIDTH + (b - a)
    BY <1>1, <1>2 DEF Index
  <2>2. (b - a) % WIDTH = b - a
    BY <1>1, <2>1, ModUnique
  <2> QED BY <1>2, <2>2 DEF Size
<1>3. CASE ~(a <= b)
  <2>1. b - a + WIDTH \in 0 .. WIDTH - 1 /\ b - a = (-1) * WIDTH + (b - a + WIDTH)
    BY <1>1, <1>3 DEF Index
  <2>2. (b - a) % WIDTH = b - a + WIDTH
    BY <1>1, <2>1, ModUnique
  <2> QED BY <1>3, <2>2 DEF Size
<1> QED BY <1>2, <1>3

\* The index k after a.
LEMMA AddIs ==
  ASSUME NEW a \in Index, NEW k \in 0 .. WIDTH
  PROVE  /\ (a + k) % WIDTH = IF a + k < WIDTH THEN a + k ELSE a + k - WIDTH
         /\ (a + k) % WIDTH \in Index
<1>1. a \in Int /\ k \in Int /\ a + k \in Int /\ WIDTH \in Nat \ {0}
  BY Widths DEF Index
<1>2. CASE a + k < WIDTH
  <2>1. a + k \in 0 .. WIDTH - 1 /\ a + k = 0 * WIDTH + (a + k)
    BY <1>1, <1>2 DEF Index
  <2>2. (a + k) % WIDTH = a + k
    BY <1>1, <2>1, ModUnique
  <2> QED BY <1>2, <2>1, <2>2 DEF Index
<1>3. CASE ~(a + k < WIDTH)
  <2>1. a + k - WIDTH \in 0 .. WIDTH - 1 /\ a + k = 1 * WIDTH + (a + k - WIDTH)
    BY <1>1, <1>3 DEF Index
  <2>2. (a + k) % WIDTH = a + k - WIDTH
    BY <1>1, <2>1, ModUnique
  <2> QED BY <1>3, <2>1, <2>2 DEF Index
<1> QED BY <1>2, <1>3

LEMMA SizeLemma ==
  ASSUME NEW a \in Index, NEW b \in Index
  PROVE  /\ Size(a, b) \in 0 .. WIDTH - 1 /\ Size(a, b) \in Nat
         /\ Size(a, b) = 0 <=> a = b
         /\ b = (a + Size(a, b)) % WIDTH
<1>1. Size(a, b) \in 0 .. WIDTH - 1 /\ (Size(a, b) = 0 <=> a = b)
  BY SizeIs, Widths DEF Index
<1>2. Size(a, b) \in Nat /\ Size(a, b) \in 0 .. WIDTH
  BY <1>1, Widths
<1>3. (a + Size(a, b)) % WIDTH = IF a + Size(a, b) < WIDTH THEN a + Size(a, b) ELSE a + Size(a, b) - WIDTH
  BY <1>2, AddIs
<1>4. b = (a + Size(a, b)) % WIDTH
  BY <1>3, SizeIs, Widths DEF Index
<1> QED BY <1>1, <1>2, <1>4

\* Three indices in order.
LEMMA SizeAdds ==
  ASSUME NEW a \in Index, NEW b \in Index, NEW c \in Index, Size(a, b) + Size(b, c) < WIDTH
  PROVE  Size(a, c) = Size(a, b) + Size(b, c)
  BY SizeIs, Widths DEF Index

\* k steps away from a, and towards b.
LEMMA SizeFrom ==
  ASSUME NEW a \in Index, NEW k \in 0 .. WIDTH - 1
  PROVE  Size(a, (a + k) % WIDTH) = k
<1>1. k \in 0 .. WIDTH /\ k \in Int /\ a \in Int /\ WIDTH \in Nat
  BY Widths DEF Index
<1> DEFINE x == (a + k) % WIDTH
<1>2. x = (IF a + k < WIDTH THEN a + k ELSE a + k - WIDTH) /\ x \in Index
  BY <1>1, AddIs
<1> HIDE DEF x
<1>3. Size(a, x) = IF a <= x THEN x - a ELSE x - a + WIDTH
  BY <1>2, SizeIs
<1>4. Size(a, x) = k
  BY <1>1, <1>2, <1>3 DEF Index
<1> QED BY <1>4 DEF x

LEMMA SizeLess ==
  ASSUME NEW a \in Index, NEW b \in Index, NEW k \in 0 .. Size(a, b)
  PROVE  /\ (a + k) % WIDTH \in Index
         /\ Size((a + k) % WIDTH, b) = Size(a, b) - k
<1>1. Size(a, b) \in 0 .. WIDTH - 1 /\ Size(a, b) = IF a <= b THEN b - a ELSE b - a + WIDTH
  BY SizeLemma, SizeIs
<1>2. k \in 0 .. WIDTH /\ k \in Int /\ a \in Int /\ b \in Int /\ WIDTH \in Nat /\ k <= Size(a, b)
  BY <1>1, Widths DEF Index
<1> DEFINE x == (a + k) % WIDTH
<1>3. x = (IF a + k < WIDTH THEN a + k ELSE a + k - WIDTH) /\ x \in Index
  BY <1>2, AddIs
<1> HIDE DEF x
<1>4. Size(x, b) = IF x <= b THEN b - x ELSE b - x + WIDTH
  BY <1>3, SizeIs
<1>5. Size(x, b) = Size(a, b) - k
  BY <1>1, <1>2, <1>3, <1>4 DEF Index
<1> QED BY <1>3, <1>5 DEF x

LEMMA AtLemma ==
  ASSUME NEW a \in Int
  PROVE  At(a) \in 0 .. INPUT_BUF - 1
  BY Widths DEF At

-----------------------------------------------------------------------------
(* The loop of consoleread() *)

\* A set of natural numbers has a least element.
LEMMA MinLemma ==
  ASSUME NEW S, S \subseteq Nat, S # {}
  PROVE  Min(S) \in S /\ \A y \in S : Min(S) <= y
<1> DEFINE R == OpToRel(<, Nat)
<1>1. IsWellFoundedOn(R, Nat)
  BY NatLessThanWellFounded
<1> HIDE DEF R
<1>2. PICK x \in S : \A y \in S : <<y, x>> \notin R
  BY <1>1, WFMin
<1>3. \A y \in S : ~(y < x)
  BY <1>2 DEF R, OpToRel
<1>4. \A y \in S : x <= y
  BY <1>3
<1> QED BY <1>4 DEF Min

\* What the loop takes: k characters, of which only the last can end a line;
\* it goes to sleep only when it has taken everything.
Loop(got, n, t) ==
  /\ got.n \in 0 .. n /\ (~got.done => got.r = w)
  /\ \E k \in 0 .. Size(r, w) :
       /\ got.r = (r + k) % WIDTH
       /\ \A i \in 0 .. k - 2 : buf[At((r + i) % WIDTH)] \notin {"\n", "^D"}
       /\ t \in Nat /\ n <= t /\ k # 0
            => (buf[At((r + (k - 1)) % WIDTH)] = "^D" <=> got.done /\ got.n = t)

LEMMA ReadTakes ==
  ASSUME Types, NEW n \in Nat, NEW t, NEW got, got = ReadLoop(r, n, t)
  PROVE  Loop(got, n, t)
<1> DEFINE stops == {"\n", "^D"}
           S == {k \in 0 .. n : k = n \/ (r + k) % WIDTH = w \/ buf[At((r + k) % WIDTH)] \in stops}
           p == Min(S)
           j == (r + p) % WIDTH
           d == Size(r, w)
<1>1. r \in Index /\ w \in Index
  BY DEF Types, Index
<1>2. d \in 0 .. WIDTH - 1 /\ d \in Nat /\ w = (r + d) % WIDTH
  BY <1>1, SizeLemma
<1>3. n \in S /\ S \subseteq Nat
  OBVIOUS
<1>4. p \in S /\ \A y \in S : p <= y
  <2> HIDE DEF S
  <2> QED BY <1>3, MinLemma
<1>5. p \in Nat /\ p <= n /\ p <= d
  <2>1. d <= n => d \in S
    BY <1>2
  <2>2. p \in 0 .. n
    BY <1>4
  <2>3. d <= n => p <= d
    BY <1>4, <2>1
  <2> HIDE DEF p, d, S
  <2> QED BY <1>2, <2>2, <2>3
<1>6. \A i \in 0 .. p - 1 : buf[At((r + i) % WIDTH)] \notin stops
  <2> SUFFICES ASSUME NEW i \in 0 .. p - 1, buf[At((r + i) % WIDTH)] \in stops
               PROVE  FALSE
    OBVIOUS
  <2>1. i \in S
    BY <1>5
  <2>2. p <= i
    BY <1>4, <2>1
  <2> HIDE DEF p, S
  <2> QED BY <1>5, <2>2
<1>7. p # n /\ j # w => p < d
  <2>1. p = d => j = w
    BY <1>2
  <2> HIDE DEF p, d, j
  <2> QED BY <1>2, <1>5, <2>1
<1>8. Up(j) = (r + (p + 1)) % WIDTH
  <2>1. r \in Int /\ p \in Int /\ p <= WIDTH - 1 /\ WIDTH \in Nat \ {0} /\ p \in 0 .. WIDTH /\ p + 1 \in 0 .. WIDTH
    BY <1>1, <1>2, <1>5, Widths DEF Index
  <2>2. j = (IF r + p < WIDTH THEN r + p ELSE r + p - WIDTH) /\ j \in Index
    BY <1>1, <2>1, AddIs
  <2> DEFINE q == p + 1
             u == (r + q) % WIDTH
  <2>3. u = IF r + q < WIDTH THEN r + q ELSE r + q - WIDTH
    BY <1>1, <2>1, AddIs
  <2> HIDE DEF j, u
  <2>4. 1 \in 0 .. WIDTH
    BY <2>1
  <2>5. (j + 1) % WIDTH = IF j + 1 < WIDTH THEN j + 1 ELSE j + 1 - WIDTH
    BY <2>2, <2>4, AddIs
  <2> DEFINE v == (j + 1) % WIDTH
  <2>6. v = IF j + 1 < WIDTH THEN j + 1 ELSE j + 1 - WIDTH
    BY <2>5
  <2> HIDE DEF v, p
  <2>7. v = u
    BY <1>1, <2>1, <2>2, <2>3, <2>6 DEF Index
  <2> QED BY <2>7 DEF Up, u, v
<1>9. got = IF p = n THEN [r |-> j, n |-> 0, done |-> TRUE]
            ELSE IF j = w THEN [r |-> j, n |-> n - p, done |-> FALSE]
            ELSE IF buf[At(j)] = "\n" THEN [r |-> Up(j), n |-> n - p - 1, done |-> TRUE]
            ELSE [r |-> IF n - p < t THEN j ELSE Up(j), n |-> n - p, done |-> TRUE]
  BY DEF ReadLoop, Plain
<1> HIDE DEF p, j, d, S, stops
<1>10. got.n \in 0 .. n /\ (~got.done => got.r = w)
  <2>1. CASE p = n
    BY <1>9, <2>1
  <2>2. CASE p # n /\ j = w
    BY <1>5, <1>9, <2>2
  <2>3. CASE p # n /\ j # w
    BY <1>5, <1>9, <2>3
  <2> QED BY <2>1, <2>2, <2>3
<1> DEFINE eof0 == got.done /\ got.n = t
           ends == t \in Nat /\ n <= t
<1>11. p # n /\ j # w => buf[At(j)] \in {"\n", "^D"}
  BY <1>4 DEF S, j, stops
<1>12. \/ got.r = j /\ (ends => p = 0 \/ ~eof0)
       \/ got.r = Up(j) /\ p < d /\ (ends => (buf[At(j)] = "^D" <=> eof0))
  <2>1. CASE p = n
    <3>1. got.r = j /\ got.n = 0
      BY <1>9, <2>1
    <3>2. ends => p = 0 \/ got.n # t
      BY <1>5, <2>1, <3>1
    <3> QED BY <3>1, <3>2
  <2>2. CASE p # n /\ j = w
    BY <1>9, <2>2
  <2>3. CASE p # n /\ j # w /\ buf[At(j)] = "\n"
    <3>1. got.r = Up(j) /\ got.n = n - p - 1
      BY <1>9, <2>3
    <3>2. ends => got.n # t
      BY <1>5, <3>1
    <3>3. p < d /\ buf[At(j)] # "^D"
      BY <1>7, <2>3
    <3> QED BY <3>1, <3>2, <3>3
  <2>4. CASE p # n /\ j # w /\ buf[At(j)] # "\n"
    <3>1. got = [r |-> IF n - p < t THEN j ELSE Up(j), n |-> n - p, done |-> TRUE]
      BY <1>9, <2>4
    <3>2. got.r = (IF n - p < t THEN j ELSE Up(j)) /\ got.n = n - p /\ got.done = TRUE
      BY <3>1
    <3>3. p < d /\ buf[At(j)] = "^D"
      BY <1>7, <1>11, <2>4
    <3>4. CASE n - p < t
      <4>1. ends => got.n # t
        BY <1>5, <3>2, <3>4
      <4> QED BY <3>2, <3>4, <4>1
    <3>5. CASE ~(n - p < t)
      <4>1. ends => got.n = t
        BY <1>5, <3>2, <3>5
      <4> QED BY <3>2, <3>3, <3>5, <4>1
    <3> QED BY <3>4, <3>5
  <2> QED BY <2>1, <2>2, <2>3, <2>4
<1> HIDE DEF eof0, ends
<1>13. \E k \in 0 .. d : /\ got.r = (r + k) % WIDTH
                         /\ \A i \in 0 .. k - 2 : buf[At((r + i) % WIDTH)] \notin stops
                         /\ ends /\ k # 0 => (buf[At((r + (k - 1)) % WIDTH)] = "^D" <=> eof0)
  <2>1. CASE got.r = j /\ (ends => p = 0 \/ ~eof0)
    <3>1. p \in 0 .. d /\ got.r = (r + p) % WIDTH
      BY <1>2, <1>5, <2>1 DEF j
    <3>2. \A i \in 0 .. p - 2 : buf[At((r + i) % WIDTH)] \notin stops
      BY <1>5, <1>6
    <3>3. p # 0 => buf[At((r + (p - 1)) % WIDTH)] # "^D"
      <4>1. p # 0 => p - 1 \in 0 .. p - 1
        BY <1>5
      <4> QED BY <1>6, <4>1 DEF stops
    <3>4. ends /\ p # 0 => (buf[At((r + (p - 1)) % WIDTH)] = "^D" <=> eof0)
      BY <2>1, <3>3, Zenon
    <3> QED BY <3>1, <3>2, <3>4
  <2>2. CASE got.r = Up(j) /\ p < d /\ (ends => (buf[At(j)] = "^D" <=> eof0))
    <3> DEFINE k == p + 1
    <3>1. k \in 0 .. d /\ got.r = (r + k) % WIDTH
      BY <1>2, <1>5, <1>8, <2>2
    <3>2. \A i \in 0 .. k - 2 : buf[At((r + i) % WIDTH)] \notin stops
      BY <1>5, <1>6
    <3>3. k - 1 = p
      BY <1>5
    <3> HIDE DEF k
    <3>4. ends => (buf[At((r + (k - 1)) % WIDTH)] = "^D" <=> eof0)
      BY <2>2, <3>3, Zenon DEF j
    <3> QED BY <3>1, <3>2, <3>4
  <2> QED BY <1>12, <2>1, <2>2
<1> QED BY <1>10, <1>13 DEF Loop, d, stops, eof0, ends

-----------------------------------------------------------------------------
(* The ring *)

LEMMA SizeUp ==
  ASSUME NEW a \in Index, NEW b \in Index, Size(a, b) < WIDTH - 1
  PROVE  Up(b) \in Index /\ Size(a, Up(b)) = Size(a, b) + 1
<1>1. a \in Int /\ b \in Int /\ WIDTH \in Nat \ {0} /\ 1 \in 0 .. WIDTH
  BY Widths DEF Index
<1>2. Up(b) = (IF b + 1 < WIDTH THEN b + 1 ELSE b + 1 - WIDTH) /\ Up(b) \in Index
  BY <1>1, AddIs DEF Up
<1>3. /\ Size(a, b) = IF a <= b THEN b - a ELSE b - a + WIDTH
      /\ Size(a, Up(b)) = IF a <= Up(b) THEN Up(b) - a ELSE Up(b) - a + WIDTH
  BY <1>2, SizeIs
<1> QED BY <1>1, <1>2, <1>3 DEF Index

LEMMA SizeDown ==
  ASSUME NEW a \in Index, NEW b \in Index, a # b
  PROVE  (b - 1) % WIDTH \in Index /\ Size(a, (b - 1) % WIDTH) = Size(a, b) - 1
<1>1. a \in Int /\ b \in Int /\ b - 1 \in Int /\ WIDTH \in Nat \ {0}
  BY Widths DEF Index
<1> DEFINE x == (b - 1) % WIDTH
<1>2. x = IF b = 0 THEN WIDTH - 1 ELSE b - 1
  <2>1. CASE b = 0
    <3>1. WIDTH - 1 \in 0 .. WIDTH - 1 /\ b - 1 = (-1) * WIDTH + (WIDTH - 1)
      BY <1>1, <2>1
    <3> QED BY <1>1, <2>1, <3>1, ModUnique
  <2>2. CASE b # 0
    <3>1. b - 1 \in 0 .. WIDTH - 1 /\ b - 1 = 0 * WIDTH + (b - 1)
      BY <1>1, <2>2 DEF Index
    <3> QED BY <1>1, <2>2, <3>1, ModUnique
  <2> QED BY <2>1, <2>2
<1> HIDE DEF x
<1>3. x \in Index
  BY <1>1, <1>2 DEF Index
<1>4. /\ Size(a, b) = IF a <= b THEN b - a ELSE b - a + WIDTH
      /\ Size(a, x) = IF a <= x THEN x - a ELSE x - a + WIDTH
  BY <1>3, SizeIs
<1>5. Size(a, x) = Size(a, b) - 1
  BY <1>1, <1>2, <1>4 DEF Index
<1> QED BY <1>3, <1>5 DEF x

LEMMA ForgetType ==
  ASSUME NEW b \in [0 .. INPUT_BUF - 1 -> Char], NEW x, NEW y
  PROVE  Forget(b, x, y) \in [0 .. INPUT_BUF - 1 -> Char]
  BY DEF Forget, Char

LEMMA ListingsType ==
  ASSUME NEW jobs
  PROVE  Listings(jobs) \in Seq(Jobs)
<1>1. \A j \in Jobs : Flagged(j, jobs) \in Seq(Jobs)
  BY DEF Flagged
<1> QED BY <1>1 DEF Listings, Jobs

\* What a key does to the indices.
LEMMA KeyOrdered ==
  ASSUME Types, Ordered, NEW c \in Keys, NEW s, consoleintr(c, s)
  PROVE  /\ r' = r /\ w' \in Index /\ e' \in Index /\ Ordered'
         /\ w' # w => hpc' = "wakeup"
         /\ buf' \in [0 .. INPUT_BUF - 1 -> Char]
<1> DEFINE fits == c \in Char /\ Size(r, e) < INPUT_BUF
           back == CASE c = "^U" -> w [] c = "^H" /\ e # w -> (e - 1) % WIDTH [] OTHER -> e
           wake == fits /\ Finishes(c, Up(e))
<1>1. /\ e' = IF fits THEN Up(e) ELSE back
      /\ buf' = IF fits THEN [buf EXCEPT ![At(e)] = c] ELSE Forget(buf, back, e)
      /\ w' = IF wake THEN Up(e) ELSE w
      /\ hpc' = IF wake THEN "wakeup" ELSE "more"
      /\ r' = r
  BY DEF consoleintr
<1>2. r \in Index /\ w \in Index /\ e \in Index /\ buf \in [0 .. INPUT_BUF - 1 -> Char]
  BY DEF Types, Index
<1>3. /\ WIDTH \in Nat \ {0} /\ INPUT_BUF \in Nat \ {0} /\ INPUT_BUF < WIDTH
      /\ Size(r, w) \in Nat /\ Size(w, e) \in Nat /\ Size(r, e) \in Nat
  BY <1>2, Widths, SizeLemma
<1>4. Size(r, e) = Size(r, w) + Size(w, e)
  BY <1>2, <1>3, SizeAdds DEF Ordered
<1>5. CASE ~fits
  <2>1. e' = back /\ w' = w /\ buf' = Forget(buf, back, e) /\ hpc' = "more"
    BY <1>1, <1>5
  <2>2. back \in Index /\ Size(w, back) <= Size(w, e) /\ Size(w, back) \in Nat
    <3>1. CASE c = "^U"
      BY <1>2, <1>3, <3>1, SizeLemma
    <3>2. CASE c = "^H" /\ e # w
      <4>1. back = (e - 1) % WIDTH
        BY <3>2
      <4> QED BY <1>2, <1>3, <3>2, <4>1, SizeDown, SizeLemma
    <3>3. CASE c # "^U" /\ ~(c = "^H" /\ e # w)
      <4>1. back = e
        BY <3>3
      <4> QED BY <1>2, <1>3, <4>1
    <3> QED BY <3>1, <3>2, <3>3
  <2> HIDE DEF back, wake, fits
  <2>3. buf' \in [0 .. INPUT_BUF - 1 -> Char]
    BY <1>2, <2>1, ForgetType
  <2>4. Size(r', w') = Size(r, w) /\ Size(w', e') = Size(w, back)
    BY <1>1, <2>1
  <2>5. Size(r, w) + Size(w, back) <= INPUT_BUF /\ Size(w, back) < INPUT_BUF
    BY <1>3, <2>2 DEF Ordered
  <2>6. Ordered'
    BY <2>4, <2>5 DEF Ordered
  <2> QED BY <1>1, <1>2, <2>1, <2>2, <2>3, <2>6
<1>6. CASE fits
  <2>1. e' = Up(e) /\ buf' = [buf EXCEPT ![At(e)] = c] /\ c \in Char /\ Size(r, e) < INPUT_BUF
    BY <1>1, <1>6
  <2>2. buf' \in [0 .. INPUT_BUF - 1 -> Char]
    BY <1>2, <2>1
  <2>3. Up(e) \in Index /\ Size(r, Up(e)) = Size(r, e) + 1 /\ Size(w, Up(e)) = Size(w, e) + 1
    BY <1>2, <1>3, <1>4, <2>1, SizeUp
  <2>4. CASE wake
    <3>1. w' = Up(e) /\ hpc' = "wakeup"
      BY <1>1, <2>4
    <3>2. Size(r', w') = Size(r, Up(e)) /\ Size(w', e') = Size(Up(e), Up(e))
      BY <1>1, <2>1, <3>1
    <3>3. Size(Up(e), Up(e)) = 0
      BY <2>3, SizeLemma
    <3>4. Ordered'
      BY <1>3, <2>1, <2>3, <3>2, <3>3 DEF Ordered
    <3> QED BY <1>1, <2>1, <2>2, <2>3, <3>1, <3>4
  <2>5. CASE ~wake
    <3>1. w' = w /\ Up(e) # (r + INPUT_BUF) % WIDTH
      BY <1>1, <1>6, <2>5 DEF Finishes
    <3>2. Size(r, Up(e)) # INPUT_BUF
      BY <1>2, <2>3, <3>1, SizeLemma
    <3>3. Size(r', w') = Size(r, w) /\ Size(w', e') = Size(w, Up(e))
      BY <1>1, <2>1, <3>1
    <3>4. Ordered'
      BY <1>3, <1>4, <2>1, <2>3, <3>2, <3>3 DEF Ordered
    <3> QED BY <1>1, <1>2, <2>1, <2>2, <2>3, <3>1, <3>4
  <2> QED BY <2>4, <2>5
<1> QED BY <1>5, <1>6

\* What a read does to the indices.
LEMMA ReadOrdered ==
  ASSUME Types, Ordered, NEW k \in 0 .. Size(r, w), r' = (r + k) % WIDTH, UNCHANGED <<w, e>>
  PROVE  r' \in Index /\ Ordered' /\ (r = w => r' = r)
<1>1. r \in Index /\ w \in Index /\ e \in Index
  BY DEF Types, Index
<1>2. Size(r, w) \in Nat /\ Size(w, e) \in Nat /\ INPUT_BUF \in Nat
  BY <1>1, SizeLemma, Widths
<1>3. r' \in Index /\ Size(r', w) = Size(r, w) - k
  BY <1>1, SizeLess
<1>4. Size(r', w') = Size(r', w) /\ Size(w', e') = Size(w, e)
  OBVIOUS
<1>5. Ordered'
  BY <1>2, <1>3, <1>4 DEF Ordered
<1>6. ASSUME r = w PROVE r' = r
  <2>1. Size(r, w) = 0
    BY <1>1, <1>6, SizeLemma
  <2>2. Size(r', w) = 0
    BY <1>2, <1>3, <2>1
  <2> QED BY <1>1, <1>3, <1>6, <2>2, SizeLemma
<1> QED BY <1>3, <1>5, <1>6

-----------------------------------------------------------------------------
(* Every step keeps the invariant *)

LEMMA InitIInv == Init => IInv
<1> SUFFICES ASSUME Init PROVE IInv
  OBVIOUS
<1> USE ActorAssumption
<1>1. /\ m.lock = [l \in Locks |-> None] /\ m.ncli = [c \in CPU |-> 0] /\ m.intena = [c \in CPU |-> FALSE]
      /\ m.ie = [c \in CPU |-> TRUE] /\ ~m.panic /\ m \in Machine
  BY DEF Init, Machine
<1>2. /\ hpc = "idle" /\ todo = <<>> /\ \A p \in Proc : pc[p] = "user"
      /\ on \in [Proc -> CPU] /\ IsInjective(on)
      /\ r = 0 /\ w = 0 /\ e = 0
  BY DEF Init
<1>3. Types
  <2>1. 0 \in 0 .. WIDTH - 1
    BY Widths
  <2>2. buf \in [0 .. INPUT_BUF - 1 -> Char] /\ left \in [Proc -> Nat]
        /\ pc \in [Proc -> {"user", "read", "write", "sleep", "asleep", "ready"}]
    BY DEF Init, Char
  <2>3. on \in [Proc -> CPU \cup {-1}] /\ todo \in Seq(Jobs)
    BY <1>2
  <2> QED BY <1>1, <1>2, <2>1, <2>2, <2>3 DEF Types
<1>4. OnRight
  <2>1. \A p \in Proc : on[p] # -1
    BY <1>2
  <2>2. \A p, q \in Proc : on[p] = on[q] => p = q
    BY <1>2 DEF IsInjective
  <2> QED BY <1>2, <2>1, <2>2 DEF OnRight
<1>5. CountRight
  BY <1>1, <1>2 DEF CountRight, Depth
<1>6. InterruptsRight
  BY <1>1, <1>2 DEF InterruptsRight, Plainly
<1>7. HoldersRight
  <2>1. m.lock["cons"] = None /\ m.lock["ptable"] = None /\ None # "intr"
    BY <1>1 DEF Locks, None
  <2> QED BY <1>2, <2>1 DEF HoldersRight, HasCons, HasPtable, Printing
<1>8. Places
  BY <1>2 DEF Places
<1>9. Ordered
  <2>1. 0 \in Index
    BY Widths DEF Index
  <2>2. Size(0, 0) = 0
    BY <2>1, SizeLemma
  <2> QED BY <1>2, <2>2, Widths DEF Ordered
<1>10. Waiting
  BY <1>2 DEF Waiting
<1> QED BY <1>1, <1>3, <1>4, <1>5, <1>6, <1>7, <1>8, <1>9, <1>10 DEF IInv, LockInv

\* Steps that leave the ring alone.
LEMMA RingSame ==
  ASSUME IInv, UNCHANGED input,
         hpc' = hpc \/ hpc # "wakeup",
         \A p \in Proc : pc'[p] \in {"sleep", "asleep"} => pc[p] \in {"sleep", pc'[p]}
  PROVE  Ordered' /\ Waiting'
<1>1. r' = r /\ w' = w /\ e' = e
  BY DEF input
<1>2. Ordered'
  BY <1>1 DEF IInv, Ordered, Size
<1>3. Waiting'
  BY <1>1 DEF IInv, Waiting
<1> QED BY <1>2, <1>3

\* Nobody is on the way to sleep when another has, or can get, cons.lock.
LEMMA NobodyGoes ==
  ASSUME IInv, m.lock["cons"] \in {None, "intr"}
  PROVE  \A p \in Proc : pc[p] # "sleep"
  BY ActorAssumption DEF IInv, LockInv, HoldersRight

LEMMA ProcTypes ==
  ASSUME IInv, NEW p \in Proc, NEW label \in Labels, NEW d \in CPU \cup {-1},
         pc' = [pc EXCEPT ![p] = label], on' = [on EXCEPT ![p] = d] \/ on' = on, m' \in Machine,
         UNCHANGED handler, left' \in [Proc -> Nat], UNCHANGED <<w, e>>,
         buf' \in [0 .. INPUT_BUF - 1 -> Char], r' \in Index
  PROVE  Types'
<1>1. pc' \in [Proc -> {"user", "read", "write", "sleep", "asleep", "ready"}]
  BY DEF IInv, Types, Labels
<1>2. on' \in [Proc -> CPU \cup {-1}]
  BY DEF IInv, Types
<1> QED BY <1>1, <1>2 DEF IInv, Types, handler, Index

LEMMA HandlerTypes ==
  ASSUME IInv, pc' \in [Proc -> Labels], UNCHANGED <<on, left>>, m' \in Machine,
         hpc' \in {"idle", "enter", "wakeup", "more", "print", "spin"}, todo' \in Seq(Jobs),
         buf' \in [0 .. INPUT_BUF - 1 -> Char], r' \in Index, w' \in Index, e' \in Index
  PROVE  Types'
  BY DEF IInv, Types, Labels, Index

LEMMA ConsolereadIInv ==
  ASSUME IInv, NEW p \in Proc, NEW n \in Sizes, consoleread(p, n)
  PROVE  IInv'
<1>1. /\ Step(p, "user") /\ m' = Spin(m, on[p], "cons") /\ Goto(p, "read") /\ UNCHANGED <<input, on, handler>>
      /\ left' = [left EXCEPT ![p] = n]
  BY DEF consoleread
<1>2. LockInv' /\ m' \in Machine
  BY <1>1, SpinStep DEF IInv
<1>3. Ordered' /\ Waiting'
  BY <1>1, RingSame DEF Goto, handler, IInv, Types
<1>4. left' \in [Proc -> Nat]
  BY <1>1, SizeAssumption DEF IInv, Types
<1>5. Types'
  BY <1>1, <1>2, <1>4, ProcTypes DEF Goto, Labels, input, IInv, Types, Index
<1> QED BY <1>2, <1>3, <1>5 DEF IInv

LEMMA ConsolewriteIInv ==
  ASSUME IInv, NEW p \in Proc, consolewrite(p)
  PROVE  IInv'
<1>1. /\ Step(p, "user") /\ m' = Spin(m, on[p], "cons") /\ Goto(p, "write") /\ UNCHANGED <<input, on, handler>>
      /\ left' = left
  BY DEF consolewrite
<1>2. LockInv' /\ m' \in Machine
  BY <1>1, SpinStep DEF IInv
<1>3. Ordered' /\ Waiting'
  BY <1>1, RingSame DEF Goto, handler, IInv, Types
<1>4. Types'
  BY <1>1, <1>2, ProcTypes DEF Goto, Labels, input, IInv, Types, Index
<1> QED BY <1>2, <1>3, <1>4 DEF IInv

LEMMA WriteLockedIInv ==
  ASSUME IInv, NEW p \in Proc, writeLocked(p)
  PROVE  IInv'
<1>1. /\ Step(p, "write") /\ Free("cons") /\ m' = release(Locked(m, p, "cons"), p, on[p], "cons")
      /\ Goto(p, "user") /\ UNCHANGED <<input, on, handler>> /\ left' = left
  BY DEF writeLocked
<1>2. LockInv' /\ m' \in Machine
  BY <1>1, UseStep DEF IInv
<1>3. Ordered' /\ Waiting'
  BY <1>1, RingSame DEF Goto, handler, IInv, Types
<1>4. Types'
  BY <1>1, <1>2, ProcTypes DEF Goto, Labels, input, IInv, Types, Index
<1> QED BY <1>2, <1>3, <1>4 DEF IInv

LEMMA ReadLockedIInv ==
  ASSUME IInv, NEW p \in Proc, readLocked(p)
  PROVE  IInv'
<1> DEFINE got == ReadLoop(r, left[p], target[p])
           end == got.done \/ killed[p]
<1>1. /\ Step(p, "read") /\ Free("cons") /\ r' = got.r /\ buf' = Forget(buf, r, got.r)
      /\ left' = [left EXCEPT ![p] = IF end THEN 0 ELSE got.n]
      /\ m' = IF end THEN release(Locked(m, p, "cons"), p, on[p], "cons")
              ELSE Spin(Locked(m, p, "cons"), on[p], "ptable")
      /\ Goto(p, IF end THEN "user" ELSE "sleep")
      /\ UNCHANGED <<w, e, on, handler>>
  BY DEF readLocked
<1>2. Types /\ LockInv /\ Ordered /\ Waiting /\ left[p] \in Nat
  BY DEF IInv, Types
<1>3. /\ got.n \in 0 .. left[p] /\ (~got.done => got.r = w)
      /\ \E k \in 0 .. Size(r, w) : got.r = (r + k) % WIDTH
  <2>1. Loop(got, left[p], target[p])
    BY <1>2, ReadTakes
  <2> QED BY <2>1 DEF Loop
<1> HIDE DEF got
<1>4. r' \in Index /\ Ordered' /\ (r = w => r' = r)
  BY <1>1, <1>2, <1>3, ReadOrdered
<1>5. ~end => r' = w
  BY <1>1, <1>3
<1>6. LockInv' /\ m' \in Machine
  <2>1. CASE end
    <3>1. m' = release(Locked(m, p, "cons"), p, on[p], "cons") /\ Goto(p, "user")
      BY <1>1, <2>1
    <3> QED BY <1>1, <1>2, <3>1, UseStep
  <2>2. CASE ~end
    <3>1. m' = Spin(Locked(m, p, "cons"), on[p], "ptable") /\ Goto(p, "sleep")
      BY <1>1, <2>2
    <3> QED BY <1>1, <1>2, <3>1, WaitStep
  <2> QED BY <2>1, <2>2
<1>7. PICK label \in {"user", "sleep"} : pc' = [pc EXCEPT ![p] = label] /\ (label = "sleep" => r' = w)
  BY <1>1, <1>5 DEF Goto
<1>8. \A q \in Proc : pc[q] # "sleep"
  BY <1>1, NobodyGoes DEF Free
<1>9. \A q \in Proc : (pc'[q] = "sleep" => r' = w) /\ (pc'[q] = "asleep" => pc[q] = "asleep")
  BY <1>2, <1>7, <1>8 DEF Types
<1>10. Waiting'
  <2>1. w' = w /\ hpc' = hpc
    BY <1>1 DEF handler
  <2> QED BY <1>2, <1>4, <1>9, <2>1 DEF Waiting
<1>11. left' \in [Proc -> Nat] /\ buf' \in [0 .. INPUT_BUF - 1 -> Char]
  BY <1>1, <1>2, <1>3, ForgetType DEF Types
<1>12. Types'
  BY <1>1, <1>4, <1>6, <1>7, <1>11, ProcTypes DEF Labels
<1> QED BY <1>4, <1>6, <1>10, <1>12 DEF IInv

LEMMA SleepIInv ==
  ASSUME IInv, NEW p \in Proc, sleep(p)
  PROVE  IInv'
<1>1. /\ Step(p, "sleep") /\ on' = [on EXCEPT ![p] = -1] /\ pc' = [pc EXCEPT ![p] = "asleep"]
      /\ UNCHANGED <<input, handler>> /\ left' = left /\ pc[p] = "sleep"
  BY DEF sleep, Goto, Step
<1>2. LockInv' /\ m' \in Machine
  BY SleepStep DEF IInv
<1>3. Ordered' /\ Waiting'
  BY <1>1, RingSame DEF handler, IInv, Types
<1>4. Types'
  BY <1>1, <1>2, ProcTypes DEF Labels, input, IInv, Types, Index
<1> QED BY <1>2, <1>3, <1>4 DEF IInv

LEMMA SchedulerIInv ==
  ASSUME IInv, NEW p \in Proc, NEW c \in CPU, scheduler(p, c)
  PROVE  IInv'
<1>1. /\ on' = [on EXCEPT ![p] = c] /\ pc' = [pc EXCEPT ![p] = "read"]
      /\ UNCHANGED <<input, handler>> /\ left' = left
  BY DEF scheduler, Goto
<1>2. LockInv' /\ m' \in Machine
  BY SchedulerStep DEF IInv
<1>3. Ordered' /\ Waiting'
  BY <1>1, RingSame DEF handler, IInv, Types
<1>4. Types'
  BY <1>1, <1>2, ProcTypes DEF Labels, input, IInv, Types, Index
<1> QED BY <1>2, <1>3, <1>4 DEF IInv

LEMMA KillIInv ==
  ASSUME IInv, NEW p \in Proc, NEW q \in Proc, kill(q, p)
  PROVE  IInv'
<1> DEFINE label == IF pc[p] = "asleep" THEN "ready" ELSE pc[p]
<1>1. pc' = [pc EXCEPT ![p] = label] /\ UNCHANGED <<input, m, on, left, handler>>
  BY DEF kill, Goto
<1>2. label \in Labels /\ label # "asleep" /\ (label = "sleep" => pc[p] = "sleep")
  BY DEF IInv, Types, Labels
<1> HIDE DEF label
<1>3. LockInv'
  BY KillStep DEF IInv
<1>4. Ordered' /\ Waiting'
  BY <1>1, <1>2, RingSame DEF handler, IInv, Types
<1>5. -1 \in CPU \cup {-1}
  OBVIOUS
<1>6. Types'
  BY <1>1, <1>2, <1>5, ProcTypes DEF input, IInv, Types, Index
<1> QED BY <1>3, <1>4, <1>6 DEF IInv

LEMMA InterruptIInv ==
  ASSUME IInv, Interrupt
  PROVE  IInv'
<1>1. UNCHANGED <<input, pc, on, left, todo>> /\ hpc = "idle" /\ hpc' = "enter"
  BY DEF Interrupt, procs
<1>2. LockInv' /\ m' \in Machine
  BY InterruptStep DEF IInv
<1>3. Ordered' /\ Waiting'
  BY <1>1, RingSame
<1>4. Types'
  BY <1>1, <1>2, HandlerTypes DEF input, IInv, Types, Index, Labels
<1> QED BY <1>2, <1>3, <1>4 DEF IInv

LEMMA KeyIInv ==
  ASSUME IInv, NEW c \in Keys, FirstKey(c) \/ NextKey(c)
  PROVE  IInv'
<1>1. PICK s : /\ consoleintr(c, s)
               /\ hpc \in {"enter", "more"} /\ (hpc = "enter" => Free("cons"))
  BY DEF FirstKey, NextKey
<1>2. Types /\ LockInv /\ Ordered /\ Waiting
  BY DEF IInv
<1>3. LockInv' /\ m' \in Machine
  BY <1>2, KeyStep
<1>4. /\ r' = r /\ w' \in Index /\ e' \in Index /\ Ordered'
      /\ w' # w => hpc' = "wakeup"
      /\ buf' \in [0 .. INPUT_BUF - 1 -> Char]
  BY <1>1, <1>2, KeyOrdered
<1>5. UNCHANGED <<pc, on, left>> /\ hpc' \in {"wakeup", "more"} /\ todo' \in Seq(Jobs)
  BY <1>1, ListingsType DEF consoleintr, procs
<1>6. m.lock["cons"] \in {None, "intr"}
  BY <1>1, <1>2, InLoop DEF Free
<1>7. Waiting'
  <2>1. \A p \in Proc : pc[p] # "sleep"
    BY <1>6, NobodyGoes
  <2> QED BY <1>1, <1>2, <1>4, <1>5, <2>1 DEF Waiting
<1>8. Types'
  BY <1>2, <1>3, <1>4, <1>5, HandlerTypes DEF Types, Index, Labels
<1> QED BY <1>3, <1>4, <1>7, <1>8 DEF IInv

LEMMA WakeupIInv ==
  ASSUME IInv, wakeup
  PROVE  IInv'
<1>1. /\ UNCHANGED <<input, on, left, todo>> /\ hpc' = "more"
      /\ pc' = [p \in Proc |-> IF pc[p] = "asleep" THEN "ready" ELSE pc[p]]
  BY DEF wakeup
<1>2. LockInv' /\ m' \in Machine
  BY WakeupStep DEF IInv
<1>3. \A p \in Proc : pc'[p] # "asleep" /\ (pc'[p] = "sleep" => pc[p] = "sleep")
  BY <1>1
<1>4. r' = r /\ w' = w /\ e' = e
  BY <1>1 DEF input
<1>5. Ordered' /\ Waiting'
  BY <1>3, <1>4 DEF IInv, Ordered, Waiting, Size
<1>6. pc' \in [Proc -> Labels]
  BY <1>1 DEF IInv, Types, Labels
<1>7. Types'
  BY <1>1, <1>2, <1>6, HandlerTypes DEF input, IInv, Types, Index
<1> QED BY <1>2, <1>5, <1>7 DEF IInv

LEMMA DrainedIInv ==
  ASSUME IInv, Drained
  PROVE  IInv'
<1>1. UNCHANGED <<input, pc, on, left, todo>> /\ hpc = "more" /\ hpc' = "print"
  BY DEF Drained, procs
<1>2. LockInv' /\ m' \in Machine
  BY DrainedStep DEF IInv
<1>3. Ordered' /\ Waiting'
  BY <1>1, RingSame
<1>4. Types'
  BY <1>1, <1>2, HandlerTypes DEF input, IInv, Types, Index, Labels
<1> QED BY <1>2, <1>3, <1>4 DEF IInv

LEMMA ListingIInv ==
  ASSUME IInv, Listing
  PROVE  IInv'
<1> DEFINE op == Ops(Head(todo))[at]
<1>1. /\ UNCHANGED <<input, pc, on, left>> /\ UNCHANGED procs /\ hpc = "print"
      /\ hpc' \in {"print", "idle", "spin"}
  BY DEF Listing, procs
<1>2. Types /\ LockInv
  BY DEF IInv
<1>3. \/ todo = <<>> /\ m' = [m EXCEPT !.ie[0] = TRUE] /\ hpc' = "idle" /\ todo' = todo
      \/ todo # <<>> /\ at > Len(Ops(Head(todo))) /\ todo' = Tail(todo) /\ at' = 1 /\ UNCHANGED <<m, hpc>>
      \/ /\ todo # <<>> /\ ~(at > Len(Ops(Head(todo)))) /\ op[1] = "+" /\ m' = Spin(m, 0, op[2])
         /\ hpc' = "spin" /\ UNCHANGED <<at, todo>>
      \/ /\ todo # <<>> /\ ~(at > Len(Ops(Head(todo)))) /\ op[1] # "+" /\ m' = release(m, "intr", 0, op[2])
         /\ at' = at + 1 /\ UNCHANGED <<hpc, todo>>
  BY DEF Listing
<1>4. todo # <<>> => at \in Nat /\ Len(Ops(Head(todo))) \in Nat
  <2>1. ASSUME todo # <<>> PROVE Head(todo) \in Jobs /\ PrintAt(Head(todo), at)
    BY <1>1, <1>2, <2>1, InListing
  <2> QED BY <2>1, OpsLemma DEF Jobs, PrintAt
<1>5. LockInv' /\ m' \in Machine /\ todo' \in Seq(Jobs)
  <2>1. CASE todo = <<>> /\ m' = [m EXCEPT !.ie[0] = TRUE] /\ hpc' = "idle" /\ todo' = todo
    BY <1>1, <1>2, <2>1, ReturnStep
  <2>2. CASE todo # <<>> /\ at > Len(Ops(Head(todo))) /\ todo' = Tail(todo) /\ at' = 1 /\ UNCHANGED <<m, hpc>>
    <3>1. todo' \in Seq(Jobs)
      BY <1>2, <2>2 DEF Types
    <3> QED BY <1>1, <1>2, <2>2, <3>1, NextListingStep
  <2>3. CASE /\ todo # <<>> /\ ~(at > Len(Ops(Head(todo)))) /\ op[1] = "+" /\ m' = Spin(m, 0, op[2])
             /\ hpc' = "spin" /\ UNCHANGED <<at, todo>>
    <3>1. at <= Len(Ops(Head(todo)))
      BY <1>4, <2>3
    <3>2. LockInv' /\ m' \in Machine
      BY <1>1, <1>2, <2>3, <3>1, PlusStep
    <3> QED BY <1>2, <2>3, <3>2 DEF Types
  <2>4. CASE /\ todo # <<>> /\ ~(at > Len(Ops(Head(todo)))) /\ op[1] # "+" /\ m' = release(m, "intr", 0, op[2])
             /\ at' = at + 1 /\ UNCHANGED <<hpc, todo>>
    <3>1. at <= Len(Ops(Head(todo)))
      BY <1>4, <2>4
    <3>2. LockInv' /\ m' \in Machine
      BY <1>1, <1>2, <2>4, <3>1, MinusStep
    <3> QED BY <1>2, <2>4, <3>2 DEF Types
  <2> QED BY <1>3, <2>1, <2>2, <2>3, <2>4
<1>6. Ordered' /\ Waiting'
  BY <1>1, RingSame
<1>7. Types'
  BY <1>1, <1>5, HandlerTypes DEF input, IInv, Types, Index, Labels
<1> QED BY <1>5, <1>6, <1>7 DEF IInv

LEMMA ListingLockedIInv ==
  ASSUME IInv, ListingLocked
  PROVE  IInv'
<1>1. UNCHANGED <<input, pc, on, left, todo>> /\ hpc = "spin" /\ hpc' = "print"
  BY DEF ListingLocked, procs
<1>2. LockInv' /\ m' \in Machine
  BY ListingLockedStep DEF IInv
<1>3. Ordered' /\ Waiting'
  BY <1>1, RingSame
<1>4. Types'
  BY <1>1, <1>2, HandlerTypes DEF input, IInv, Types, Index, Labels
<1> QED BY <1>2, <1>3, <1>4 DEF IInv

LEMMA NextIInv ==
  ASSUME IInv, [Next]_vars
  PROVE  IInv'
<1>1. CASE UNCHANGED vars
  <2>1. Types' /\ Ordered' /\ Waiting'
    BY <1>1 DEF vars, IInv, Types, Ordered, Waiting, Size
  <2>2. (HasCons' <=> HasCons) /\ (HasPtable' <=> HasPtable) /\ HandlerDepth' = HandlerDepth
    BY <1>1 DEF vars, HandlerDepth, HasCons, HasPtable, Printing
  <2>3. OnRight' /\ Places'
    BY <1>1 DEF vars, IInv, LockInv, OnRight, Places
  <2>4. CountRight'
    BY <1>1, <2>2 DEF vars, IInv, LockInv, CountRight, Plainly
  <2>5. InterruptsRight'
    BY <1>1 DEF vars, IInv, LockInv, InterruptsRight, Plainly
  <2>6. HoldersRight'
    BY <1>1, <2>2 DEF vars, IInv, LockInv, HoldersRight
  <2>7. ~m'.panic
    BY <1>1 DEF vars, IInv, LockInv
  <2> QED BY <2>1, <2>3, <2>4, <2>5, <2>6, <2>7 DEF IInv, LockInv
<1>2. ASSUME NEW p \in Proc, NEW n \in Sizes, consoleread(p, n) PROVE IInv'
  BY <1>2, ConsolereadIInv
<1>3. ASSUME NEW p \in Proc, readLocked(p) PROVE IInv'
  BY <1>3, ReadLockedIInv
<1>4. ASSUME NEW p \in Proc, sleep(p) PROVE IInv'
  BY <1>4, SleepIInv
<1>5. ASSUME NEW p \in Proc, consolewrite(p) PROVE IInv'
  BY <1>5, ConsolewriteIInv
<1>6. ASSUME NEW p \in Proc, writeLocked(p) PROVE IInv'
  BY <1>6, WriteLockedIInv
<1>7. ASSUME NEW p \in Proc, NEW c \in CPU, scheduler(p, c) PROVE IInv'
  BY <1>7, SchedulerIInv
<1>8. ASSUME NEW p \in Proc, NEW q \in Proc, kill(q, p) PROVE IInv'
  BY <1>8, KillIInv
<1>9. ASSUME NEW c \in Keys, FirstKey(c) \/ NextKey(c) PROVE IInv'
  BY <1>9, KeyIInv
<1>10. CASE Interrupt
  BY <1>10, InterruptIInv
<1>11. CASE wakeup
  BY <1>11, WakeupIInv
<1>12. CASE Drained
  BY <1>12, DrainedIInv
<1>13. CASE Listing
  BY <1>13, ListingIInv
<1>14. CASE ListingLocked
  BY <1>14, ListingLockedIInv
<1> QED
  BY <1>1, <1>2, <1>3, <1>4, <1>5, <1>6, <1>7, <1>8, <1>9, <1>10, <1>11, <1>12, <1>13, <1>14 DEF Next

\* The console keeps IInv: acquire(), release(), sleep(), the schedulers and
\* the handler of console interrupts leave the locks, ncli, intena and FL_IF
\* of every CPU as their places say, and the indices of the ring in order.
THEOREM ConsoleInvariant == Spec => []IInv
<1>1. Init => IInv
  BY InitIInv
<1>2. IInv /\ [Next]_vars => IInv'
  BY NextIInv
<1> QED BY <1>1, <1>2, PTL DEF Spec

-----------------------------------------------------------------------------
(* What follows from the invariant *)

LEMMA CliRange ==
  ASSUME IInv, NEW c \in CPU
  PROVE  m.ncli[c] \in 0 .. 2
<1>1. CASE ~Plainly(c)
  <2>1. m.ncli[c] = HandlerDepth
    BY <1>1 DEF IInv, LockInv, CountRight, Plainly
  <2>2. HandlerDepth \in 0 .. 2
    <3>1. HasCons /\ HasPtable => hpc = "print"
      BY DEF IInv, LockInv, Places, SpinAt, HasCons, HasPtable, Printing, ConsAt, PtableAt
    <3>2. HasPtable => hpc \in {"print", "spin"}
      BY DEF HasPtable, Printing
    <3> QED BY <3>1, <3>2 DEF HandlerDepth, One
  <2> QED BY <2>1, <2>2
<1>2. CASE Plainly(c) /\ \A p \in Proc : on[p] # c
  BY <1>2 DEF IInv, LockInv, CountRight
<1>3. ASSUME Plainly(c), NEW p \in Proc, on[p] = c PROVE m.ncli[c] \in 0 .. 2
  <2>1. c # -1
    BY ActorAssumption
  <2>2. m.ncli[c] = Depth(pc[p])
    BY <1>3, <2>1 DEF IInv, LockInv, CountRight
  <2> QED BY <2>2 DEF Depth
<1> QED BY <1>1, <1>2, <1>3

LEMMA InvTypes ==
  ASSUME IInv
  PROVE  TypeOK
<1>1. m \in Machine
  BY DEF IInv, Types
<1>2. DOMAIN m = {"lock", "ncli", "intena", "ie", "panic"} /\ m.lock \in [Locks -> Proc \cup {None, "intr"}]
  BY <1>1 DEF Machine
<1>3. \A c \in CPU : m.ncli[c] \in 0 .. 2
  BY CliRange
<1> QED BY <1>2, <1>3 DEF IInv, Types, TypeOK

\* The spinlocks of the console are used right, whatever the number of CPUs
\* and processes: acquire(), release(), popcli() and sched() never panic, no
\* interrupt comes in on a CPU that holds or waits for a lock, and the handler
\* and a reader wait for each other only if the handler prints a list with
\* ptable.lock held.
THEOREM LocksRight == Spec => []LocksSafe
<1>1. IInv => LocksSafe
  <2> SUFFICES ASSUME IInv PROVE LocksSafe
    OBVIOUS
  <2>1. TypeOK
    BY InvTypes
  <2>2. LocksNest
    BY CliRange DEF LocksNest, IInv, LockInv, InterruptsRight
  <2>3. CycleOnlyWhenListing
    <3> SUFFICES ASSUME m.lock["ptable"] = "intr", hpc = "spin" PROVE Head(todo) = "printReadyList"
      BY DEF CycleOnlyWhenListing
    <3>1. HasPtable /\ SpinAt(Head(todo), at)
      BY DEF IInv, LockInv, HoldersRight, Places
    <3> QED BY <3>1 DEF HasPtable, PtableAt, SpinAt
  <2> QED BY <2>1, <2>2, <2>3 DEF LocksSafe
<1> QED BY <1>1, ConsoleInvariant, PTL

\* Readers of the console get what is typed: no wakeup of consoleintr() is
\* lost, and a full buffer always has something to read.
THEOREM InputServed == Spec => []ReadersServed
<1>1. IInv => ReadersServed
  <2> SUFFICES ASSUME IInv PROVE ReadersServed
    OBVIOUS
  <2>1. r \in Index /\ w \in Index /\ e \in Index
    BY DEF IInv, Types, Index
  <2>2. Size(r, w) \in Nat /\ Size(w, e) \in Nat /\ INPUT_BUF \in Nat /\ INPUT_BUF < WIDTH
    BY <2>1, SizeLemma, Widths
  <2>3. Size(r, e) = Size(r, w) + Size(w, e)
    BY <2>1, <2>2, SizeAdds, Widths DEF IInv, Ordered
  <2>4. r = w => Size(r, w) = 0
    BY <2>1, SizeLemma
  <2>5. Size(r, e) = INPUT_BUF => r # w
    BY <2>2, <2>3, <2>4 DEF IInv, Ordered
  <2> QED BY <2>5 DEF ReadersServed, IInv, Waiting
<1> QED BY <1>1, ConsoleInvariant, PTL

-----------------------------------------------------------------------------
(* The places of the ring *)

LEMMA ModDiv ==
  ASSUME NEW d \in Nat \ {0}, NEW a \in Int
  PROVE  /\ a \div d \in Int /\ a = (a \div d) * d + (a % d)
         /\ a % d \in 0 .. d - 1
  OBVIOUS

\* The place in the buffer of the character with index (a + k) % WIDTH.
LEMMA AtIs ==
  ASSUME NEW a \in Index, NEW k \in Int
  PROVE  /\ At((a + k) % WIDTH) = (a + k) % INPUT_BUF
         /\ (a + k) % INPUT_BUF \in 0 .. INPUT_BUF - 1
<1> DEFINE b == a + k
           q == b \div WIDTH
           x == b % WIDTH
           n == WIDTH \div INPUT_BUF
           f == x \div INPUT_BUF
           y == x % INPUT_BUF
<1>1. b \in Int /\ WIDTH \in Nat \ {0} /\ INPUT_BUF \in Nat \ {0} /\ WIDTH % INPUT_BUF = 0
  BY Widths, IndexAssumption DEF Index
<1> HIDE DEF b
<1>2. q \in Int /\ b = q * WIDTH + x /\ x \in 0 .. WIDTH - 1
  BY <1>1, ModDiv
<1>3. n \in Int /\ WIDTH = n * INPUT_BUF
  BY <1>1, ModDiv
<1>4. x \in Int
  BY <1>1, <1>2
<1>5. f \in Int /\ x = f * INPUT_BUF + y /\ y \in 0 .. INPUT_BUF - 1
  BY <1>1, <1>4, ModDiv
<1> HIDE DEF q, x, n, f, y
<1>6. q * WIDTH = (q * n) * INPUT_BUF /\ q * n \in Int
  BY <1>1, <1>2, <1>3
<1> DEFINE g == q * n
<1>7. g \in Int /\ b = g * INPUT_BUF + f * INPUT_BUF + y
  BY <1>1, <1>2, <1>5, <1>6
<1> HIDE DEF g
<1>8. b = (g + f) * INPUT_BUF + y /\ g + f \in Int
  BY <1>1, <1>5, <1>7
<1>9. b % INPUT_BUF = y
  BY <1>1, <1>5, <1>8, ModUnique
<1> QED BY <1>5, <1>9 DEF At, b, x, y

\* Characters less than INPUT_BUF apart have different places.
LEMMA Apart ==
  ASSUME NEW a \in Index, NEW i \in 0 .. INPUT_BUF - 1, NEW j \in 0 .. INPUT_BUF - 1, i # j
  PROVE  At((a + i) % WIDTH) # At((a + j) % WIDTH)
<1>1. a \in Int /\ i \in Int /\ j \in Int /\ a + i \in Int /\ a + j \in Int /\ INPUT_BUF \in Nat \ {0}
  BY Widths DEF Index
<1>2. At((a + i) % WIDTH) = (a + i) % INPUT_BUF /\ At((a + j) % WIDTH) = (a + j) % INPUT_BUF
  BY <1>1, AtIs
<1> DEFINE x == a + i
           y == a + j
           p == x \div INPUT_BUF
           q == y \div INPUT_BUF
<1>3. x - y < INPUT_BUF /\ y - x < INPUT_BUF /\ x # y /\ x \in Int /\ y \in Int
  BY <1>1
<1> HIDE DEF x, y
<1>4. /\ p \in Int /\ x = p * INPUT_BUF + (x % INPUT_BUF) /\ x % INPUT_BUF \in Int
      /\ q \in Int /\ y = q * INPUT_BUF + (y % INPUT_BUF) /\ y % INPUT_BUF \in Int
  BY <1>1, <1>3, ModDiv
<1> HIDE DEF p, q
<1>5. SUFFICES ASSUME x % INPUT_BUF = y % INPUT_BUF PROVE FALSE
  BY <1>2 DEF x, y
<1>6. x - y = p * INPUT_BUF - q * INPUT_BUF
  BY <1>1, <1>3, <1>4, <1>5
<1>7. CASE p = q
  BY <1>1, <1>3, <1>4, <1>6, <1>7
<1>8. CASE p >= q + 1
  <2>1. p * INPUT_BUF >= (q + 1) * INPUT_BUF
    BY <1>1, <1>4, <1>8
  <2>2. (q + 1) * INPUT_BUF = q * INPUT_BUF + INPUT_BUF
    BY <1>1, <1>4
  <2> QED BY <1>1, <1>3, <1>4, <1>6, <2>1, <2>2
<1>9. CASE q >= p + 1
  <2>1. q * INPUT_BUF >= (p + 1) * INPUT_BUF
    BY <1>1, <1>4, <1>9
  <2>2. (p + 1) * INPUT_BUF = p * INPUT_BUF + INPUT_BUF
    BY <1>1, <1>4
  <2> QED BY <1>1, <1>3, <1>4, <1>6, <2>1, <2>2
<1> QED BY <1>4, <1>7, <1>8, <1>9

\* The character k after b, counted from a.
LEMMA Offset ==
  ASSUME NEW a \in Index, NEW b \in Index, NEW k \in Int
  PROVE  At((b + k) % WIDTH) = At((a + (Size(a, b) + k)) % WIDTH)
<1>1. a \in Int /\ b \in Int /\ Size(a, b) \in Int /\ WIDTH \in Nat \ {0} /\ INPUT_BUF \in Nat \ {0}
  BY SizeLemma, Widths DEF Index
<1>2. Size(a, b) + k \in Int
  BY <1>1
<1>3. /\ At((b + k) % WIDTH) = (b + k) % INPUT_BUF
      /\ At((a + (Size(a, b) + k)) % WIDTH) = (a + (Size(a, b) + k)) % INPUT_BUF
  BY <1>1, <1>2, AtIs
<1> DEFINE x == b + k
           y == a + (Size(a, b) + k)
           n == WIDTH \div INPUT_BUF
           f == x \div INPUT_BUF
           z == x % INPUT_BUF
<1>4. n \in Int /\ WIDTH = n * INPUT_BUF
  BY <1>1, IndexAssumption, ModDiv
<1>5. x \in Int /\ y \in Int /\ (y = x \/ y = x + WIDTH)
  BY <1>1, SizeIs
<1>6. f \in Int /\ x = f * INPUT_BUF + z /\ z \in 0 .. INPUT_BUF - 1
  BY <1>1, <1>5, ModDiv
<1> HIDE DEF x, y, n, f, z
<1>7. CASE y = x
  BY <1>3, <1>7 DEF x, y
<1>8. CASE y = x + WIDTH
  <2>1. y = (f + n) * INPUT_BUF + z /\ f + n \in Int
    <3>1. (f + n) * INPUT_BUF = f * INPUT_BUF + n * INPUT_BUF
      BY <1>1, <1>4, <1>6
    <3> QED BY <1>1, <1>4, <1>5, <1>6, <1>8, <3>1
  <2>2. y % INPUT_BUF = z
    BY <1>1, <1>5, <1>6, <2>1, ModUnique
  <2> QED BY <1>3, <2>2 DEF x, y, z
<1> QED BY <1>5, <1>7, <1>8

-----------------------------------------------------------------------------
(* The text in the ring *)

Buffer == [0 .. INPUT_BUF - 1 -> Char]

\* Text(x, y) in buffer b.
Chars(b, x, y) == [k \in 1 .. Size(x, y) |-> b[At((x + k - 1) % WIDTH)]]

LEMMA CharsType ==
  ASSUME NEW b \in Buffer, NEW x \in Index, NEW y \in Index
  PROVE  /\ Chars(b, x, y) \in Seq(Char) /\ Len(Chars(b, x, y)) = Size(x, y)
         /\ \A k \in 1 .. Size(x, y) : Chars(b, x, y)[k] = b[At((x + (k - 1)) % WIDTH)]
<1>1. Size(x, y) \in Nat /\ x \in Int
  BY SizeLemma DEF Index
<1>2. \A k \in 1 .. Size(x, y) : x + k - 1 = x + (k - 1) /\ k - 1 \in Int
  BY <1>1
<1>3. ASSUME NEW k \in 1 .. Size(x, y)
      PROVE  b[At((x + k - 1) % WIDTH)] \in Char /\ Chars(b, x, y)[k] = b[At((x + (k - 1)) % WIDTH)]
  <2>1. At((x + (k - 1)) % WIDTH) \in 0 .. INPUT_BUF - 1
    BY <1>2, AtIs
  <2> QED BY <1>2, <2>1 DEF Buffer, Chars
<1> QED BY <1>1, <1>3 DEF Chars

\* Sequences are equal if they have the same length and the same elements.
LEMMA SeqEqual ==
  ASSUME NEW S, NEW s \in Seq(S), NEW t \in Seq(S), Len(s) = Len(t),
         \A i \in 1 .. Len(s) : s[i] = t[i]
  PROVE  s = t
  OBVIOUS

LEMMA SeqFacts ==
  ASSUME NEW S, NEW s \in Seq(S), NEW t \in Seq(S)
  PROVE  /\ Len(s) \in Nat /\ Len(s \o t) = Len(s) + Len(t)
         /\ \A i \in 1 .. Len(t) : t[i] \in S
  OBVIOUS

LEMMA AppendIs ==
  ASSUME NEW S, NEW s \in Seq(S), NEW t \in Seq(S), Len(t) = 1
  PROVE  s \o t = Append(s, t[1])
<1>1. t[1] \in S /\ Len(s) \in Nat /\ Len(s \o t) = Len(s) + 1
  <2>1. /\ Len(s) \in Nat /\ Len(s \o t) = Len(s) + Len(t)
        /\ \A i \in 1 .. Len(t) : t[i] \in S
    BY SeqFacts, Zenon
  <2>2. 1 \in 1 .. Len(t)
    OBVIOUS
  <2> QED BY <2>1, <2>2, Zenon
<1>2. s \o t \in Seq(S) /\ Append(s, t[1]) \in Seq(S)
  BY <1>1
<1>3. Len(Append(s, t[1])) = Len(s) + 1
  OBVIOUS
<1>4. ASSUME NEW i \in 1 .. Len(s) + 1 PROVE (s \o t)[i] = Append(s, t[1])[i]
  BY <1>1
<1> QED BY <1>1, <1>2, <1>3, <1>4, SeqEqual

\* Buffers that agree on the places from x to y, counted from a.
LEMMA CharsSame ==
  ASSUME NEW b \in Buffer, NEW c \in Buffer, NEW a \in Index, NEW x \in Index, NEW y \in Index,
         \A o \in 0 .. Size(x, y) - 1 :
           c[At((a + (Size(a, x) + o)) % WIDTH)] = b[At((a + (Size(a, x) + o)) % WIDTH)]
  PROVE  Chars(c, x, y) = Chars(b, x, y)
<1>1. /\ Chars(b, x, y) \in Seq(Char) /\ Len(Chars(b, x, y)) = Size(x, y)
      /\ Chars(c, x, y) \in Seq(Char) /\ Len(Chars(c, x, y)) = Size(x, y)
  BY CharsType
<1>2. Size(x, y) \in Nat
  BY SizeLemma
<1>3. ASSUME NEW k \in 1 .. Size(x, y)
      PROVE  Chars(c, x, y)[k] = Chars(b, x, y)[k]
  <2> DEFINE o == k - 1
  <2>1. o \in 0 .. Size(x, y) - 1 /\ o \in Int
    BY <1>2
  <2>2. Chars(b, x, y)[k] = b[At((x + o) % WIDTH)] /\ Chars(c, x, y)[k] = c[At((x + o) % WIDTH)]
    BY CharsType
  <2> HIDE DEF o
  <2>3. At((x + o) % WIDTH) = At((a + (Size(a, x) + o)) % WIDTH)
    BY <2>1, Offset
  <2> QED BY <2>1, <2>2, <2>3
<1> QED BY <1>1, <1>3, SeqEqual

LEMMA ForgetKeeps ==
  ASSUME NEW b \in Buffer, NEW a \in Index, NEW x \in Index, NEW y \in Index, NEW o \in 0 .. INPUT_BUF - 1,
         Size(a, x) + Size(x, y) <= INPUT_BUF, o < Size(a, x) \/ o >= Size(a, x) + Size(x, y)
  PROVE  Forget(b, x, y)[At((a + o) % WIDTH)] = b[At((a + o) % WIDTH)]
<1>1. Size(a, x) \in Nat /\ Size(x, y) \in Nat /\ INPUT_BUF \in Nat /\ o \in Int
  BY SizeLemma, Widths
<1> DEFINE f == At((a + o) % WIDTH)
<1>2. f \in 0 .. INPUT_BUF - 1
  BY <1>1, AtIs
<1>3. ASSUME NEW k \in 0 .. Size(x, y) - 1, At((x + k) % WIDTH) = f PROVE FALSE
  <2> DEFINE j == Size(a, x) + k
  <2>1. k \in Int /\ j \in 0 .. INPUT_BUF - 1 /\ j # o
    BY <1>1
  <2>2. At((x + k) % WIDTH) = At((a + j) % WIDTH)
    BY <2>1, Offset
  <2> HIDE DEF j
  <2>3. At((a + j) % WIDTH) # At((a + o) % WIDTH)
    BY <2>1, Apart
  <2> QED BY <1>3, <2>2, <2>3
<1>4. DOMAIN b = 0 .. INPUT_BUF - 1
  BY DEF Buffer
<1> HIDE DEF f
<1>5. ~ \E k \in 0 .. Size(x, y) - 1 : At((x + k) % WIDTH) = f
  BY <1>3
<1>6. Forget(b, x, y)[f] = b[f]
  BY <1>2, <1>4, <1>5 DEF Forget
<1> QED BY <1>6 DEF f

LEMMA PutKeeps ==
  ASSUME NEW b \in Buffer, NEW a \in Index, NEW y \in Index, NEW c \in Char, NEW o \in 0 .. INPUT_BUF - 1,
         Size(a, y) < INPUT_BUF, o # Size(a, y)
  PROVE  [b EXCEPT ![At(y)] = c][At((a + o) % WIDTH)] = b[At((a + o) % WIDTH)]
<1>1. Size(a, y) \in 0 .. INPUT_BUF - 1 /\ INPUT_BUF \in Nat /\ o \in Int
  BY SizeLemma, Widths
<1>2. At(y) = At((a + Size(a, y)) % WIDTH)
  BY SizeLemma
<1>3. At((a + o) % WIDTH) # At(y)
  BY <1>1, <1>2, Apart
<1>4. At((a + o) % WIDTH) \in 0 .. INPUT_BUF - 1
  BY <1>1, AtIs
<1> QED BY <1>3, <1>4 DEF Buffer

\* Cutting characters off at the front, and putting two pieces together.
LEMMA CharsTail ==
  ASSUME NEW b \in Buffer, NEW x \in Index, NEW y \in Index, NEW k \in 0 .. Size(x, y)
  PROVE  Chars(b, (x + k) % WIDTH, y) = SubSeq(Chars(b, x, y), k + 1, Len(Chars(b, x, y)))
<1> DEFINE z == (x + k) % WIDTH
           s == Chars(b, x, y)
           t == Chars(b, z, y)
           n == Size(x, y)
<1>1. z \in Index /\ Size(z, y) = n - k /\ n \in 0 .. WIDTH - 1 /\ n \in Nat /\ k \in Nat /\ k <= n /\ WIDTH \in Nat
  BY SizeLess, SizeLemma, Widths
<1>2. Size(x, z) = k
  <2>1. k \in 0 .. WIDTH - 1
    BY <1>1
  <2> QED BY <2>1, SizeFrom
<1>3. s \in Seq(Char) /\ Len(s) = n /\ t \in Seq(Char) /\ Len(t) = n - k
  BY <1>1, CharsType
<1>4. ASSUME NEW i \in 1 .. n - k PROVE t[i] = s[k + i]
  <2> DEFINE o == i - 1
  <2>1. o \in Int /\ k + i \in 1 .. n /\ (k + i) - 1 = k + o
    BY <1>1
  <2>2. t[i] = b[At((z + o) % WIDTH)]
    BY <1>1, CharsType
  <2>3. s[k + i] = b[At((x + ((k + i) - 1)) % WIDTH)]
    <3> DEFINE j == k + i
    <3>1. j \in 1 .. Size(x, y)
      BY <2>1
    <3> HIDE DEF j
    <3>2. s[j] = b[At((x + (j - 1)) % WIDTH)]
      BY <3>1, CharsType
    <3> QED BY <3>2 DEF j
  <2> HIDE DEF o, z, s, t, n
  <2>4. At((z + o) % WIDTH) = At((x + (k + o)) % WIDTH)
    BY <1>1, <1>2, <2>1, Offset
  <2> QED BY <2>1, <2>2, <2>3, <2>4
<1> HIDE DEF s, t, n, z
<1>5. SubSeq(s, k + 1, n) \in Seq(Char) /\ Len(SubSeq(s, k + 1, n)) = n - k
  BY <1>1, <1>3
<1>6. \A i \in 1 .. n - k : SubSeq(s, k + 1, n)[i] = s[k + i]
  BY <1>1, <1>3
<1>7. t = SubSeq(s, k + 1, n)
  BY <1>3, <1>4, <1>5, <1>6, SeqEqual
<1> QED BY <1>3, <1>7 DEF s, t, z, n

LEMMA CharsJoin ==
  ASSUME NEW b \in Buffer, NEW x \in Index, NEW y \in Index, NEW z \in Index, Size(x, y) + Size(y, z) < WIDTH
  PROVE  Chars(b, x, z) = Chars(b, x, y) \o Chars(b, y, z)
<1> DEFINE s == Chars(b, x, y)
           t == Chars(b, y, z)
           u == Chars(b, x, z)
           n == Size(x, y)
           d == Size(y, z)
<1>1. Size(x, z) = n + d /\ n \in Nat /\ d \in Nat
  BY SizeAdds, SizeLemma
<1>2. /\ s \in Seq(Char) /\ Len(s) = n /\ t \in Seq(Char) /\ Len(t) = d
      /\ u \in Seq(Char) /\ Len(u) = n + d
  BY <1>1, CharsType
<1>3. ASSUME NEW i \in 1 .. n + d PROVE u[i] = (s \o t)[i]
  <2>1. u[i] = b[At((x + (i - 1)) % WIDTH)]
    BY <1>1, CharsType
  <2>2. CASE i <= n
    <3>0. i \in 1 .. n
      BY <1>1, <2>2
    <3>1. s[i] = b[At((x + (i - 1)) % WIDTH)] /\ i \in 1 .. n
      BY <3>0, CharsType
    <3> HIDE DEF s, t, u, n, d
    <3>2. (s \o t)[i] = s[i]
      BY <1>1, <1>2, <3>1
    <3> QED BY <2>1, <3>1, <3>2
  <2>3. CASE i > n
    <3> DEFINE j == i - n
    <3>1. j \in 1 .. Size(y, z) /\ j - 1 \in Int /\ n + (j - 1) = i - 1
      BY <1>1, <2>3
    <3> HIDE DEF j
    <3>2. t[j] = b[At((y + (j - 1)) % WIDTH)]
      BY <3>1, CharsType
    <3>3. At((y + (j - 1)) % WIDTH) = At((x + (n + (j - 1))) % WIDTH)
      BY <3>1, Offset
    <3> HIDE DEF s, t, u, n, d
    <3>4. (s \o t)[i] = t[j]
      BY <1>1, <1>2, <2>3 DEF j
    <3> QED BY <2>1, <3>1, <3>2, <3>3, <3>4
  <2>4. i <= n \/ i > n
    BY <1>1
  <2> QED BY <2>2, <2>3, <2>4
<1> HIDE DEF s, t, u, n, d
<1>4. s \o t \in Seq(Char) /\ Len(s \o t) = n + d
  BY <1>2
<1>5. u = s \o t
  BY <1>2, <1>3, <1>4, SeqEqual
<1> QED BY <1>5 DEF s, t, u

LEMMA CharsUp ==
  ASSUME NEW b \in Buffer, NEW x \in Index, NEW y \in Index, Size(x, y) < WIDTH - 1
  PROVE  Chars(b, x, Up(y)) = Append(Chars(b, x, y), b[At(y)])
<1>1. Size(x, y) \in Nat /\ WIDTH \in Nat /\ Size(y, y) = 0 /\ 0 < WIDTH - 1 /\ y \in Nat /\ y < WIDTH
  BY SizeLemma, SizeIs, Widths DEF Index
<1>2. Up(y) \in Index /\ Size(y, Up(y)) = 1
  BY <1>1, SizeUp
<1> DEFINE u == Up(y)
           t == Chars(b, x, y)
           v == Chars(b, y, u)
<1>3. u \in Index /\ Size(y, u) = 1 /\ Size(x, y) + Size(y, u) < WIDTH
  BY <1>1, <1>2
<1> HIDE DEF u
<1>4. Chars(b, x, u) = t \o v
  BY <1>3, CharsJoin
<1>5. v \in Seq(Char) /\ Len(v) = 1 /\ v[1] = b[At(y)]
  <2>0. v \in Seq(Char) /\ Len(v) = Size(y, u)
    BY <1>3, CharsType
  <2>1. v \in Seq(Char) /\ Len(v) = 1 /\ 1 \in 1 .. Size(y, u)
    BY <1>3, <2>0
  <2>2. v[1] = b[At((y + (1 - 1)) % WIDTH)]
    BY <1>3, <2>1, CharsType
  <2>3. (y + (1 - 1)) % WIDTH = y
    BY <1>1
  <2> QED BY <2>1, <2>2, <2>3
<1>6. t \in Seq(Char)
  BY CharsType
<1> HIDE DEF t, v
<1>7. t \o v = Append(t, b[At(y)])
  BY <1>5, <1>6, AppendIs
<1> QED BY <1>4, <1>7 DEF t, u

LEMMA CharsDown ==
  ASSUME NEW b \in Buffer, NEW x \in Index, NEW y \in Index, NEW z \in Index, Size(x, y) = Size(x, z) - 1
  PROVE  Chars(b, x, y) = SubSeq(Chars(b, x, z), 1, Len(Chars(b, x, z)) - 1)
<1> DEFINE s == Chars(b, x, z)
           t == Chars(b, x, y)
           n == Size(x, z)
<1>1. n \in Nat /\ n - 1 \in Nat
  BY SizeLemma
<1>2. s \in Seq(Char) /\ Len(s) = n /\ t \in Seq(Char) /\ Len(t) = n - 1
  BY CharsType
<1>3. ASSUME NEW i \in 1 .. n - 1 PROVE t[i] = s[i]
  <2>1. i \in 1 .. Size(x, y) /\ i \in 1 .. Size(x, z)
    BY <1>1
  <2>2. s[i] = b[At((x + (i - 1)) % WIDTH)] /\ t[i] = b[At((x + (i - 1)) % WIDTH)]
    BY <2>1, CharsType
  <2> QED BY <2>2
<1> HIDE DEF s, t, n
<1>4. SubSeq(s, 1, n - 1) \in Seq(Char) /\ Len(SubSeq(s, 1, n - 1)) = n - 1
      /\ \A i \in 1 .. n - 1 : SubSeq(s, 1, n - 1)[i] = s[i]
  BY <1>1, <1>2
<1>5. t = SubSeq(s, 1, n - 1)
  BY <1>2, <1>3, <1>4, SeqEqual
<1> QED BY <1>2, <1>5 DEF s, t, n

LEMMA CharsNone ==
  ASSUME NEW b \in Buffer, NEW x \in Index
  PROVE  Chars(b, x, x) = <<>>
<1>1. Size(x, x) = 0
  BY SizeIs, Widths DEF Index
<1> QED BY <1>1, CharsType

-----------------------------------------------------------------------------
(* The refinement of Tty *)

\* The facts about the indices that every step uses.
LEMMA RingTypes ==
  ASSUME IInv
  PROVE  buf \in Buffer /\ r \in Index /\ w \in Index /\ e \in Index
  BY DEF IInv, Types, Buffer, Index

LEMMA Ring ==
  ASSUME IInv
  PROVE  /\ buf \in Buffer /\ r \in Index /\ w \in Index /\ e \in Index
         /\ Size(r, w) \in Nat /\ Size(w, e) \in Nat /\ Size(r, e) = Size(r, w) + Size(w, e)
         /\ Size(r, e) <= INPUT_BUF /\ Size(r, r) = 0 /\ Size(e, e) = 0
         /\ INPUT_BUF \in Nat /\ WIDTH \in Nat /\ INPUT_BUF < WIDTH
<1>1. buf \in Buffer /\ r \in Index /\ w \in Index /\ e \in Index
  BY RingTypes
<1>2. Size(r, w) \in Nat /\ Size(w, e) \in Nat /\ INPUT_BUF \in Nat /\ WIDTH \in Nat /\ INPUT_BUF < WIDTH
  BY <1>1, SizeLemma, Widths
<1>3. Size(r, r) = 0 /\ Size(e, e) = 0
  BY <1>1, SizeIs DEF Index
<1>4. Size(r, w) + Size(w, e) <= INPUT_BUF
  BY DEF IInv, Ordered
<1>5. Size(r, e) = Size(r, w) + Size(w, e)
  BY <1>1, <1>2, <1>4, SizeAdds
<1> QED BY <1>1, <1>2, <1>3, <1>4, <1>5

\* Text, now and in the next state.
LEMMA TextIs ==
  /\ \A x, y : Text(x, y) = Chars(buf, x, y)
  /\ Text(r, w)' = Chars(buf', r', w') /\ Text(w, e)' = Chars(buf', w', e')
  BY DEF Text, Chars, Size

\* A reader wants at most what it was called for.
Wanted == target \in [Proc -> Nat] /\ \A p \in Proc : left[p] <= target[p]

\* What a read takes, k characters, it takes off the front.  They are in one
\* line, and the last one is ^D just in case the read returns 0.
Takes(p, k) ==
  /\ r' = (r + k) % WIDTH /\ Size(r, r') = k /\ Size(r', w) = Size(r, w) - k
  /\ \A o \in k .. INPUT_BUF - 1 : buf'[At((r + o) % WIDTH)] = buf[At((r + o) % WIDTH)]
  /\ \A i \in 0 .. k - 2 : buf[At((r + i) % WIDTH)] \notin {"\n", "^D"}
  /\ Wanted /\ k # 0 => (buf[At((r + (k - 1)) % WIDTH)] = "^D" <=> eof'[p])

LEMMA ReadMoves ==
  ASSUME IInv, IInv', NEW p \in Proc, readLocked(p)
  PROVE  \E k \in 0 .. Size(r, w) : Takes(p, k)
<1> DEFINE got == ReadLoop(r, left[p], target[p])
           d == Size(r, w)
<1>1. w' = w /\ e' = e /\ r' = got.r /\ buf' = Forget(buf, r, got.r)
      /\ eof' = [q \in Proc |-> q = p /\ got.done /\ got.n = target[p]]
  BY DEF readLocked
<1>2. PICK k \in 0 .. d : /\ got.r = (r + k) % WIDTH
                          /\ \A i \in 0 .. k - 2 : buf[At((r + i) % WIDTH)] \notin {"\n", "^D"}
                          /\ target[p] \in Nat /\ left[p] <= target[p] /\ k # 0
                               => (buf[At((r + (k - 1)) % WIDTH)] = "^D" <=> got.done /\ got.n = target[p])
  <2>1. left[p] \in Nat /\ Types
    BY DEF IInv, Types
  <2>2. Loop(got, left[p], target[p])
    BY <2>1, ReadTakes
  <2> QED BY <2>2 DEF Loop
<1> HIDE DEF got
<1>3. buf' \in Buffer /\ r' \in Index
  BY DEF IInv, Types, Buffer, Index
<1>4. Size(r, r') = k /\ Size(r', w) = d - k /\ d \in Nat /\ k \in Nat /\ k <= d
  <2>0. d \in Nat /\ d <= INPUT_BUF /\ INPUT_BUF \in Nat /\ WIDTH \in Nat /\ INPUT_BUF < WIDTH
    BY Ring
  <2>1. k \in 0 .. WIDTH - 1 /\ d \in Nat
    <3> HIDE DEF d
    <3> QED BY <2>0
  <2>2. Size(r, (r + k) % WIDTH) = k
    BY <2>1, RingTypes, SizeFrom
  <2>3. Size((r + k) % WIDTH, w) = d - k
    BY RingTypes, SizeLess
  <2>4. Size(r, r') = k /\ Size(r', w) = d - k
    BY <1>1, <1>2, <2>2, <2>3, Zenon
  <2>5. k \in Nat /\ k <= d
    <3> HIDE DEF d
    <3> QED BY <2>0
  <2> QED BY <2>0, <2>4, <2>5, Zenon
<1>5. ASSUME NEW o \in k .. INPUT_BUF - 1
      PROVE  buf'[At((r + o) % WIDTH)] = buf[At((r + o) % WIDTH)]
  <2>1. /\ Size(r, r) + Size(r, r') <= INPUT_BUF /\ o >= Size(r, r) + Size(r, r')
        /\ o \in 0 .. INPUT_BUF - 1
    <3>1. Size(r, r) = 0 /\ d <= INPUT_BUF /\ INPUT_BUF \in Nat
      BY Ring
    <3> HIDE DEF d
    <3> QED BY <1>4, <1>5, <3>1
  <2>2. Forget(buf, r, r')[At((r + o) % WIDTH)] = buf[At((r + o) % WIDTH)]
    BY <1>3, <2>1, RingTypes, ForgetKeeps, SMTT(30)
  <2> QED BY <1>1, <2>2, Zenon
<1>6. Wanted /\ k # 0 => (buf[At((r + (k - 1)) % WIDTH)] = "^D" <=> eof'[p])
  <2>1. Wanted => target[p] \in Nat /\ left[p] <= target[p]
    BY DEF Wanted
  <2>2. eof'[p] = (got.done /\ got.n = target[p])
    BY <1>1
  <2> QED BY <1>2, <2>1, <2>2, Zenon
<1> QED BY <1>1, <1>2, <1>4, <1>5, <1>6 DEF Takes

LEMMA ReadRefines ==
  ASSUME IInv, IInv', NEW p \in Proc, readLocked(p)
  PROVE  T!Read \/ UNCHANGED T!vars
<1> DEFINE d == Size(r, w)
           f == Chars(buf, r, w)
<1>1. w' = w /\ e' = e
  BY DEF readLocked
<1>2. PICK k \in 0 .. d : Takes(p, k)
  BY ReadMoves
<1>3. buf' \in Buffer /\ r' \in Index
  BY DEF IInv, Types, Buffer, Index
<1>4. r' = (r + k) % WIDTH /\ Size(r, r') = k /\ Size(r', w) = d - k /\ d \in Nat /\ k \in Nat /\ k <= d
  <2>1. d \in Nat
    BY Ring
  <2>2. r' = (r + k) % WIDTH /\ Size(r, r') = k /\ Size(r', w) = d - k
    BY <1>2, Zenon DEF Takes
  <2>3. k \in Nat /\ k <= d
    <3> HIDE DEF d
    <3> QED BY <2>1
  <2> QED BY <2>1, <2>2, <2>3, Zenon
<1>5. ASSUME NEW o \in 0 .. INPUT_BUF - 1, o >= k
      PROVE  buf'[At((r + o) % WIDTH)] = buf[At((r + o) % WIDTH)]
  <2>1. o \in k .. INPUT_BUF - 1
    BY <1>4, <1>5
  <2> QED BY <1>2, <2>1, Zenon DEF Takes
<1>6. Chars(buf', r', w) = Chars(buf, r', w)
  <2>1. ASSUME NEW o \in 0 .. Size(r', w) - 1
        PROVE  buf'[At((r + (Size(r, r') + o)) % WIDTH)] = buf[At((r + (Size(r, r') + o)) % WIDTH)]
    <3>1. Size(r, r') + o \in 0 .. INPUT_BUF - 1 /\ Size(r, r') + o >= k
      <4>1. d <= INPUT_BUF /\ INPUT_BUF \in Nat
        BY Ring
      <4> HIDE DEF d
      <4> QED BY <1>4, <4>1
    <3> QED BY <1>5, <3>1, Zenon
  <2> QED BY <1>3, <2>1, RingTypes, CharsSame, SMTT(30)
<1>7. Chars(buf', w, e) = Chars(buf, w, e)
  <2>1. ASSUME NEW o \in 0 .. Size(w, e) - 1
        PROVE  buf'[At((r + (Size(r, w) + o)) % WIDTH)] = buf[At((r + (Size(r, w) + o)) % WIDTH)]
    <3>1. d + o \in 0 .. INPUT_BUF - 1 /\ d + o >= k
      <4>1. d + Size(w, e) <= INPUT_BUF /\ Size(w, e) \in Nat /\ INPUT_BUF \in Nat
        BY Ring
      <4> HIDE DEF d
      <4> QED BY <1>4, <4>1
    <3> QED BY <1>5, <3>1, Zenon
  <2> QED BY <1>3, <2>1, RingTypes, CharsSame, SMTT(30)
<1>8. Chars(buf, r', w) = SubSeq(f, k + 1, Len(f))
  BY <1>4, RingTypes, CharsTail
<1>9. f \in Seq(Char) /\ Len(f) = d /\ \A i \in 1 .. d : f[i] = buf[At((r + (i - 1)) % WIDTH)]
  BY RingTypes, CharsType
<1>10. Text(r, w) = f /\ Text(r, w)' = SubSeq(f, k + 1, Len(f)) /\ Text(w, e)' = Text(w, e)
  BY <1>1, <1>6, <1>7, <1>8, TextIs
<1> HIDE DEF f
<1>11. CASE k = 0
  <2>1. SubSeq(f, k + 1, Len(f)) = f
    <3>1. f \in Seq(Char) /\ k + 1 = 1
      BY <1>9, <1>11
    <3>2. SubSeq(f, 1, Len(f)) = f
      BY <3>1
    <3> QED BY <3>1, <3>2, Zenon
  <2> QED BY <1>10, <2>1 DEF T!vars
<1>12. CASE k # 0
  <2>1. k \in 1 .. Len(f)
    BY <1>4, <1>9, <1>12
  <2>2. ASSUME NEW i \in 1 .. k - 1 PROVE ~T!Ends(f[i])
    <3>1. i \in 1 .. d /\ i - 1 \in 0 .. k - 2
      BY <1>4
    <3>2. buf[At((r + (i - 1)) % WIDTH)] \notin {"\n", "^D"}
      BY <1>2, <3>1 DEF Takes
    <3> QED BY <1>9, <3>1, <3>2 DEF T!Ends
  <2> QED BY <1>10, <2>1, <2>2 DEF T!Read
<1> QED BY <1>11, <1>12

\* A buffer that agrees with buf on n characters from r on.
LEMMA Agree ==
  ASSUME IInv, NEW b \in Buffer, NEW x \in Index, NEW y \in Index, NEW n \in Nat,
         Size(r, x) + Size(x, y) <= n,
         \A o \in 0 .. n - 1 : b[At((r + o) % WIDTH)] = buf[At((r + o) % WIDTH)]
  PROVE  Chars(b, x, y) = Chars(buf, x, y)
<1>1. buf \in Buffer /\ r \in Index /\ Size(r, x) \in Nat /\ Size(x, y) \in Nat
  BY RingTypes, SizeLemma
<1>2. ASSUME NEW o \in 0 .. Size(x, y) - 1
      PROVE  b[At((r + (Size(r, x) + o)) % WIDTH)] = buf[At((r + (Size(r, x) + o)) % WIDTH)]
  <2>1. Size(r, x) + o \in 0 .. n - 1
    BY <1>1
  <2> QED BY <2>1
<1> QED BY <1>1, <1>2, CharsSame

\* The test of consoleintr() for a full buffer compares indices that wrap.
LEMMA FullIs ==
  ASSUME IInv, Size(r, e) < INPUT_BUF
  PROVE  Up(e) \in Index /\ (Up(e) = (r + INPUT_BUF) % WIDTH <=> Size(r, e) + 1 = INPUT_BUF)
<1> DEFINE z == (r + INPUT_BUF) % WIDTH
           u == Up(e)
<1>1. Size(r, e) < WIDTH - 1 /\ INPUT_BUF \in 0 .. WIDTH - 1 /\ r \in Index /\ e \in Index
  BY Ring
<1>2. u \in Index /\ Size(r, u) = Size(r, e) + 1
  BY <1>1, SizeUp
<1>3. Size(r, z) = INPUT_BUF
  BY <1>1, SizeFrom
<1> HIDE DEF u
<1>4. u = (r + Size(r, u)) % WIDTH
  BY <1>1, <1>2, SizeLemma
<1>5. u = z => Size(r, e) + 1 = INPUT_BUF
  BY <1>2, <1>3
<1>6. Size(r, e) + 1 = INPUT_BUF => u = z
  BY <1>2, <1>4
<1> QED BY <1>2, <1>5, <1>6 DEF u

LEMMA TypeRefines ==
  ASSUME IInv, IInv', NEW c \in Char, Size(r, e) < INPUT_BUF, r' = r,
         e' = Up(e), buf' = [buf EXCEPT ![At(e)] = c],
         w' = IF Finishes(c, Up(e)) THEN Up(e) ELSE w
  PROVE  T!Type(c)
<1> DEFINE f == Chars(buf, r, w)
           d == Chars(buf, w, e)
           u == Up(e)
<1>1. buf' \in Buffer /\ Size(r, e) \in Nat
  BY Ring DEF IInv, Types, Buffer
<1>2. ASSUME NEW o \in 0 .. Size(r, e) - 1
      PROVE  buf'[At((r + o) % WIDTH)] = buf[At((r + o) % WIDTH)]
  <2>1. o \in 0 .. INPUT_BUF - 1 /\ o # Size(r, e)
    <3>1. INPUT_BUF \in Nat
      BY Ring
    <3> QED BY <1>1, <3>1
  <2> QED BY <2>1, RingTypes, PutKeeps
<1>3. Chars(buf', r, w) = f /\ Chars(buf', w, e) = d
  <2>1. Size(r, r) + Size(r, w) <= Size(r, e) /\ Size(r, w) + Size(w, e) <= Size(r, e)
    BY Ring
  <2> QED BY <1>1, <1>2, <2>1, RingTypes, Agree
<1>4. buf'[At(e)] = c
  <2>1. e \in Int
    BY Ring DEF Index
  <2>2. At(e) \in 0 .. INPUT_BUF - 1
    BY <2>1, AtLemma
  <2> QED BY <2>2, Ring DEF Buffer
<1>5. Chars(buf', w, u) = Append(d, c)
  <2>1. Size(w, e) < WIDTH - 1
    BY Ring
  <2>2. Chars(buf', w, u) = Append(Chars(buf', w, e), buf'[At(e)])
    BY <1>1, <2>1, RingTypes, CharsUp
  <2> QED BY <1>3, <1>4, <2>2
<1>6. Chars(buf', r, u) = Append(f \o d, c)
  <2>1. Size(r, e) < WIDTH - 1 /\ Size(r, w) + Size(w, e) < WIDTH
    BY Ring
  <2>2. Chars(buf', r, u) = Append(Chars(buf', r, e), buf'[At(e)])
    BY <1>1, <2>1, RingTypes, CharsUp
  <2>3. Chars(buf', r, e) = Chars(buf', r, w) \o Chars(buf', w, e)
    BY <1>1, <2>1, RingTypes, CharsJoin
  <2> QED BY <1>3, <1>4, <2>2, <2>3
<1>7. f \in Seq(Char) /\ d \in Seq(Char) /\ Len(f) = Size(r, w) /\ Len(d) = Size(w, e)
  BY RingTypes, CharsType
<1>8. Chars(buf', u, u) = <<>>
  BY <1>1, FullIs, CharsNone
<1>9. /\ Text(r, w) = f /\ Text(w, e) = d
      /\ Text(r, w)' = Chars(buf', r, w') /\ Text(w, e)' = Chars(buf', w', u)
  BY TextIs
<1> DEFINE done == T!Ends(c) \/ Len(f) + Len(Append(d, c)) = INPUT_BUF
<1> HIDE DEF f, d
<1>10. Len(Append(d, c)) = Len(d) + 1 /\ Append(f \o d, c) = f \o Append(d, c)
  BY <1>7
<1>11. done <=> Finishes(c, u)
  <2>1. Len(f) + Len(Append(d, c)) = Size(r, e) + 1
    BY <1>7, <1>10, Ring
  <2>2. u = (r + INPUT_BUF) % WIDTH <=> Size(r, e) + 1 = INPUT_BUF
    BY FullIs
  <2> QED BY <2>1, <2>2, Zenon DEF Finishes, T!Ends
<1>12. Len(f) + Len(d) < INPUT_BUF
  BY <1>7, Ring
<1>13. Text(r, w)' = (IF done THEN f \o Append(d, c) ELSE f) /\ Text(w, e)' = (IF done THEN <<>> ELSE Append(d, c))
  <2>1. CASE done
    BY <1>6, <1>8, <1>9, <1>10, <1>11, <2>1
  <2>2. CASE ~done
    BY <1>3, <1>5, <1>9, <1>11, <2>2
  <2> QED BY <2>1, <2>2
<1> QED BY <1>9, <1>12, <1>13 DEF T!Type

LEMMA BackRefines ==
  ASSUME IInv, IInv', NEW x \in Index, Size(r, w) <= Size(r, x), Size(r, x) + Size(x, e) = Size(r, e),
         Size(r, w) + Size(w, x) = Size(r, x),
         r' = r, w' = w, e' = x, buf' = Forget(buf, x, e)
  PROVE  Text(r, w)' = Chars(buf, r, w) /\ Text(w, e)' = Chars(buf, w, x)
<1>1. buf' \in Buffer /\ Size(r, x) \in Nat
  BY RingTypes, SizeLemma DEF IInv, Types, Buffer
<1>2. ASSUME NEW o \in 0 .. Size(r, x) - 1
      PROVE  buf'[At((r + o) % WIDTH)] = buf[At((r + o) % WIDTH)]
  <2>1. Size(x, e) \in Nat
    BY RingTypes, SizeLemma
  <2>2. o \in 0 .. INPUT_BUF - 1 /\ o < Size(r, x) /\ Size(r, x) + Size(x, e) <= INPUT_BUF
    <3>1. Size(r, e) <= INPUT_BUF /\ INPUT_BUF \in Nat
      BY Ring
    <3> QED BY <1>1, <2>1, <3>1
  <2>3. Forget(buf, x, e)[At((r + o) % WIDTH)] = buf[At((r + o) % WIDTH)]
    BY <2>2, RingTypes, ForgetKeeps, SMTT(30)
  <2> QED BY <2>3, Zenon
<1>3. Size(r, r) + Size(r, w) <= Size(r, x) /\ Size(r, w) + Size(w, x) <= Size(r, x)
  BY <1>1, Ring
<1>4. Chars(buf', r, w) = Chars(buf, r, w)
  BY <1>1, <1>2, <1>3, RingTypes, Agree
<1>5. Chars(buf', w, x) = Chars(buf, w, x)
  BY <1>1, <1>2, <1>3, RingTypes, Agree
<1> QED BY <1>4, <1>5, TextIs

LEMMA KeyRefines ==
  ASSUME IInv, IInv', NEW c \in Keys, NEW s, consoleintr(c, s)
  PROVE  T!Next \/ UNCHANGED T!vars
<1>1. CASE c \in Char /\ Size(r, e) < INPUT_BUF
  <2>1. r' = r /\ e' = Up(e) /\ buf' = [buf EXCEPT ![At(e)] = c]
        /\ w' = IF Finishes(c, Up(e)) THEN Up(e) ELSE w
    BY <1>1 DEF consoleintr
  <2> QED BY <1>1, <2>1, TypeRefines DEF T!Next
<1> DEFINE back == CASE c = "^U" -> w [] c = "^H" /\ e # w -> (e - 1) % WIDTH [] OTHER -> e
<1>2. CASE ~(c \in Char /\ Size(r, e) < INPUT_BUF)
  <2>1. r' = r /\ e' = back /\ buf' = Forget(buf, back, e) /\ w' = w
    BY <1>2 DEF consoleintr
  <2>2. CASE c = "^U"
    <3>1. e' = w /\ buf' = Forget(buf, w, e)
      BY <2>1, <2>2
    <3>2. Size(r, w) <= Size(r, w) /\ Size(r, w) + Size(w, w) = Size(r, w) /\ Chars(buf, w, w) = <<>>
      <4>1. Size(w, w) = 0
        BY RingTypes, SizeIs DEF Index
      <4>2. Chars(buf, w, w) = <<>>
        BY RingTypes, CharsNone
      <4> QED BY <4>1, <4>2, Ring
    <3>3. Text(r, w)' = Chars(buf, r, w) /\ Text(w, e)' = <<>>
      <4>1. w \in Index /\ Size(r, w) + Size(w, e) = Size(r, e)
        BY Ring
      <4>2. Text(r, w)' = Chars(buf, r, w) /\ Text(w, e)' = Chars(buf, w, w)
        BY <2>1, <3>1, <3>2, <4>1, BackRefines
      <4> QED BY <3>2, <4>2
    <3> QED BY <3>3, TextIs DEF T!Next, T!Kill
  <2>3. CASE c = "^H" /\ e # w
    <3> DEFINE x == (e - 1) % WIDTH
    <3>1. e' = x /\ buf' = Forget(buf, x, e)
      BY <2>1, <2>3
    <3>2. x \in Index /\ Size(w, x) = Size(w, e) - 1
      BY <2>3, RingTypes, SizeDown
    <3> HIDE DEF x
    <3>3. Size(w, x) \in Nat /\ x = (w + Size(w, x)) % WIDTH
      BY <3>2, RingTypes, SizeLemma
    <3>4. Size(w, x) \in 0 .. Size(w, e)
      BY <3>2, <3>3, Ring
    <3>5. Size(x, e) = 1
      <4>1. Size(x, e) = Size(w, e) - Size(w, x)
        BY <3>3, <3>4, RingTypes, SizeLess
      <4> QED BY <3>2, <4>1, Ring
    <3>6. Size(r, x) = Size(r, w) + Size(w, x)
      <4>1. Size(r, w) + Size(w, x) < WIDTH
        BY <3>2, Ring
      <4> QED BY <3>2, <4>1, RingTypes, SizeAdds
    <3>7. Size(r, w) <= Size(r, x) /\ Size(r, x) + Size(x, e) = Size(r, e)
      BY <3>2, <3>3, <3>5, <3>6, Ring
    <3>8. Text(r, w)' = Chars(buf, r, w) /\ Text(w, e)' = Chars(buf, w, x)
      BY <2>1, <3>1, <3>2, <3>6, <3>7, BackRefines
    <3> DEFINE d == Chars(buf, w, e)
    <3>9. Chars(buf, w, x) = SubSeq(d, 1, Len(d) - 1)
      BY <3>2, RingTypes, CharsDown
    <3>10. d # <<>>
      <4>1. Len(d) = Size(w, e)
        BY RingTypes, CharsType
      <4>2. Size(w, e) # 0
        BY <3>2, <3>3, Ring
      <4> HIDE DEF d
      <4>3. Len(<<>>) = 0
        OBVIOUS
      <4> QED BY <4>1, <4>2, <4>3
    <3> QED BY <3>8, <3>9, <3>10, TextIs DEF T!Next, T!Erase
  <2>4. CASE c # "^U" /\ ~(c = "^H" /\ e # w)
    <3>1. e' = e /\ buf' = Forget(buf, e, e)
      BY <2>1, <2>4
    <3>2. Size(r, w) <= Size(r, e) /\ Size(r, e) + Size(e, e) = Size(r, e) /\ Size(r, w) + Size(w, e) = Size(r, e)
      BY Ring
    <3>3. Text(r, w)' = Chars(buf, r, w) /\ Text(w, e)' = Chars(buf, w, e)
      BY <2>1, <3>1, <3>2, RingTypes, BackRefines
    <3> QED BY <3>3, TextIs DEF T!vars
  <2> QED BY <2>2, <2>3, <2>4
<1> QED BY <1>1, <1>2

LEMMA RingRefines ==
  ASSUME IInv, IInv', [Next]_vars
  PROVE  [T!Next]_T!vars
<1>1. ASSUME UNCHANGED input PROVE UNCHANGED T!vars
  BY <1>1 DEF input, T!vars, Text, Size
<1>2. ASSUME NEW p \in Proc, readLocked(p) PROVE [T!Next]_T!vars
  BY <1>2, ReadRefines DEF T!Next
<1>3. ASSUME NEW c \in Keys, FirstKey(c) \/ NextKey(c) PROVE [T!Next]_T!vars
  <2>1. consoleintr(c, Locked(m, "intr", "cons")) \/ consoleintr(c, m)
    BY <1>3 DEF FirstKey, NextKey
  <2> QED BY <2>1, KeyRefines
<1>4. CASE UNCHANGED vars
  BY <1>1, <1>4 DEF vars, input
<1>5. ASSUME NEW p \in Proc, NEW n \in Sizes, consoleread(p, n) PROVE UNCHANGED input
  BY <1>5 DEF consoleread
<1>6. ASSUME NEW p \in Proc, sleep(p) \/ consolewrite(p) \/ writeLocked(p) PROVE UNCHANGED input
  BY <1>6 DEF sleep, consolewrite, writeLocked
<1>7. ASSUME NEW p \in Proc, NEW c \in CPU, scheduler(p, c) PROVE UNCHANGED input
  BY <1>7 DEF scheduler
<1>8. ASSUME NEW p \in Proc, NEW q \in Proc, kill(q, p) PROVE UNCHANGED input
  BY <1>8 DEF kill
<1>9. ASSUME Interrupt \/ wakeup \/ Drained \/ Listing \/ ListingLocked PROVE UNCHANGED input
  BY <1>9 DEF Interrupt, wakeup, Drained, Listing, ListingLocked
<1> QED BY <1>1, <1>2, <1>3, <1>4, <1>5, <1>6, <1>7, <1>8, <1>9 DEF Next

\* The ring buffer of console.c, whose indices wrap around, with consoleintr()
\* and consoleread() as they are, implements the line editor Tty for every
\* size of the buffer, width of the indices and number of readers: what is
\* typed is read once and in order, a read never goes on behind the end of a
\* line, and ^H and ^U take back nothing but the line that is being edited.
THEOREM ConsoleImplementsTty == Spec => ImplementsTty
<1>1. Init => T!Init
  <2>1. SUFFICES ASSUME Init PROVE Text(r, w) = <<>> /\ Text(w, e) = <<>>
    BY DEF T!Init
  <2>2. IInv
    BY <2>1, InitIInv
  <2>3. w = r /\ e = r
    BY <2>1 DEF Init
  <2>4. Chars(buf, r, r) = <<>>
    BY <2>2, RingTypes, CharsNone
  <2> QED BY <2>3, <2>4, TextIs
<1>2. IInv /\ IInv' /\ [Next]_vars => [T!Next]_T!vars
  BY RingRefines
<1> QED BY <1>1, <1>2, ConsoleInvariant, PTL DEF Spec, ImplementsTty, T!Spec

-----------------------------------------------------------------------------
(* The end of the input *)

LEMMA WantedInit == Init => Wanted
  BY DEF Init, Wanted

LEMMA WantedStep ==
  ASSUME IInv, Wanted, [Next]_vars
  PROVE  Wanted'
<1>1. ASSUME UNCHANGED <<left, target>> PROVE Wanted'
  BY <1>1 DEF Wanted
<1>2. ASSUME NEW p \in Proc, NEW n \in Sizes, consoleread(p, n) PROVE Wanted'
  <2>1. left' = [left EXCEPT ![p] = n] /\ target' = [target EXCEPT ![p] = n] /\ n \in Nat
    BY <1>2, SizeAssumption DEF consoleread
  <2> QED BY <2>1 DEF Wanted, IInv, Types
<1>3. ASSUME NEW p \in Proc, readLocked(p) PROVE Wanted'
  <2> DEFINE got == ReadLoop(r, left[p], target[p])
             end == got.done \/ killed[p]
  <2>1. Types /\ left[p] \in Nat /\ left \in [Proc -> Nat]
    BY DEF IInv, Types
  <2>2. Loop(got, left[p], target[p])
    BY <2>1, ReadTakes
  <2>3. /\ left' = [left EXCEPT ![p] = IF end THEN 0 ELSE got.n]
        /\ target' = [target EXCEPT ![p] = IF end THEN 0 ELSE @]
    BY <1>3 DEF readLocked
  <2>4. got.n \in 0 .. left[p]
    BY <2>2 DEF Loop
  <2> HIDE DEF got, end
  <2>5. CASE end
    <3>1. left' = [left EXCEPT ![p] = 0] /\ target' = [target EXCEPT ![p] = 0]
      BY <2>3, <2>5
    <3> QED BY <2>1, <3>1 DEF Wanted
  <2>6. CASE ~end
    <3>1. left' = [left EXCEPT ![p] = got.n] /\ target' = target
      BY <2>3, <2>6 DEF Wanted
    <3> QED BY <2>1, <2>4, <3>1 DEF Wanted
  <2> QED BY <2>5, <2>6
<1>4. CASE UNCHANGED vars
  BY <1>1, <1>4 DEF vars
<1>5. ASSUME NEW p \in Proc, sleep(p) \/ consolewrite(p) \/ writeLocked(p) PROVE UNCHANGED <<left, target>>
  BY <1>5 DEF sleep, consolewrite, writeLocked
<1>6. ASSUME NEW p \in Proc, NEW c \in CPU, scheduler(p, c) PROVE UNCHANGED <<left, target>>
  BY <1>6 DEF scheduler
<1>7. ASSUME NEW p \in Proc, NEW q \in Proc, kill(q, p) PROVE UNCHANGED <<left, target>>
  BY <1>7 DEF kill
<1>8. ASSUME NEW c \in Keys, FirstKey(c) \/ NextKey(c) PROVE UNCHANGED <<left, target>>
  BY <1>8 DEF FirstKey, NextKey, consoleintr, procs
<1>9. ASSUME Interrupt \/ wakeup \/ Drained \/ Listing \/ ListingLocked PROVE UNCHANGED <<left, target>>
  BY <1>9 DEF Interrupt, wakeup, Drained, Listing, ListingLocked, procs
<1> QED BY <1>1, <1>2, <1>3, <1>4, <1>5, <1>6, <1>7, <1>8, <1>9 DEF Next

\* The same set, k further on.
LEMMA Shifted ==
  ASSUME NEW k \in Nat, NEW B \in SUBSET Nat, NEW D \in SUBSET Nat, IsFiniteSet(B),
         \A i \in B : i >= k /\ i - k \in D,
         \A i \in D : k + i \in B
  PROVE  Cardinality(D) = Cardinality(B)
<1> DEFINE f == [i \in B |-> i - k]
<1>1. f \in [B -> D]
  OBVIOUS
<1>2. \A x, y \in B : f[x] = f[y] => x = y
  OBVIOUS
<1>3. \A i \in D : k + i \in B /\ f[k + i] = i
  OBVIOUS
<1> HIDE DEF f
<1>4. f \in Bijection(B, D)
  BY <1>1, <1>2, <1>3 DEF Bijection, Injection, Surjection, IsInjective
<1> QED BY <1>4, FS_Bijection DEF ExistsBijection

\* Where ^D is among the characters from x to y.
Ends(b, x, y) == {i \in 0 .. Size(x, y) - 1 : b[At((x + i) % WIDTH)] = "^D"}

LEMMA ReadCounts ==
  ASSUME IInv, IInv', Wanted, NEW p \in Proc, readLocked(p), r' # r
  PROVE  Count("^D")' = Count("^D") - (IF eof'[p] THEN 1 ELSE 0)
<1> DEFINE d == Size(r, w)
           A == Ends(buf, r, w)
           D == Ends(buf', r', w)
<1>1. PICK k \in 0 .. d : Takes(p, k)
  BY ReadMoves
<1>2. r' = (r + k) % WIDTH /\ Size(r, r') = k /\ Size(r', w) = d - k /\ d \in Nat /\ k \in Nat /\ k <= d
      /\ d <= INPUT_BUF /\ INPUT_BUF \in Nat /\ r \in Index /\ r' \in Index
  <2>1. r' \in Index
    BY DEF IInv, Types, Index
  <2>2. d \in Nat /\ d <= INPUT_BUF /\ INPUT_BUF \in Nat /\ r \in Index
    BY Ring
  <2>3. r' = (r + k) % WIDTH /\ Size(r, r') = k /\ Size(r', w) = d - k
    BY <1>1, Zenon DEF Takes
  <2>4. k \in Nat /\ k <= d
    <3> HIDE DEF d
    <3> QED BY <2>2
  <2> QED BY <2>1, <2>2, <2>3, <2>4, Zenon
<1>3. k # 0
  <2>1. r \in Nat /\ r < WIDTH /\ WIDTH \in Nat
    BY Ring DEF Index
  <2>2. (r + 0) % WIDTH = r
    BY <2>1
  <2> QED BY <1>2, <2>2
<1>4. ASSUME NEW i \in 0 .. d - k - 1
      PROVE  buf'[At((r' + i) % WIDTH)] = buf[At((r + (k + i)) % WIDTH)]
  <2>1. i \in Int /\ k + i \in k .. INPUT_BUF - 1
    BY <1>2
  <2>2. At((r' + i) % WIDTH) = At((r + (k + i)) % WIDTH)
    BY <1>2, <2>1, Offset
  <2>3. buf'[At((r + (k + i)) % WIDTH)] = buf[At((r + (k + i)) % WIDTH)]
    BY <1>1, <2>1 DEF Takes
  <2> QED BY <2>2, <2>3
<1>5. A = {i \in 0 .. d - 1 : buf[At((r + i) % WIDTH)] = "^D"}
  BY DEF Ends
<1>6. D = {i \in 0 .. d - k - 1 : buf[At((r + (k + i)) % WIDTH)] = "^D"}
  BY <1>2, <1>4 DEF Ends
<1>7. \A i \in 0 .. k - 2 : i \notin A
  BY <1>1, <1>5 DEF Takes
<1>8. k - 1 \in A <=> eof'[p]
  <2>1. k - 1 \in A <=> buf[At((r + (k - 1)) % WIDTH)] = "^D"
    BY <1>2, <1>3, <1>5
  <2>2. buf[At((r + (k - 1)) % WIDTH)] = "^D" <=> eof'[p]
    BY <1>1, <1>3 DEF Takes
  <2> QED BY <2>1, <2>2, Zenon
<1>9. Count("^D") = Cardinality(A) /\ Count("^D")' = Cardinality(D)
  <2>1. w' = w
    BY DEF readLocked
  <2> QED BY <2>1 DEF Count, Ends, Size
<1> DEFINE B == A \ {k - 1}
<1>10. IsFiniteSet(A) /\ A \in SUBSET Nat /\ D \in SUBSET Nat
  <2>1. IsFiniteSet(0 .. d - 1)
    BY <1>2, FS_Interval
  <2>2. A \in SUBSET (0 .. d - 1)
    BY <1>5
  <2>3. IsFiniteSet(A)
    BY <2>1, <2>2, FS_Subset
  <2> QED BY <1>5, <1>6, <2>3
<1>11. ASSUME NEW i \in B PROVE i >= k /\ i - k \in D
  <2>1. i \in 0 .. d - 1 /\ buf[At((r + i) % WIDTH)] = "^D" /\ i # k - 1 /\ i \notin 0 .. k - 2
    BY <1>5, <1>7
  <2>2. i >= k /\ i - k \in 0 .. d - k - 1 /\ k + (i - k) = i
    BY <1>2, <2>1
  <2> QED BY <1>6, <2>1, <2>2
<1>12. ASSUME NEW i \in D PROVE k + i \in B
  <2>1. i \in 0 .. d - k - 1 /\ buf[At((r + (k + i)) % WIDTH)] = "^D"
    BY <1>6
  <2>2. k + i \in 0 .. d - 1 /\ k + i # k - 1
    BY <1>2, <2>1
  <2> QED BY <1>5, <2>1, <2>2
<1> HIDE DEF A, D
<1>13. IsFiniteSet(B) /\ Cardinality(B) = (IF k - 1 \in A THEN Cardinality(A) - 1 ELSE Cardinality(A))
       /\ Cardinality(A) \in Nat
  BY <1>10, FS_RemoveElement, FS_CardinalityType
<1>14. Cardinality(D) = Cardinality(B)
  <2>1. B \in SUBSET Nat
    BY <1>10
  <2> HIDE DEF B
  <2> QED BY <1>2, <1>10, <1>11, <1>12, <1>13, <2>1, Shifted
<1> QED BY <1>8, <1>9, <1>13, <1>14

LEMMA EofStep ==
  ASSUME IInv, IInv', Wanted, [Next]_vars, r' # r
  PROVE  LET p == CHOOSE q \in Proc : pc[q] = "read" /\ pc'[q] # "read"
         IN  Count("^D")' = Count("^D") - (IF eof'[p] THEN 1 ELSE 0)
<1>1. PICK p \in Proc : readLocked(p)
  <2>1. ASSUME NEW p \in Proc, NEW n \in Sizes, consoleread(p, n) PROVE FALSE
    BY <2>1 DEF consoleread, input
  <2>2. ASSUME NEW p \in Proc, sleep(p) \/ consolewrite(p) \/ writeLocked(p) PROVE FALSE
    BY <2>2 DEF sleep, consolewrite, writeLocked, input
  <2>3. ASSUME NEW p \in Proc, NEW c \in CPU, scheduler(p, c) PROVE FALSE
    BY <2>3 DEF scheduler, input
  <2>4. ASSUME NEW p \in Proc, NEW q \in Proc, kill(q, p) PROVE FALSE
    BY <2>4 DEF kill, input
  <2>5. ASSUME NEW c \in Keys, FirstKey(c) \/ NextKey(c) PROVE FALSE
    BY <2>5 DEF FirstKey, NextKey, consoleintr
  <2>6. ASSUME Interrupt \/ wakeup \/ Drained \/ Listing \/ ListingLocked PROVE FALSE
    BY <2>6 DEF Interrupt, wakeup, Drained, Listing, ListingLocked, input
  <2> QED BY <2>1, <2>2, <2>3, <2>4, <2>5, <2>6 DEF Next, vars
<1>2. /\ pc[p] = "read" /\ pc'[p] # "read"
      /\ \A q \in Proc \ {p} : pc'[q] = pc[q]
  <2>1. pc \in [Proc -> {"user", "read", "write", "sleep", "asleep", "ready"}]
    BY DEF IInv, Types
  <2>2. pc[p] = "read" /\ \E l \in {"user", "sleep"} : pc' = [pc EXCEPT ![p] = l]
    BY <1>1 DEF readLocked, Step, Goto
  <2> QED BY <2>1, <2>2
<1>3. (CHOOSE q \in Proc : pc[q] = "read" /\ pc'[q] # "read") = p
  BY <1>2
<1>4. Count("^D")' = Count("^D") - (IF eof'[p] THEN 1 ELSE 0)
  BY <1>1, ReadCounts
<1> QED BY <1>3, <1>4

\* A ^D is used up by exactly the reads that return 0: consoleread() puts it
\* back if it has characters to return, and takes it otherwise.
THEOREM EndOfFileOnce == Spec => EOFOnce
<1>1. Init => Wanted
  BY WantedInit
<1>2. IInv /\ Wanted /\ [Next]_vars => Wanted'
  BY WantedStep
<1>3. IInv /\ IInv' /\ Wanted /\ [Next]_vars
        => [r' # r => LET p == CHOOSE q \in Proc : pc[q] = "read" /\ pc'[q] # "read"
                      IN  Count("^D")' = Count("^D") - (IF eof'[p] THEN 1 ELSE 0)]_vars
  BY EofStep
<1> QED BY <1>1, <1>2, <1>3, ConsoleInvariant, PTL DEF Spec, EOFOnce
=============================================================================
