---------------------------- MODULE FamilyProofs ----------------------------
(***************************************************************************)
(* Proofs about the process table, built on IInv of ProcTableProofs: no    *)
(* process has a dead parent, no wakeup of a wait() is lost, and nobody is *)
(* overtaken on a ready list.                                              *)
(*                                                                         *)
(* exit() hands its children to initproc and wakes who waits, wait() takes *)
(* a zombie away, fork() adds a child: Family is what these keep true      *)
(* between them.                                                           *)
(***************************************************************************)
EXTENDS ProcTableProofs

\* initproc lives for ever, exit() panics if it is the one to call it, and it
\* is nobody's child.
InitAlive ==
  /\ parent[initproc] = NULL
  /\ state[initproc] \notin {"UNUSED", "EMBRYO", "ZOMBIE"}
  /\ pc[initproc] = "exit" => panic # "no"

\* wait() sleeps on the process itself, which is the channel exit() wakes.
WaitsOnItself == \A p \in Proc : state[p] = "SLEEPING" /\ pc[p] = "wait" => chan[p] = p

\* WaitNotMissed, in terms of the states instead of the lists.
WaitsForChild ==
  \A p \in Proc :
    state[p] = "SLEEPING" /\ pc[p] = "wait" =>
      /\ \E q \in Proc : parent[q] = p /\ state[q] # "UNUSED"
      /\ \A q \in Proc : parent[q] = p => state[q] # "ZOMBIE"
      /\ ~killed[p]

\* A slot that is free, or that fork() has only allocated, has no parent, and no
\* process has itself as its parent.
NoStaleParent ==
  /\ \A p \in Proc : parent[p] # p
  /\ \A p \in Proc : state[p] = "UNUSED" => parent[p] = NULL
  /\ \A p \in Proc : pc[p] = "alloc" => parent[np[p]] = NULL

Family == ParentAlive /\ InitAlive /\ WaitsOnItself /\ WaitsForChild /\ NoStaleParent

\* The search through all lists but the free one finds the children in use.
LEMMA ChildrenLemma ==
  ASSUME TypeOK, ListsMatchState, NEW p, NEW q \in Proc
  PROVE  q \in Children(p) <=> parent[q] = p /\ state[q] # "UNUSED"
<1>1. state[q] \in States /\ prio[q] \in 0 .. MAX
  BY DEF TypeOK
<1>2. /\ Home(state[q], prio[q]) \in ListName
      /\ Home(state[q], prio[q]) = free <=> state[q] = "UNUSED"
  BY <1>1, HomeLemma
<1>3. OnList(q) = {Home(state[q], prio[q])}
  BY <1>2 DEF OnList, ListsMatchState
<1> QED BY <1>2, <1>3 DEF Children

\* So does the search through the zombie list for the zombie ones.
LEMMA ZombieLemma ==
  ASSUME TypeOK, ListsMatchState, NEW p
  PROVE  ZombieKids(p) = {} <=> \A q \in Proc : parent[q] = p => state[q] # "ZOMBIE"
<1>1. pLists[zombie] \in Seq(Proc)
  BY NamesLemma DEF TypeOK
<1>2. \A q \in Proc : q \in Range(pLists[zombie]) <=> state[q] = "ZOMBIE"
  BY ListStateLemma
<1> QED BY <1>1, <1>2 DEF ZombieKids, Range

LEMMA WaitNotMissedLemma ==
  ASSUME IInv, Family
  PROVE  WaitNotMissed
<1>1. TypeOK /\ ListsMatchState
  BY DEF IInv
<1>2. \A p, q \in Proc : q \in Children(p) <=> parent[q] = p /\ state[q] # "UNUSED"
  BY <1>1, ChildrenLemma
<1>3. \A p \in Proc : Children(p) \subseteq Proc
  BY DEF Children
<1> QED BY <1>2, <1>3 DEF Family, WaitsForChild, WaitNotMissed

\* Who keeps its parent, and a parent that stays alive, keeps ParentAlive.
LEMMA ParentFrame ==
  ASSUME ParentAlive,
         \A q \in Proc \ {initproc} :
           state'[q] \notin {"UNUSED", "EMBRYO"} =>
             parent'[q] = parent[q] /\ state[q] \notin {"UNUSED", "EMBRYO"},
         \A q \in Proc : state[q] \notin {"UNUSED", "EMBRYO", "ZOMBIE"} =>
                         state'[q] \notin {"UNUSED", "EMBRYO", "ZOMBIE"}
  PROVE  ParentAlive'
  BY DEF ParentAlive

\* A waiting process that keeps its children and gets no zombie goes on waiting.
LEMMA WaitFrame ==
  ASSUME WaitsForChild,
         \A p \in Proc :
           state'[p] = "SLEEPING" /\ pc'[p] = "wait" =>
             /\ state[p] = "SLEEPING" /\ pc[p] = "wait" /\ killed'[p] = killed[p]
             /\ \A q \in Proc :
                  /\ parent[q] = p /\ state[q] # "UNUSED" =>
                       parent'[q] = p /\ state'[q] # "UNUSED"
                  /\ parent'[q] = p /\ state'[q] = "ZOMBIE" =>
                       parent[q] = p /\ state[q] = "ZOMBIE"
  PROVE  WaitsForChild'
<1> SUFFICES ASSUME NEW p \in Proc, state'[p] = "SLEEPING", pc'[p] = "wait"
             PROVE  /\ \E q \in Proc : parent'[q] = p /\ state'[q] # "UNUSED"
                    /\ \A q \in Proc : parent'[q] = p => state'[q] # "ZOMBIE"
                    /\ ~killed'[p]
  BY DEF WaitsForChild
<1>1. /\ \E q \in Proc : parent[q] = p /\ state[q] # "UNUSED"
      /\ \A q \in Proc : parent[q] = p => state[q] # "ZOMBIE"
      /\ ~killed[p]
  BY DEF WaitsForChild
<1> QED BY <1>1

\* What the steps have in common that neither make, end nor move a process in
\* the family, nor put one to sleep in wait().
LEMMA FamilyFrame ==
  ASSUME Family, parent' = parent,
         \A q \in Proc :
           /\ state'[q] = "UNUSED" <=> state[q] = "UNUSED"
           /\ state'[q] = "EMBRYO" <=> state[q] = "EMBRYO"
           /\ state'[q] = "ZOMBIE" <=> state[q] = "ZOMBIE"
           /\ state'[q] = "SLEEPING" /\ pc'[q] = "wait" =>
                /\ state[q] = "SLEEPING" /\ pc[q] = "wait"
                /\ chan'[q] = chan[q] /\ killed'[q] = killed[q]
           /\ pc'[q] = "alloc" => pc[q] = "alloc" /\ np'[q] = np[q],
         pc'[initproc] = "exit" => (pc[initproc] = "exit" /\ panic' = panic) \/ panic' # "no"
  PROVE  Family'
<1>1. ParentAlive'
  BY DEF Family, ParentAlive
<1>2. InitAlive'
  BY ProcAssumption DEF Family, InitAlive
<1>3. WaitsOnItself'
  BY DEF Family, WaitsOnItself
<1>4. WaitsForChild'
  BY DEF Family, WaitsForChild
<1>5. NoStaleParent'
  BY DEF Family, NoStaleParent
<1> QED BY <1>1, <1>2, <1>3, <1>4, <1>5 DEF Family

LEMMA FamilyTrap ==
  ASSUME IInv, Family, NEW p \in Proc,
         Enter(p) \/ Return(p) \/ BeginExit(p) \/ BeginWait(p) \/ WaitFail(p)
  PROVE  Family'
<1>1. state[p] = "RUNNING"
  BY OnCpuLemma DEF Enter, Return, BeginExit, BeginWait, WaitFail, InWait, Executing
<1>2. UNCHANGED <<state, parent, chan, np>> /\ \A q \in Proc \ {p} : killed'[q] = killed[q]
  BY DEF Enter, Return, BeginExit, BeginWait, WaitFail, queueVars, familyVars, IInv, TypeOK
<1>3. /\ \E x \in {"user", "kernel", "exit", "wait"} : pc' = [pc EXCEPT ![p] = x]
      /\ pc'[p] = "exit" /\ p = initproc => panic' # "no"
      /\ p = initproc \/ panic' = panic
  BY DEF Enter, Return, BeginExit, BeginWait, WaitFail, IInv, TypeOK
<1>4. /\ pc'[p] # "alloc"
      /\ \A q \in Proc \ {p} : pc'[q] = pc[q]
  BY <1>3 DEF IInv, TypeOK
<1>5. pc'[initproc] = "exit" => (pc[initproc] = "exit" /\ panic' = panic) \/ panic' # "no"
  BY <1>3, <1>4, ProcAssumption
<1> QED BY <1>1, <1>2, <1>4, <1>5, FamilyFrame

\* yield() and sleep().
LEMMA FamilyYield ==
  ASSUME IInv, Family, NEW p \in Proc, Yield(p) \/ \E c \in Chan : Sleep(p, c)
  PROVE  Family'
<1>1. state[p] = "RUNNING"
  BY OnCpuLemma DEF Yield, Sleep, Executing
<1>2. /\ UNCHANGED <<parent, killed, np, pc>>
      /\ \E x \in {"RUNNABLE", "SLEEPING"} : state' = [state EXCEPT ![p] = x]
      /\ \A q \in Proc \ {p} : chan'[q] = chan[q]
      /\ state'[p] = "SLEEPING" => pc[p] # "wait"
  BY DEF Yield, Sleep, FallAsleep, familyVars, IInv, TypeOK
<1>3. panic' = panic
  BY <1>1 DEF Yield, Sleep, FallAsleep, assertState
<1>4. /\ state'[p] \in {"RUNNABLE", "SLEEPING"}
      /\ \A q \in Proc \ {p} : state'[q] = state[q]
  BY <1>2 DEF IInv, TypeOK
<1> QED BY <1>1, <1>2, <1>3, <1>4, FamilyFrame

\* wakeup(), by the clock interrupt or by anyone else.
LEMMA FamilyWakeup ==
  ASSUME IInv, Family, Tick \/ \E c \in Chan : Wakeup(c)
  PROVE  Family'
<1>1. PICK c \in Chan :
        /\ state' = Woken(state, Sleepers(c))
        /\ assertState(Sleepers(c), "SLEEPING")
        /\ UNCHANGED <<familyVars, killed, chan, pc, np>>
  BY ProcAssumption DEF Tick, Wakeup
<1>2. /\ \A q \in Proc : q \in Sleepers(c) => state[q] = "SLEEPING"
      /\ Sleepers(c) \subseteq Proc
  BY SleepersLemma DEF IInv
<1>3. panic' = panic
  BY <1>1, <1>2 DEF assertState
<1>4. \A q \in Proc : \/ state'[q] = state[q]
                      \/ state[q] = "SLEEPING" /\ state'[q] = "RUNNABLE"
  BY <1>1, <1>2 DEF Woken
<1> QED BY <1>1, <1>3, <1>4, FamilyFrame DEF familyVars

\* kill() takes care to wake its victim, so nobody killed stays in wait().
LEMMA FamilyKill ==
  ASSUME IInv, Family, NEW p \in Proc, NEW x, Kill(p, x)
  PROVE  Family'
<1>1. PICK t \in Proc :
        /\ killed' = [killed EXCEPT ![t] = TRUE]
        /\ IF Asleep(t)
           THEN assertState({t}, "SLEEPING") /\ state' = [state EXCEPT ![t] = "RUNNABLE"]
           ELSE UNCHANGED <<state, panic>>
  BY DEF Kill
<1>2. state[p] = "RUNNING"
  BY OnCpuLemma DEF Kill, Executing
<1>3. Asleep(t) <=> state[t] = "SLEEPING"
  BY ListStateLemma DEF IInv, Asleep
<1>4. panic' = panic
  BY <1>1, <1>3 DEF assertState
<1>5. /\ state'[t] # "SLEEPING"
      /\ state'[t] = IF state[t] = "SLEEPING" THEN "RUNNABLE" ELSE state[t]
      /\ \A q \in Proc \ {t} : state'[q] = state[q] /\ killed'[q] = killed[q]
  BY <1>1, <1>3 DEF IInv, TypeOK
<1>6. /\ pc'[p] = "user" /\ \A q \in Proc \ {p} : pc'[q] = pc[q]
      /\ UNCHANGED <<parent, chan, np>>
  BY DEF Kill, familyVars, IInv, TypeOK
<1>7. p = initproc \/ pc'[initproc] = pc[initproc]
  BY <1>6, ProcAssumption
<1> QED BY <1>2, <1>4, <1>5, <1>6, <1>7, FamilyFrame

LEMMA FamilySetpriority ==
  ASSUME IInv, IInv', Family, NEW p \in Proc, NEW x, NEW pr, Setpriority(p, x, pr)
  PROVE  Family'
<1>1. state[p] = "RUNNING"
  BY OnCpuLemma DEF Setpriority, Executing
<1>2. /\ pc'[p] = "user" /\ \A q \in Proc \ {p} : pc'[q] = pc[q]
      /\ UNCHANGED <<state, parent, chan, np, killed>>
  BY DEF Setpriority, familyVars, IInv, TypeOK
<1>3. panic = "no" /\ panic' \in {"no", "init exiting"}
  BY DEF Setpriority, Executing, LockFree, IInv, AssertionsHold
<1>4. p = initproc \/ pc'[initproc] = pc[initproc]
  BY <1>2, ProcAssumption
<1> QED BY <1>1, <1>2, <1>3, <1>4, FamilyFrame

\* The scheduler clears chan, of a process that is no longer asleep.
LEMMA FamilyScheduler ==
  ASSUME IInv, IInv', Family, NEW c \in CPU, Scheduler(c)
  PROVE  Family'
<1>1. UNCHANGED <<parent, killed, pc, np>> /\ panic = "no"
  BY DEF Scheduler, familyVars, LockFree
<1>2. panic' \in {"no", "init exiting"}
  BY DEF IInv, AssertionsHold
<1> DEFINE L == IF Due THEN PromoteHeads(pLists) ELSE pLists
           P == IF Due THEN PromotedPrio ELSE prio
           Filled == {i \in ReadyList : L[i] # <<>>}
           i == CHOOSE i \in Filled : \A j \in Filled : i <= j
           p == Head(L[i])
           Bad == (Due /\ ~PromotionOK) \/ P[p] # i
<1>3. CASE Filled = {}
  <2>1. UNCHANGED <<state, chan>>
    BY <1>3 DEF Scheduler
  <2> QED BY <1>1, <1>2, <2>1, FamilyFrame
<1>4. CASE Filled # {}
  <2>1. /\ state' = [state EXCEPT ![p] = "RUNNING"]
        /\ chan' = [chan EXCEPT ![p] = NULL]
        /\ panic' = CASE Bad -> "Incorrect Proc Priority!"
                      [] state[p] # "RUNNABLE" -> "Incorrect Proc State!"
                      [] OTHER -> panic
    BY <1>4 DEF Scheduler
  <2> HIDE DEF p, Bad
  <2>2. panic' = "no" /\ state[p] = "RUNNABLE"
    BY <1>1, <1>2, <2>1
  <2> QED BY <1>1, <2>1, <2>2, FamilyFrame DEF IInv, TypeOK
<1> QED BY <1>3, <1>4

\* wait() goes to sleep only if it has a child, no zombie one, and is not killed.
LEMMA FamilyWaitSleep ==
  ASSUME IInv, Family, NEW p \in Proc, WaitSleep(p)
  PROVE  Family'
<1>1. state[p] = "RUNNING"
  BY OnCpuLemma DEF WaitSleep, InWait
<1>2. /\ state' = [state EXCEPT ![p] = "SLEEPING"] /\ chan' = [chan EXCEPT ![p] = p]
      /\ UNCHANGED <<parent, killed, pc, np>>
      /\ ~killed[p] /\ assertState({p}, "RUNNING")
  BY DEF WaitSleep, FallAsleep, familyVars
<1>3. /\ \E q \in Proc : parent[q] = p /\ state[q] # "UNUSED"
      /\ \A q \in Proc : parent[q] = p => state[q] # "ZOMBIE"
  <2>1. PICK q \in Children(p) : TRUE
    BY DEF WaitSleep
  <2>2. q \in Proc
    BY DEF Children
  <2> QED BY <2>1, <2>2, ChildrenLemma, ZombieLemma DEF WaitSleep, IInv
<1>4. panic' = panic
  BY <1>1, <1>2 DEF assertState
<1>5. /\ state'[p] = "SLEEPING" /\ chan'[p] = p
      /\ \A q \in Proc \ {p} : state'[q] = state[q] /\ chan'[q] = chan[q]
  BY <1>2 DEF IInv, TypeOK
<1>6. ParentAlive'
  BY <1>1, <1>2, <1>5 DEF Family, ParentAlive
<1>7. InitAlive'
  BY <1>1, <1>2, <1>4, <1>5, ProcAssumption DEF Family, InitAlive
<1>8. WaitsOnItself'
  BY <1>2, <1>5 DEF Family, WaitsOnItself
<1>9. WaitsForChild'
  <2>1. \A q \in Proc : /\ state'[q] = "UNUSED" <=> state[q] = "UNUSED"
                        /\ state'[q] = "ZOMBIE" <=> state[q] = "ZOMBIE"
    BY <1>1, <1>5
  <2> QED BY <1>2, <1>3, <1>5, <2>1 DEF Family, WaitsForChild
<1>10. NoStaleParent'
  BY <1>2, <1>5 DEF Family, NoStaleParent
<1> QED BY <1>6, <1>7, <1>8, <1>9, <1>10 DEF Family

\* A slot leaves the free list without a parent, so it is nobody's child yet.
LEMMA FamilyAlloc ==
  ASSUME IInv, Family, NEW p \in Proc, AllocProc(p)
  PROVE  Family'
<1> DEFINE q == Head(pLists[free])
<1>1. state[p] = "RUNNING"
  BY OnCpuLemma DEF AllocProc, Executing
<1>2. q \in Proc /\ q \in Range(pLists[free])
  BY TailLemma, NamesLemma DEF AllocProc, IInv, TypeOK, ListsMatchState
<1>3. state[q] = "UNUSED"
  BY <1>2, ListStateLemma DEF IInv
<1>4. /\ state' = [state EXCEPT ![q] = "EMBRYO"] /\ np' = [np EXCEPT ![p] = q]
      /\ pc' = [pc EXCEPT ![p] = "alloc"] /\ assertState({q}, "UNUSED")
      /\ UNCHANGED <<parent, killed, chan>>
  BY DEF AllocProc
<1> HIDE DEF q
<1>0. UNCHANGED <<parent, killed, chan>>
  BY <1>4
<1>5. panic' = panic
  BY <1>3, <1>4 DEF assertState
<1>6. /\ state'[q] = "EMBRYO" /\ \A r \in Proc \ {q} : state'[r] = state[r]
      /\ pc'[p] = "alloc" /\ np'[p] = q
      /\ \A r \in Proc \ {p} : pc'[r] = pc[r] /\ np'[r] = np[r]
  BY <1>2, <1>4 DEF IInv, TypeOK
<1>7. parent[q] = NULL /\ q # initproc
  BY <1>2, <1>3 DEF Family, NoStaleParent, InitAlive
<1>8. ParentAlive'
  BY <1>3, <1>0, <1>6, ParentFrame DEF Family
<1>9. InitAlive'
  BY <1>0, <1>5, <1>6, <1>7, ProcAssumption DEF Family, InitAlive
<1>10. WaitsOnItself'
  BY <1>1, <1>0, <1>6 DEF Family, WaitsOnItself
<1>11. WaitsForChild'
  BY <1>3, <1>0, <1>6, WaitFrame DEF Family
<1>12. NoStaleParent'
  BY <1>0, <1>6, <1>7 DEF Family, NoStaleParent
<1> QED BY <1>8, <1>9, <1>10, <1>11, <1>12 DEF Family

\* fork() gives a slot back before it has got a parent.
LEMMA FamilyForkFail ==
  ASSUME IInv, Family, NEW p \in Proc, ForkFail(p)
  PROVE  Family'
<1> DEFINE q == np[p]
<1>1. /\ pc[p] = "alloc" /\ q \in Proc /\ state[q] = "EMBRYO"
      /\ state[p] \in {"RUNNABLE", "RUNNING"}
  BY ForkingLemma DEF ForkFail, IInv
<1>2. /\ state' = [state EXCEPT ![q] = "UNUSED"] /\ np' = [np EXCEPT ![p] = NULL]
      /\ pc' = [pc EXCEPT ![p] = "user"] /\ assertState({q}, "EMBRYO")
      /\ UNCHANGED <<parent, killed, chan>>
  BY DEF ForkFail, familyVars
<1>3. parent[q] = NULL
  BY <1>1 DEF Family, NoStaleParent
<1> HIDE DEF q
<1>0. UNCHANGED <<parent, killed, chan>>
  BY <1>2
<1>4. panic' = panic
  BY <1>1, <1>2 DEF assertState
<1>5. /\ state'[q] = "UNUSED" /\ \A r \in Proc \ {q} : state'[r] = state[r]
      /\ pc'[p] = "user" /\ \A r \in Proc \ {p} : pc'[r] = pc[r] /\ np'[r] = np[r]
  BY <1>1, <1>2 DEF IInv, TypeOK
<1>6. q # initproc
  BY <1>1 DEF Family, InitAlive
<1>7. ParentAlive'
  BY <1>1, <1>0, <1>5, ParentFrame DEF Family
<1>8. InitAlive'
  BY <1>0, <1>4, <1>5, <1>6, ProcAssumption DEF Family, InitAlive
<1>9. WaitsOnItself'
  BY <1>0, <1>5 DEF Family, WaitsOnItself
<1>10. WaitsForChild'
  BY <1>0, <1>3, <1>5, ProcAssumption, WaitFrame DEF Family
<1>11. NoStaleParent'
  BY <1>0, <1>3, <1>5 DEF Family, NoStaleParent
<1> QED BY <1>7, <1>8, <1>9, <1>10, <1>11 DEF Family

\* fork() makes itself the parent of the EMBRYO.
LEMMA FamilyForkCopy ==
  ASSUME IInv, Family, NEW p \in Proc, ForkCopy(p)
  PROVE  Family'
<1> DEFINE q == np[p]
<1>1. /\ pc[p] = "alloc" /\ q \in Proc /\ state[q] = "EMBRYO" /\ state[p] = "RUNNING"
      /\ \A r \in Proc : r # p /\ pc[r] = "alloc" => np[r] # q
  BY ForkingLemma, OnCpuLemma DEF ForkCopy, IInv
<1>2. /\ parent' = [parent EXCEPT ![q] = p] /\ pc' = [pc EXCEPT ![p] = "copied"]
      /\ UNCHANGED <<state, killed, chan, np, panic>>
  BY DEF ForkCopy
<1>3. parent[q] = NULL
  BY <1>1 DEF Family, NoStaleParent
<1> HIDE DEF q
<1>0. UNCHANGED <<state, killed, chan, np, panic>>
  BY <1>2
<1>4. /\ parent'[q] = p /\ \A r \in Proc \ {q} : parent'[r] = parent[r]
      /\ pc'[p] = "copied" /\ \A r \in Proc \ {p} : pc'[r] = pc[r]
  BY <1>1, <1>2 DEF IInv, TypeOK
<1>5. ParentAlive'
  BY <1>1, <1>0, <1>4, ParentFrame DEF Family
<1>6. InitAlive'
  BY <1>1, <1>0, <1>4, ProcAssumption DEF Family, InitAlive
<1>7. WaitsOnItself'
  BY <1>0, <1>4 DEF Family, WaitsOnItself
<1>8. WaitsForChild'
  BY <1>1, <1>0, <1>3, <1>4, ProcAssumption, WaitFrame DEF Family
<1>9. NoStaleParent'
  BY <1>1, <1>0, <1>4, ForkingLemma DEF Family, NoStaleParent, IInv
<1> QED BY <1>5, <1>6, <1>7, <1>8, <1>9 DEF Family

\* The child of fork() joins the family: its parent is running.
LEMMA FamilyForkPublish ==
  ASSUME IInv, Family, NEW p \in Proc, ForkPublish(p)
  PROVE  Family'
<1> DEFINE q == np[p]
<1>1. /\ q \in Proc /\ state[q] = "EMBRYO" /\ state[p] = "RUNNING" /\ parent[q] = p
  BY ForkingLemma, OnCpuLemma DEF ForkPublish, Executing, IInv
<1>2. /\ state' = [state EXCEPT ![q] = "RUNNABLE"] /\ np' = [np EXCEPT ![p] = NULL]
      /\ pc' = [pc EXCEPT ![p] = "user", ![q] = "user"] /\ assertState({q}, "EMBRYO")
      /\ UNCHANGED <<parent, killed, chan>>
  BY DEF ForkPublish, familyVars
<1> HIDE DEF q
<1>0. UNCHANGED <<parent, killed, chan>>
  BY <1>2
<1>3. panic' = panic
  BY <1>1, <1>2 DEF assertState
<1>4. /\ state'[q] = "RUNNABLE" /\ \A r \in Proc \ {q} : state'[r] = state[r]
      /\ pc'[p] = "user" /\ pc'[q] = "user"
      /\ \A r \in Proc \ {p, q} : pc'[r] = pc[r]
      /\ \A r \in Proc \ {p} : np'[r] = np[r]
  BY <1>1, <1>2 DEF IInv, TypeOK
<1>5. q # initproc
  BY <1>1 DEF Family, InitAlive
<1>6. ParentAlive'
  BY <1>1, <1>0, <1>4 DEF Family, ParentAlive
<1>7. InitAlive'
  BY <1>0, <1>3, <1>4, <1>5, ProcAssumption DEF Family, InitAlive
<1>8. WaitsOnItself'
  BY <1>0, <1>4 DEF Family, WaitsOnItself
<1>9. WaitsForChild'
  BY <1>1, <1>0, <1>4, WaitFrame DEF Family
<1>10. NoStaleParent'
  BY <1>1, <1>0, <1>4 DEF Family, NoStaleParent
<1> QED BY <1>6, <1>7, <1>8, <1>9, <1>10 DEF Family

\* exit(): the children have a new parent before the old one is a zombie, and
\* whoever waits for the process, or now for one of its zombies, wakes up.
LEMMA FamilyExit ==
  ASSUME IInv, Family, NEW p \in Proc, ExitFinish(p)
  PROVE  Family'
<1> DEFINE W == ParentWoken(p) \cup (InitWoken(p) \ ParentWoken(p))
<1>1. state[p] = "RUNNING" /\ pc[p] = "exit" /\ panic = "no"
  BY OnCpuLemma DEF ExitFinish, Executing, LockFree
<1>2. p # initproc
  BY <1>1 DEF Family, InitAlive
<1>3. /\ state' = [Woken(state, W) EXCEPT ![p] = "ZOMBIE"]
      /\ panic' = IF (\E q \in W : state[q] # "SLEEPING") \/ state[p] # "RUNNING"
                  THEN "Incorrect Proc State!" ELSE panic
      /\ parent' = [q \in Proc |-> IF q \in Children(p) THEN initproc ELSE parent[q]]
      /\ UNCHANGED <<killed, chan, pc, np>>
  BY DEF ExitFinish
<1>4. \A q \in Proc : q \in Children(p) <=> parent[q] = p /\ state[q] # "UNUSED"
  BY ChildrenLemma DEF IInv
<1>5. /\ W \subseteq Proc
      /\ \A q \in W : state[q] = "SLEEPING"
      /\ \A q \in Proc : state[q] = "SLEEPING" /\ chan[q] = parent[p] => q \in W
      /\ (\E q \in Proc : parent[q] = p /\ state[q] = "ZOMBIE") =>
           (state[initproc] = "SLEEPING" /\ chan[initproc] = initproc => initproc \in W)
  <2>1. /\ \A q \in ParentWoken(p) : q \in Proc /\ state[q] = "SLEEPING"
        /\ \A q \in Proc : state[q] = "SLEEPING" /\ chan[q] = parent[p] => q \in ParentWoken(p)
    BY SleepersLemma DEF IInv, ParentWoken
  <2>2. \A q \in InitWoken(p) : q \in Proc /\ state[q] = "SLEEPING"
    BY SleepersLemma DEF IInv, InitWoken
  <2>3. (\E q \in Proc : parent[q] = p /\ state[q] = "ZOMBIE") =>
           (state[initproc] = "SLEEPING" /\ chan[initproc] = initproc => initproc \in InitWoken(p))
    BY SleepersLemma, ZombieLemma, ProcAssumption DEF IInv, InitWoken
  <2> QED BY <2>1, <2>2, <2>3
<1> HIDE DEF W
<1>6. panic' = panic
  BY <1>1, <1>3, <1>5
<1>7. /\ state'[p] = "ZOMBIE"
      /\ \A q \in Proc \ {p} :
           state'[q] = IF q \in W THEN "RUNNABLE" ELSE state[q]
  BY <1>3 DEF Woken
<1>8. \A q \in Proc : parent'[q] = IF parent[q] = p /\ state[q] # "UNUSED"
                                   THEN initproc ELSE parent[q]
  BY <1>3, <1>4
<1>0. UNCHANGED <<killed, chan, pc, np>>
  BY <1>3
<1>9. ParentAlive'
  <2> SUFFICES ASSUME NEW q \in Proc \ {initproc}, state'[q] \notin {"UNUSED", "EMBRYO"}
               PROVE  /\ parent'[q] \in Proc
                      /\ state'[parent'[q]] \notin {"UNUSED", "EMBRYO", "ZOMBIE"}
    BY DEF ParentAlive
  <2>1. state[q] \notin {"UNUSED", "EMBRYO"}
    BY <1>1, <1>5, <1>7
  <2>2. parent[q] \in Proc /\ state[parent[q]] \notin {"UNUSED", "EMBRYO", "ZOMBIE"}
    BY <2>1 DEF Family, ParentAlive
  <2>3. parent'[q] = IF parent[q] = p THEN initproc ELSE parent[q]
    BY <1>8, <2>1
  <2>4. state[initproc] \notin {"UNUSED", "EMBRYO", "ZOMBIE"}
    BY DEF Family, InitAlive
  <2> QED BY <1>2, <1>7, <2>2, <2>3, <2>4, ProcAssumption
<1>10. InitAlive'
  BY <1>0, <1>2, <1>6, <1>7, <1>8, ProcAssumption DEF Family, InitAlive
<1>11. WaitsOnItself'
  BY <1>0, <1>7 DEF Family, WaitsOnItself
<1>12. WaitsForChild'
  <2> SUFFICES ASSUME NEW r \in Proc, state'[r] = "SLEEPING", pc[r] = "wait"
               PROVE  /\ \E q \in Proc : parent'[q] = r /\ state'[q] # "UNUSED"
                      /\ \A q \in Proc : parent'[q] = r => state'[q] # "ZOMBIE"
                      /\ ~killed[r]
    BY <1>0 DEF WaitsForChild
  <2>1. r # p /\ r \notin W /\ state[r] = "SLEEPING" /\ chan[r] = r
    BY <1>7 DEF Family, WaitsOnItself
  <2>2. parent[p] # r
    BY <1>5, <2>1
  <2>3. PICK q \in Proc : parent[q] = r /\ state[q] # "UNUSED"
    BY <2>1 DEF Family, WaitsForChild
  <2>4. parent'[q] = r /\ state'[q] # "UNUSED"
    BY <1>7, <1>8, <2>1, <2>2, <2>3
  <2>5. ASSUME NEW s \in Proc, parent'[s] = r, state'[s] = "ZOMBIE"
        PROVE  FALSE
    <3>1. CASE s = p
      BY <1>8, <2>2, <2>5, <3>1 DEF Family, NoStaleParent
    <3>2. CASE s # p
      <4>1. state[s] = "ZOMBIE"
        BY <1>7, <2>5, <3>2
      <4>2. parent[s] # r
        BY <2>1, <4>1 DEF Family, WaitsForChild
      <4>3. parent[s] = p /\ r = initproc
        BY <1>8, <2>5, <4>2
      <4> QED BY <1>5, <2>1, <4>1, <4>3
    <3> QED BY <3>1, <3>2
  <2> QED BY <2>1, <2>4, <2>5 DEF Family, WaitsForChild
<1>13. NoStaleParent'
  <2>1. \A q \in Proc : state'[q] = "UNUSED" => state[q] = "UNUSED"
    BY <1>1, <1>7
  <2>2. \A q \in Proc : pc[q] = "alloc" => np[q] \in Proc
    BY ForkingLemma DEF IInv
  <2>3. \A q \in Proc : parent'[q] # q
    BY <1>8, ProcAssumption DEF Family, NoStaleParent, InitAlive
  <2> QED BY <1>0, <1>8, <2>1, <2>2, <2>3, ProcAssumption DEF Family, NoStaleParent
<1> QED BY <1>9, <1>10, <1>11, <1>12, <1>13 DEF Family

\* wait() frees a child of its own, which nobody has as a parent.
LEMMA FamilyReap ==
  ASSUME IInv, Family, NEW p \in Proc, WaitReap(p)
  PROVE  Family'
<1>1. state[p] = "RUNNING" /\ pc[p] = "wait"
  BY OnCpuLemma DEF WaitReap, InWait
<1>2. PICK i \in ZombieKids(p) :
        LET q == pLists[zombie][i] IN
            /\ assertState({q}, "ZOMBIE")
            /\ state' = [state EXCEPT ![q] = "UNUSED"]
            /\ parent' = [parent EXCEPT ![q] = NULL]
            /\ killed' = [killed EXCEPT ![q] = FALSE]
  BY DEF WaitReap
<1> DEFINE q == pLists[zombie][i]
<1>3. q \in Proc /\ q \in Range(pLists[zombie]) /\ parent[q] = p
  <2>1. pLists[zombie] \in Seq(Proc)
    BY NamesLemma DEF IInv, TypeOK
  <2>2. i \in DOMAIN pLists[zombie] /\ parent[q] = p
    BY DEF ZombieKids
  <2> QED BY <2>1, <2>2 DEF Range
<1>4. state[q] = "ZOMBIE"
  BY <1>3, ListStateLemma DEF IInv
<1>5. /\ state' = [state EXCEPT ![q] = "UNUSED"]
      /\ parent' = [parent EXCEPT ![q] = NULL]
      /\ killed' = [killed EXCEPT ![q] = FALSE]
      /\ pc' = [pc EXCEPT ![p] = "user"]
      /\ chan' = chan /\ np' = np
  BY <1>2 DEF WaitReap
<1>6. panic' = panic
  BY <1>2, <1>4 DEF assertState
<1> HIDE DEF q
<1>0. chan' = chan /\ np' = np
  BY <1>5
<1>7. /\ state'[q] = "UNUSED" /\ parent'[q] = NULL
      /\ \A r \in Proc \ {q} : /\ state'[r] = state[r] /\ parent'[r] = parent[r]
                               /\ killed'[r] = killed[r]
      /\ pc'[p] = "user" /\ \A r \in Proc \ {p} : pc'[r] = pc[r]
  BY <1>3, <1>5 DEF IInv, TypeOK
<1>8. q # initproc
  BY <1>4 DEF Family, InitAlive
<1>9. ParentAlive'
  BY <1>4, <1>7, ParentFrame DEF Family
<1>10. InitAlive'
  BY <1>6, <1>7, <1>8, ProcAssumption DEF Family, InitAlive
<1>11. WaitsOnItself'
  BY <1>0, <1>7 DEF Family, WaitsOnItself
<1>12. WaitsForChild'
  BY <1>1, <1>3, <1>7, ProcAssumption, WaitFrame DEF Family
<1>13. NoStaleParent'
  <2>1. \A r \in Proc : pc[r] = "alloc" => np[r] \in Proc
    BY ForkingLemma DEF IInv
  <2> QED BY <1>3, <1>0, <1>7, <2>1, ProcAssumption DEF Family, NoStaleParent
<1> QED BY <1>9, <1>10, <1>11, <1>12, <1>13 DEF Family

LEMMA FamilyInit ==
  ASSUME Init
  PROVE  Family
  BY ProcAssumption DEF Init, Family, ParentAlive, InitAlive, WaitsOnItself, WaitsForChild,
     NoStaleParent

LEMMA FamilyNext ==
  ASSUME IInv, IInv', Family, [Next]_vars
  PROVE  Family'
<1>1. ASSUME NEW p \in Proc, ProcStep(p) PROVE Family'
  <2>1. CASE Enter(p) \/ Return(p) \/ BeginExit(p) \/ BeginWait(p) \/ WaitFail(p)
    BY <2>1, FamilyTrap
  <2>2. CASE Yield(p) \/ \E c \in Chan : Sleep(p, c)
    BY <2>2, FamilyYield
  <2>3. CASE AllocProc(p)
    BY <2>3, FamilyAlloc
  <2>4. CASE ForkFail(p)
    BY <2>4, FamilyForkFail
  <2>5. CASE ForkCopy(p)
    BY <2>5, FamilyForkCopy
  <2>6. CASE ForkPublish(p)
    BY <2>6, FamilyForkPublish
  <2>7. CASE ExitFinish(p)
    BY <2>7, FamilyExit
  <2>8. CASE WaitReap(p)
    BY <2>8, FamilyReap
  <2>9. CASE WaitSleep(p)
    BY <2>9, FamilyWaitSleep
  <2>10. CASE \E x \in KillArgs : Kill(p, x)
    BY <2>10, FamilyKill
  <2>11. CASE \E x \in PrioPids, pr \in PrioArgs : Setpriority(p, x, pr)
    BY <2>11, FamilySetpriority
  <2> QED BY <1>1, <2>1, <2>2, <2>3, <2>4, <2>5, <2>6, <2>7, <2>8, <2>9, <2>10, <2>11
          DEF ProcStep
<1>2. CASE \E c \in CPU : Scheduler(c)
  BY <1>2, FamilyScheduler
<1>3. CASE Tick \/ \E c \in Chan \ {TickChan} : Wakeup(c)
  BY <1>3, FamilyWakeup
<1>4. CASE UNCHANGED vars
  BY <1>4, FamilyFrame DEF vars, queueVars, familyVars
<1> QED BY <1>1, <1>2, <1>3, <1>4 DEF Next, Stopped

THEOREM FamilyInvariant == Spec => [](IInv /\ Family)
<1>1. Init => Family
  BY FamilyInit
<1>2. IInv /\ IInv' /\ Family /\ [Next]_vars => Family'
  BY FamilyNext
<1> QED BY <1>1, <1>2, TableInvariant, PTL DEF Spec

\* exit() leaves no process with a dead or freed parent, whatever forks, exits
\* and waits go on at the same time.
THEOREM ParentsLive == Spec => []ParentAlive
<1>1. Family => ParentAlive
  BY DEF Family
<1> QED BY <1>1, FamilyInvariant, PTL

\* No wakeup is lost between exit() or kill() and wait(): who sleeps in wait()
\* has a child, none of its children is a zombie, and it has not been killed.
THEOREM NoWaitMissed == Spec => []WaitNotMissed
<1>1. IInv /\ Family => WaitNotMissed
  BY WaitNotMissedLemma
<1> QED BY <1>1, FamilyInvariant, PTL

-----------------------------------------------------------------------------
(* The order of the ready lists *)

\* The lists of a state the table can be in, for the lemmas on their order.
LEMMA OrderMove ==
  ASSUME IInv, NEW p \in Proc, NEW from \in ListName, NEW to \in ListName, from # to
  PROVE  /\ to \notin ReadyList => TableInOrder(pLists, ToHead(pLists, p, from, to))
         /\ p \notin Range(pLists[to]) => TableInOrder(pLists, ToTail(pLists, p, from, to))
<1>1. Placed(Proc, pLists, Homes(state, prio))
  BY ListsBefore DEF IInv
<1> QED BY <1>1, OrderToHead, OrderToTail

LEMMA OrderKept ==
  ASSUME IInv, UNCHANGED pLists
  PROVE  TableInOrder(pLists, pLists')
<1>1. \A i \in ReadyList : pLists[i] \in Seq(Proc)
  BY NamesLemma DEF IInv, TypeOK
<1> QED BY <1>1, OrderSame DEF TableInOrder

\* The steps of a process, the scheduler and wakeup() keep the order of every
\* ready list.
LEMMA OrderProcStep ==
  ASSUME IInv, NEW p \in Proc, ProcStep(p)
  PROVE  TableInOrder(pLists, pLists')
<1>1. CASE Enter(p) \/ Return(p) \/ BeginExit(p) \/ BeginWait(p) \/ WaitFail(p) \/ ForkCopy(p)
  BY <1>1, OrderKept DEF Enter, Return, BeginExit, BeginWait, WaitFail, ForkCopy, queueVars
<1>2. CASE Yield(p)
  <2>1. PrioAfter(p) \in ReadyList /\ state[p] = "RUNNING"
    BY <1>2, BudgetLemma, OnCpuLemma, NamesLemma DEF IInv, Yield, Executing
  <2>2. PrioAfter(p) \in ListName /\ PrioAfter(p) # running
    BY <2>1, NamesLemma DEF ReadyList, running
  <2>3. p \notin Range(pLists[PrioAfter(p)])
    BY <2>1, ListStateLemma DEF IInv
  <2> QED BY <1>2, <2>2, <2>3, NamesLemma, OrderMove DEF Yield
<1>3. CASE AllocProc(p)
  <2>1. Head(pLists[free]) \in Proc
    BY <1>3, TailLemma, NamesLemma DEF AllocProc, IInv, TypeOK, ListsMatchState
  <2>2. pLists' = ToHead(pLists, Head(pLists[free]), free, embryo)
    BY <1>3 DEF AllocProc
  <2>3. embryo \notin ReadyList /\ free # embryo
    BY DEF ReadyList, embryo, free
  <2> QED BY <2>1, <2>2, <2>3, NamesLemma, OrderMove
<1>4. CASE ForkFail(p)
  <2>1. np[p] \in Proc /\ pLists' = ToHead(pLists, np[p], embryo, free)
    BY <1>4, ForkingLemma DEF ForkFail, IInv
  <2>2. free \notin ReadyList /\ free # embryo
    BY DEF ReadyList, embryo, free
  <2> QED BY <2>1, <2>2, NamesLemma, OrderMove
<1>5. CASE ForkPublish(p)
  <2>1. /\ np[p] \in Proc /\ pLists' = ToTail(pLists, np[p], embryo, 0)
        /\ state[np[p]] = "EMBRYO"
    BY <1>5, ForkingLemma DEF ForkPublish, IInv
  <2>2. np[p] \notin Range(pLists[0]) /\ embryo # 0
    BY <2>1, NamesLemma, ListStateLemma DEF IInv, embryo
  <2> QED BY <2>1, <2>2, NamesLemma, OrderMove
<1>6. CASE ExitFinish(p)
  <2> DEFINE W1 == ParentWoken(p)
             W2 == InitWoken(p) \ W1
             L1 == WakeLists(pLists, W1, prio)
             L2 == WakeLists(L1, W2, prio)
             h1 == Homes(Woken(state, W1), prio)
  <2>1. W1 \in SUBSET Proc /\ \A q \in W1 : state[q] = "SLEEPING"
    BY SleepersLemma DEF IInv, ParentWoken
  <2>2. pLists' = ToHead(L2, p, running, zombie)
    BY <1>6 DEF ExitFinish
  <2> HIDE DEF W1, W2
  <2>3. Placed(Proc, pLists, Homes(state, prio)) /\ Placed(Proc, L1, h1)
    BY <2>1, ListsBefore, StateWake DEF IInv
  <2>4. /\ TableInOrder(pLists, L1)
        /\ \A i \in ReadyList : Range(pLists[i]) \subseteq Range(L1[i])
    BY <2>3, OrderWake
  <2> HIDE DEF L1, h1
  <2>5. TableInOrder(L1, L2)
    BY <2>3, OrderWake
  <2>6. L2 = [l \in ListName |-> L2[l]]
    BY DEF WakeLists
  <2> HIDE DEF L2
  <2>8. \A i \in ReadyList : pLists'[i] = L2[i]
    BY <2>2, <2>6, NamesLemma DEF ToHead, ReadyList, running, zombie
  <2>7. ASSUME NEW i \in ReadyList PROVE InOrder(pLists[i], L2[i])
    BY <2>4, <2>5, OrderTrans DEF TableInOrder
  <2> QED BY <2>7, <2>8 DEF TableInOrder
<1>7. CASE WaitReap(p)
  <2>1. PICK i \in ZombieKids(p) : pLists' = ToHead(pLists, pLists[zombie][i], zombie, free)
    BY <1>7 DEF WaitReap
  <2>2. pLists[zombie][i] \in Proc
    <3>1. pLists[zombie] \in Seq(Proc)
      BY NamesLemma DEF IInv, TypeOK
    <3> QED BY <3>1 DEF ZombieKids
  <2>3. free \notin ReadyList /\ free # zombie
    BY DEF ReadyList, zombie, free
  <2> QED BY <2>1, <2>2, <2>3, NamesLemma, OrderMove
<1>8. CASE WaitSleep(p) \/ \E c \in Chan : Sleep(p, c)
  <2>1. pLists' = ToHead(pLists, p, running, sleep)
    BY <1>8 DEF WaitSleep, Sleep, FallAsleep
  <2>2. sleep \notin ReadyList /\ sleep # running
    BY DEF ReadyList, sleep, running
  <2> QED BY <2>1, <2>2, NamesLemma, OrderMove
<1>9. CASE \E x \in KillArgs : Kill(p, x)
  <2>1. PICK t \in Proc : IF Asleep(t) THEN pLists' = ToTail(pLists, t, sleep, prio[t])
                          ELSE UNCHANGED pLists
    BY <1>9 DEF Kill
  <2>2. CASE Asleep(t)
    <3>1. state[t] = "SLEEPING" /\ prio[t] \in ReadyList
      BY <2>2, ListStateLemma, NamesLemma DEF IInv, Asleep, TypeOK
    <3>2. t \notin Range(pLists[prio[t]]) /\ prio[t] \in ListName /\ prio[t] # sleep
      BY <3>1, NamesLemma, ListStateLemma DEF IInv, sleep, ReadyList
    <3> QED BY <2>1, <2>2, <3>2, NamesLemma, OrderMove
  <2> QED BY <2>1, <2>2, OrderKept
<1>10. CASE \E x \in PrioPids, pr \in PrioArgs : Setpriority(p, x, pr)
  <2>1. PICK pr \in 0 .. MAX, t \in Proc :
          \/ \E i \in OnList(t) \cap ReadyList : i # pr /\ pLists' = ToTail(pLists, t, i, pr)
          \/ UNCHANGED pLists
    BY <1>10 DEF Setpriority
  <2>2. ASSUME NEW i \in OnList(t) \cap ReadyList, i # pr, pLists' = ToTail(pLists, t, i, pr)
        PROVE  TableInOrder(pLists, pLists')
    <3>1. i \in ListName /\ pr \in ListName /\ pr \in ReadyList
      BY NamesLemma
    <3>2. t \in Range(pLists[i])
      BY DEF OnList
    <3>3. t \notin Range(pLists[pr])
      <4>1. prio[t] = i
        BY <3>2, ListStateLemma DEF IInv
      <4> QED BY <2>2, <3>1, <4>1, ListStateLemma DEF IInv
    <3> QED BY <2>2, <3>1, <3>3, OrderMove
  <2> QED BY <2>1, <2>2, OrderKept
<1> QED BY <1>1, <1>2, <1>3, <1>4, <1>5, <1>6, <1>7, <1>8, <1>9, <1>10 DEF ProcStep

LEMMA OrderScheduler ==
  ASSUME IInv, NEW c \in CPU, Scheduler(c)
  PROVE  TableInOrder(pLists, pLists')
<1> DEFINE L == IF Due THEN PromoteHeads(pLists) ELSE pLists
           P == IF Due THEN PromotedPrio ELSE prio
           Filled == {i \in ReadyList : L[i] # <<>>}
           i == CHOOSE i \in Filled : \A j \in Filled : i <= j
           p == Head(L[i])
<1>1. Placed(Proc, L, Homes(state, P))
  BY StatePromote, ListsBefore DEF IInv
<1>2. TableInOrder(pLists, L)
  <2>1. Placed(Proc, pLists, Homes(state, prio))
    BY ListsBefore DEF IInv
  <2>2. \A j \in ReadyList : pLists[j] \in Seq(Proc)
    BY NamesLemma DEF IInv, TypeOK
  <2> QED BY <2>1, <2>2, OrderPromote, OrderSame DEF TableInOrder
<1>3. CASE Filled = {}
  <2>1. pLists' = L
    BY <1>3 DEF Scheduler
  <2> QED BY <1>2, <2>1
<1>4. CASE Filled # {}
  <2>1. pLists' = ToHead(L, p, i, running)
    BY <1>4 DEF Scheduler
  <2>2. i \in ReadyList
    <3> HIDE DEF L
    <3>1. \E k \in Filled : \A j \in Filled : k <= j
      BY <1>4, BestLemma
    <3>2. i \in Filled
      BY <3>1
    <3> QED BY <3>2
  <2> HIDE DEF L, P, i, p
  <2>3. i \in ListName /\ running \in ListName \ ReadyList /\ i # running
    BY <2>2, NamesLemma DEF running, ReadyList
  <2>4. TableInOrder(L, pLists')
    BY <1>1, <2>1, <2>3, OrderToHead
  <2>5. \A j \in ReadyList : Range(pLists'[j]) \subseteq Range(L[j])
    <3>1. \A j \in ReadyList : L[j] \in Seq(Proc) /\ NoDuplicates(L[j]) /\ j \in ListName
      BY <1>1, NamesLemma DEF Placed
    <3>2. \A j \in ReadyList : pLists'[j] = IF j = i THEN removeFromStateList(L[j], p) ELSE L[j]
      BY <1>1, <2>1, <2>3, <3>1 DEF ToHead, Placed
    <3>3. \A j \in ReadyList : Range(removeFromStateList(L[j], p)) = Range(L[j]) \ {p}
      BY <3>1, RemoveLemma
    <3> QED BY <3>2, <3>3
  <2>6. ASSUME NEW j \in ReadyList PROVE InOrder(pLists[j], pLists'[j])
    BY <1>2, <2>4, <2>5, OrderTrans DEF TableInOrder
  <2> QED BY <2>6 DEF TableInOrder
<1> QED BY <1>3, <1>4

LEMMA OrderNext ==
  ASSUME IInv, [Next]_vars
  PROVE  TableInOrder(pLists, pLists')
<1>1. CASE \E p \in Proc : ProcStep(p)
  BY <1>1, OrderProcStep
<1>2. CASE \E c \in CPU : Scheduler(c)
  BY <1>2, OrderScheduler
<1>3. CASE Tick \/ \E c \in Chan \ {TickChan} : Wakeup(c)
  <2>1. \E W : pLists' = WakeLists(pLists, W, prio)
    BY <1>3 DEF Tick, Wakeup
  <2> QED BY <2>1, ListsBefore, OrderWake DEF IInv
<1>4. CASE UNCHANGED vars
  BY <1>4, OrderKept DEF vars, queueVars
<1> QED BY <1>1, <1>2, <1>3, <1>4 DEF Next, Stopped

\* Nobody is overtaken on a ready list: yield(), wakeup(), kill(), fork() and
\* setpriority() add at the tail, the scheduler and setpriority() take away, and
\* promotion keeps the order.
THEOREM FirstComeFirstServed == Spec => NoOvertaking
<1> DEFINE A(i) ==
       LET s == pLists[i]
           t == pLists'[i]
       IN  \A p \in Range(s) \cap Range(t), q \in Range(t) :
             FirstIndex(t, q) < FirstIndex(t, p) =>
               q \in Range(s) /\ FirstIndex(s, q) < FirstIndex(s, p)
<1>1. IInv /\ IInv' /\ [Next]_vars => [\A i \in ReadyList : A(i)]_vars
  <2> SUFFICES ASSUME IInv, IInv', [Next]_vars, NEW i \in ReadyList
               PROVE  A(i)
    OBVIOUS
  <2>1. InOrder(pLists[i], pLists'[i])
    BY OrderNext DEF TableInOrder
  <2>2. /\ pLists[i] \in Seq(Proc) /\ pLists'[i] \in Seq(Proc)
        /\ NoDuplicates(pLists[i]) /\ NoDuplicates(pLists'[i])
    BY NamesLemma DEF IInv, TypeOK, ListsMatchState
  <2> QED BY <2>1, <2>2, OrderFirst
<1> QED BY <1>1, TableInvariant, PTL DEF Spec, NoOvertaking
=============================================================================
