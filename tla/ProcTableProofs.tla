-------------------------- MODULE ProcTableProofs ---------------------------
(***************************************************************************)
(* Proofs about the process table, for any number of processes, CPUs and   *)
(* priorities: the lists always mirror the states, the assertions of the   *)
(* code hold, a process runs on one CPU at a time, fork() owns the child   *)
(* it builds, and pids are unique.                                         *)
(*                                                                         *)
(* IInv is the inductive invariant.  None of its conjuncts is inductive    *)
(* alone: a move between lists is sound only if the process is on the list *)
(* the code takes it from, which for a running process follows from        *)
(* OneCpuPerProcess and for the child of fork() from ForkOwnsChild.        *)
(***************************************************************************)
EXTENDS ProcTable, ListsProofs, WellFoundedInduction, TLAPS

\* Pids are handed out in increasing order.
PidsBelow == \A p \in Proc : pid[p] < nextpid

IInv ==
  /\ TypeOK
  /\ ListsMatchState
  /\ OneCpuPerProcess
  /\ ForkOwnsChild
  /\ AssertionsHold
  /\ PidsUnique
  /\ PidsBelow

\* The list each process has to be on.
Homes(st, pr) == [p \in Proc |-> Home(st[p], pr[p])]

-----------------------------------------------------------------------------
\* The lists of the six states are different lists.
LEMMA HomeLemma ==
  ASSUME NEW s \in States, NEW r \in 0 .. MAX
  PROVE  /\ Home(s, r) \in ListName
         /\ Home(s, r) = free    <=> s = "UNUSED"
         /\ Home(s, r) = embryo  <=> s = "EMBRYO"
         /\ Home(s, r) = sleep   <=> s = "SLEEPING"
         /\ Home(s, r) = running <=> s = "RUNNING"
         /\ Home(s, r) = zombie  <=> s = "ZOMBIE"
         /\ Home(s, r) \in ReadyList <=> s = "RUNNABLE"
         /\ s = "RUNNABLE" => Home(s, r) = r
         /\ \A i \in ReadyList : Home(s, r) = i <=> s = "RUNNABLE" /\ r = i
  BY MaxAssumption
     DEF Home, States, ListName, ReadyList, free, embryo, sleep, running, zombie

\* The names of the lists.
LEMMA NamesLemma ==
  /\ free \in ListName /\ embryo \in ListName /\ sleep \in ListName
  /\ running \in ListName /\ zombie \in ListName
  /\ ReadyList \subseteq ListName /\ ReadyList = 0 .. MAX /\ 0 \in ReadyList
  BY MaxAssumption
     DEF ListName, ReadyList, free, embryo, sleep, running, zombie

\* What the code resets a priority, a budget or a count of ticks to.
LEMMA ResetLemma ==
  0 \in 0 .. MAX /\ BUDGET \in 1 .. BUDGET /\ 0 \in 0 .. BUDGET
  BY MaxAssumption, NumberAssumption

\* ListsMatchState in the form that the lemmas on tables of lists use.
LEMMA PlacedLemma ==
  ASSUME NEW L, NEW st \in [Proc -> States], NEW pr \in [Proc -> 0 .. MAX]
  PROVE  Placed(Proc, L, Homes(st, pr)) <=>
           /\ L \in [ListName -> Seq(Proc)]
           /\ \A p \in Proc, l \in ListName :
                p \in Range(L[l]) <=> l = Home(st[p], pr[p])
           /\ \A l \in ListName : NoDuplicates(L[l])
<1> DEFINE h == Homes(st, pr)
<1>1. h \in [Proc -> ListName] /\ \A p \in Proc : h[p] = Home(st[p], pr[p])
  BY HomeLemma DEF Homes
<1> HIDE DEF h
<1>2. ASSUME L \in [ListName -> Seq(Proc)], NEW l \in ListName
      PROVE  Range(L[l]) \subseteq Proc
  BY <1>2 DEF Range
<1>3. ASSUME L \in [ListName -> Seq(Proc)], NEW l \in ListName
      PROVE  Range(L[l]) = {p \in Proc : h[p] = l} <=>
               \A p \in Proc : p \in Range(L[l]) <=> l = Home(st[p], pr[p])
  BY <1>1, <1>2, <1>3
<1> QED BY <1>1, <1>3 DEF Placed, h

\* Where a process is tells its state and its priority.
LEMMA ListStateLemma ==
  ASSUME TypeOK, ListsMatchState, NEW p \in Proc
  PROVE  /\ p \in Range(pLists[free])    <=> state[p] = "UNUSED"
         /\ p \in Range(pLists[embryo])  <=> state[p] = "EMBRYO"
         /\ p \in Range(pLists[sleep])   <=> state[p] = "SLEEPING"
         /\ p \in Range(pLists[running]) <=> state[p] = "RUNNING"
         /\ p \in Range(pLists[zombie])  <=> state[p] = "ZOMBIE"
         /\ \A i \in ReadyList :
              p \in Range(pLists[i]) <=> state[p] = "RUNNABLE" /\ prio[p] = i
<1>1. state[p] \in States /\ prio[p] \in 0 .. MAX
  BY DEF TypeOK
<1>2. \A l \in ListName : p \in Range(pLists[l]) <=> l = Home(state[p], prio[p])
  BY DEF ListsMatchState
<1> QED BY <1>1, <1>2, HomeLemma, NamesLemma

-----------------------------------------------------------------------------
(* The operations on the table of lists, in terms of states and priorities *)

\* A process changes state, and perhaps priority, and goes to the head of the
\* list of its new state.
LEMMA StateToHead ==
  ASSUME NEW L, NEW st \in [Proc -> States], NEW pr \in [Proc -> 0 .. MAX],
         Placed(Proc, L, Homes(st, pr)),
         NEW p \in Proc, NEW s \in States, NEW r \in 0 .. MAX,
         NEW from, from = Home(st[p], pr[p]), NEW to, to = Home(s, r), from # to
  PROVE  Placed(Proc, ToHead(L, p, from, to),
                Homes([st EXCEPT ![p] = s], [pr EXCEPT ![p] = r]))
<1> DEFINE h == Homes(st, pr)
<1>1. h[p] = from /\ to \in ListName
  BY HomeLemma DEF Homes
<1>2. Homes([st EXCEPT ![p] = s], [pr EXCEPT ![p] = r]) = [h EXCEPT ![p] = to]
  BY DEF Homes
<1> HIDE DEF h
<1>3. Placed(Proc, L, h)
  BY DEF h
<1> QED BY <1>1, <1>2, <1>3, ToHeadLemma

\* The same for the tail.
LEMMA StateToTail ==
  ASSUME NEW L, NEW st \in [Proc -> States], NEW pr \in [Proc -> 0 .. MAX],
         Placed(Proc, L, Homes(st, pr)),
         NEW p \in Proc, NEW s \in States, NEW r \in 0 .. MAX,
         NEW from, from = Home(st[p], pr[p]), NEW to, to = Home(s, r), from # to
  PROVE  Placed(Proc, ToTail(L, p, from, to),
                Homes([st EXCEPT ![p] = s], [pr EXCEPT ![p] = r]))
<1> DEFINE h == Homes(st, pr)
<1>1. h[p] = from /\ to \in ListName
  BY HomeLemma DEF Homes
<1>2. Homes([st EXCEPT ![p] = s], [pr EXCEPT ![p] = r]) = [h EXCEPT ![p] = to]
  BY DEF Homes
<1> HIDE DEF h
<1>3. Placed(Proc, L, h)
  BY DEF h
<1> QED BY <1>1, <1>2, <1>3, ToTailLemma

\* A process that keeps its priority.
LEMMA KeepPriority ==
  ASSUME NEW L, NEW st \in [Proc -> States], NEW pr \in [Proc -> 0 .. MAX],
         Placed(Proc, L, Homes(st, pr)),
         NEW p \in Proc, NEW s \in States,
         NEW from, from = Home(st[p], pr[p]), NEW to, to = Home(s, pr[p]), from # to
  PROVE  /\ Placed(Proc, ToHead(L, p, from, to), Homes([st EXCEPT ![p] = s], pr))
         /\ Placed(Proc, ToTail(L, p, from, to), Homes([st EXCEPT ![p] = s], pr))
<1>1. pr[p] \in 0 .. MAX /\ [pr EXCEPT ![p] = pr[p]] = pr
  OBVIOUS
<1>2. Placed(Proc, ToHead(L, p, from, to),
             Homes([st EXCEPT ![p] = s], [pr EXCEPT ![p] = pr[p]]))
  BY <1>1, StateToHead
<1>3. Placed(Proc, ToTail(L, p, from, to),
             Homes([st EXCEPT ![p] = s], [pr EXCEPT ![p] = pr[p]]))
  BY <1>1, StateToTail
<1> QED BY <1>1, <1>2, <1>3

\* wakeup1() on sleeping processes.
LEMMA StateWake ==
  ASSUME NEW L, NEW st \in [Proc -> States], NEW pr \in [Proc -> 0 .. MAX],
         Placed(Proc, L, Homes(st, pr)),
         NEW W \in SUBSET Proc, \A p \in W : st[p] = "SLEEPING"
  PROVE  /\ Placed(Proc, WakeLists(L, W, pr), Homes(Woken(st, W), pr))
         /\ Woken(st, W) \in [Proc -> States]
<1> DEFINE h == Homes(st, pr)
<1>1. \A p \in W : h[p] = sleep
  BY HomeLemma DEF Homes
<1>2. pr \in [Proc -> ReadyList]
  BY NamesLemma
<1>3. Homes(Woken(st, W), pr) = [p \in Proc |-> IF p \in W THEN pr[p] ELSE h[p]]
  BY HomeLemma DEF Homes, Woken, States
<1> HIDE DEF h
<1>4. Placed(Proc, L, h)
  BY DEF h
<1>5. Placed(Proc, WakeLists(L, W, pr), Homes(Woken(st, W), pr))
  BY <1>1, <1>2, <1>3, <1>4, WakeLemma
<1>6. Woken(st, W) \in [Proc -> States]
  BY DEF Woken, States
<1> QED BY <1>5, <1>6

\* prioadjust(): the lists and the priorities change together.
LEMMA StatePromote ==
  ASSUME TypeOK, ListsMatchState
  PROVE  /\ PromotedPrio \in [Proc -> 0 .. MAX]
         /\ Placed(Proc, PromoteHeads(pLists), Homes(state, PromotedPrio))
         /\ PromotionOK
         /\ \A p \in Proc : state[p] = "EMBRYO" => PromotedPrio[p] = prio[p]
<1> DEFINE h == Homes(state, prio)
<1>1. state \in [Proc -> States] /\ prio \in [Proc -> 0 .. MAX]
  BY DEF TypeOK
<1>2. Placed(Proc, pLists, h)
  BY <1>1, PlacedLemma DEF TypeOK, ListsMatchState
<1>3. \A p \in Proc : h[p] = Home(state[p], prio[p])
  BY DEF Homes
<1>4. ASSUME NEW p \in Heads(pLists)
      PROVE  p \in Proc /\ h[p] \in 1 .. MAX /\ state[p] = "RUNNABLE" /\ prio[p] = h[p]
  <2>1. p \in Proc /\ h[p] \in 1 .. MAX
    BY <1>2, HeadsLemma
  <2>2. h[p] \in ReadyList
    BY <2>1, NamesLemma, MaxAssumption
  <2> QED BY <2>1, <2>2, <1>1, <1>3, HomeLemma
<1>5. ASSUME NEW p \in Proc, p \in Range(pLists[sleep]) \cup Range(pLists[running])
      PROVE  state[p] \in {"SLEEPING", "RUNNING"} /\ p \notin Heads(pLists)
  BY <1>4, <1>5, ListStateLemma
<1>6. PromotedPrio \in [Proc -> 0 .. MAX]
  <2> SUFFICES ASSUME NEW p \in Proc PROVE PromotedPrio[p] \in 0 .. MAX
    BY DEF PromotedPrio
  <2>1. prio[p] \in 0 .. MAX
    BY <1>1
  <2>2. p \in Heads(pLists) => prio[p] > 0
    BY <1>4, MaxAssumption
  <2> QED BY <2>1, <2>2, MaxAssumption DEF PromotedPrio
<1>7. Homes(state, PromotedPrio)
        = [p \in Proc |-> IF p \in Heads(pLists) THEN h[p] - 1 ELSE h[p]]
  <2> SUFFICES ASSUME NEW p \in Proc
               PROVE  Home(state[p], PromotedPrio[p])
                        = IF p \in Heads(pLists) THEN h[p] - 1 ELSE h[p]
    BY DEF Homes
  <2>0. /\ PromotedPrio[p] \in 0 .. MAX /\ state[p] \in States
        /\ PromotedPrio[p] = IF \/ p \in Heads(pLists)
                                \/ /\ p \in Range(pLists[sleep]) \cup Range(pLists[running])
                                   /\ prio[p] > 0
                             THEN prio[p] - 1 ELSE prio[p]
    BY <1>1, <1>6 DEF PromotedPrio
  <2>1. CASE p \in Heads(pLists)
    BY <2>0, <2>1, <1>4, HomeLemma
  <2>2. CASE p \notin Heads(pLists) /\ p \in Range(pLists[sleep]) \cup Range(pLists[running])
    BY <2>0, <2>2, <1>3, <1>5 DEF Home
  <2>3. CASE p \notin Heads(pLists) /\ p \notin Range(pLists[sleep]) \cup Range(pLists[running])
    BY <2>0, <2>3, <1>3
  <2> QED BY <2>1, <2>2, <2>3
<1>8. PromotionOK
  BY <1>2, <1>4, HeadsLemma DEF PromotionOK
<1>9. \A p \in Proc : state[p] = "EMBRYO" => PromotedPrio[p] = prio[p]
  BY <1>4, <1>5 DEF PromotedPrio
<1> HIDE DEF h
<1>10. Placed(Proc, PromoteHeads(pLists), Homes(state, PromotedPrio))
  BY <1>2, <1>7, PromoteLemma
<1> QED BY <1>6, <1>8, <1>9, <1>10

-----------------------------------------------------------------------------
(* What a step has to respect to keep each part of the invariant *)

\* The lists.
LEMMA ListsFrame ==
  ASSUME TypeOK', Placed(Proc, pLists', Homes(state', prio'))
  PROVE  ListsMatchState'
<1>1. state' \in [Proc -> States] /\ prio' \in [Proc -> 0 .. MAX]
  BY DEF TypeOK
<1>2. /\ \A p \in Proc, l \in ListName :
           p \in Range(pLists'[l]) <=> l = Home(state'[p], prio'[p])
      /\ \A l \in ListName : NoDuplicates(pLists'[l])
  BY <1>1, PlacedLemma
<1> QED BY <1>2 DEF ListsMatchState

\* The lists before the step, in the form of the lemmas above.
LEMMA ListsBefore ==
  ASSUME TypeOK, ListsMatchState
  PROVE  /\ Placed(Proc, pLists, Homes(state, prio))
         /\ state \in [Proc -> States] /\ prio \in [Proc -> 0 .. MAX]
  BY PlacedLemma DEF TypeOK, ListsMatchState

\* sched(): the process of a CPU gives it up.
LEMMA LeaveCpuLemma ==
  ASSUME TypeOK, OneCpuPerProcess, NEW p \in Proc, LeaveCpu(p),
         state' \in [Proc -> States], state'[p] # "RUNNING",
         \A q \in Proc \ {p} : state'[q] = "RUNNING" <=> state[q] = "RUNNING"
  PROVE  /\ OneCpuPerProcess'
         /\ cpu' \in [CPU -> Proc \cup {NULL}]
         /\ used' \in [Proc -> 0 .. BUDGET]
<1>1. /\ cpu' = [c \in CPU |-> IF cpu[c] = p THEN NULL ELSE cpu[c]]
      /\ cpu' \in [CPU -> Proc \cup {NULL}]
  BY DEF LeaveCpu, TypeOK
<1>2. used' \in [Proc -> 0 .. BUDGET]
  BY NumberAssumption DEF LeaveCpu, TypeOK
<1>3. \A q \in Proc : OnCpu(q)' <=> q # p /\ OnCpu(q)
  BY <1>1, ProcAssumption DEF OnCpu
<1>4. \A c, d \in CPU : cpu'[c] = cpu'[d] /\ cpu'[c] # NULL => c = d
  BY <1>1 DEF OneCpuPerProcess
<1> QED BY <1>1, <1>2, <1>3, <1>4 DEF OneCpuPerProcess

\* No CPU changes hands.
LEMMA CpuFrame ==
  ASSUME OneCpuPerProcess, cpu' = cpu,
         \A q \in Proc : state'[q] = "RUNNING" <=> state[q] = "RUNNING"
  PROVE  OneCpuPerProcess'
  BY DEF OneCpuPerProcess, OnCpu

\* What ForkOwnsChild says of one process in fork().
LEMMA ForkingLemma ==
  ASSUME ForkOwnsChild, NEW r \in Proc, pc[r] \in {"alloc", "copied"}
  PROVE  /\ np[r] \in Proc
         /\ state[np[r]] = "EMBRYO"
         /\ state[r] \in {"RUNNABLE", "RUNNING"}
         /\ pc[r] = "copied" => prio[np[r]] = 0 /\ parent[np[r]] = r
         /\ \A s \in Proc : pc[s] \in {"alloc", "copied"} /\ np[s] = np[r] => s = r
  BY DEF ForkOwnsChild

\* A process leaves fork() and lets go of the child q: the others keep theirs.
LEMMA ForkLeave ==
  ASSUME ForkOwnsChild, NEW q, parent' = parent,
         \A r \in Proc : pc'[r] \in {"alloc", "copied"} =>
           pc'[r] = pc[r] /\ np'[r] = np[r] /\ np[r] # q /\ r # q,
         \A r \in Proc \ {q} : state'[r] = state[r] /\ prio'[r] = prio[r]
  PROVE  ForkOwnsChild'
<1> SUFFICES ASSUME NEW r \in Proc, pc'[r] \in {"alloc", "copied"}
             PROVE  /\ np'[r] \in Proc
                    /\ state'[np'[r]] = "EMBRYO"
                    /\ state'[r] \in {"RUNNABLE", "RUNNING"}
                    /\ pc'[r] = "copied" => prio'[np'[r]] = 0 /\ parent'[np'[r]] = r
                    /\ \A s \in Proc : pc'[s] \in {"alloc", "copied"} /\ np'[s] = np'[r]
                                        => s = r
  BY DEF ForkOwnsChild
<1>1. pc'[r] = pc[r] /\ np'[r] = np[r] /\ np[r] # q /\ r # q
  OBVIOUS
<1>2. /\ np[r] \in Proc \ {q} /\ state[np[r]] = "EMBRYO"
      /\ state[r] \in {"RUNNABLE", "RUNNING"}
      /\ pc[r] = "copied" => prio[np[r]] = 0 /\ parent[np[r]] = r
      /\ \A s \in Proc : pc[s] \in {"alloc", "copied"} /\ np[s] = np[r] => s = r
  BY <1>1, ForkingLemma
<1>3. state'[np[r]] = state[np[r]] /\ prio'[np[r]] = prio[np[r]] /\ state'[r] = state[r]
  BY <1>1, <1>2
<1> QED BY <1>1, <1>2, <1>3

\* No step but those of fork() concerns a child under construction.
LEMMA ForkFrame ==
  ASSUME ForkOwnsChild, np' = np,
         \A q \in Proc : pc'[q] \in {"alloc", "copied"} =>
           /\ pc'[q] = pc[q]
           /\ state[q] \in {"RUNNABLE", "RUNNING"} => state'[q] \in {"RUNNABLE", "RUNNING"}
           /\ LET e == np[q] IN
                e \in Proc /\ state[e] = "EMBRYO" =>
                  /\ state'[e] = "EMBRYO" /\ prio'[e] = prio[e]
                  /\ parent[e] = q => parent'[e] = q
  PROVE  ForkOwnsChild'
  BY DEF ForkOwnsChild

\* No pid changes and no slot is taken into use.
LEMMA PidFrame ==
  ASSUME PidsUnique, PidsBelow, pid' = pid, nextpid' = nextpid,
         \A q \in Proc : state[q] = "UNUSED" => state'[q] = "UNUSED"
  PROVE  PidsUnique' /\ PidsBelow'
  BY DEF PidsUnique, PidsBelow

\* Who is on a CPU runs, and is on the running list.
LEMMA OnCpuLemma ==
  ASSUME IInv, NEW p \in Proc, OnCpu(p)
  PROVE  /\ state[p] = "RUNNING"
         /\ Home(state[p], prio[p]) = running
  BY HomeLemma DEF IInv, TypeOK, OneCpuPerProcess, States

\* budgetupdate() keeps budget and priority in range.
LEMMA BudgetLemma ==
  ASSUME TypeOK, NEW p \in Proc
  PROVE  BudgetAfter(p) \in 1 .. BUDGET /\ PrioAfter(p) \in 0 .. MAX
<1>1. /\ budget[p] \in 1 .. BUDGET /\ used[p] \in 0 .. BUDGET /\ prio[p] \in 0 .. MAX
      /\ BUDGET \in Nat \ {0}
  BY NumberAssumption DEF TypeOK
<1> QED BY <1>1, MaxAssumption DEF BudgetAfter, PrioAfter, Left

-----------------------------------------------------------------------------
(* The actions *)

\* Steps that leave the table, the CPUs and fork() alone.
LEMMA QuietStep ==
  ASSUME IInv, TypeOK', AssertionsHold',
         UNCHANGED <<pLists, state, prio, pid, nextpid, parent, cpu, np>>,
         \A q \in Proc : pc'[q] \in {"alloc", "copied"} => pc'[q] = pc[q]
  PROVE  IInv'
<1>1. ListsMatchState'
  BY DEF IInv, ListsMatchState
<1>2. OneCpuPerProcess'
  BY CpuFrame DEF IInv
<1>3. ForkOwnsChild'
  BY ForkFrame DEF IInv
<1>4. PidsUnique' /\ PidsBelow'
  BY PidFrame DEF IInv
<1> QED BY <1>1, <1>2, <1>3, <1>4 DEF IInv

\* Entering and leaving system calls, exit() and wait().
LEMMA TrapStep ==
  ASSUME IInv, NEW p \in Proc,
         Enter(p) \/ Return(p) \/ BeginExit(p) \/ BeginWait(p) \/ WaitFail(p)
  PROVE  IInv'
<1>1. UNCHANGED <<pLists, state, prio, budget, used, pid, nextpid, parent, cpu, np,
                  chan, promoteIn, phase>>
  BY DEF Enter, Return, BeginExit, BeginWait, WaitFail, queueVars, familyVars, clockVars
<1>2. /\ lock' \in {lock, NULL}
      /\ panic' \in {panic, "init exiting"}
      /\ \E x \in {"user", "kernel", "exit", "wait"} : pc' = [pc EXCEPT ![p] = x]
  BY DEF Enter, Return, BeginExit, BeginWait, WaitFail
<1>3. killed' \in [Proc -> BOOLEAN]
  BY DEF IInv, TypeOK, Enter, Return, BeginExit, BeginWait, WaitFail
<1>4. TypeOK'
  BY <1>1, <1>2, <1>3 DEF IInv, TypeOK, Places, Panics
<1>5. AssertionsHold'
  BY <1>2 DEF IInv, AssertionsHold
<1>6. \A q \in Proc : pc'[q] \in {"alloc", "copied"} => pc'[q] = pc[q]
  BY <1>2 DEF IInv, TypeOK
<1> QED BY <1>1, <1>4, <1>5, <1>6, QuietStep

\* A running process goes back to its ready list, or one below.
LEMMA YieldStep ==
  ASSUME IInv, NEW p \in Proc, Yield(p)
  PROVE  IInv'
<1>1. state[p] = "RUNNING" /\ Home(state[p], prio[p]) = running
  BY OnCpuLemma DEF Yield, Executing
<1>2. BudgetAfter(p) \in 1 .. BUDGET /\ PrioAfter(p) \in 0 .. MAX
  BY BudgetLemma DEF IInv
<1>3. Home("RUNNABLE", PrioAfter(p)) = PrioAfter(p) /\ PrioAfter(p) # running
  BY <1>2 DEF Home, running
<1>4. /\ state' = [state EXCEPT ![p] = "RUNNABLE"]
      /\ prio' = [prio EXCEPT ![p] = PrioAfter(p)]
      /\ pLists' = ToTail(pLists, p, running, PrioAfter(p))
      /\ state' \in [Proc -> States]
      /\ budget' \in [Proc -> 1 .. BUDGET] /\ prio' \in [Proc -> 0 .. MAX]
  BY <1>2, ListsBefore DEF Yield, IInv, TypeOK, States
<1>5. Placed(Proc, pLists', Homes(state', prio'))
  <2>1. "RUNNABLE" \in States
    BY DEF States
  <2> QED BY <1>1, <1>2, <1>3, <1>4, <2>1, ListsBefore, StateToTail DEF IInv
<1>6. /\ OneCpuPerProcess' /\ cpu' \in [CPU -> Proc \cup {NULL}]
      /\ used' \in [Proc -> 0 .. BUDGET]
  BY <1>4, LeaveCpuLemma, ListsBefore DEF IInv, Yield
<1>7. panic' = panic
  BY <1>1 DEF Yield, assertState
<1>8. TypeOK'
  BY <1>2, <1>4, <1>5, <1>6, <1>7
     DEF Placed, IInv, TypeOK, Yield, familyVars, clockVars
<1>9. ForkOwnsChild'
  BY <1>1, <1>4, ForkFrame, ListsBefore DEF IInv, Yield, familyVars
<1>10. PidsUnique' /\ PidsBelow'
  BY <1>1, <1>4, PidFrame, ListsBefore DEF IInv, Yield, familyVars
<1> QED BY <1>5, <1>6, <1>7, <1>8, <1>9, <1>10, ListsFrame DEF IInv, AssertionsHold

\* A running process falls asleep, in wait() or in another system call.
LEMMA SleepStep ==
  ASSUME IInv, NEW p \in Proc, NEW c \in Chan \cup Proc, OnCpu(p), FallAsleep(p, c),
         pc[p] \notin {"alloc", "copied"}, lock' \in {lock, NULL},
         UNCHANGED <<familyVars, clockVars, killed, pc, np>>
  PROVE  IInv'
<1>1. state[p] = "RUNNING" /\ Home(state[p], prio[p]) = running
  BY OnCpuLemma
<1>2. BudgetAfter(p) \in 1 .. BUDGET /\ PrioAfter(p) \in 0 .. MAX
  BY BudgetLemma DEF IInv
<1>3. Home("SLEEPING", PrioAfter(p)) = sleep /\ sleep # running
  BY DEF Home, sleep, running
<1>4. /\ state' = [state EXCEPT ![p] = "SLEEPING"]
      /\ prio' = [prio EXCEPT ![p] = PrioAfter(p)]
      /\ pLists' = ToHead(pLists, p, running, sleep)
      /\ state' \in [Proc -> States]
      /\ budget' \in [Proc -> 1 .. BUDGET] /\ prio' \in [Proc -> 0 .. MAX]
  BY <1>2, ListsBefore DEF FallAsleep, IInv, TypeOK, States
<1>5. Placed(Proc, pLists', Homes(state', prio'))
  <2>1. "SLEEPING" \in States
    BY DEF States
  <2> QED BY <1>1, <1>2, <1>3, <1>4, <2>1, ListsBefore, StateToHead DEF IInv
<1>6. /\ OneCpuPerProcess' /\ cpu' \in [CPU -> Proc \cup {NULL}]
      /\ used' \in [Proc -> 0 .. BUDGET]
  BY <1>4, LeaveCpuLemma, ListsBefore DEF IInv, FallAsleep
<1>7. panic' = panic
  BY <1>1 DEF FallAsleep, assertState
<1>8. TypeOK'
  BY <1>2, <1>4, <1>5, <1>6, <1>7
     DEF Placed, IInv, TypeOK, FallAsleep, familyVars, clockVars
<1>9. ForkOwnsChild'
  BY <1>1, <1>4, ForkFrame, ListsBefore DEF IInv, familyVars
<1>10. PidsUnique' /\ PidsBelow'
  BY <1>1, <1>4, PidFrame, ListsBefore DEF IInv, familyVars
<1> QED BY <1>5, <1>6, <1>7, <1>8, <1>9, <1>10, ListsFrame DEF IInv, AssertionsHold

\* The processes wakeup() finds on the sleep list are asleep.
LEMMA SleepersLemma ==
  ASSUME TypeOK, ListsMatchState, NEW c
  PROVE  /\ Sleepers(c) \in SUBSET Proc
         /\ \A p \in Proc : p \in Sleepers(c) <=> state[p] = "SLEEPING" /\ chan[p] = c
<1>1. Range(pLists[sleep]) \subseteq Proc
  BY ListsBefore, NamesLemma DEF Placed
<1> QED BY <1>1, ListStateLemma DEF Sleepers

\* wakeup(), by the clock interrupt or by anyone else.
LEMMA WakeupStep ==
  ASSUME IInv, NEW W \in SUBSET Proc, \A p \in W : state[p] = "SLEEPING",
         pLists' = WakeLists(pLists, W, prio), state' = Woken(state, W),
         assertState(W, "SLEEPING"),
         UNCHANGED <<familyVars, prio, budget, killed, chan, cpu, lock, pc, np>>,
         used' \in [Proc -> 0 .. BUDGET],
         promoteIn' \in 0 .. TICKS_TO_PROMOTE, phase' \in 0 .. SCHED_INTERVAL - 1
  PROVE  IInv'
<1>1. /\ Placed(Proc, pLists', Homes(state', prio'))
      /\ state' \in [Proc -> States]
  BY ListsBefore, StateWake DEF IInv
<1>2. \A q \in Proc : /\ q \in W => state[q] = "SLEEPING" /\ state'[q] = "RUNNABLE"
                      /\ q \notin W => state'[q] = state[q]
  BY DEF Woken
<1>3. panic' = panic
  BY DEF assertState
<1>4. TypeOK'
  BY <1>1, <1>3 DEF Placed, IInv, TypeOK, familyVars
<1>5. OneCpuPerProcess'
  BY <1>2, CpuFrame DEF IInv
<1>6. ForkOwnsChild'
  BY <1>2, ForkFrame DEF IInv, familyVars
<1>7. PidsUnique' /\ PidsBelow'
  BY <1>2, PidFrame DEF IInv, familyVars
<1> QED BY <1>1, <1>3, <1>4, <1>5, <1>6, <1>7, ListsFrame DEF IInv, AssertionsHold

\* The clock interrupt.
LEMMA TickStep ==
  ASSUME IInv, Tick
  PROVE  IInv'
<1> DEFINE W == Sleepers(TickChan)
<1>1. W \in SUBSET Proc /\ \A p \in W : state[p] = "SLEEPING"
  BY SleepersLemma DEF IInv
<1>2. used' \in [Proc -> 0 .. BUDGET]
  <2>1. \A p \in Proc : used[p] \in 0 .. BUDGET
    BY DEF IInv, TypeOK
  <2> QED BY <2>1, NumberAssumption DEF Tick
<1>3. promoteIn' \in 0 .. TICKS_TO_PROMOTE
  BY NumberAssumption DEF Tick, IInv, TypeOK
<1>4. phase' \in 0 .. SCHED_INTERVAL - 1
  <2>1. phase' = (phase + 1) % SCHED_INTERVAL /\ phase + 1 \in Nat
    BY NumberAssumption DEF Tick, IInv, TypeOK
  <2> QED BY <2>1, NumberAssumption
<1>5. /\ pLists' = WakeLists(pLists, W, prio) /\ state' = Woken(state, W)
      /\ assertState(W, "SLEEPING")
      /\ UNCHANGED <<familyVars, prio, budget, killed, chan, cpu, lock, pc, np>>
  BY DEF Tick
<1> HIDE DEF W
<1> QED BY <1>1, <1>2, <1>3, <1>4, <1>5, WakeupStep

\* allocproc() takes a slot that is free for everyone.
LEMMA AllocStep ==
  ASSUME IInv, NEW p \in Proc, AllocProc(p)
  PROVE  IInv'
<1> DEFINE q == Head(pLists[free])
<1>1. state[p] = "RUNNING"
  BY OnCpuLemma DEF AllocProc, Executing
<1>2. q \in Proc /\ q \in Range(pLists[free])
  BY TailLemma, NamesLemma DEF AllocProc, IInv, TypeOK, ListsMatchState
<1>3. state[q] = "UNUSED"
  BY <1>2, ListStateLemma DEF IInv
<1>4. /\ pLists' = ToHead(pLists, q, free, embryo)
      /\ state' = [state EXCEPT ![q] = "EMBRYO"]
      /\ pid' = [pid EXCEPT ![q] = nextpid]
      /\ np' = [np EXCEPT ![p] = q]
      /\ nextpid' = nextpid + 1 /\ nextpid <= MaxPid
      /\ pc' = [pc EXCEPT ![p] = "alloc"]
      /\ assertState({q}, "UNUSED")
      /\ pc[p] = "kernel"
      /\ UNCHANGED <<clockVars, prio, budget, used, parent, killed, chan, cpu, lock>>
  BY DEF AllocProc
<1> HIDE DEF q
<1>5. panic' = panic
  BY <1>3, <1>4 DEF assertState
<1>6. Placed(Proc, pLists', Homes(state', prio')) /\ state' \in [Proc -> States]
  <2>1. "EMBRYO" \in States
    BY DEF States
  <2>2. Home(state[q], prio[q]) = free /\ Home("EMBRYO", prio[q]) = embryo /\ free # embryo
    BY <1>3 DEF Home, free, embryo
  <2>3. state' \in [Proc -> States]
    BY <1>2, <1>4, <2>1 DEF IInv, TypeOK
  <2>4. Placed(Proc, ToHead(pLists, q, free, embryo), Homes([state EXCEPT ![q] = "EMBRYO"], prio))
    BY <1>2, <2>1, <2>2, ListsBefore, KeepPriority DEF IInv
  <2> QED BY <1>4, <2>3, <2>4
<1>7. TypeOK'
  <2>1. nextpid \in 0 .. MaxPid /\ nextpid' \in 1 .. MaxPid + 1
    BY <1>4, NumberAssumption DEF IInv, TypeOK
  <2>2. pid' \in [Proc -> 0 .. MaxPid]
    BY <1>4, <2>1 DEF IInv, TypeOK
  <2>3. pc' \in [Proc -> Places] /\ np' \in [Proc -> Proc \cup {NULL}]
    BY <1>2, <1>4 DEF IInv, TypeOK, Places
  <2> QED BY <1>4, <1>5, <1>6, <2>1, <2>2, <2>3 DEF Placed, IInv, TypeOK, clockVars
<1>8. OneCpuPerProcess'
  BY <1>2, <1>3, <1>4, CpuFrame DEF IInv, TypeOK
<1>9. ForkOwnsChild'
  <2>1. \A r \in Proc : pc'[r] \in {"alloc", "copied"} =>
          \/ r = p /\ pc'[r] = "alloc" /\ np'[r] = q
          \/ r # p /\ pc'[r] = pc[r] /\ np'[r] = np[r] /\ np[r] # q /\ r # q
    BY <1>1, <1>2, <1>3, <1>4 DEF IInv, ForkOwnsChild, TypeOK
  <2>2. \A r \in Proc \ {q} : state'[r] = state[r]
    BY <1>4 DEF IInv, TypeOK
  <2>3. state'[q] = "EMBRYO" /\ p # q /\ prio' = prio /\ parent' = parent
    BY <1>1, <1>2, <1>3, <1>4 DEF IInv, TypeOK
  <2> QED BY <1>1, <1>2, <2>1, <2>2, <2>3 DEF IInv, ForkOwnsChild
<1>10. PidsUnique' /\ PidsBelow'
  <2>1. nextpid \in Nat /\ \A r \in Proc : pid[r] \in Nat
    BY NumberAssumption DEF IInv, TypeOK
  <2>2. pid'[q] = nextpid /\ \A r \in Proc \ {q} : pid'[r] = pid[r] /\ state'[r] = state[r]
    BY <1>2, <1>4 DEF IInv, TypeOK
  <2> QED BY <1>4, <2>1, <2>2 DEF IInv, PidsUnique, PidsBelow
<1> QED BY <1>5, <1>6, <1>7, <1>8, <1>9, <1>10, ListsFrame DEF IInv, AssertionsHold

\* The child of fork() goes back to the free list.
LEMMA ForkFailStep ==
  ASSUME IInv, NEW p \in Proc, ForkFail(p)
  PROVE  IInv'
<1> DEFINE q == np[p]
<1>1. /\ q \in Proc /\ state[q] = "EMBRYO" /\ state[p] = "RUNNING"
      /\ \A r \in Proc : r # p /\ pc[r] \in {"alloc", "copied"} => np[r] # q
  BY OnCpuLemma DEF ForkFail, Executing, IInv, ForkOwnsChild
<1>2. /\ pLists' = ToHead(pLists, q, embryo, free)
      /\ state' = [state EXCEPT ![q] = "UNUSED"]
      /\ prio' \in {prio, [prio EXCEPT ![q] = 0]}
      /\ budget' \in {budget, [budget EXCEPT ![q] = BUDGET]}
      /\ np' = [np EXCEPT ![p] = NULL]
      /\ pc' = [pc EXCEPT ![p] = "user"]
      /\ assertState({q}, "EMBRYO")
      /\ UNCHANGED <<familyVars, clockVars, used, killed, chan, cpu, lock>>
  BY DEF ForkFail, AllocDone
<1> HIDE DEF q
<1>3. panic' = panic
  BY <1>1, <1>2 DEF assertState
<1>4. /\ prio' \in [Proc -> 0 .. MAX] /\ state' \in [Proc -> States]
      /\ budget' \in [Proc -> 1 .. BUDGET]
  <2>1. [prio EXCEPT ![q] = 0] \in [Proc -> 0 .. MAX]
    BY ResetLemma DEF IInv, TypeOK
  <2>2. [budget EXCEPT ![q] = BUDGET] \in [Proc -> 1 .. BUDGET]
    BY ResetLemma DEF IInv, TypeOK
  <2>3. state' \in [Proc -> States]
    BY <1>2 DEF IInv, TypeOK, States
  <2> QED BY <1>2, <2>1, <2>2, <2>3 DEF IInv, TypeOK
<1>5. Placed(Proc, pLists', Homes(state', prio'))
  <2>1. /\ "UNUSED" \in States /\ 0 \in 0 .. MAX
        /\ Home(state[q], prio[q]) = embryo /\ free # embryo
        /\ \A r : Home("UNUSED", r) = free
    BY <1>1, MaxAssumption DEF States, Home, free, embryo
  <2>2. Placed(Proc, pLists', Homes(state', prio))
    BY <1>1, <1>2, <2>1, ListsBefore, KeepPriority DEF IInv
  <2>3. Placed(Proc, pLists', Homes(state', [prio EXCEPT ![q] = 0]))
    BY <1>1, <1>2, <2>1, ListsBefore, StateToHead DEF IInv
  <2> QED BY <1>2, <2>2, <2>3
<1>6. TypeOK'
  <2>1. pc' \in [Proc -> Places] /\ np' \in [Proc -> Proc \cup {NULL}]
    BY <1>2 DEF IInv, TypeOK, Places
  <2> QED BY <1>2, <1>3, <1>4, <1>5, <2>1 DEF Placed, IInv, TypeOK, clockVars, familyVars
<1>7. OneCpuPerProcess'
  BY <1>1, <1>2, CpuFrame DEF IInv, TypeOK
<1>8. ForkOwnsChild'
  <2>1. \A r \in Proc : pc'[r] \in {"alloc", "copied"} =>
          r # p /\ pc'[r] = pc[r] /\ np'[r] = np[r] /\ np[r] # q /\ r # q
    <3> SUFFICES ASSUME NEW r \in Proc, pc'[r] \in {"alloc", "copied"}
                 PROVE  r # p /\ pc'[r] = pc[r] /\ np'[r] = np[r] /\ np[r] # q /\ r # q
      OBVIOUS
    <3>1. r # p /\ pc'[r] = pc[r] /\ np'[r] = np[r]
      BY <1>2 DEF IInv, TypeOK
    <3>2. state[r] \in {"RUNNABLE", "RUNNING"}
      BY <3>1, ForkingLemma DEF IInv
    <3> QED BY <1>1, <3>1, <3>2
  <2>2. /\ \A r \in Proc \ {q} : state'[r] = state[r] /\ prio'[r] = prio[r]
        /\ parent' = parent
    BY <1>2 DEF IInv, TypeOK, familyVars
  <2> QED BY <2>1, <2>2, ForkLeave DEF IInv
<1>9. PidsUnique' /\ PidsBelow'
  BY <1>1, <1>2, PidFrame DEF IInv, TypeOK, familyVars
<1> QED BY <1>3, <1>5, <1>6, <1>7, <1>8, <1>9, ListsFrame DEF IInv, AssertionsHold

\* The unlocked middle of fork().
LEMMA ForkCopyStep ==
  ASSUME IInv, NEW p \in Proc, ForkCopy(p)
  PROVE  IInv'
<1> DEFINE q == np[p]
<1>1. /\ q \in Proc /\ state[q] = "EMBRYO" /\ state[p] = "RUNNING"
      /\ \A r \in Proc : r # p /\ pc[r] \in {"alloc", "copied"} => np[r] # q
  BY OnCpuLemma DEF ForkCopy, IInv, ForkOwnsChild
<1>2. /\ prio' = [prio EXCEPT ![q] = 0]
      /\ budget' = [budget EXCEPT ![q] = BUDGET]
      /\ parent' = [parent EXCEPT ![q] = p]
      /\ pc' = [pc EXCEPT ![p] = "copied"] /\ pc[p] = "alloc"
      /\ UNCHANGED <<pLists, state, used, pid, nextpid, clockVars, killed, chan, cpu,
                     lock, np, panic>>
  BY DEF ForkCopy, AllocDone
<1> HIDE DEF q
<1>3. TypeOK'
  <2>1. prio' \in [Proc -> 0 .. MAX] /\ budget' \in [Proc -> 1 .. BUDGET]
    BY <1>2, ResetLemma DEF IInv, TypeOK
  <2>2. pc' \in [Proc -> Places] /\ parent' \in [Proc -> Proc \cup {NULL}]
    BY <1>2 DEF IInv, TypeOK, Places
  <2> QED BY <1>2, <2>1, <2>2 DEF IInv, TypeOK, clockVars
<1>4. ListsMatchState'
  <2>1. \A r \in Proc : Home(state'[r], prio'[r]) = Home(state[r], prio[r])
    BY <1>1, <1>2 DEF IInv, TypeOK, Home
  <2> QED BY <1>2, <2>1 DEF IInv, ListsMatchState
<1>5. OneCpuPerProcess'
  BY <1>2, CpuFrame DEF IInv
<1>6. ForkOwnsChild'
  <2>1. /\ pc'[p] = "copied" /\ np'[p] = q /\ prio'[q] = 0 /\ parent'[q] = p
        /\ \A r \in Proc : pc'[r] \in {"alloc", "copied"} => pc[r] \in {"alloc", "copied"}
        /\ \A r \in Proc \ {p} : pc'[r] = pc[r]
        /\ \A r \in Proc \ {q} : prio'[r] = prio[r] /\ parent'[r] = parent[r]
        /\ np' = np /\ state' = state
    BY <1>1, <1>2 DEF IInv, TypeOK, q
  <2> SUFFICES ASSUME NEW r \in Proc, pc'[r] \in {"alloc", "copied"}
               PROVE  /\ np'[r] \in Proc
                      /\ state'[np'[r]] = "EMBRYO"
                      /\ state'[r] \in {"RUNNABLE", "RUNNING"}
                      /\ pc'[r] = "copied" => prio'[np'[r]] = 0 /\ parent'[np'[r]] = r
                      /\ \A s \in Proc : pc'[s] \in {"alloc", "copied"} /\ np'[s] = np'[r]
                                          => s = r
    BY DEF ForkOwnsChild
  <2>2. /\ np[r] \in Proc /\ state[np[r]] = "EMBRYO"
        /\ state[r] \in {"RUNNABLE", "RUNNING"}
        /\ pc[r] = "copied" => prio[np[r]] = 0 /\ parent[np[r]] = r
        /\ \A s \in Proc : pc[s] \in {"alloc", "copied"} /\ np[s] = np[r] => s = r
    BY <2>1, ForkingLemma DEF IInv
  <2>3. \A s \in Proc : pc'[s] \in {"alloc", "copied"} /\ np'[s] = np'[r] => s = r
    BY <2>1, <2>2
  <2>4. pc'[r] = "copied" => prio'[np'[r]] = 0 /\ parent'[np'[r]] = r
    <3>1. CASE r = p
      BY <2>1, <3>1
    <3>2. CASE r # p
      BY <1>1, <2>1, <2>2, <3>2
    <3> QED BY <3>1, <3>2
  <2> QED BY <2>1, <2>2, <2>3, <2>4
<1>7. PidsUnique' /\ PidsBelow'
  BY <1>2, PidFrame DEF IInv
<1> QED BY <1>2, <1>3, <1>4, <1>5, <1>6, <1>7 DEF IInv, AssertionsHold

\* The child of fork() becomes runnable.
LEMMA ForkPublishStep ==
  ASSUME IInv, NEW p \in Proc, ForkPublish(p)
  PROVE  IInv'
<1> DEFINE q == np[p]
<1>1. /\ q \in Proc /\ state[q] = "EMBRYO" /\ state[p] = "RUNNING" /\ prio[q] = 0
      /\ \A r \in Proc : r # p /\ pc[r] \in {"alloc", "copied"} => np[r] # q
  BY OnCpuLemma DEF ForkPublish, Executing, IInv, ForkOwnsChild
<1>2. /\ pLists' = ToTail(pLists, q, embryo, 0)
      /\ state' = [state EXCEPT ![q] = "RUNNABLE"]
      /\ np' = [np EXCEPT ![p] = NULL]
      /\ pc' = [pc EXCEPT ![p] = "user", ![q] = "user"]
      /\ assertState({q}, "EMBRYO")
      /\ UNCHANGED <<familyVars, clockVars, prio, budget, used, killed, chan, cpu, lock>>
  BY DEF ForkPublish
<1> HIDE DEF q
<1>3. panic' = panic
  BY <1>1, <1>2 DEF assertState
<1>4. state' \in [Proc -> States] /\ Placed(Proc, pLists', Homes(state', prio'))
  <2>1. /\ "RUNNABLE" \in States
        /\ Home(state[q], prio[q]) = embryo /\ 0 # embryo
        /\ Home("RUNNABLE", prio[q]) = 0
    BY <1>1 DEF States, Home, embryo
  <2> QED BY <1>1, <1>2, <2>1, ListsBefore, KeepPriority DEF IInv
<1>5. TypeOK'
  <2>1. pc' \in [Proc -> Places] /\ np' \in [Proc -> Proc \cup {NULL}]
    BY <1>2 DEF IInv, TypeOK, Places
  <2> QED BY <1>2, <1>3, <1>4, <2>1 DEF Placed, IInv, TypeOK, clockVars, familyVars
<1>6. OneCpuPerProcess'
  BY <1>1, <1>2, CpuFrame DEF IInv, TypeOK
<1>7. ForkOwnsChild'
  <2>1. \A r \in Proc : pc'[r] \in {"alloc", "copied"} =>
          r # p /\ pc'[r] = pc[r] /\ np'[r] = np[r] /\ np[r] # q /\ r # q
    <3> SUFFICES ASSUME NEW r \in Proc, pc'[r] \in {"alloc", "copied"}
                 PROVE  r # p /\ pc'[r] = pc[r] /\ np'[r] = np[r] /\ np[r] # q /\ r # q
      OBVIOUS
    <3>1. r # p /\ pc'[r] = pc[r] /\ np'[r] = np[r]
      BY <1>2 DEF IInv, TypeOK
    <3>2. state[r] \in {"RUNNABLE", "RUNNING"}
      BY <3>1, ForkingLemma DEF IInv
    <3> QED BY <1>1, <3>1, <3>2
  <2>2. /\ \A r \in Proc \ {q} : state'[r] = state[r] /\ prio'[r] = prio[r]
        /\ parent' = parent
    BY <1>2 DEF IInv, TypeOK, familyVars
  <2> QED BY <2>1, <2>2, ForkLeave DEF IInv
<1>8. PidsUnique' /\ PidsBelow'
  BY <1>1, <1>2, PidFrame DEF IInv, TypeOK, familyVars
<1> QED BY <1>3, <1>4, <1>5, <1>6, <1>7, <1>8, ListsFrame DEF IInv, AssertionsHold

\* exit() wakes the parent, perhaps initproc, and makes a zombie of the caller.
LEMMA ExitStep ==
  ASSUME IInv, NEW p \in Proc, ExitFinish(p)
  PROVE  IInv'
<1> DEFINE W1 == ParentWoken(p)
           W2 == InitWoken(p) \ W1
           L1 == WakeLists(pLists, W1, prio)
           L2 == WakeLists(L1, W2, prio)
           st1 == Woken(state, W1)
           st2 == Woken(st1, W2)
<1>1. state[p] = "RUNNING" /\ pc[p] = "exit"
  BY OnCpuLemma DEF ExitFinish, Executing
<1>2. /\ W1 \in SUBSET Proc /\ W2 \in SUBSET Proc
      /\ \A q \in W1 \cup W2 : state[q] = "SLEEPING"
  <2>1. /\ W1 \in SUBSET Proc /\ Sleepers(initproc) \in SUBSET Proc
        /\ \A q \in W1 \cup Sleepers(initproc) : state[q] = "SLEEPING"
    BY SleepersLemma DEF IInv, ParentWoken
  <2>2. InitWoken(p) \subseteq Sleepers(initproc)
    BY DEF InitWoken
  <2> QED BY <2>1, <2>2
<1>3. /\ pLists' = ToHead(L2, p, running, zombie)
      /\ state' = [Woken(state, W1 \cup W2) EXCEPT ![p] = "ZOMBIE"]
      /\ panic' = IF \/ \E q \in W1 \cup W2 : state[q] # "SLEEPING"
                     \/ state[p] # "RUNNING"
                  THEN "Incorrect Proc State!" ELSE panic
      /\ parent' = [q \in Proc |-> IF q \in Children(p) THEN initproc ELSE parent[q]]
      /\ LeaveCpu(p)
      /\ UNCHANGED <<pid, nextpid, clockVars, prio, budget, killed, chan, lock, pc, np>>
  BY DEF ExitFinish
<1> HIDE DEF W1, W2
<1>4. panic' = panic
  BY <1>1, <1>2, <1>3
<1>5. Placed(Proc, L1, Homes(st1, prio)) /\ st1 \in [Proc -> States]
  BY <1>2, ListsBefore, StateWake DEF IInv
<1>6. \A q \in W2 : st1[q] = "SLEEPING"
  BY <1>2 DEF Woken, W2
<1> HIDE DEF st1, L1
<1>7. Placed(Proc, L2, Homes(st2, prio)) /\ st2 \in [Proc -> States]
  BY <1>2, <1>5, <1>6, ListsBefore, StateWake DEF IInv
<1>8. /\ st2 = Woken(state, W1 \cup W2)
      /\ \A q \in Proc : \/ st2[q] = state[q]
                         \/ state[q] = "SLEEPING" /\ st2[q] = "RUNNABLE"
  BY <1>2 DEF Woken, st1
<1> HIDE DEF st2, L2
<1>9. /\ state' = [st2 EXCEPT ![p] = "ZOMBIE"] /\ state' \in [Proc -> States]
      /\ st2[p] = "RUNNING"
  BY <1>1, <1>3, <1>7, <1>8 DEF States
<1>10. Placed(Proc, pLists', Homes(state', prio'))
  <2>1. /\ "ZOMBIE" \in States
        /\ Home(st2[p], prio[p]) = running /\ Home("ZOMBIE", prio[p]) = zombie
        /\ running # zombie
    BY <1>9 DEF States, Home, running, zombie
  <2>2. Placed(Proc, ToHead(L2, p, running, zombie), Homes([st2 EXCEPT ![p] = "ZOMBIE"], prio))
    BY <1>7, <2>1, ListsBefore, KeepPriority DEF IInv
  <2> QED BY <2>2, <1>3, <1>9
<1>11. /\ state'[p] = "ZOMBIE"
       /\ \A q \in Proc \ {p} : \/ state'[q] = state[q]
                                \/ state[q] = "SLEEPING" /\ state'[q] = "RUNNABLE"
  BY <1>7, <1>8, <1>9
<1>12. /\ OneCpuPerProcess' /\ cpu' \in [CPU -> Proc \cup {NULL}]
       /\ used' \in [Proc -> 0 .. BUDGET]
  BY <1>3, <1>9, <1>11, LeaveCpuLemma DEF IInv
<1>13. TypeOK'
  <2>1. parent' \in [Proc -> Proc \cup {NULL}]
    BY <1>3, ProcAssumption DEF IInv, TypeOK
  <2> QED BY <1>3, <1>4, <1>9, <1>10, <1>12, <2>1 DEF Placed, IInv, TypeOK, clockVars
<1>14. ForkOwnsChild'
  <2>1. ASSUME NEW q \in Proc, pc[q] \in {"alloc", "copied"}
        PROVE  LET e == np[q] IN
                 /\ q # p /\ e \in Proc /\ state[e] = "EMBRYO" /\ state'[e] = "EMBRYO"
                 /\ parent[e] = q => parent'[e] = q
                 /\ state'[q] = state[q]
    <3> DEFINE e == np[q]
    <3>1. /\ q # p /\ e \in Proc /\ state[e] = "EMBRYO"
          /\ state[q] \in {"RUNNABLE", "RUNNING"}
      BY <1>1, <2>1, ForkingLemma DEF IInv
    <3>2. state'[e] = "EMBRYO" /\ state'[q] = state[q]
      BY <1>1, <1>11, <3>1
    <3>3. parent[e] = q => parent'[e] = q
      BY <1>3, <3>1 DEF Children
    <3> QED BY <3>1, <3>2, <3>3
  <2> QED BY <1>3, <2>1, ForkFrame DEF IInv
<1>15. PidsUnique' /\ PidsBelow'
  BY <1>1, <1>3, <1>11, PidFrame DEF IInv
<1> QED BY <1>4, <1>10, <1>12, <1>13, <1>14, <1>15, ListsFrame DEF IInv, AssertionsHold

\* wait() frees a zombie child.
LEMMA ReapStep ==
  ASSUME IInv, NEW p \in Proc, WaitReap(p)
  PROVE  IInv'
<1>1. state[p] = "RUNNING" /\ pc[p] = "wait"
  BY OnCpuLemma DEF WaitReap, InWait
<1>2. PICK i \in ZombieKids(p) :
        LET q == pLists[zombie][i] IN
            /\ pLists' = ToHead(pLists, q, zombie, free)
            /\ assertState({q}, "ZOMBIE")
            /\ state' = [state EXCEPT ![q] = "UNUSED"]
            /\ pid' = [pid EXCEPT ![q] = 0]
            /\ parent' = [parent EXCEPT ![q] = NULL]
            /\ killed' = [killed EXCEPT ![q] = FALSE]
  BY DEF WaitReap
<1> DEFINE q == pLists[zombie][i]
<1>3. q \in Proc /\ q \in Range(pLists[zombie])
  <2>1. pLists[zombie] \in Seq(Proc)
    BY NamesLemma DEF IInv, TypeOK
  <2>2. i \in DOMAIN pLists[zombie]
    BY DEF ZombieKids
  <2> QED BY <2>1, <2>2 DEF Range
<1>4. state[q] = "ZOMBIE"
  BY <1>3, ListStateLemma DEF IInv
<1>5. /\ pLists' = ToHead(pLists, q, zombie, free)
      /\ state' = [state EXCEPT ![q] = "UNUSED"]
      /\ pid' = [pid EXCEPT ![q] = 0]
      /\ parent' = [parent EXCEPT ![q] = NULL]
      /\ killed' = [killed EXCEPT ![q] = FALSE]
      /\ lock' = NULL
      /\ pc' = [pc EXCEPT ![p] = "user"]
      /\ UNCHANGED <<nextpid, clockVars, prio, budget, used, chan, cpu, np>>
  BY <1>2 DEF WaitReap
<1>6. panic' = panic
  BY <1>2, <1>4 DEF assertState
<1> HIDE DEF q
<1>7. state' \in [Proc -> States] /\ Placed(Proc, pLists', Homes(state', prio'))
  <2>1. /\ "UNUSED" \in States
        /\ Home(state[q], prio[q]) = zombie /\ zombie # free
        /\ Home("UNUSED", prio[q]) = free
    BY <1>4 DEF States, Home, zombie, free
  <2> QED BY <1>3, <1>5, <2>1, ListsBefore, KeepPriority DEF IInv
<1>8. TypeOK'
  <2>0. 0 \in 0 .. MaxPid
    BY NumberAssumption
  <2>1. /\ pid' \in [Proc -> 0 .. MaxPid] /\ parent' \in [Proc -> Proc \cup {NULL}]
    BY <1>5, <2>0 DEF IInv, TypeOK
  <2>2. killed' \in [Proc -> BOOLEAN] /\ pc' \in [Proc -> Places]
    BY <1>5 DEF IInv, TypeOK, Places
  <2> QED BY <1>5, <1>6, <1>7, <2>1, <2>2 DEF Placed, IInv, TypeOK, clockVars
<1>9. OneCpuPerProcess'
  BY <1>3, <1>4, <1>5, CpuFrame DEF IInv, TypeOK
<1>10. ForkOwnsChild'
  <2>1. /\ \A r \in Proc \ {q} : state'[r] = state[r] /\ parent'[r] = parent[r]
        /\ \A r \in Proc : pc'[r] \in {"alloc", "copied"} => pc'[r] = pc[r]
    BY <1>5 DEF IInv, TypeOK
  <2> QED BY <1>4, <1>5, <2>1, ForkFrame DEF IInv
<1>11. PidsUnique' /\ PidsBelow'
  <2>1. \A r \in Proc \ {q} : state'[r] = state[r] /\ pid'[r] = pid[r]
    BY <1>5 DEF IInv, TypeOK
  <2>2. state'[q] = "UNUSED" /\ pid'[q] = 0 /\ 0 < nextpid /\ nextpid' = nextpid
    BY <1>3, <1>5, NumberAssumption DEF IInv, TypeOK
  <2> QED BY <2>1, <2>2 DEF IInv, PidsUnique, PidsBelow
<1> QED BY <1>6, <1>7, <1>8, <1>9, <1>10, <1>11, ListsFrame DEF IInv, AssertionsHold

\* kill() marks a process, and wakes it if it is asleep.
LEMMA KillStep ==
  ASSUME IInv, NEW p \in Proc, NEW x, Kill(p, x)
  PROVE  IInv'
<1>1. PICK t \in Proc :
        /\ killed' = [killed EXCEPT ![t] = TRUE]
        /\ IF Asleep(t)
           THEN /\ pLists' = ToTail(pLists, t, sleep, prio[t])
                /\ assertState({t}, "SLEEPING")
                /\ state' = [state EXCEPT ![t] = "RUNNABLE"]
           ELSE UNCHANGED <<pLists, state, panic>>
  BY DEF Kill
<1>2. /\ pc' = [pc EXCEPT ![p] = "user"]
      /\ UNCHANGED <<familyVars, clockVars, prio, budget, used, chan, cpu, lock, np>>
  BY DEF Kill
<1>3. /\ killed' \in [Proc -> BOOLEAN] /\ pc' \in [Proc -> Places]
      /\ \A q \in Proc : pc'[q] \in {"alloc", "copied"} => pc'[q] = pc[q]
  BY <1>1, <1>2 DEF IInv, TypeOK, Places
<1>4. CASE ~Asleep(t)
  <2>1. UNCHANGED <<pLists, state, panic>>
    BY <1>1, <1>4
  <2>2. TypeOK'
    BY <1>2, <1>3, <2>1 DEF IInv, TypeOK, familyVars, clockVars
  <2> QED BY <1>2, <1>3, <2>1, <2>2, QuietStep DEF IInv, AssertionsHold, familyVars
<1>5. CASE Asleep(t)
  <2>1. state[t] = "SLEEPING"
    BY <1>5, ListStateLemma DEF IInv, Asleep
  <2>2. /\ pLists' = ToTail(pLists, t, sleep, prio[t])
        /\ state' = [state EXCEPT ![t] = "RUNNABLE"]
        /\ panic' = panic
    BY <1>1, <1>5, <2>1 DEF assertState
  <2>3. state' \in [Proc -> States] /\ Placed(Proc, pLists', Homes(state', prio'))
    <3>1. /\ "RUNNABLE" \in States
          /\ Home(state[t], prio[t]) = sleep /\ sleep # prio[t]
          /\ Home("RUNNABLE", prio[t]) = prio[t]
      BY <2>1 DEF States, Home, sleep, IInv, TypeOK
    <3> QED BY <1>2, <2>2, <3>1, ListsBefore, KeepPriority DEF IInv
  <2>4. TypeOK'
    BY <1>2, <1>3, <2>2, <2>3 DEF Placed, IInv, TypeOK, clockVars, familyVars
  <2>5. \A q \in Proc \ {t} : state'[q] = state[q]
    BY <2>2 DEF IInv, TypeOK
  <2>6. state'[t] = "RUNNABLE"
    BY <2>2 DEF IInv, TypeOK
  <2>7. OneCpuPerProcess'
    BY <1>2, <2>1, <2>5, <2>6, CpuFrame DEF IInv
  <2>8. ForkOwnsChild'
    BY <1>2, <1>3, <2>1, <2>5, <2>6, ForkFrame DEF IInv, familyVars
  <2>9. PidsUnique' /\ PidsBelow'
    BY <1>2, <2>1, <2>5, <2>6, PidFrame DEF IInv, familyVars
  <2> QED BY <2>2, <2>3, <2>4, <2>7, <2>8, <2>9, ListsFrame DEF IInv, AssertionsHold
<1> QED BY <1>4, <1>5

\* setpriority() moves a ready process, or only changes its priority.
LEMMA SetpriorityStep ==
  ASSUME IInv, NEW p \in Proc, NEW x, NEW pr, Setpriority(p, x, pr)
  PROVE  IInv'
<1>1. PICK t \in Proc :
        /\ \/ \E i \in OnList(t) \cap ReadyList :
                /\ i # pr
                /\ pLists' = ToTail(pLists, t, i, pr)
                /\ panic' = CASE prio[t] # i -> "Incorrect Proc Priority!"
                              [] state[t] # "RUNNABLE" -> "Incorrect Proc State!"
                              [] OTHER -> panic
           \/ /\ OnList(t) \cap {running, sleep} # {}
              /\ UNCHANGED <<pLists, panic>>
        /\ prio' = [prio EXCEPT ![t] = pr]
        /\ budget' = [budget EXCEPT ![t] = BUDGET]
  BY DEF Setpriority
<1>2. /\ pc' = [pc EXCEPT ![p] = "user"] /\ pr \in 0 .. MAX
      /\ UNCHANGED <<familyVars, clockVars, state, used, killed, chan, cpu, lock, np>>
  BY DEF Setpriority
<1>3. /\ pc' \in [Proc -> Places]
      /\ \A q \in Proc : pc'[q] \in {"alloc", "copied"} => pc'[q] = pc[q]
  BY <1>2 DEF IInv, TypeOK, Places
<1>4. prio' \in [Proc -> 0 .. MAX] /\ budget' \in [Proc -> 1 .. BUDGET]
  BY <1>1, <1>2, ResetLemma DEF IInv, TypeOK
<1>5. /\ Placed(Proc, pLists', Homes(state', prio'))
      /\ panic' = panic /\ state[t] # "EMBRYO"
  <2>1. CASE OnList(t) \cap {running, sleep} # {} /\ UNCHANGED <<pLists, panic>>
    <3>1. state[t] \in {"RUNNING", "SLEEPING"}
      BY <2>1, ListStateLemma DEF IInv, OnList
    <3>2. Homes(state', prio') = Homes(state, prio)
      <4>1. \A q \in Proc : Home(state[q], prio'[q]) = Home(state[q], prio[q])
        BY <1>1, <3>1 DEF Home, IInv, TypeOK
      <4> QED BY <1>2, <4>1 DEF Homes
    <3> QED BY <2>1, <3>1, <3>2, ListsBefore DEF IInv
  <2>2. ASSUME NEW i \in OnList(t) \cap ReadyList, i # pr,
               pLists' = ToTail(pLists, t, i, pr),
               panic' = CASE prio[t] # i -> "Incorrect Proc Priority!"
                          [] state[t] # "RUNNABLE" -> "Incorrect Proc State!"
                          [] OTHER -> panic
        PROVE  /\ Placed(Proc, pLists', Homes(state', prio'))
               /\ panic' = panic /\ state[t] # "EMBRYO"
    <3>1. state[t] = "RUNNABLE" /\ prio[t] = i
      BY ListStateLemma DEF IInv, OnList
    <3>2. /\ "RUNNABLE" \in States
          /\ Home(state[t], prio[t]) = i
          /\ Home("RUNNABLE", pr) = pr
      BY <3>1 DEF States, Home
    <3>3. Placed(Proc, pLists', Homes([state EXCEPT ![t] = "RUNNABLE"], [prio EXCEPT ![t] = pr]))
      BY <1>2, <2>2, <3>2, ListsBefore, StateToTail DEF IInv
    <3>4. [state EXCEPT ![t] = "RUNNABLE"] = state'
      BY <1>2, <3>1 DEF IInv, TypeOK
    <3> QED BY <1>1, <2>2, <3>1, <3>3, <3>4
  <2> QED BY <1>1, <2>1, <2>2
<1>6. TypeOK'
  BY <1>2, <1>3, <1>4, <1>5 DEF Placed, IInv, TypeOK, clockVars, familyVars
<1>7. OneCpuPerProcess'
  BY <1>2, CpuFrame DEF IInv
<1>8. ForkOwnsChild'
  <2>1. \A q \in Proc \ {t} : prio'[q] = prio[q]
    BY <1>1 DEF IInv, TypeOK
  <2> QED BY <1>2, <1>3, <1>5, <2>1, ForkFrame DEF IInv, familyVars
<1>9. PidsUnique' /\ PidsBelow'
  BY <1>2, PidFrame DEF IInv, familyVars
<1> QED BY <1>5, <1>6, <1>7, <1>8, <1>9, ListsFrame DEF IInv, AssertionsHold

\* A nonempty set of priorities has a best one.
LEMMA BestLemma ==
  ASSUME NEW F \in SUBSET ReadyList, F # {}
  PROVE  \E i \in F : \A j \in F : i <= j
<1>1. F \subseteq Nat
  BY MaxAssumption DEF ReadyList
<1>2. PICK i \in F : \A j \in F : ~(<<j, i>> \in OpToRel(<, Nat))
  BY <1>1, NatLessThanWellFounded, WFMin
<1>3. \A j \in F : ~(j < i)
  BY <1>1, <1>2 DEF OpToRel
<1> QED BY <1>1, <1>3

\* scheduler() dispatches the head of the best ready list, after promotion.
LEMMA SchedulerStep ==
  ASSUME IInv, NEW c \in CPU, Scheduler(c)
  PROVE  IInv'
<1> DEFINE L == IF Due THEN PromoteHeads(pLists) ELSE pLists
           P == IF Due THEN PromotedPrio ELSE prio
           Filled == {i \in ReadyList : L[i] # <<>>}
           i == CHOOSE i \in Filled : \A j \in Filled : i <= j
           p == Head(L[i])
<1>1. /\ P \in [Proc -> 0 .. MAX]
      /\ Placed(Proc, L, Homes(state, P))
      /\ \A q \in Proc : state[q] = "EMBRYO" => P[q] = prio[q]
      /\ Due => PromotionOK
  BY StatePromote, ListsBefore DEF IInv
<1>2. /\ cpu[c] = NULL /\ prio' = P
      /\ promoteIn' = IF Due THEN TICKS_TO_PROMOTE ELSE promoteIn
      /\ UNCHANGED <<familyVars, phase, budget, killed, pc, np>>
  BY DEF Scheduler
<1>3. promoteIn' \in 0 .. TICKS_TO_PROMOTE
  BY <1>2, NumberAssumption DEF IInv, TypeOK
<1>5. CASE Filled = {}
  <2>1. pLists' = L /\ UNCHANGED <<state, used, chan, cpu, lock, panic>>
    BY <1>5 DEF Scheduler
  <2> HIDE DEF L, P
  <2>2. TypeOK'
    BY <1>1, <1>2, <1>3, <2>1 DEF Placed, IInv, TypeOK, familyVars
  <2>3. OneCpuPerProcess'
    BY <2>1, CpuFrame DEF IInv
  <2>4. ForkOwnsChild'
    BY <1>1, <1>2, <2>1, ForkFrame DEF IInv, familyVars
  <2>5. PidsUnique' /\ PidsBelow'
    BY <1>2, <2>1, PidFrame DEF IInv, familyVars
  <2> QED BY <1>1, <1>2, <2>1, <2>2, <2>3, <2>4, <2>5, ListsFrame DEF IInv, AssertionsHold
<1>6. CASE Filled # {}
  <2>1. /\ pLists' = ToHead(L, p, i, running)
        /\ state' = [state EXCEPT ![p] = "RUNNING"]
        /\ used' = [used EXCEPT ![p] = 0]
        /\ chan' = [chan EXCEPT ![p] = NULL]
        /\ cpu' = [cpu EXCEPT ![c] = p]
        /\ lock' = IF chan[p] = p THEN p ELSE NULL
        /\ panic' = CASE (Due /\ ~PromotionOK) \/ P[p] # i -> "Incorrect Proc Priority!"
                      [] state[p] # "RUNNABLE" -> "Incorrect Proc State!"
                      [] OTHER -> panic
    BY <1>6 DEF Scheduler
  <2>2. i \in ReadyList /\ L[i] # <<>>
    <3> HIDE DEF L
    <3>1. \E k \in Filled : \A j \in Filled : k <= j
      BY <1>6, BestLemma
    <3>2. i \in Filled
      BY <3>1
    <3> QED BY <3>2
  <2> HIDE DEF L, P, i
  <2>3. p \in Range(L[i]) /\ p \in Proc
    BY <1>1, <2>2, TailLemma, NamesLemma DEF Placed
  <2> HIDE DEF p
  <2>4. state[p] = "RUNNABLE" /\ P[p] = i
    <3>1. Home(state[p], P[p]) = i
      <4>1. i \in ListName
        BY <2>2, NamesLemma
      <4>2. Range(L[i]) = {q \in Proc : Homes(state, P)[q] = i}
        BY <1>1, <4>1 DEF Placed
      <4>3. Homes(state, P)[p] = i
        BY <2>3, <4>2
      <4> QED BY <2>3, <4>3 DEF Homes
    <3>2. state[p] \in States /\ P[p] \in 0 .. MAX
      BY <1>1, <2>3 DEF IInv, TypeOK
    <3> QED BY <2>2, <3>1, <3>2, HomeLemma
  <2>5. panic' = panic
    BY <1>1, <2>1, <2>4
  <2>6. state' \in [Proc -> States] /\ Placed(Proc, pLists', Homes(state', prio'))
    <3>1. /\ "RUNNING" \in States
          /\ Home(state[p], P[p]) = i /\ i # running
          /\ Home("RUNNING", P[p]) = running
      BY <2>2, <2>4 DEF States, Home, running, ReadyList
    <3>2. Placed(Proc, ToHead(L, p, i, running), Homes([state EXCEPT ![p] = "RUNNING"], P))
      BY <1>1, <2>3, <3>1, ListsBefore, KeepPriority DEF IInv
    <3> QED BY <1>2, <2>1, <2>3, <3>1, <3>2, ListsBefore DEF IInv
  <2>7. TypeOK'
    <3>1. used' \in [Proc -> 0 .. BUDGET] /\ chan' \in [Proc -> Proc \cup Chan \cup {NULL}]
      BY <2>1, ResetLemma DEF IInv, TypeOK
    <3>2. cpu' \in [CPU -> Proc \cup {NULL}] /\ lock' \in Proc \cup {NULL}
      BY <2>1, <2>3 DEF IInv, TypeOK
    <3> QED BY <1>1, <1>2, <1>3, <2>5, <2>6, <3>1, <3>2 DEF Placed, IInv, TypeOK, familyVars
  <2>8. state'[p] = "RUNNING" /\ \A q \in Proc \ {p} : state'[q] = state[q]
    BY <2>1, <2>3 DEF IInv, TypeOK
  <2>9. OneCpuPerProcess'
    <3>1. cpu'[c] = p /\ \A d \in CPU \ {c} : cpu'[d] = cpu[d] /\ cpu[d] # p
      BY <2>1, <2>3, <2>4 DEF IInv, TypeOK, OneCpuPerProcess, OnCpu
    <3>2. \A q \in Proc : OnCpu(q)' <=> q = p \/ OnCpu(q)
      BY <1>2, <3>1, ProcAssumption DEF OnCpu
    <3> QED BY <2>8, <3>1, <3>2 DEF IInv, OneCpuPerProcess
  <2>10. ForkOwnsChild'
    BY <1>1, <1>2, <2>4, <2>8, ForkFrame DEF IInv, familyVars
  <2>11. PidsUnique' /\ PidsBelow'
    BY <1>2, <2>4, <2>8, PidFrame DEF IInv, familyVars
  <2> QED BY <2>5, <2>6, <2>7, <2>9, <2>10, <2>11, ListsFrame DEF IInv, AssertionsHold
<1> QED BY <1>5, <1>6

-----------------------------------------------------------------------------
(* The theorems *)

\* Boot establishes the invariant.
LEMMA InitInv ==
  ASSUME Init
  PROVE  IInv
<1> DEFINE S == Proc \ {initproc}
<1>1. PICK s \in Orders(S) :
        pLists = [l \in ListName |-> CASE l = free -> s
                                       [] l = 0    -> <<initproc>>
                                       [] OTHER    -> <<>>]
  BY DEF Init
<1>2. s \in Seq(Proc) /\ Range(s) = S /\ NoDuplicates(s)
  <2>1. Cardinality(S) \in Nat
    BY ProcAssumption, FS_RemoveElement, FS_CardinalityType
  <2>2. s \in [1 .. Cardinality(S) -> S] /\ Range(s) = S
        /\ \A i, j \in DOMAIN s : s[i] = s[j] => i = j
    BY DEF Orders
  <2> DEFINE n == Cardinality(S)
  <2> HIDE DEF n
  <2>3. n \in Nat /\ s \in [1 .. n -> Proc]
    BY <2>1, <2>2 DEF n
  <2>4. s \in Seq(Proc)
    BY <2>3
  <2> QED BY <2>2, <2>4 DEF NoDuplicates
<1>3. /\ pLists[free] = s /\ pLists[0] = <<initproc>> /\ free # 0
      /\ \A l \in ListName \ {free, 0} : pLists[l] = <<>>
      /\ pLists \in [ListName -> Seq(Proc)]
  BY <1>1, <1>2, NamesLemma, ProcAssumption DEF free
<1>4. TypeOK
  BY <1>3, ProcAssumption, NumberAssumption, ResetLemma
     DEF Init, TypeOK, States, Places, Panics
<1>5. ListsMatchState
  <2>1. /\ Range(<<initproc>>) = {initproc} /\ NoDuplicates(<<initproc>>)
        /\ Range(<<>>) = {} /\ NoDuplicates(<<>>)
    BY DEF Range, NoDuplicates
  <2>2. \A p \in Proc : Home(state[p], prio[p]) = IF p = initproc THEN 0 ELSE free
    BY DEF Init, Home
  <2> QED BY <1>2, <1>3, <2>1, <2>2, NamesLemma DEF ListsMatchState
<1>6. OneCpuPerProcess /\ ForkOwnsChild /\ AssertionsHold
  BY ProcAssumption DEF Init, OneCpuPerProcess, OnCpu, ForkOwnsChild, AssertionsHold
<1>7. PidsUnique /\ PidsBelow
  BY DEF Init, PidsUnique, PidsBelow
<1> QED BY <1>4, <1>5, <1>6, <1>7 DEF IInv

\* Every step keeps the invariant.
LEMMA NextInv ==
  ASSUME IInv, [Next]_vars
  PROVE  IInv'
<1>1. ASSUME NEW p \in Proc, ProcStep(p) PROVE IInv'
  <2>1. CASE Enter(p) \/ Return(p) \/ BeginExit(p) \/ BeginWait(p) \/ WaitFail(p)
    BY <2>1, TrapStep
  <2>2. CASE Yield(p)
    BY <2>2, YieldStep
  <2>3. CASE AllocProc(p)
    BY <2>3, AllocStep
  <2>4. CASE ForkFail(p)
    BY <2>4, ForkFailStep
  <2>5. CASE ForkCopy(p)
    BY <2>5, ForkCopyStep
  <2>6. CASE ForkPublish(p)
    BY <2>6, ForkPublishStep
  <2>7. CASE ExitFinish(p)
    BY <2>7, ExitStep
  <2>8. CASE WaitReap(p)
    BY <2>8, ReapStep
  <2>9. CASE WaitSleep(p)
    BY <2>9, SleepStep DEF WaitSleep, InWait
  <2>10. CASE \E c \in Chan : Sleep(p, c)
    BY <2>10, SleepStep DEF Sleep, Executing
  <2>11. CASE \E x \in KillArgs : Kill(p, x)
    BY <2>11, KillStep
  <2>12. CASE \E x \in PrioPids, pr \in PrioArgs : Setpriority(p, x, pr)
    BY <2>12, SetpriorityStep
  <2> QED BY <1>1, <2>1, <2>2, <2>3, <2>4, <2>5, <2>6, <2>7, <2>8, <2>9, <2>10, <2>11, <2>12
             DEF ProcStep
<1>2. ASSUME NEW c \in CPU, Scheduler(c) PROVE IInv'
  BY <1>2, SchedulerStep
<1>3. ASSUME NEW c \in Chan \ {TickChan}, Wakeup(c) PROVE IInv'
  <2> DEFINE W == Sleepers(c)
  <2>1. W \in SUBSET Proc /\ \A p \in W : state[p] = "SLEEPING"
    BY SleepersLemma DEF IInv
  <2>2. /\ pLists' = WakeLists(pLists, W, prio) /\ state' = Woken(state, W)
        /\ assertState(W, "SLEEPING")
        /\ UNCHANGED <<familyVars, prio, budget, killed, chan, cpu, lock, pc, np>>
        /\ UNCHANGED <<used, promoteIn, phase>>
    BY <1>3 DEF Wakeup, clockVars
  <2>3. /\ used' \in [Proc -> 0 .. BUDGET] /\ promoteIn' \in 0 .. TICKS_TO_PROMOTE
        /\ phase' \in 0 .. SCHED_INTERVAL - 1
    BY <2>2 DEF IInv, TypeOK
  <2> HIDE DEF W
  <2> QED BY <2>1, <2>2, <2>3, WakeupStep
<1>4. CASE Tick
  BY <1>4, TickStep
<1>5. CASE UNCHANGED vars
  <2>1. /\ UNCHANGED <<pLists, state, prio, budget, used, pid, nextpid, parent>>
        /\ UNCHANGED <<promoteIn, phase, killed, chan, cpu, lock, pc, np, panic>>
    BY <1>5 DEF vars, queueVars, familyVars, clockVars
  <2>2. TypeOK' /\ AssertionsHold'
    BY <2>1 DEF IInv, TypeOK, AssertionsHold
  <2> QED BY <2>1, <2>2, QuietStep
<1> QED BY <1>1, <1>2, <1>3, <1>4, <1>5 DEF Next, Stopped

\* The inductive invariant of the process table.
THEOREM TableInvariant == Spec => []IInv
<1>1. Init => IInv
  BY InitInv
<1>2. IInv /\ [Next]_vars => IInv'
  BY NextInv
<1> QED BY <1>1, <1>2, PTL DEF Spec

\* The variables of the kernel keep their types: budgets stay positive and
\* priorities within 0 .. MAX.
THEOREM TypeCorrect == Spec => []TypeOK
<1>1. IInv => TypeOK
  BY DEF IInv
<1> QED BY <1>1, TableInvariant, PTL

\* The state lists always mirror the states and priorities: whatever the
\* interleaving of system calls, interrupts and schedulers, every process is on
\* the one list of its state.
THEOREM ListsCorrect == Spec => []ListsMatchState
<1>1. IInv => ListsMatchState
  BY DEF IInv
<1> QED BY <1>1, TableInvariant, PTL

\* The panics of assertState() and assertPrio() are unreachable.
THEOREM NoAssertionFails == Spec => []AssertionsHold
<1>1. IInv => AssertionsHold
  BY DEF IInv
<1> QED BY <1>1, TableInvariant, PTL

\* No two CPUs run the same process.
THEOREM CpuExclusive == Spec => []OneCpuPerProcess
<1>1. IInv => OneCpuPerProcess
  BY DEF IInv
<1> QED BY <1>1, TableInvariant, PTL

\* fork() works on its child alone.
THEOREM ForkExclusive == Spec => []ForkOwnsChild
<1>1. IInv => ForkOwnsChild
  BY DEF IInv
<1> QED BY <1>1, TableInvariant, PTL

\* A pid names at most one process.
THEOREM PidsNameOne == Spec => []PidsUnique
<1>1. IInv => PidsUnique
  BY DEF IInv
<1> QED BY <1>1, TableInvariant, PTL
=============================================================================
