----------------------------- MODULE StateLists -----------------------------
(***************************************************************************)
(* The state lists as proc.c keeps them: a head pointer per list and one   *)
(* next pointer per process.  The walks of wakeup1() and prioadjust()      *)
(* change the lists they walk on.  Checked to implement ListTable, whose   *)
(* operators ProcTable uses.                                               *)
(***************************************************************************)
EXTENDS Integers, Sequences, FiniteSets, SequencesExt

CONSTANTS Proc, NULL, MAX

VARIABLES head, next

L == INSTANCE Lists

vars == <<head, next>>
mem  == [head |-> head, next |-> next]

-----------------------------------------------------------------------------
(* The operations, on a record m of all pointers *)

\* The processes from p on; at most as many as there are, so that a cycle
\* would show as a repetition.
RECURSIVE Follow(_, _, _)
Follow(m, p, n) ==
  IF p = NULL \/ n = 0 THEN <<>> ELSE <<p>> \o Follow(m, m.next[p], n - 1)

Chain(m, l) == Follow(m, m.head[l], Cardinality(Proc) + 1)

insertHead(m, l, p) ==
  [head |-> [m.head EXCEPT ![l] = p],
   next |-> [m.next EXCEPT ![p] = m.head[l]]]

insertTail(m, l, p) ==
  IF m.head[l] = NULL
  THEN [m EXCEPT !.head[l] = p, !.next[p] = NULL]
  ELSE [m EXCEPT !.next[Last(Chain(m, l))] = p, !.next[p] = NULL]

removeFromStateList(m, l, p) ==
  LET s == Chain(m, l)
      before == {i \in 1 .. Len(s) - 1 : s[i + 1] = p}
  IN  CASE m.head[l] = p -> [m EXCEPT !.head[l] = m.next[p], !.next[p] = NULL]
        [] m.head[l] # p /\ before # {} ->
             LET new == s[CHOOSE i \in before : \A j \in before : i <= j]
             IN  [m EXCEPT !.next[new] = m.next[p], !.next[p] = NULL]
        [] OTHER -> m

\* The loop of wakeup1() from process p on; it wakes the processes in W, whose
\* priorities are prio.
RECURSIVE WakeFrom(_, _, _, _)
WakeFrom(m, p, W, prio) ==
  IF p = NULL THEN m
  ELSE LET curr == m.next[p]
           m1 == IF p \in W
                 THEN insertTail(removeFromStateList(m, L!sleep, p), prio[p], p)
                 ELSE m
       IN  WakeFrom(m1, curr, W, prio)

wakeup1(m, W, prio) == WakeFrom(m, m.head[L!sleep], W, prio)

RECURSIVE PromoteFromSaved(_, _, _)
PromoteFromSaved(m, p, i) ==
  IF p = NULL THEN m
  ELSE PromoteFromSaved(insertTail(removeFromStateList(m, i, p), i - 1, p),
                        m.next[p], i)

\* The inner loop of prioadjust() on ready list i from process p on, and the
\* outer one.  p->next is read when p is the last process of list i - 1.
RECURSIVE PromoteFrom(_, _, _)
PromoteFrom(m, p, i) ==
  IF p = NULL THEN m
  ELSE LET m1 == insertTail(removeFromStateList(m, i, p), i - 1, p)
       IN  PromoteFrom(m1, m1.next[p], i)

RECURSIVE PromoteLists(_, _)
PromoteLists(m, i) ==
  IF i > MAX THEN m ELSE PromoteLists(PromoteFrom(m, m.head[i], i), i + 1)

prioadjust(m) == PromoteLists(m, 1)

-----------------------------------------------------------------------------
Listed(m) == [l \in L!ListName |-> Chain(m, l)]
pLists == Listed(mem)

Table == INSTANCE ListTable

Become(m) == head' = m.head /\ next' = m.next

\* userinit(), for one order s of the slots.
AllFree(s) ==
  /\ head = [l \in L!ListName |-> IF l = L!free THEN s[1] ELSE NULL]
  /\ next = [p \in Proc |-> LET i == L!FirstIndex(s, p)
                            IN  IF i = Len(s) THEN NULL ELSE s[i + 1]]

Init == \E s \in L!Orders(Proc) : AllFree(s)

Move ==
  \E l \in L!ListName : \E p \in Range(Chain(mem, l)) :
    \/ \E t \in Table!HeadMoves :
         t[1] = l /\ Become(insertHead(removeFromStateList(mem, l, p), t[2], p))
    \/ \E t \in Table!TailMoves :
         t[1] = l /\ Become(insertTail(removeFromStateList(mem, l, p), t[2], p))

Wake ==
  \E W \in SUBSET Range(Chain(mem, L!sleep)) : \E prio \in [W -> L!ReadyList] :
    Become(wakeup1(mem, W, prio))

Promote == Become(prioadjust(mem))

Next == Move \/ Wake \/ Promote

Spec == Init /\ [][Next]_vars

-----------------------------------------------------------------------------
\* The pointer code moves processes the way ListTable says; in particular the
\* loop of prioadjust() moves the head of each ready list, and no other process.
ImplementsTable == Table!Spec

\* wakeup1() takes processes off the list it is walking on, and still wakes all
\* the sleepers it should, once and in the order of the list, whichever they
\* are and whatever their priorities.
WakeupAgrees ==
  \A W \in SUBSET Range(pLists[L!sleep]) : \A prio \in [W -> L!ReadyList] :
    Listed(wakeup1(mem, W, prio)) = L!WakeLists(pLists, W, prio)
=============================================================================
