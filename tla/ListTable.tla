----------------------------- MODULE ListTable ------------------------------
(***************************************************************************)
(* What the process table promises about its lists: every step moves       *)
(* processes between lists the way ProcTable assumes, and nothing else     *)
(* happens to them.  The moves are the ones the functions of proc.c make;  *)
(* which of them happens when is ProcTable's business, not this module's.  *)
(***************************************************************************)
EXTENDS Lists

CONSTANT Proc

VARIABLE pLists

\* insertHead() after removeFromStateList(): allocproc, its failures and wait
\* (free and embryo lists), scheduler, sleep, exit.
HeadMoves ==
  {<<free, embryo>>, <<embryo, free>>, <<running, sleep>>, <<running, zombie>>,
   <<zombie, free>>} \cup (ReadyList \X {running})

\* insertTail() after removeFromStateList(): fork, yield, kill, setpriority.
TailMoves ==
  {<<embryo, 0>>} \cup ({running, sleep} \X ReadyList)
    \cup {m \in ReadyList \X ReadyList : m[1] # m[2]}

\* userinit() inserts every slot at the head of the free list.
Init ==
  \E s \in Orders(Proc) : pLists = [l \in ListName |-> IF l = free THEN s ELSE <<>>]

Move ==
  \E l \in ListName : \E p \in Range(pLists[l]) :
    \/ \E m \in HeadMoves : m[1] = l /\ pLists' = ToHead(pLists, p, l, m[2])
    \/ \E m \in TailMoves : m[1] = l /\ pLists' = ToTail(pLists, p, l, m[2])

Wake ==
  \E W \in SUBSET Range(pLists[sleep]) : \E r \in [W -> ReadyList] :
    pLists' = WakeLists(pLists, W, r)

Promote == pLists' = PromoteHeads(pLists)

Next == Move \/ Wake \/ Promote

Spec == Init /\ [][Next]_pLists
=============================================================================
