------------------------------- MODULE Lists --------------------------------
(***************************************************************************)
(* The state lists of the process table (struct StateLists, proc.c), as    *)
(* sequences of processes.  A list is named by an integer: ready list i is *)
(* list i, and the five lists that are not indexed by a priority have the  *)
(* negative names below.  Every operator maps a table of lists, a function *)
(* from list names to sequences, to the table after the code has run.      *)
(* StateLists.tla runs the pointer code itself and is checked against      *)
(* these operators.                                                        *)
(***************************************************************************)
EXTENDS Integers, Sequences, FiniteSets, Functions

CONSTANT MAX      \* the lowest priority; priorities are 0..MAX

ASSUME MaxAssumption == MAX \in Nat

free    == -1
embryo  == -2
sleep   == -3
running == -4
zombie  == -5

ReadyList == 0 .. MAX
ListName  == (-5) .. MAX

-----------------------------------------------------------------------------
(* Operations on one list *)

insertHead(s, p) == <<p>> \o s

pushFront(s, p) == <<p>> \o s

insertTail(s, p) == Append(s, p)

FirstIndex(s, p) ==
  CHOOSE i \in DOMAIN s : s[i] = p /\ \A j \in 1 .. i-1 : s[j] # p

\* A process that is not on the list leaves it as it is: the code returns -1
\* and no caller looks at the result.
removeFromStateList(s, p) ==
  IF p \notin Range(s) THEN s
  ELSE LET i == FirstIndex(s, p)
       IN  [j \in 1 .. Len(s) - 1 |-> IF j < i THEN s[j] ELSE s[j + 1]]

\* The position of each member of a finite set of numbers.
Rank(I) == [i \in I |-> Cardinality({j \in I : j <= i})]

\* The elements of s that are in T, in the order of s.
Sublist(s, T) ==
  LET I == {i \in DOMAIN s : s[i] \in T}
      r == Rank(I)
  IN  [k \in 1 .. Cardinality(I) |-> s[CHOOSE i \in I : r[i] = k]]

-----------------------------------------------------------------------------
(* Operations on the table of lists *)

ToHead(L, p, from, to) ==
  [L EXCEPT ![from] = removeFromStateList(@, p), ![to] = insertHead(@, p)]

ToTail(L, p, from, to) ==
  [L EXCEPT ![from] = removeFromStateList(@, p), ![to] = insertTail(@, p)]

\* wakeup1(): the sleepers in W go, in the order of the sleep list, each to
\* the tail of the ready list of its priority.
WakeLists(L, W, prio) ==
  [l \in ListName |->
     CASE l = sleep        -> Sublist(L[sleep], Range(L[sleep]) \ W)
       [] l \in ReadyList  -> L[l] \o Sublist(L[sleep], {p \in W : prio[p] = l})
       [] OTHER            -> L[l]]

\* prioadjust(): the loop over ready list i reads p->next after insertTail()
\* has set it to 0, so exactly the head of each list i > 0 moves, to the tail
\* of list i - 1, whose own head has moved on before.
PromoteHeads(L) ==
  LET Stay(i) == IF i > 0 /\ L[i] # <<>> THEN Tail(L[i]) ELSE L[i]
      Come(i) == IF i < MAX /\ L[i + 1] # <<>> THEN <<Head(L[i + 1])>> ELSE <<>>
  IN  [l \in ListName |->
         IF l \in ReadyList THEN Stay(l) \o Come(l) ELSE L[l]]

\* The processes that PromoteHeads moves.
Heads(L) == {Head(L[i]) : i \in {j \in 1 .. MAX : L[j] # <<>>}}

-----------------------------------------------------------------------------
(* What the lists are for *)

\* The list a process in state s with priority r belongs to.
Home(s, r) ==
  CASE s = "UNUSED"   -> free
    [] s = "EMBRYO"   -> embryo
    [] s = "SLEEPING" -> sleep
    [] s = "RUNNING"  -> running
    [] s = "ZOMBIE"   -> zombie
    [] s = "RUNNABLE" -> r

\* The lists that hold each member of S once.
Orders(S) ==
  {s \in [1 .. Cardinality(S) -> S] :
     /\ Range(s) = S
     /\ \A i, j \in DOMAIN s : s[i] = s[j] => i = j}

NoDuplicates(s) == \A i, j \in DOMAIN s : s[i] = s[j] => i = j
=============================================================================
