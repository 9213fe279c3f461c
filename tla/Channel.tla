------------------------------ MODULE Channel -------------------------------
(***************************************************************************)
(* What a pipe promises: bytes are received in the order in which they     *)
(* were sent, each exactly once, and at most Capacity of them are under    *)
(* way.  A send may stop early (todo keeps the rest) or be given up.       *)
(***************************************************************************)
EXTENDS Integers, Sequences

CONSTANTS Proc, Capacity, Messages

VARIABLES
  todo,               \* what each process still has to send
  queue,              \* the bytes under way
  got                 \* what the last receive returned

cvars == <<todo, queue, got>>

Init ==
  /\ todo = [p \in Proc |-> <<>>]
  /\ queue = <<>>
  /\ got = <<>>

Call(p, s) ==
  /\ todo' = [todo EXCEPT ![p] = s]
  /\ UNCHANGED <<queue, got>>

Send(p, k) ==
  /\ Len(queue) + k <= Capacity
  /\ queue' = queue \o SubSeq(todo[p], 1, k)
  /\ todo' \in {[todo EXCEPT ![p] = s] : s \in {<<>>, SubSeq(todo[p], k + 1, Len(todo[p]))}}
  /\ UNCHANGED got

Receive(k) ==
  /\ got' = SubSeq(queue, 1, k)
  /\ queue' = SubSeq(queue, k + 1, Len(queue))
  /\ UNCHANGED todo

\* A new pipe in the place of the old one.
Renew ==
  /\ queue' = <<>>
  /\ UNCHANGED <<todo, got>>

Next ==
  \/ \E p \in Proc, s \in Messages : Call(p, s)
  \/ \E p \in Proc : \E k \in 0 .. Len(todo[p]) : Send(p, k)
  \/ \E k \in 0 .. Len(queue) : Receive(k)
  \/ Renew

Spec == Init /\ [][Next]_cvars
=============================================================================
