------------------------------ MODULE Journal -------------------------------
(***************************************************************************)
(* What the log of log.c promises to the file system: system calls run     *)
(* between begin and end and change blocks in memory; what is on the disk  *)
(* changes only by taking over, in one step, everything that is in memory, *)
(* and only while no system call is active.  A crash brings the disk back. *)
(* So after a crash each system call has happened completely or not at all.*)
(***************************************************************************)
CONSTANTS Proc, Block, Value

VARIABLES
  active,             \* the processes in a file system call
  mem,                \* the blocks as system calls see them
  durable             \* the blocks as a crash would leave them

jvars == <<active, mem, durable>>

Init ==
  /\ active = {}
  /\ mem \in [Block -> Value]
  /\ durable = mem

Begin(i) ==
  /\ active' = active \cup {i}
  /\ UNCHANGED <<mem, durable>>

Write(i, b, v) ==
  /\ i \in active
  /\ mem' = [mem EXCEPT ![b] = v]
  /\ UNCHANGED <<active, durable>>

End(i) ==
  /\ i \in active
  /\ active' = active \ {i}
  /\ UNCHANGED <<mem, durable>>

Commit ==
  /\ active = {}
  /\ durable' = mem
  /\ UNCHANGED <<active, mem>>

Crash ==
  /\ mem' = durable
  /\ active' = {}
  /\ UNCHANGED durable

Next ==
  \/ \E i \in Proc : Begin(i) \/ End(i)
  \/ \E i \in Proc, b \in Block, v \in Value : Write(i, b, v)
  \/ Commit
  \/ Crash

Spec == Init /\ [][Next]_jvars
=============================================================================
