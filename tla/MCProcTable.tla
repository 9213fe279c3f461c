----------------------------- MODULE MCProcTable ----------------------------
(***************************************************************************)
(* Small instances of ProcTable for TLC.                                   *)
(***************************************************************************)
EXTENDS ProcTable, TLC

\* Slots other than the one of initproc are interchangeable, and so are CPUs.
Symmetry == Permutations(Proc \ {initproc}) \cup Permutations(CPU)
=============================================================================
