----------------------------- MODULE MCFileSys ------------------------------
(* FileSys with a directory d and a file a, in the root or in d. *)
EXTENDS FileSys

Root(n) == <<"/", n>>
InD     == <<"/", "d", "a">>

MCCalls ==
  [p \in Proc |->
    IF p = InitProc
    THEN {[op |-> op, path |-> Root("d")] : op \in {"mkdir", "unlink"}}
         \cup {[op |-> op, path |-> InD] : op \in {"create", "unlink"}}
         \cup {[op |-> "chmod", path |-> Root("a")], [op |-> "unlink", path |-> <<"/", "d", "..">>]}
    ELSE {[op |-> op, path |-> Root("d")] : op \in {"mkdir", "unlink", "openw", "chdir"}}
         \cup {[op |-> op, path |-> InD] : op \in {"open", "exec", "mknod"}}
         \cup {[op |-> "create", path |-> <<"a">>]}
         \cup {[op |-> "link", path |-> Root("a"), new |-> InD]}]
=============================================================================
