------------------------------ MODULE FileSys -------------------------------
(***************************************************************************)
(* Inodes, directories and path names (fs.c), open files (file.c) and the  *)
(* system calls on them (sysfile.c), run by several processes.             *)
(*                                                                         *)
(* I_BUSY is the lock of an inode.  What a call does between ilock() and   *)
(* iunlock() is one action when it takes no other inode's lock meanwhile;  *)
(* where it does (create(), sys_unlink()) the lock is held from one action *)
(* to the next.  Every iput() is an action of its own, and three when it   *)
(* frees the inode.                                                        *)
(*                                                                         *)
(* Every change of an inode is followed by iupdate() under the same lock,  *)
(* so an inode has one copy of its fields here, and I_VALID says whether   *)
(* the cache entry has been read.  A cache entry is named by its inode     *)
(* number: iget() never makes a second entry for a number in use.          *)
(*                                                                         *)
(* The log makes each group of calls atomic (module Log), so that a crash  *)
(* leaves the disk as it was when no call was running.                     *)
(***************************************************************************)
EXTENDS Integers, Sequences, FiniteSetsExt, Functions

CONSTANTS
  Proc, InitProc,
  NINODES,            \* inodes on the disk
  NINODE,             \* entries of the inode cache
  Name,               \* path elements other than ".."
  File, Fd,           \* entries of ftable; descriptors of a process
  Calls,              \* bound: the calls each process makes, with their paths
  MaxLost,            \* bound: calls of chmod(), chown() and chgrp()
  MaxLinks,           \* bound: links of a file when sys_link() is called
  NULL

ASSUME FileSysAssumption ==
  /\ InitProc \in Proc /\ NULL \notin Proc
  /\ NINODES \in Nat \ {0} /\ NINODE \in Nat \ {0}
  /\ ".." \notin Name /\ "/" \notin Name
  /\ IsFiniteSet(Proc) /\ IsFiniteSet(File) /\ File \subseteq Nat \ {0} /\ Fd \subseteq Nat
  /\ MaxLost \in Nat /\ MaxLinks \in Nat

ROOTINO == 1
Inum == 1 .. NINODES

VARIABLES
  type, nlink, dir,   \* inodes on the disk; dir[d][n] = 0: no entry n in d
  ref, valid, busy,   \* the inode cache: ref, I_VALID, and who set I_BUSY
  lost,               \* references that no pointer stands for any more
  file, ofile, cwd,   \* ftable; the descriptors and directory of a process
  st,                 \* where a process is in its call
  panic

diskVars  == <<type, nlink, dir>>
cacheVars == <<ref, valid, busy>>
fileVars  == <<file, ofile, cwd>>
vars == <<diskVars, cacheVars, lost, fileVars, st, panic>>

NoEntries == [n \in Name \cup {".."} |-> 0]
Closed    == [ref |-> 0, ip |-> 0]

\* pc: the next section to run once puts is empty.  at: the inode where the
\* walk is (then the dp or ip it returned); ip: the second inode of a call;
\* rest: the path from at on; puts: references to drop first, in order;
\* free: how far iput() is in freeing Head(puts).
Idle == [pc |-> "idle", call |-> <<>>, at |-> 0, ip |-> 0, rest |-> <<>>, puts |-> <<>>, free |-> 0]

TypeOK ==
  /\ type \in [Inum -> {"FREE", "DIR", "FILE"}]
  /\ nlink \in [Inum -> Nat]
  /\ dir \in [Inum -> [Name \cup {".."} -> Inum \cup {0}]]
  /\ ref \in [Inum -> Nat] /\ lost \in [Inum -> Nat]
  /\ valid \subseteq Inum
  /\ busy \in [Inum -> Proc \cup {NULL}]
  /\ file \in [File -> [ref : Nat, ip : Inum \cup {0}]]
  /\ ofile \in [Proc -> [Fd -> File \cup {0}]]
  /\ cwd \in [Proc -> Inum \cup {0}]
  /\ \A p \in Proc : /\ DOMAIN st[p] = DOMAIN Idle
                     /\ {st[p].at, st[p].ip} \subseteq Inum \cup {0}
                     /\ st[p].puts \in Seq(Inum) /\ st[p].free \in 0 .. 2

\* Memory after a boot: the first process, with the root as its directory.
Booted(r, v, b, l, f, o, c, s) ==
  /\ r = [i \in Inum |-> IF i = ROOTINO THEN 1 ELSE 0]
  /\ v = {} /\ b = [i \in Inum |-> NULL] /\ l = [i \in Inum |-> 0]
  /\ f = [x \in File |-> Closed]
  /\ o = [p \in Proc |-> [d \in Fd |-> 0]]
  /\ c = [p \in Proc |-> IF p = InitProc THEN ROOTINO ELSE 0]
  /\ s = [p \in Proc |-> [Idle EXCEPT !.pc = IF p = InitProc THEN "idle" ELSE "dead"]]

\* The disk that mkfs makes: an empty root directory, its own parent, with the
\* nlink = 1 of mkfs's ialloc().
Init ==
  /\ type = [i \in Inum |-> IF i = ROOTINO THEN "DIR" ELSE "FREE"]
  /\ nlink = [i \in Inum |-> IF i = ROOTINO THEN 1 ELSE 0]
  /\ dir = [i \in Inum |-> IF i = ROOTINO THEN [NoEntries EXCEPT ![".."] = ROOTINO] ELSE NoEntries]
  /\ Booted(ref, valid, busy, lost, file, ofile, cwd, st)
  /\ panic = {}

-----------------------------------------------------------------------------
(* The inode cache. *)

At(p, pc) == panic = {} /\ st[p].pc = pc /\ st[p].puts = <<>>

Check(msg, when) == IF when THEN {msg} ELSE {}

\* iget(): one more reference to i; a number that is not cached needs an entry.
IgetCheck(i) ==
  Check("iget: no inodes", ref[i] = 0 /\ Cardinality({j \in Inum : ref[j] > 0}) >= NINODE)

\* ilock(): waits for I_BUSY and reads the inode unless it is valid.
Unlocked(i) == busy[i] = NULL
IlockCheck(i) == Check("ilock: no type", i \notin valid /\ type[i] = "FREE")

\* A section under the lock of i and of no other inode.
LockedSection(i) ==
  /\ Unlocked(i)
  /\ valid' = valid \cup {i}
  /\ UNCHANGED busy

\* iput(): the last reference to an inode without links frees it.
IputKeep(p) == FALSE

IputShared(p) ==
  LET i == Head(st[p].puts) IN i \in valid /\ nlink[i] = 0

LastPut(p) ==
  LET i == Head(st[p].puts) IN ref[i] = 1 /\ i \in valid /\ nlink[i] = 0

iput(p) ==
  /\ panic = {} /\ st[p].puts # <<>> /\ st[p].free = 0
  /\ LET i == Head(st[p].puts)
     IN  IF LastPut(p)
         THEN /\ panic' = panic \cup Check("iput busy", busy[i] # NULL)
              /\ busy' = [busy EXCEPT ![i] = p]
              /\ st' = [st EXCEPT ![p].free = 1]
              /\ UNCHANGED ref
         ELSE /\ ref' = [ref EXCEPT ![i] = @ - 1]
              /\ st' = [st EXCEPT ![p].puts = Tail(@)]
              /\ UNCHANGED <<busy, panic>>
  /\ UNCHANGED <<diskVars, valid, lost, fileVars>>

\* ... itrunc(), type = 0, iupdate() without icache.lock; from here on
\* ialloc() may give the number out again.
iputFree(p) ==
  /\ panic = {} /\ st[p].free = 1
  /\ LET i == Head(st[p].puts)
     IN  /\ type' = [type EXCEPT ![i] = "FREE"]
         /\ dir' = [dir EXCEPT ![i] = NoEntries]
  /\ st' = [st EXCEPT ![p].free = 2]
  /\ UNCHANGED <<nlink, cacheVars, lost, fileVars, panic>>

\* ... flags = 0, ref--.
iputFreed(p) ==
  /\ panic = {} /\ st[p].free = 2
  /\ LET i == Head(st[p].puts)
     IN  /\ busy' = [busy EXCEPT ![i] = NULL]
         /\ valid' = valid \ {i}
         /\ ref' = [ref EXCEPT ![i] = @ - 1]
  /\ st' = [st EXCEPT ![p].free = 0, ![p].puts = Tail(@)]
  /\ UNCHANGED <<diskVars, lost, fileVars, panic>>

-----------------------------------------------------------------------------
(* Path names. *)

\* The section that runs with what namei() or nameiparent() returned, and
\* whether it is nameiparent().
Creating   == {"create", "mkdir", "mknod"}
Parent(op) == op \in Creating \cup {"unlink", "link2"}

Return(p, puts) == [st EXCEPT ![p] = [Idle EXCEPT !.puts = puts]]

\* The walk returned 0; sys_link() then takes back the link it has counted.
WalkFailed(p, puts) ==
  IF st[p].call.op = "link2"
  THEN [st EXCEPT ![p].pc = "linkbad", ![p].at = 0, ![p].puts = puts]
  ELSE Return(p, puts)

\* begin_op() and the start of namex() at the root or at proc->cwd.
Start(path, p) == IF Head(path) = "/" THEN ROOTINO ELSE cwd[p]
Elems(path)    == IF Head(path) = "/" THEN Tail(path) ELSE path

Begin(p, call) ==
  /\ At(p, "idle")
  /\ call.op = "chmod" => SumFunction(lost) < MaxLost
  /\ call.op = "link" => \A i \in Inum : type[i] = "FILE" => nlink[i] < MaxLinks
  /\ LET i == Start(call.path, p)
     IN  /\ panic' = panic \cup IgetCheck(i)
         /\ ref' = [ref EXCEPT ![i] = @ + 1]
         /\ st' = [st EXCEPT ![p] = [Idle EXCEPT !.pc = "walk", !.call = call,
                                                 !.at = i, !.rest = Elems(call.path)]]
  /\ UNCHANGED <<diskVars, valid, busy, lost, fileVars>>

\* The inode of an entry, or 0.
dirlookup(dp, name) == dir[dp][name]

\* One round of namex()'s loop, or its end.
WalkEnd(p) ==
  /\ At(p, "walk") /\ st[p].rest = <<>>
  /\ st' = IF Parent(st[p].call.op) THEN WalkFailed(p, <<st[p].at>>)
                                    ELSE [st EXCEPT ![p].pc = st[p].call.op]
  /\ UNCHANGED <<diskVars, cacheVars, lost, fileVars, panic>>

Walk(p) ==
  /\ At(p, "walk") /\ st[p].rest # <<>>
  /\ LET i    == st[p].at
         next == dirlookup(i, Head(st[p].rest))
     IN  /\ LockedSection(i)
         /\ IF type[i] = "DIR" /\ Parent(st[p].call.op) /\ Len(st[p].rest) = 1
            THEN /\ st' = [st EXCEPT ![p].pc = st[p].call.op]
                 /\ panic' = panic \cup IlockCheck(i)
                 /\ UNCHANGED ref
            ELSE IF type[i] # "DIR" \/ next = 0
            THEN /\ st' = WalkFailed(p, <<i>>)
                 /\ panic' = panic \cup IlockCheck(i)
                 /\ UNCHANGED ref
            ELSE /\ st' = [st EXCEPT ![p].at = next, ![p].rest = Tail(@), ![p].puts = <<i>>]
                 /\ panic' = panic \cup IlockCheck(i) \cup IgetCheck(next)
                 /\ ref' = [ref EXCEPT ![next] = @ + 1]
  /\ UNCHANGED <<diskVars, lost, fileVars>>

-----------------------------------------------------------------------------
(* Open files. *)

FreeFiles == {f \in File : file[f].ref = 0}
FreeFds(p) == {d \in Fd : ofile[p][d] = 0}

\* The end of sys_open() with ip = i: filealloc() and fdalloc(), or what is
\* taken back when one of them fails.  The caller unlocks i.
OpenEnd(p, i) ==
  IF FreeFiles # {} /\ FreeFds(p) # {}
  THEN LET f == Min(FreeFiles)
       IN  /\ file' = [file EXCEPT ![f] = [ref |-> 1, ip |-> i]]
           /\ ofile' = [ofile EXCEPT ![p][Min(FreeFds(p))] = f]
           /\ st' = Return(p, <<>>)
  ELSE /\ st' = Return(p, <<i>>)
       /\ UNCHANGED <<file, ofile>>

\* fileclose(): the files after one reference to f is dropped, and what is
\* then left to iput().
ClosedOne(f) ==
  IF file[f].ref = 1 THEN [file EXCEPT ![f] = Closed] ELSE [file EXCEPT ![f].ref = @ - 1]

CloseEarly(f) == <<file[f].ip>>

CloseLeft(f) == IF file[f].ref = 1 THEN <<file[f].ip>> ELSE <<>>

sys_close(p, d) ==
  /\ At(p, "idle") /\ ofile[p][d] # 0
  /\ ofile' = [ofile EXCEPT ![p][d] = 0]
  /\ file' = ClosedOne(ofile[p][d])
  /\ st' = [st EXCEPT ![p].puts = CloseLeft(ofile[p][d])]
  /\ UNCHANGED <<diskVars, cacheVars, lost, cwd, panic>>

sys_dup(p, d) ==
  /\ At(p, "idle") /\ ofile[p][d] # 0 /\ FreeFds(p) # {}
  /\ ofile' = [ofile EXCEPT ![p][Min(FreeFds(p))] = ofile[p][d]]
  /\ file' = [file EXCEPT ![ofile[p][d]].ref = @ + 1]
  /\ UNCHANGED <<diskVars, cacheVars, lost, cwd, st, panic>>

\* fileread(), filewrite() and filestat() lock the inode (module FileData has
\* what they do with it).
UseFile(p, d) ==
  /\ At(p, "idle") /\ ofile[p][d] # 0
  /\ LET i == file[ofile[p][d]].ip
     IN  LockedSection(i) /\ panic' = panic \cup IlockCheck(i)
  /\ UNCHANGED <<diskVars, ref, lost, fileVars, st>>

\* fork(): filedup() of every descriptor and idup() of cwd.
Fork(p, q) ==
  /\ At(p, "idle") /\ At(q, "dead")
  /\ ofile' = [ofile EXCEPT ![q] = ofile[p]]
  /\ file' = [f \in File |-> [file[f] EXCEPT !.ref = @ + Cardinality({d \in Fd : ofile[p][d] = f})]]
  /\ cwd' = [cwd EXCEPT ![q] = cwd[p]]
  /\ ref' = [ref EXCEPT ![cwd[p]] = @ + 1]
  /\ st' = [st EXCEPT ![q] = Idle]
  /\ UNCHANGED <<diskVars, valid, busy, lost, panic>>

\* exit(): close the descriptors one after the other, then drop cwd.
ExitBegin(p) ==
  /\ p # InitProc /\ At(p, "idle")
  /\ st' = [st EXCEPT ![p].pc = "exit"]
  /\ UNCHANGED <<diskVars, cacheVars, lost, fileVars, panic>>

Exit(p) ==
  /\ At(p, "exit")
  /\ LET open == {d \in Fd : ofile[p][d] # 0}
     IN  IF open # {}
         THEN /\ ofile' = [ofile EXCEPT ![p][Min(open)] = 0]
              /\ file' = ClosedOne(ofile[p][Min(open)])
              /\ st' = [st EXCEPT ![p].puts = CloseLeft(ofile[p][Min(open)])]
              /\ UNCHANGED cwd
         ELSE /\ st' = [st EXCEPT ![p].puts = <<cwd[p]>>, ![p].pc = "dead"]
              /\ cwd' = [cwd EXCEPT ![p] = 0]
              /\ UNCHANGED <<file, ofile>>
  /\ UNCHANGED <<diskVars, cacheVars, lost, panic>>

-----------------------------------------------------------------------------
(* Calls that look at one inode. *)

\* sys_open() without O_CREATE, for reading or for writing.
sys_open(p) ==
  /\ At(p, "open") \/ At(p, "openw")
  /\ LET i == st[p].at
     IN  /\ LockedSection(i)
         /\ panic' = panic \cup IlockCheck(i)
         /\ IF type[i] = "DIR" /\ st[p].pc = "openw"
            THEN st' = Return(p, <<i>>) /\ UNCHANGED <<file, ofile>>
            ELSE OpenEnd(p, i)
  /\ UNCHANGED <<diskVars, ref, lost, cwd>>

sys_chdir(p) ==
  /\ At(p, "chdir")
  /\ LET i == st[p].at
     IN  /\ LockedSection(i)
         /\ panic' = panic \cup IlockCheck(i)
         /\ IF type[i] # "DIR"
            THEN st' = Return(p, <<i>>) /\ UNCHANGED cwd
            ELSE st' = Return(p, <<cwd[p]>>) /\ cwd' = [cwd EXCEPT ![p] = i]
  /\ UNCHANGED <<diskVars, ref, lost, file, ofile>>

\* exec(), as far as inodes go: it reads the file under the lock and drops it.
Exec(p) ==
  /\ At(p, "exec")
  /\ LockedSection(st[p].at)
  /\ panic' = panic \cup IlockCheck(st[p].at)
  /\ st' = Return(p, <<st[p].at>>)
  /\ UNCHANGED <<diskVars, ref, lost, fileVars>>

\* chmod(), chown() and chgrp(): the value is refused before the inode is
\* locked, or is stored under the lock.  Either way the reference that
\* namei() returned is not dropped.
chmod(p, ok) ==
  /\ At(p, "chmod")
  /\ LET i == st[p].at
     IN  /\ IF ok THEN LockedSection(i) /\ panic' = panic \cup IlockCheck(i)
                  ELSE UNCHANGED <<valid, busy, panic>>
         /\ lost' = [lost EXCEPT ![i] = @ + 1]
  /\ st' = Return(p, <<>>)
  /\ UNCHANGED <<diskVars, ref, fileVars>>

-----------------------------------------------------------------------------
(* create(): dp = at, the new or existing inode = ip. *)

LastElem(p) == st[p].rest[1]

NewType(op) == IF op = "mkdir" THEN "DIR" ELSE "FILE"

\* An existing entry: unlock and drop dp before locking ip.
createFound(p) ==
  /\ st[p].pc \in Creating /\ At(p, st[p].pc)
  /\ LET dp == st[p].at
         ip == dirlookup(dp, LastElem(p))
     IN  /\ ip # 0
         /\ LockedSection(dp)
         /\ panic' = panic \cup IlockCheck(dp) \cup IgetCheck(ip)
         /\ ref' = [ref EXCEPT ![ip] = @ + 1]
         /\ st' = [st EXCEPT ![p].pc = "found", ![p].at = 0, ![p].ip = ip, ![p].puts = <<dp>>]
  /\ UNCHANGED <<diskVars, lost, fileVars>>

createExists(p) ==
  /\ At(p, "found")
  /\ LET ip == st[p].ip
     IN  /\ LockedSection(ip)
         /\ panic' = panic \cup IlockCheck(ip)
         /\ IF st[p].call.op = "create" /\ type[ip] = "FILE"
            THEN OpenEnd(p, ip)
            ELSE st' = Return(p, <<ip>>) /\ UNCHANGED <<file, ofile>>
  /\ UNCHANGED <<diskVars, ref, lost, cwd>>

\* No entry: ialloc() takes a free inode and clears it; dp stays locked.
createAlloc(p) ==
  /\ st[p].pc \in Creating /\ At(p, st[p].pc)
  /\ LET dp   == st[p].at
         free == {i \in Inum : type[i] = "FREE"}
         ip   == Min(free)
     IN  /\ dirlookup(dp, LastElem(p)) = 0 /\ Unlocked(dp)
         /\ busy' = [busy EXCEPT ![dp] = p]
         /\ valid' = valid \cup {dp}
         /\ IF free = {}
            THEN panic' = {"ialloc: no inodes"} /\ UNCHANGED <<diskVars, ref, st>>
            ELSE /\ panic' = panic \cup IlockCheck(dp) \cup IgetCheck(ip)
                 /\ type' = [type EXCEPT ![ip] = NewType(st[p].call.op)]
                 /\ nlink' = [nlink EXCEPT ![ip] = 0]
                 /\ dir' = [dir EXCEPT ![ip] = NoEntries]
                 /\ ref' = [ref EXCEPT ![ip] = @ + 1]
                 /\ st' = [st EXCEPT ![p].pc = "new", ![p].ip = ip]
  /\ UNCHANGED <<lost, fileVars>>

\* ilock(ip), which may have to wait for an iput() that is freeing the number;
\* the links and entries; unlock dp.
createLink(p) ==
  /\ At(p, "new")
  /\ LET dp    == st[p].at
         ip    == st[p].ip
         isdir == st[p].call.op = "mkdir"
     IN  /\ Unlocked(ip)
         /\ panic' = panic \cup IlockCheck(ip)
         /\ valid' = valid \cup {ip}
         /\ busy' = [busy EXCEPT ![ip] = p, ![dp] = NULL]
         /\ nlink' = [nlink EXCEPT ![ip] = 1, ![dp] = IF isdir THEN @ + 1 ELSE @]
         /\ dir' = [dir EXCEPT ![ip][".."] = IF isdir THEN dp ELSE 0, ![dp][LastElem(p)] = ip]
         /\ st' = [st EXCEPT ![p].pc = "made", ![p].at = 0, ![p].puts = <<dp>>]
  /\ UNCHANGED <<type, ref, lost, fileVars>>

\* sys_open() goes on, sys_mkdir() and sys_mknod() drop the inode.
createEnd(p) ==
  /\ At(p, "made")
  /\ busy' = [busy EXCEPT ![st[p].ip] = NULL]
  /\ IF st[p].call.op = "create"
     THEN OpenEnd(p, st[p].ip)
     ELSE st' = Return(p, <<st[p].ip>>) /\ UNCHANGED <<file, ofile>>
  /\ UNCHANGED <<diskVars, ref, valid, lost, cwd, panic>>

-----------------------------------------------------------------------------
(* sys_unlink(): dp = at, the inode that loses a link = ip. *)

AnyName(p) == FALSE

\* Cannot unlink "." or "..".
Dots(p) == LastElem(p) = ".."

unlinkFind(p) ==
  /\ At(p, "unlink")
  /\ LET dp == st[p].at
         ip == dirlookup(dp, LastElem(p))
     IN  /\ Unlocked(dp)
         /\ valid' = valid \cup {dp}
         /\ IF Dots(p) \/ ip = 0
            THEN /\ st' = Return(p, <<dp>>)
                 /\ panic' = panic \cup IlockCheck(dp)
                 /\ UNCHANGED <<ref, busy>>
            ELSE /\ st' = [st EXCEPT ![p].pc = "entry", ![p].ip = ip]
                 /\ panic' = panic \cup IlockCheck(dp) \cup IgetCheck(ip)
                 /\ ref' = [ref EXCEPT ![ip] = @ + 1]
                 /\ busy' = [busy EXCEPT ![dp] = p]
  /\ UNCHANGED <<diskVars, lost, fileVars>>

\* Whether removing i takes a link, its "..", from the directory.
HasDotDot(i) == type[i] = "DIR"

isdirempty(i) == \A n \in Name : dir[i][n] = 0

\* ilock(ip) under dp's lock; erase the entry and unlock dp.
unlinkEntry(p) ==
  /\ At(p, "entry")
  /\ LET dp == st[p].at
         ip == st[p].ip
     IN  /\ Unlocked(ip)
         /\ valid' = valid \cup {ip}
         /\ panic' = panic \cup IlockCheck(ip) \cup Check("unlink: nlink < 1", nlink[ip] < 1)
         /\ IF type[ip] = "DIR" /\ ~isdirempty(ip)
            THEN /\ st' = Return(p, <<ip, dp>>)
                 /\ busy' = [busy EXCEPT ![dp] = NULL]
                 /\ UNCHANGED <<dir, nlink>>
            ELSE /\ st' = [st EXCEPT ![p].pc = "unlinked", ![p].at = 0, ![p].puts = <<dp>>]
                 /\ busy' = [busy EXCEPT ![dp] = NULL, ![ip] = p]
                 /\ dir' = [dir EXCEPT ![dp][LastElem(p)] = 0]
                 /\ nlink' = [nlink EXCEPT ![dp] = IF HasDotDot(ip) THEN @ - 1 ELSE @]
  /\ UNCHANGED <<type, ref, lost, fileVars>>

unlinkEnd(p) ==
  /\ At(p, "unlinked")
  /\ busy' = [busy EXCEPT ![st[p].ip] = NULL]
  /\ nlink' = [nlink EXCEPT ![st[p].ip] = @ - 1]
  /\ st' = Return(p, <<st[p].ip>>)
  /\ UNCHANGED <<type, dir, ref, valid, lost, fileVars, panic>>

-----------------------------------------------------------------------------
(* sys_link(): ip = the inode of the old path, dp = at. *)

\* Count the link first, then look for the directory of the new path.
linkCount(p) ==
  /\ At(p, "link")
  /\ LET i   == st[p].at
         new == st[p].call.new
     IN  /\ LockedSection(i)
         /\ IF type[i] = "DIR"
            THEN /\ st' = Return(p, <<i>>)
                 /\ panic' = panic \cup IlockCheck(i)
                 /\ UNCHANGED <<nlink, ref>>
            ELSE /\ panic' = panic \cup IlockCheck(i) \cup IgetCheck(Start(new, p))
                 /\ nlink' = [nlink EXCEPT ![i] = @ + 1]
                 /\ ref' = [ref EXCEPT ![Start(new, p)] = @ + 1]
                 /\ st' = [st EXCEPT ![p].pc = "walk", ![p].call.op = "link2", ![p].ip = i,
                                     ![p].at = Start(new, p), ![p].rest = Elems(new)]
  /\ UNCHANGED <<type, dir, lost, fileVars>>

\* dirlink(), which drops the entry that has the name already.
linkEntry(p) ==
  /\ At(p, "link2")
  /\ LET dp == st[p].at
         ip == dirlookup(dp, LastElem(p))
     IN  /\ LockedSection(dp)
         /\ IF ip # 0
            THEN /\ panic' = panic \cup IlockCheck(dp) \cup IgetCheck(ip)
                 /\ ref' = [ref EXCEPT ![ip] = @ + 1]
                 /\ st' = WalkFailed(p, <<ip, dp>>)
                 /\ UNCHANGED dir
            ELSE /\ dir' = [dir EXCEPT ![dp][LastElem(p)] = st[p].ip]
                 /\ st' = Return(p, <<dp, st[p].ip>>)
                 /\ panic' = panic \cup IlockCheck(dp)
                 /\ UNCHANGED ref
  /\ UNCHANGED <<type, nlink, lost, fileVars>>

linkBad(p) ==
  /\ At(p, "linkbad")
  /\ LockedSection(st[p].ip)
  /\ panic' = panic \cup IlockCheck(st[p].ip)
  /\ nlink' = [nlink EXCEPT ![st[p].ip] = @ - 1]
  /\ st' = Return(p, <<st[p].ip>>)
  /\ UNCHANGED <<type, dir, ref, lost, fileVars>>

-----------------------------------------------------------------------------
\* A crash while no call is running, and the reboot.
Crash ==
  /\ \A p \in Proc : At(p, "idle") \/ At(p, "dead")
  /\ Booted(ref', valid', busy', lost', file', ofile', cwd', st')
  /\ UNCHANGED <<diskVars, panic>>

Step(p) ==
  \/ iput(p) \/ iputFree(p) \/ iputFreed(p)
  \/ \E c \in Calls[p] : Begin(p, c)
  \/ Walk(p) \/ WalkEnd(p)
  \/ \E d \in Fd : sys_close(p, d) \/ sys_dup(p, d) \/ UseFile(p, d)
  \/ \E q \in Proc : Fork(p, q)
  \/ ExitBegin(p) \/ Exit(p)
  \/ sys_open(p) \/ sys_chdir(p) \/ Exec(p)
  \/ \E ok \in BOOLEAN : chmod(p, ok)
  \/ createFound(p) \/ createExists(p) \/ createAlloc(p) \/ createLink(p) \/ createEnd(p)
  \/ unlinkFind(p) \/ unlinkEntry(p) \/ unlinkEnd(p)
  \/ linkCount(p) \/ linkEntry(p) \/ linkBad(p)

\* A panic stops the machine.
Halted == panic # {} /\ UNCHANGED vars

Next == Crash \/ Halted \/ \E p \in Proc : Step(p)

Spec == Init /\ [][Next]_vars

-----------------------------------------------------------------------------
\* How often an inode is referenced by a process that is in a call.
Held(p, i) ==
  Cardinality({k \in DOMAIN st[p].puts : st[p].puts[k] = i})
    + (IF st[p].at = i THEN 1 ELSE 0) + (IF st[p].ip = i THEN 1 ELSE 0)

\* fs.c: "ip->ref tracks the number of in-memory pointers to the entry (open
\* files and current directories)", in every state of every call: each
\* reference that a call takes is handed over or dropped on each of its
\* paths.  What chmod(), chown() and chgrp() leave behind is in lost.
RefsCounted ==
  /\ TypeOK
  /\ \A i \in Inum :
       ref[i] = Cardinality({f \in File : file[f].ip = i}) + Cardinality({p \in Proc : cwd[p] = i})
                + MapThenSumSet(LAMBDA p : Held(p, i), Proc) + lost[i]
  /\ \A f \in File :
       file[f].ref = MapThenSumSet(LAMBDA p : Cardinality({d \in Fd : ofile[p][d] = f}), Proc)

\* The directories and files that can be reached from the root.
Reachable ==
  LET R[n \in 0 .. NINODES] ==
        IF n = 0 THEN {ROOTINO}
        ELSE R[n - 1] \cup ({dir[d][m] : d \in R[n - 1], m \in Name} \ {0})
  IN  R[NINODES]

\* Entries that count as links of i: names of i, and ".." of its directories.
LinksTo(i) ==
  Cardinality({e \in Reachable \X Name : dir[e[1]][e[2]] = i})
    + Cardinality({d \in Reachable : dir[d][".."] = i})

\* iput() frees no inode that is in use.  No name leads to an inode that is
\* free or that could be freed: what can be reached has at least as many links
\* as entries, whatever calls are half done (the ".." of the root is the link
\* that mkfs counts for it).  An inode that is open or is a current directory
\* stays when its last link is removed.  And none of the panics of ilock(),
\* iput(), iget() and sys_unlink() happens, with which a freed inode would
\* show; the one that may is ialloc()'s, when the disk has no inode left.
InUseNotFreed ==
  /\ \A i \in Reachable : type[i] # "FREE" /\ nlink[i] >= LinksTo(i)
  /\ \A f \in File : file[f].ref > 0 => type[file[f].ip] # "FREE" /\ file[f].ip \in valid
  /\ \A p \in Proc : cwd[p] # 0 => type[cwd[p]] = "DIR"
  /\ panic \subseteq {"ialloc: no inodes"}

\* Whoever removes the last link or drops the last reference frees the inode:
\* an inode with neither is left behind by a crash only.
Orphan(i) == type[i] # "FREE" /\ nlink[i] = 0 /\ ref[i] = 0

OrphansOnlyByCrash == [][Crash \/ \A i \in Inum : Orphan(i)' => Orphan(i)]_vars

\* The inode whose lock p needs next.
WaitsFor(p) ==
  CASE st[p].puts # <<>> -> 0
    [] st[p].pc \in {"found", "new", "entry", "linkbad"} -> st[p].ip
    [] st[p].pc = "walk" /\ st[p].rest = <<>> -> 0
    [] OTHER -> st[p].at

\* Inode locks are taken along the tree, so that no processes wait for each
\* other in a circle.
NoLockCycle ==
  panic = {} => \A S \in SUBSET Proc \ {{}} :
    \E p \in S : WaitsFor(p) # 0 => busy[WaitsFor(p)] \notin S

\* fs.h: nlink is the "Number of links to inode in file system", when no call
\* is running.  A call that is between nameiparent() and ilock(dp) when dp is
\* removed still makes its entry there, so that the new inode keeps a link that
\* no name stands for and is never freed.
LinksExact ==
  (\A p \in Proc : At(p, "idle") \/ At(p, "dead")) =>
     \A i \in Inum : type[i] # "FREE" => nlink[i] = LinksTo(i)
=============================================================================
