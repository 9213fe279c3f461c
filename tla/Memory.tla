------------------------------- MODULE Memory -------------------------------
(***************************************************************************)
(* Physical pages and address spaces: kalloc.c, vm.c, and their users      *)
(* fork(), exec(), growproc() and wait().                                  *)
(*                                                                         *)
(* A call is one action.  Other processes may take and give back pages in  *)
(* the middle of it, so any of the kalloc()s of a call may fail, fails     *)
(* telling which, and all do when no page is free.  Sizes count units of   *)
(* which PGSIZE make a page.  Which free page kalloc() returns does not matter: it is   *)
(* the least one here, the head of the list in the code.                   *)
(***************************************************************************)
EXTENDS Integers, FiniteSetsExt

CONSTANTS
  Proc, initproc,
  NPAGE,                 \* physical pages
  NPTE,                  \* entries of a page table
  NPDE,                  \* page tables of the user part of an address space
  PGSIZE,
  Callers, Images,       \* bounds: the processes that call exec() and sbrk(), sizes of programs
  MaxLost,               \* bound: pages lost
  Fails,                 \* bound: sets of numbers of the kalloc()s of a call that fail
  Grows, Shrinks         \* bounds: arguments of sbrk(), and its negative ones without the sign

Page == 1 .. NPAGE
VA   == 0 .. NPTE * NPDE - 1          \* virtual pages below KERNBASE
KERNBASE == NPTE * NPDE * PGSIZE

PGUP(n) == (n + PGSIZE - 1) \div PGSIZE   \* PGROUNDUP(n) / PGSIZE

VARIABLES
  free,                  \* the pages on kmem.freelist
  kpgdir,                \* the kernel's own address space
  space, sz, kstack,     \* proc->pgdir with its tables, proc->sz, proc->kstack
  lost,                  \* pages that nothing refers to any more
  torn,                  \* processes whose sz does not tell what is mapped
  short,                 \* some kalloc() has failed so far
  panicked

vars == <<free, kpgdir, space, sz, kstack, lost, torn, short, panicked>>

\* A page directory with its page tables: the page of the directory, that of
\* the kernel's page table, those of the user's, and what is mapped; u: the
\* pages with PTE_U.
NoSpace == [dir |-> 0, kern |-> 0, tab |-> [x \in 0 .. NPDE - 1 |-> 0],
            map |-> [v \in VA |-> 0], u |-> {}]

IsSpace(a) ==
  /\ DOMAIN a = DOMAIN NoSpace /\ {a.dir, a.kern} \subseteq 0 .. NPAGE
  /\ a.tab \in [0 .. NPDE - 1 -> 0 .. NPAGE] /\ a.map \in [VA -> 0 .. NPAGE] /\ a.u \subseteq VA

TypeOK ==
  /\ free \subseteq Page /\ lost \subseteq Page
  /\ IsSpace(kpgdir) /\ \A p \in Proc : IsSpace(space[p])
  /\ sz \in [Proc -> 0 .. KERNBASE - 1] /\ kstack \in [Proc -> 0 .. NPAGE]
  /\ torn \subseteq Proc /\ {short, panicked} \subseteq BOOLEAN

-----------------------------------------------------------------------------
(* kalloc.c and vm.c.  An operation works on a record m: free and lost as  *)
(* above; calls: the kalloc()s made; fails: those to fail; a: the address  *)
(* space it works on; ok: its result; hole: a page could not be mapped; short:    *)
(* a kalloc() failed; remap: mappages() found a page there and panics.     *)

Given(pages, none, f, a) ==
  [free |-> pages, lost |-> none, calls |-> 0, fails |-> f, a |-> a, ok |-> TRUE, 
   hole |-> FALSE, short |-> FALSE, remap |-> FALSE]

Work(f, a) == Given(free, lost, f, a)

\* kalloc(): the page, 0 when there is none, and the rest.
NextPage(m) == IF m.calls + 1 \in m.fails \/ m.free = {} THEN 0 ELSE Min(m.free)
Took(m)     == [m EXCEPT !.free = @ \ {NextPage(m)}, !.calls = @ + 1]

Fail(m)     == [m EXCEPT !.ok = FALSE, !.short = TRUE]

kfree(m, pages) == [m EXCEPT !.free = @ \cup pages]

\* walkpgdir() with alloc: the page table for virtual page v.
walkpgdir(m, v) ==
  LET x == v \div NPTE
  IN  IF m.a.tab[x] # 0 THEN m ELSE [Took(m) EXCEPT !.a.tab[x] = NextPage(m)]

mappages(m, v, pa, flags) ==
  LET t == walkpgdir(m, v)
  IN  IF t.a.tab[v \div NPTE] = 0 THEN Fail(t)
      ELSE IF t.a.map[v] # 0 THEN [t EXCEPT !.remap = TRUE]
      ELSE [t EXCEPT !.a.map[v] = pa, !.a.u = IF flags THEN @ \cup {v} ELSE @ \ {v}]

\* setupkvm(): nothing frees the directory when mappages() fails.
setupkvm(m) ==
  LET m1 == Took(m)
      m2 == Took(m1)
  IN  IF NextPage(m) = 0 THEN Fail(m)
      ELSE IF NextPage(m1) = 0 THEN Fail([m1 EXCEPT !.lost = @ \cup {NextPage(m)}])
      ELSE [m2 EXCEPT !.a = [NoSpace EXCEPT !.dir = NextPage(m), !.kern = NextPage(m1)]]

\* Mutant: the entry of a freed page stays.
RECURSIVE DeallocKept(_, _, _)
DeallocKept(m, v, oldsz) ==
  IF v * PGSIZE >= oldsz THEN m
  ELSE DeallocKept(kfree(m, {m.a.map[v]} \ {0}), v + 1, oldsz)

\* The loop of deallocuvm() from virtual page v on.  Where there is no page
\* table it goes on a whole table's pages further.
RECURSIVE DeallocFrom(_, _, _)
DeallocFrom(m, v, oldsz) ==
  IF v * PGSIZE >= oldsz THEN m
  ELSE IF m.a.tab[v \div NPTE] = 0 THEN DeallocFrom(m, v + NPTE, oldsz)
  ELSE DeallocFrom([kfree(m, {m.a.map[v]} \ {0}) EXCEPT !.a.map[v] = 0, !.a.u = @ \ {v}], v + 1, oldsz)

\* Mutant: the new size is rounded down.
DeallocDown(m, oldsz, newsz) == IF newsz >= oldsz THEN m ELSE DeallocFrom(m, newsz \div PGSIZE, oldsz)

deallocuvm(m, oldsz, newsz) == IF newsz >= oldsz THEN m ELSE DeallocFrom(m, PGUP(newsz), oldsz)

\* The loop of allocuvm().  It takes no notice of a failure of mappages().
RECURSIVE AllocFrom(_, _, _, _)
AllocFrom(m, v, oldsz, newsz) ==
  IF v * PGSIZE >= newsz THEN m
  ELSE IF NextPage(m) = 0 THEN Fail(deallocuvm(m, newsz, oldsz))
  ELSE LET m1 == mappages(Took(m), v, NextPage(m), TRUE)
       IN  IF m1.ok THEN AllocFrom(m1, v + 1, oldsz, newsz)
           ELSE AllocFrom([m1 EXCEPT !.lost = @ \cup {NextPage(m)}, !.ok = TRUE, !.hole = TRUE],
                          v + 1, oldsz, newsz)

\* Mutant: pages taken before a failure stay.
AllocNoUndo(m, oldsz, newsz) ==
  IF newsz >= KERNBASE THEN [m EXCEPT !.ok = FALSE]
  ELSE IF newsz < oldsz THEN m
  ELSE AllocFrom(m, PGUP(oldsz), newsz, newsz)

allocuvm(m, oldsz, newsz) ==
  IF newsz >= KERNBASE THEN [m EXCEPT !.ok = FALSE]
  ELSE IF newsz < oldsz THEN m
  ELSE AllocFrom(m, PGUP(oldsz), oldsz, newsz)

freevm(m) ==
  LET m1 == DeallocFrom(m, 0, KERNBASE)
  IN  [kfree(m1, ({m1.a.dir, m1.a.kern} \cup {m1.a.tab[x] : x \in 0 .. NPDE - 1}) \ {0})
         EXCEPT !.a = NoSpace]

\* The loop of copyuvm() over the pages of src below size.
RECURSIVE CopyFrom(_, _, _, _)
CopyFrom(m, src, v, size) ==
  IF v * PGSIZE >= size THEN m
  ELSE IF NextPage(m) = 0 THEN Fail(freevm(m))
  ELSE LET m1 == mappages(Took(m), v, NextPage(m), v \in src.u)
       IN  IF m1.ok THEN CopyFrom(m1, src, v + 1, size)
           ELSE [freevm(m1) EXCEPT !.lost = @ \cup {NextPage(m)}]

copyuvm(m, src, size) ==
  LET m1 == setupkvm(m) IN IF m1.ok THEN CopyFrom(m1, src, 0, size) ELSE m1

-----------------------------------------------------------------------------
(* The calls. *)

\* kinit1(), kvmalloc(), kinit2() and userinit() with its inituvm().
Init ==
  LET all == Given(Page, {}, {}, NoSpace)
      k   == setupkvm(all)
      s   == Took(k)
      u   == setupkvm(s)
      m   == mappages(Took(u), 0, NextPage(u), TRUE)
  IN  /\ free = m.free
      /\ kpgdir = k.a
      /\ space = [p \in Proc |-> IF p = initproc THEN m.a ELSE NoSpace]
      /\ sz = [p \in Proc |-> IF p = initproc THEN PGSIZE ELSE 0]
      /\ kstack = [p \in Proc |-> IF p = initproc THEN NextPage(k) ELSE 0]
      /\ lost = {} /\ torn = {} /\ short = FALSE /\ panicked = FALSE

\* A process that has lost its first page faults at its next instruction.
Runs(p) == ~panicked /\ kstack[p] # 0 /\ space[p].map[0] # 0

Unmapped(a, size) == \E v \in VA : v * PGSIZE < size /\ a.map[v] = 0

\* growproc(), for sys_sbrk().  A new size of 0 is taken for an error.
sys_sbrk(p, n, fails) ==
  LET old == sz[p]
      m   == IF n > 0 THEN allocuvm(Work(fails, space[p]), old, old + n)
             ELSE deallocuvm(Work(fails, space[p]), old, old + n)
      res == IF m.ok THEN old + n ELSE 0
  IN
  /\ Runs(p) /\ old + n >= 0
  /\ short' = (short \/ m.short)
  /\ IF m.remap
     THEN panicked' = TRUE /\ UNCHANGED <<free, kpgdir, space, sz, kstack, lost, torn>>
     ELSE /\ free' = m.free /\ lost' = m.lost
          /\ space' = [space EXCEPT ![p] = m.a]
          /\ sz' = IF res = 0 THEN sz ELSE [sz EXCEPT ![p] = res]
          /\ torn' = IF m.ok /\ (res = 0 \/ m.hole) THEN torn \cup {p} ELSE torn
          /\ UNCHANGED <<kpgdir, kstack, panicked>>

\* fork(): the kernel stack of allocproc(), then copyuvm(), which panics at a
\* page that is not there.
Fork(p, q, fails) ==
  LET m0 == Work(fails, NoSpace)
      m  == copyuvm(Took(m0), space[p], sz[p])
  IN
  /\ Runs(p) /\ kstack[q] = 0
  /\ short' = (short \/ NextPage(m0) = 0 \/ m.short)
  /\ IF NextPage(m0) = 0 THEN UNCHANGED <<free, kpgdir, space, sz, kstack, lost, torn, panicked>>
     ELSE IF Unmapped(space[p], sz[p])
     THEN panicked' = TRUE /\ UNCHANGED <<free, kpgdir, space, sz, kstack, lost, torn>>
     ELSE /\ free' = IF m.ok THEN m.free ELSE m.free \cup {NextPage(m0)}
          /\ lost' = m.lost
          /\ space' = [space EXCEPT ![q] = IF m.ok THEN m.a ELSE NoSpace]
          /\ sz' = [sz EXCEPT ![q] = IF m.ok THEN sz[p] ELSE 0]
          /\ kstack' = [kstack EXCEPT ![q] = IF m.ok THEN NextPage(m0) ELSE 0]
          /\ UNCHANGED <<kpgdir, torn, panicked>>

\* exec() of a program of the given size; good: the file and the arguments
\* are.  loaduvm(), clearpteu() and copyout() panic at a page table that is
\* not there.
Exec(p, size, good, fails) ==
  LET m1  == setupkvm(Work(fails, NoSpace))
      m2  == IF m1.ok THEN allocuvm(m1, 0, size) ELSE m1
      top == (PGUP(size) + 2) * PGSIZE
      m3  == IF m2.ok THEN allocuvm(m2, PGUP(size) * PGSIZE, top) ELSE m2
      m4  == [m3 EXCEPT !.a.u = @ \ {PGUP(size)}]
      bad == IF m1.ok THEN freevm(m3) ELSE m1
      new == freevm([m4 EXCEPT !.a = space[p]])
  IN
  /\ Runs(p)
  /\ short' = (short \/ m3.short)
  /\ IF m2.ok /\ (m2.hole \/ (m3.ok /\ m3.hole))
     THEN panicked' = TRUE /\ UNCHANGED <<free, kpgdir, space, sz, kstack, lost, torn>>
     ELSE IF m3.ok /\ good
     THEN /\ free' = new.free /\ lost' = new.lost
          /\ space' = [space EXCEPT ![p] = m4.a]
          /\ sz' = [sz EXCEPT ![p] = top]
          /\ torn' = torn \ {p}
          /\ UNCHANGED <<kpgdir, kstack, panicked>>
     ELSE /\ free' = bad.free /\ lost' = bad.lost
          /\ UNCHANGED <<kpgdir, space, sz, kstack, torn, panicked>>

\* wait() for a process that has exited; sz of a free slot does not matter.
Reap(q) ==
  LET m == freevm(Work({}, space[q]))
  IN
  /\ ~panicked /\ q # initproc /\ kstack[q] # 0
  /\ free' = m.free \cup {kstack[q]}
  /\ kstack' = [kstack EXCEPT ![q] = 0]
  /\ space' = [space EXCEPT ![q] = NoSpace]
  /\ sz' = [sz EXCEPT ![q] = 0]
  /\ torn' = torn \ {q}
  /\ UNCHANGED <<kpgdir, lost, short, panicked>>

\* A panic stops the machine.
Halted == panicked /\ UNCHANGED vars

Next ==
  \/ \E p \in Proc, fails \in Fails :
       /\ fails = {} \/ Cardinality(lost) < MaxLost
       /\ \/ p \in Callers /\ \E n \in Grows \cup {-d : d \in Shrinks} : sys_sbrk(p, n, fails)
          \/ \E q \in Proc : Fork(p, q, fails)
          \/ p \in Callers /\ \E size \in Images, good \in BOOLEAN : Exec(p, size, good, fails)
  \/ \E q \in Proc : Reap(q)
  \/ Halted

Spec == Init /\ [][Next]_vars

-----------------------------------------------------------------------------
\* The places that hold a page, each with the page.
SpacePages(o, a) ==
  {<<o, "dir", 0, a.dir>>, <<o, "kern", 0, a.kern>>}
    \cup {<<o, "tab", x, a.tab[x]>> : x \in 0 .. NPDE - 1}
    \cup {<<o, "map", v, a.map[v]>> : v \in VA}

Holders ==
  {h \in SpacePages("kernel", kpgdir)
           \cup UNION {SpacePages(p, space[p]) \cup {<<p, "kstack", 0, kstack[p]>>} : p \in Proc}
           \cup {<<"lost", "page", pg, pg>> : pg \in lost}
           \cup {<<"free", "page", pg, pg>> : pg \in free} : h[4] # 0}

\* On every path through fork(), exec(), sbrk() and wait(), with kalloc()
\* failing anywhere, a page is in one place: none is free and in use, mapped
\* twice, or both a page table and a page of a process.
PagesInOnePlace ==
  /\ TypeOK
  /\ {h[4] : h \in Holders} = Page
  /\ \A g, h \in Holders : g[4] = h[4] => g = h

\* sz tells what is mapped, to the page: what copyuvm() relies on and what a
\* failed allocuvm() has to restore.  The exceptions are sbrk() down to size
\* 0, which growproc() takes for a failure of deallocuvm(), and allocuvm()
\* when there is no page for the page table, which it does not notice.
SizeCovered ==
  \A p \in Proc \ torn : \A v \in VA : space[p].map[v] # 0 <=> v * PGSIZE < sz[p]

\* A page gets lost, copyuvm(), loaduvm() and clearpteu() meet a page that
\* is not there and panic, and mappages() one that is and panics, only after
\* some kalloc() has failed: while memory suffices every page that is taken is
\* given back.
LossOnlyInNeed == lost # {} \/ panicked => short
=============================================================================
