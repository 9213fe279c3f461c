----------------------------- MODULE LogProofs ------------------------------
(***************************************************************************)
(* The log is an atomic journal, for any processes, blocks and contents,   *)
(* as long as a transaction fits into the log.                             *)
(*                                                                         *)
(* The inductive invariant says what the disk holds at each stage of a     *)
(* commit or of a recovery: which blocks may differ from the cache, which  *)
(* have been copied to the log, and which home from it.  Its part about    *)
(* the control of the log, and the reservation of begin_op(), hold without *)
(* that hypothesis; the reservation makes the transaction fit when the log *)
(* has LOGSIZE blocks behind its header.                                   *)
(***************************************************************************)
EXTENDS Log, FiniteSetTheorems, TLAPS

\* The transaction fits into the blocks of the log behind the header.
Fits == Len(lh) < SIZE

Types ==
  /\ disk \in [Addr -> Value] /\ cache \in [Addr -> Value]
  /\ head \in Seq(Block) /\ lh \in Seq(Block)
  /\ pc \in [Proc -> Places] /\ blk \in [Proc -> Block \cup {NULL}]
  /\ \A i \in Proc : pc[i] = "logging" => blk[i] \in Block
  /\ outstanding \in Nat /\ stage \in Stages /\ tail \in Nat

Flags ==
  /\ committing \in BOOLEAN /\ up \in BOOLEAN
  /\ panic \in {"no", "too big a transaction", "log_write outside of trans", "log.committing"}

InCall == {i \in Proc : pc[i] \in {"op", "logging"}}

Counted == IsFiniteSet(InCall) /\ outstanding = Cardinality(InCall)

\* What the stage says about the other variables of the log.
Phases ==
  /\ up => stage # "read" /\ (committing <=> stage # "none")
  /\ ~up => ~committing /\ stage \in {"read", "install", "erase"}
  /\ ~up \/ stage # "none" => InCall = {}
  /\ stage \in {"none", "log", "head", "release"} => head = <<>>
  /\ stage \in {"install", "erase"} => head = lh
  /\ stage \notin {"log", "install"} => tail = 0
  /\ stage \in {"log", "head", "install"} => tail < Len(lh)
  /\ stage \in {"read", "release"} \/ (stage = "none" /\ InCall = {}) => lh = <<>>

NoDup(s) == \A j, k \in DOMAIN s : s[j] = s[k] => j = k

\* No block is twice in the transaction, in memory or on the disk.
Once == NoDup(lh) /\ NoDup(head)

\* b is in the transaction, or is about to be.
InLog(b) == (\E k \in DOMAIN lh : lh[k] = b) \/ \E i \in Proc : pc[i] = "logging" /\ blk[i] = b

\* What cache and disk have in common.
Contents ==
  /\ Len(head) < SIZE
  /\ \A a \in Addr \ Block : cache[a] = disk[a]
  /\ ~up => cache = disk
  /\ \A b \in Block : cache[b] = disk[b] \/ InLog(b)
  /\ stage = "log" => \A k \in 1 .. tail : disk[k] = cache[lh[k]]
  /\ stage = "head" \/ (up /\ stage \in {"install", "erase"})
       => \A k \in 1 .. Len(lh) : disk[k] = cache[lh[k]]
  /\ stage = "install" => \A k \in 1 .. tail : disk[lh[k]] = disk[k]
  /\ stage = "erase" => \A k \in 1 .. Len(lh) : disk[lh[k]] = disk[k]

\* Control holds whether the transaction fits or not, IInv only if it does.
Control == Types /\ Counted /\ Phases /\ Once

IInv == Control /\ Contents

-----------------------------------------------------------------------------
\* The log lies before the blocks of the file system.
LEMMA Layout ==
  /\ SIZE \in Nat \ {0} /\ NHome \in Nat \ {0} /\ NULL \notin Block
  /\ Block \subseteq Addr
  /\ \A k \in Nat : k > 0 /\ k < SIZE => k \in Addr \ Block
BY LogAssumption DEF Addr, Block

\* log_write() adds a block to the transaction once.
LEMMA AbsorbedOnce ==
  ASSUME NEW l \in Seq(Block), NoDup(l), NEW b \in Block
  PROVE  /\ Absorbed(l, b) \in Seq(Block)
         /\ NoDup(Absorbed(l, b))
         /\ \A c : (\E k \in DOMAIN Absorbed(l, b) : Absorbed(l, b)[k] = c)
                     <=> c = b \/ \E k \in DOMAIN l : l[k] = c
<1>1. CASE \E k \in DOMAIN l : l[k] = b
  BY <1>1 DEF Absorbed
<1>2. CASE ~ \E k \in DOMAIN l : l[k] = b
  <2>1. Absorbed(l, b) = Append(l, b)
    BY <1>2 DEF Absorbed
  <2>2. /\ Append(l, b) \in Seq(Block) /\ Len(Append(l, b)) = Len(l) + 1
        /\ \A k \in 1 .. Len(l) : Append(l, b)[k] = l[k]
        /\ Append(l, b)[Len(l) + 1] = b
    OBVIOUS
  <2>3. DOMAIN l = 1 .. Len(l) /\ DOMAIN Append(l, b) = 1 .. Len(l) + 1 /\ Len(l) \in Nat
    OBVIOUS
  <2>4. NoDup(Append(l, b))
    BY <1>2, <2>2, <2>3 DEF NoDup
  <2>5. \A c : (\E k \in DOMAIN Append(l, b) : Append(l, b)[k] = c)
                 <=> c = b \/ \E k \in DOMAIN l : l[k] = c
    BY <2>2, <2>3
  <2>6. QED
    BY <2>1, <2>2, <2>4, <2>5
<1>3. QED
  BY <1>1, <1>2

LEMMA InitControl == ASSUME Init PROVE Control
<1>1. InCall = {}
  BY DEF Init, InCall
<1>2. Types
  <2>1. <<>> \in Seq(Block)
    OBVIOUS
  <2>2. QED
    BY <2>1 DEF Init, Types, Places, Stages
<1>3. Counted
  BY <1>1, FS_EmptySet DEF Init, Counted
<1>4. Phases /\ Once
  BY <1>1 DEF Init, Phases, Once, NoDup
<1>5. QED
  BY <1>2, <1>3, <1>4 DEF Control

LEMMA InitInv == ASSUME Init PROVE IInv
<1>1. Contents
  BY Layout DEF Init, Contents
<1>2. QED
  BY <1>1, InitControl DEF IInv

-----------------------------------------------------------------------------
(* The steps of system calls.  For each step, first what needs no          *)
(* hypothesis on the size of the transaction, then the contents.           *)

\* A process that is not in a call goes to sleep.
LEMMA BeginSleepControl == ASSUME Control, NEW i \in Proc, BeginSleep(i) PROVE Control'
<1> USE DEF Control
<1>1. InCall' = InCall
  BY DEF BeginSleep, InCall, Types
<1>2. Types'
  BY DEF BeginSleep, Types, Places
<1>3. Counted'
  BY <1>1 DEF BeginSleep, Counted
<1>4. Phases' /\ Once'
  BY <1>1 DEF BeginSleep, Phases, Once
<1>5. QED
  BY <1>2, <1>3, <1>4

LEMMA BeginSleepContents == ASSUME IInv, NEW i \in Proc, BeginSleep(i) PROVE Contents'
<1>1. \A j \in Proc : pc'[j] = "logging" <=> pc[j] = "logging"
  BY DEF BeginSleep, IInv, Control, Types
<1>2. QED
  BY <1>1 DEF BeginSleep, IInv, Contents, InLog

\* begin_op() lets a call in while no commit is running.
LEMMA BeginOpControl == ASSUME Control, NEW i \in Proc, BeginOp(i) PROVE Control'
<1> USE DEF Control
<1>1. InCall' = InCall \cup {i} /\ i \notin InCall
  BY DEF BeginOp, InCall, Types
<1>2. Types'
  BY DEF BeginOp, Types, Places
<1>3. Counted'
  BY <1>1, FS_AddElement DEF BeginOp, Counted
<1>4. up /\ stage = "none"
  BY DEF BeginOp, Running, MustWait, Phases
<1>5. Phases' /\ Once'
  BY <1>1, <1>4 DEF BeginOp, Phases, Once
<1>6. QED
  BY <1>2, <1>3, <1>5

LEMMA BeginOpContents == ASSUME IInv, NEW i \in Proc, BeginOp(i) PROVE Contents'
<1>1. \A j \in Proc : pc'[j] = "logging" <=> pc[j] = "logging"
  BY DEF BeginOp, IInv, Control, Types
<1>2. QED
  BY <1>1 DEF BeginOp, IInv, Contents, InLog

\* A process in a call keeps commits away.
LEMMA InCallQuiet == ASSUME Control, NEW i \in InCall PROVE up /\ stage = "none" /\ ~committing
BY DEF Control, Phases

\* The call of i is over, and it is not the last one.
LEMMA EndOpControl == ASSUME Control, NEW i \in Proc, EndOp(i) PROVE Control'
<1> USE DEF Control
<1>1. InCall' = InCall \ {i} /\ i \in InCall
  BY DEF EndOp, InCall, Types, wakeup
<1>2. Types'
  BY DEF EndOp, Types, Places, wakeup
<1>3. Counted'
  BY <1>1, FS_RemoveElement DEF EndOp, Counted, Types
<1>4. up /\ stage = "none"
  BY <1>1, InCallQuiet
<1>5. InCall' # {}
  <2>1. outstanding' > 0
    BY DEF EndOp, Types
  <2>2. QED
    BY <1>3, <2>1, FS_EmptySet DEF Counted
<1>6. Phases' /\ Once'
  BY <1>1, <1>4, <1>5 DEF EndOp, Phases, Once
<1>7. QED
  BY <1>2, <1>3, <1>6

LEMMA EndOpContents == ASSUME IInv, NEW i \in Proc, EndOp(i) PROVE Contents'
<1>1. \A j \in Proc : pc'[j] = "logging" <=> pc[j] = "logging"
  BY DEF EndOp, IInv, Control, Types, wakeup
<1>2. QED
  BY <1>1 DEF EndOp, IInv, Contents, InLog

\* The last call is over: nobody is left in a call, and the commit begins.
LEMMA EndOpLastControl == ASSUME Control, NEW i \in Proc, EndOpLast(i) PROVE Control'
<1> USE DEF Control
<1>1. InCall' = InCall \ {i} /\ i \in InCall
  BY DEF EndOpLast, InCall, Types
<1>2. Types'
  BY DEF EndOpLast, Types, Places, Stages
<1>3. Counted'
  <2>1. IsFiniteSet(InCall') /\ Cardinality(InCall') = Cardinality(InCall) - 1
    BY <1>1, FS_RemoveElement DEF Counted
  <2>2. outstanding = 1 /\ outstanding' = 0
    BY DEF EndOpLast
  <2>3. QED
    BY <2>1, <2>2 DEF Counted
<1>4. up /\ stage = "none"
  BY <1>1, InCallQuiet
<1>5. InCall' = {}
  <2>1. outstanding' = 0
    BY DEF EndOpLast
  <2>2. QED
    BY <1>3, <2>1, FS_EmptySet DEF Counted
<1>6. lh # <<>> => Len(lh) > 0
  BY DEF Types
<1>7. Phases' /\ Once'
  BY <1>1, <1>4, <1>5, <1>6 DEF EndOpLast, Phases, Once
<1>8. QED
  BY <1>2, <1>3, <1>7

LEMMA EndOpLastContents == ASSUME IInv, NEW i \in Proc, EndOpLast(i) PROVE Contents'
<1>1. up /\ stage = "none" /\ tail' = 0 /\ stage' \in {"release", "log"}
  <2>1. i \in InCall
    BY DEF EndOpLast, InCall
  <2>2. QED
    BY <2>1, InCallQuiet DEF EndOpLast, IInv
<1>2. \A j \in Proc : pc'[j] = "logging" <=> pc[j] = "logging"
  BY DEF EndOpLast, IInv, Control, Types
<1>3. QED
  BY <1>1, <1>2 DEF EndOpLast, IInv, Contents, InLog

\* The committer returns.
LEMMA EndCommitControl == ASSUME Control, NEW i \in Proc, EndCommit(i) PROVE Control'
<1> USE DEF Control
<1>1. InCall' = InCall
  BY DEF EndCommit, InCall, Types, wakeup
<1>2. Types'
  BY DEF EndCommit, Types, Places, Stages, wakeup
<1>3. Counted'
  BY <1>1 DEF EndCommit, Counted
<1>4. Phases' /\ Once'
  BY <1>1 DEF EndCommit, Phases, Running, Once
<1>5. QED
  BY <1>2, <1>3, <1>4

LEMMA EndCommitContents == ASSUME IInv, NEW i \in Proc, EndCommit(i) PROVE Contents'
<1>1. \A j \in Proc : pc'[j] = "logging" <=> pc[j] = "logging"
  BY DEF EndCommit, IInv, Control, Types, wakeup
<1>2. QED
  BY <1>1 DEF EndCommit, IInv, Contents, InLog

\* log_write(): from now on the buffer of b differs from the disk.
LEMMA LogCheckControl ==
  ASSUME Control, NEW i \in Proc, NEW b \in Block, NEW v \in Value, LogCheck(i, b, v)
  PROVE  Control'
<1> USE DEF Control
<1>1. InCall' = InCall /\ i \in InCall
  BY DEF LogCheck, InCall, Types
<1>2. Types'
  BY Layout DEF LogCheck, Types, Places
<1>3. Counted'
  BY <1>1 DEF LogCheck, Counted
<1>4. up /\ stage = "none"
  BY <1>1, InCallQuiet
<1>5. Phases' /\ Once'
  BY <1>1, <1>4 DEF LogCheck, Phases, Once
<1>6. QED
  BY <1>2, <1>3, <1>5

LEMMA LogCheckContents ==
  ASSUME IInv, NEW i \in Proc, NEW b \in Block, NEW v \in Value, LogCheck(i, b, v)
  PROVE  Contents'
<1> USE DEF IInv, Control
<1>1. up /\ stage = "none"
  <2>1. i \in InCall
    BY DEF LogCheck, InCall
  <2>2. QED
    BY <2>1, InCallQuiet
<1>2. /\ pc'[i] = "logging" /\ blk'[i] = b
      /\ \A j \in Proc \ {i} : pc'[j] = pc[j] /\ blk'[j] = blk[j]
      /\ pc[i] = "op"
  BY DEF LogCheck, Types
<1>3. \A c \in Block : InLog(c) \/ c = b => InLog(c)'
  BY <1>2 DEF LogCheck, InLog
<1>4. \A a \in Addr \ {b} : cache'[a] = cache[a]
  BY DEF LogCheck, Types
<1>5. QED
  BY <1>1, <1>3, <1>4, Layout DEF LogCheck, Contents

\* The block of i is in the transaction.
LEMMA LogAppendAdds ==
  ASSUME Control, NEW i \in Proc, LogAppend(i)
  PROVE  /\ lh' \in Seq(Block) /\ NoDup(lh')
         /\ \A c : (\E k \in DOMAIN lh' : lh'[k] = c)
                     <=> c = blk[i] \/ \E k \in DOMAIN lh : lh[k] = c
<1>1. lh' = Absorbed(lh, blk[i]) /\ lh \in Seq(Block) /\ NoDup(lh) /\ blk[i] \in Block
  BY DEF LogAppend, Control, Types, Once
<1> DEFINE new == Absorbed(lh, blk[i])
<1>2. /\ new \in Seq(Block) /\ NoDup(new)
      /\ \A c : (\E k \in DOMAIN new : new[k] = c) <=> c = blk[i] \/ \E k \in DOMAIN lh : lh[k] = c
  BY <1>1, AbsorbedOnce
<1>3. lh' = new
  BY <1>1
<1> HIDE DEF new
<1>4. QED
  BY <1>2, <1>3

LEMMA LogAppendControl == ASSUME Control, NEW i \in Proc, LogAppend(i) PROVE Control'
<1> USE DEF Control
<1>1. InCall' = InCall /\ i \in InCall
  BY DEF LogAppend, InCall, Types
<1>2. lh' \in Seq(Block) /\ NoDup(lh')
  BY LogAppendAdds
<1>3. Types'
  BY <1>2 DEF LogAppend, Types, Places
<1>4. Counted'
  BY <1>1 DEF LogAppend, Counted
<1>5. up /\ stage = "none"
  BY <1>1, InCallQuiet
<1>6. Phases' /\ Once'
  BY <1>1, <1>2, <1>5 DEF LogAppend, Phases, Once
<1>7. QED
  BY <1>3, <1>4, <1>6

LEMMA LogAppendContents == ASSUME IInv, NEW i \in Proc, LogAppend(i) PROVE Contents'
<1> USE DEF IInv, Control
<1>1. up /\ stage = "none"
  <2>1. i \in InCall
    BY DEF LogAppend, InCall
  <2>2. QED
    BY <2>1, InCallQuiet
<1>2. \A c : (\E k \in DOMAIN lh' : lh'[k] = c) <=> c = blk[i] \/ \E k \in DOMAIN lh : lh[k] = c
  BY LogAppendAdds
<1>3. \A j \in Proc \ {i} : pc'[j] = pc[j] /\ blk'[j] = blk[j]
  BY DEF LogAppend, Types
<1>4. \A c \in Block : InLog(c) => InLog(c)'
  BY <1>2, <1>3 DEF InLog
<1>5. QED
  BY <1>1, <1>4 DEF LogAppend, Contents

-----------------------------------------------------------------------------
(* The steps of commit() and of the recovery.  No process is in a call.    *)

\* Nothing changes for processes.
LEMMA Bystanders ==
  ASSUME Control, UNCHANGED <<procVars, outstanding>>
  PROVE  /\ InCall' = InCall /\ Counted' /\ pc' = pc /\ blk' = blk
         /\ pc' \in [Proc -> Places] /\ blk' \in [Proc -> Block \cup {NULL}]
         /\ \A i \in Proc : pc'[i] = "logging" => blk'[i] \in Block
         /\ outstanding' \in Nat
BY DEF Control, Types, Counted, InCall, procVars

\* The loops of write_log() and install_trans().
LEMMA LoopIs ==
  ASSUME Control, LoopStep, stage \in {"log", "install"}
  PROVE  /\ tail + 1 \in 1 .. Len(lh) /\ tail' \in Nat /\ tail \in Nat /\ Len(lh) \in Nat
         /\ \/ tail' = tail + 1 /\ tail' < Len(lh) /\ stage' = stage
            \/ /\ tail' = 0 /\ tail + 1 = Len(lh)
               /\ stage = "log" => stage' = "head"
               /\ stage = "install" => stage' = "erase"
<1>1. tail \in Nat /\ Len(lh) \in Nat /\ tail < Len(lh)
  BY DEF Control, Types, Phases
<1>2. QED
  BY <1>1 DEF LoopStep, After

\* A transaction holds a block once, so that it is no longer than the disk.
LEMMA Short ==
  ASSUME NEW l \in Seq(Block), NoDup(l)
  PROVE  Len(l) <= NHome
<1>1. SUFFICES ASSUME NHome < Len(l) PROVE FALSE
  BY Layout
<1>2. /\ SIZE \in Int /\ SIZE + NHome - 1 \in Int /\ NHome \in Nat /\ Len(l) \in Nat
      /\ SIZE <= SIZE + NHome - 1 /\ (SIZE + NHome - 1) - SIZE + 1 = NHome
  BY Layout
<1>3. IsFiniteSet(Block) /\ Cardinality(Block) = NHome
  BY <1>2, FS_Interval DEF Block
<1>4. IsFiniteSet(1 .. Len(l)) /\ Cardinality(1 .. Len(l)) = Len(l)
  BY <1>2, FS_Interval
<1>5. l \in [1 .. Len(l) -> Block]
  OBVIOUS
<1>6. \E j, k \in 1 .. Len(l) : j # k /\ l[j] = l[k]
  BY <1>1, <1>3, <1>4, <1>5, FS_PigeonHole
<1>7. QED
  BY <1>5, <1>6 DEF NoDup

\* write_log() copies a block of the transaction to its place in the log.
LEMMA write_logControl == ASSUME Control, write_log PROVE Control'
<1> USE DEF Control
<1>1. stage = "log" /\ LoopStep /\ UNCHANGED <<head, lh, committing, up>>
  BY DEF write_log
<1>2. up /\ committing /\ InCall = {} /\ head = <<>>
  BY <1>1 DEF Phases
<1>3. lh[tail + 1] \in Addr
  BY <1>1, LoopIs, Layout DEF Types
<1>4. disk' \in [Addr -> Value] /\ cache' \in [Addr -> Value]
  BY <1>3 DEF write_log, CopyBlock, Types
<1>5. InCall' = InCall /\ Counted'
  BY Bystanders DEF write_log
<1>6. Types'
  BY <1>1, <1>4, LoopIs, Bystanders DEF write_log, Types, Stages
<1>7. Phases' /\ Once'
  BY <1>1, <1>2, <1>5, LoopIs DEF Phases, Once
<1>8. QED
  BY <1>5, <1>6, <1>7

LEMMA write_logContents == ASSUME IInv, Fits, write_log PROVE Contents'
<1> USE DEF IInv, Control
<1> DEFINE t == tail + 1
<1>1. stage = "log" /\ LoopStep /\ UNCHANGED <<head, lh, committing, up>>
  BY DEF write_log
<1>2. up /\ committing /\ InCall = {} /\ head = <<>>
  BY <1>1 DEF Phases
<1>3. t \in 1 .. Len(lh) /\ lh[t] \in Block /\ t \in Addr \ Block
  BY <1>1, LoopIs, Layout DEF Fits, Types
<1>4. /\ disk' \in [Addr -> Value] /\ cache' \in [Addr -> Value]
      /\ disk'[t] = cache[lh[t]] /\ cache'[t] = cache[lh[t]]
      /\ \A a \in Addr \ {t} : disk'[a] = disk[a] /\ cache'[a] = cache[a]
  BY <1>3, Layout DEF write_log, CopyBlock, Types
<1>5. pc' = pc /\ blk' = blk
  BY Bystanders DEF write_log
<1>6. QED
  <2>1. \A k \in 1 .. Len(lh) : k \in Addr \ Block /\ lh[k] \in Block /\ cache'[lh[k]] = cache[lh[k]]
    <3>1. ASSUME NEW k \in 1 .. Len(lh) PROVE k \in Addr \ Block /\ lh[k] \in Block
      BY <1>1, LoopIs, Layout DEF Fits, Types
    <3>2. QED
      BY <1>3, <1>4, <3>1, Layout
  <2>2. \A k \in 1 .. t : disk'[k] = cache'[lh[k]]
    BY <1>1, <1>3, <1>4, <2>1, LoopIs DEF Contents
  <2>3. stage' = "log" => \A k \in 1 .. tail' : disk'[k] = cache'[lh'[k]]
    BY <1>1, <2>2, LoopIs
  <2>4. stage' = "head" => \A k \in 1 .. Len(lh') : disk'[k] = cache'[lh'[k]]
    BY <1>1, <2>2, LoopIs
  <2>5. stage' \in {"log", "head"}
    BY <1>1, LoopIs
  <2>6. \A b \in Block : cache'[b] = disk'[b] \/ InLog(b)'
    BY <1>1, <1>3, <1>4, <1>5, Layout DEF Contents, InLog
  <2>7. \A a \in Addr \ Block : cache'[a] = disk'[a]
    BY <1>3, <1>4 DEF Contents
  <2>8. QED
    BY <1>1, <1>2, <2>3, <2>4, <2>5, <2>6, <2>7 DEF Contents

\* write_head() in commit(): the header names what the log holds.
LEMMA write_headControl == ASSUME Control, write_head PROVE Control'
<1> USE DEF Control
<1>1. InCall' = InCall /\ Counted'
  BY Bystanders DEF write_head
<1>2. up /\ stage' = "install" /\ tail = 0
  BY DEF write_head, Phases, After
<1>3. Types'
  BY <1>2, Bystanders DEF write_head, Types, Stages
<1>4. Phases' /\ Once'
  BY <1>1, <1>2 DEF write_head, Phases, Once
<1>5. QED
  BY <1>1, <1>3, <1>4

LEMMA write_headContents == ASSUME IInv, Fits, write_head PROVE Contents'
<1> USE DEF IInv, Control
<1>1. pc' = pc /\ blk' = blk
  BY Bystanders DEF write_head
<1>2. up /\ stage' = "install" /\ tail = 0
  BY DEF write_head, Phases, After
<1>3. QED
  BY <1>1, <1>2 DEF write_head, Contents, InLog, Fits

\* install_trans() copies a block home.  In a commit the cache has it already.
LEMMA install_transControl == ASSUME Control, install_trans PROVE Control'
<1> USE DEF Control
<1>1. stage = "install" /\ LoopStep /\ UNCHANGED <<head, lh, committing, up>>
  BY DEF install_trans
<1>2. InCall = {} /\ head = lh /\ NoDup(lh) /\ lh \in Seq(Block)
  BY <1>1 DEF Phases, Once, Types
<1>3. tail + 1 \in 1 .. Len(lh) /\ Len(lh) <= NHome
  BY <1>1, <1>2, LoopIs, Short
<1>4. tail + 1 \in Addr
  BY <1>3, Layout DEF Addr
<1>5. disk' \in [Addr -> Value] /\ cache' \in [Addr -> Value]
  BY <1>4 DEF install_trans, CopyBlock, Types
<1>6. InCall' = InCall /\ Counted'
  BY Bystanders DEF install_trans
<1>7. Types'
  BY <1>1, <1>5, LoopIs, Bystanders DEF install_trans, Types, Stages
<1>8. Phases' /\ Once'
  BY <1>1, <1>2, <1>6, LoopIs DEF Phases, Once
<1>9. QED
  BY <1>6, <1>7, <1>8

LEMMA install_transContents == ASSUME IInv, Fits, install_trans PROVE Contents'
<1> USE DEF IInv, Control
<1> DEFINE t == tail + 1
           h == lh[t]
<1>1. stage = "install" /\ LoopStep /\ UNCHANGED <<head, lh, committing, up>>
  BY DEF install_trans
<1>2. InCall = {} /\ head = lh /\ NoDup(lh)
  BY <1>1 DEF Phases, Once
<1>3. t \in 1 .. Len(lh) /\ h \in Block /\ h \in Addr /\ t \in Addr \ Block /\ cache[t] = disk[t]
  BY <1>1, LoopIs, Layout DEF Fits, Types, Contents
<1>4. /\ disk' \in [Addr -> Value] /\ cache' \in [Addr -> Value]
      /\ disk'[h] = disk[t] /\ cache'[h] = disk[t]
      /\ \A a \in Addr \ {h} : disk'[a] = disk[a] /\ cache'[a] = cache[a]
  BY <1>3 DEF install_trans, CopyBlock, Types
<1>5. pc' = pc /\ blk' = blk
  BY Bystanders DEF install_trans
<1>6. QED
  <2>1. \A k \in 1 .. Len(lh) : /\ k \in Addr \ Block /\ disk'[k] = disk[k]
                                /\ lh[k] \in Block /\ lh[k] \in Addr
    <3>1. ASSUME NEW k \in 1 .. Len(lh) PROVE k \in Addr \ Block /\ lh[k] \in Block
      BY <1>1, LoopIs, Layout DEF Fits, Types
    <3>2. QED
      BY <1>3, <1>4, <3>1, Layout
  <2>2. \A k \in 1 .. Len(lh) : k # t => lh[k] # h
    BY <1>2, <1>3 DEF NoDup, Types
  <2>3. \A k \in 1 .. t : disk'[lh[k]] = disk'[k]
    <3>1. disk'[lh[t]] = disk'[t]
      BY <1>3, <1>4, <2>1
    <3>2. \A k \in 1 .. tail : k \in 1 .. Len(lh) /\ k # t /\ disk[lh[k]] = disk[k]
      BY <1>1, <1>3, LoopIs DEF Contents
    <3>3. \A k \in 1 .. tail : disk'[lh[k]] = disk'[k]
      BY <1>4, <2>1, <2>2, <3>2
    <3>4. \A k \in 1 .. t : k = t \/ k \in 1 .. tail
      BY <1>1, LoopIs
    <3>5. QED
      BY <3>1, <3>3, <3>4
  <2>4. ~up => cache' = disk'
    <3>1. SUFFICES ASSUME ~up PROVE \A a \in Addr : cache'[a] = disk'[a]
      BY <1>4
    <3>2. QED
      BY <1>3, <1>4, <3>1 DEF Contents
  <2>5. up => \A a \in Addr : cache'[a] = cache[a]
    BY <1>1, <1>3, <1>4 DEF Contents
  <2>6. up => \A k \in 1 .. Len(lh) : disk'[k] = cache'[lh[k]]
    BY <1>1, <2>1, <2>5 DEF Contents
  <2>7. \A b \in Block : cache'[b] = disk'[b] \/ InLog(b)'
    BY <1>1, <1>3, <1>4, <1>5, Layout DEF Contents, InLog
  <2>8. \A a \in Addr \ Block : cache'[a] = disk'[a]
    BY <1>3, <1>4 DEF Contents
  <2>9. stage' = "install" => \A k \in 1 .. tail' : disk'[lh'[k]] = disk'[k]
    BY <1>1, <2>3, LoopIs
  <2>10. stage' = "erase" => \A k \in 1 .. Len(lh') : disk'[lh'[k]] = disk'[k]
    BY <1>1, <2>3, LoopIs
  <2>11. stage' \in {"install", "erase"}
    BY <1>1, LoopIs
  <2>12. QED
    BY <1>1, <1>2, <2>4, <2>6, <2>7, <2>8, <2>9, <2>10, <2>11 DEF Contents

\* When the log is erased, every block is at home.
LEMMA AllHome ==
  ASSUME IInv, stage = "erase"
  PROVE  \A b \in Block : cache[b] = disk[b]
<1>1. SUFFICES ASSUME NEW b \in Block, cache[b] # disk[b] PROVE FALSE
  OBVIOUS
<1>2. up /\ InCall = {}
  BY <1>1, Layout DEF IInv, Control, Contents, Phases
<1>3. PICK k \in DOMAIN lh : lh[k] = b
  BY <1>1, <1>2 DEF IInv, Contents, InLog, InCall
<1>4. k \in 1 .. Len(lh)
  BY <1>3 DEF IInv, Control, Types
<1>5. QED
  BY <1>1, <1>2, <1>3, <1>4 DEF IInv, Contents

LEMMA EraseLogControl == ASSUME Control, EraseLog PROVE Control'
<1> USE DEF Control
<1>1. InCall' = InCall /\ Counted'
  BY Bystanders DEF EraseLog
<1>2. InCall = {} /\ up' /\ stage' \in {"none", "release"} /\ tail' = 0
  BY DEF EraseLog, Phases
<1>3. Types'
  <2>1. <<>> \in Seq(Block)
    OBVIOUS
  <2>2. QED
    BY <1>2, <2>1, Bystanders DEF EraseLog, Types, Stages
<1>4. Phases' /\ Once'
  BY <1>1, <1>2 DEF EraseLog, Phases, Once, NoDup
<1>5. QED
  BY <1>1, <1>3, <1>4

LEMMA EraseLogContents == ASSUME IInv, EraseLog PROVE Contents'
<1>1. up' /\ stage' \in {"none", "release"} /\ Len(head') < SIZE
  BY Layout DEF EraseLog
<1>2. QED
  BY <1>1, AllHome DEF EraseLog, IInv, Contents

LEMMA read_headControl == ASSUME Control, read_head PROVE Control'
<1> USE DEF Control
<1>1. InCall' = InCall /\ Counted'
  BY Bystanders DEF read_head
<1>2. ~up /\ ~up' /\ tail' = 0 /\ tail = 0 /\ InCall = {} /\ stage' \in {"erase", "install"} /\ lh' = head
  BY DEF read_head, Phases
<1>3. Types'
  BY <1>2, Bystanders DEF read_head, Types, Stages
<1>4. head \in Seq(Block) /\ (head # <<>> => Len(head) > 0)
  BY DEF Types
<1>5. Phases' /\ Once'
  BY <1>1, <1>2, <1>4 DEF read_head, Phases, Once
<1>6. QED
  BY <1>1, <1>3, <1>5

LEMMA read_headContents == ASSUME IInv, read_head PROVE Contents'
<1>1. ~up /\ ~up' /\ tail' = 0 /\ stage' \in {"erase", "install"} /\ lh' = head
  BY DEF read_head, IInv, Control, Phases
<1>2. stage' = "erase" => Len(lh') = 0
  BY <1>1 DEF read_head
<1>3. cache' = disk'
  BY <1>1 DEF read_head, IInv, Contents
<1>4. QED
  BY <1>1, <1>2, <1>3 DEF read_head, IInv, Contents

LEMMA CrashControl == ASSUME Control, Crash PROVE Control'
<1> USE DEF Control
<1>1. InCall' = {}
  BY DEF Crash, InCall
<1>2. Types'
  <2>1. <<>> \in Seq(Block)
    OBVIOUS
  <2>2. QED
    BY <2>1 DEF Crash, Types, Places, Stages
<1>3. Counted'
  BY <1>1, FS_EmptySet DEF Crash, Counted
<1>4. Phases' /\ Once'
  BY <1>1 DEF Crash, Phases, Once, NoDup
<1>5. QED
  BY <1>2, <1>3, <1>4

LEMMA CrashContents == ASSUME IInv, Crash PROVE Contents'
BY Layout DEF Crash, IInv, Contents

\* The control of the log needs no hypothesis.
LEMMA NextControl == ASSUME Control, [Next]_vars PROVE Control'
<1>1. ASSUME NEW i \in Proc, CallStep(i) PROVE Control'
  BY <1>1, BeginSleepControl, BeginOpControl, LogCheckControl, LogAppendControl, EndOpControl,
     EndOpLastControl, EndCommitControl DEF CallStep
<1>2. ASSUME DiskStep PROVE Control'
  BY <1>2, write_logControl, write_headControl, install_transControl, EraseLogControl,
     read_headControl DEF DiskStep
<1>3. ASSUME UNCHANGED vars PROVE Control'
  BY <1>3 DEF vars, procVars, Control, Types, Counted, InCall, Phases, Once
<1>4. QED
  BY <1>1, <1>2, <1>3, CrashControl DEF Next

LEMMA NextInv == ASSUME IInv, Fits, [Next]_vars PROVE IInv'
<1>1. ASSUME NEW i \in Proc, CallStep(i) PROVE Contents'
  BY <1>1, BeginSleepContents, BeginOpContents, LogCheckContents, LogAppendContents,
     EndOpContents, EndOpLastContents, EndCommitContents DEF CallStep
<1>2. ASSUME DiskStep PROVE Contents'
  BY <1>2, write_logContents, write_headContents, install_transContents, EraseLogContents,
     read_headContents DEF DiskStep
<1>3. ASSUME UNCHANGED vars PROVE Contents'
  BY <1>3 DEF vars, procVars, IInv, Contents, InLog
<1>4. Contents'
  BY <1>1, <1>2, <1>3, CrashContents DEF Next
<1>5. QED
  BY <1>4, NextControl DEF IInv

-----------------------------------------------------------------------------
(* The refinement: Journal's variables are InCall, Mem and Recovered.      *)

Mem == IF up THEN [b \in Block |-> cache[b]] ELSE Recovered

\* What a recovery makes of the disk d with the header h.
Rec(d, h) ==
  [b \in Block |-> IF \E k \in DOMAIN h : h[k] = b THEN d[CHOOSE k \in DOMAIN h : h[k] = b] ELSE d[b]]

LEMMA RecValue ==
  ASSUME NEW d, NEW h \in Seq(Block), NoDup(h)
  PROVE  /\ \A k \in 1 .. Len(h) : Rec(d, h)[h[k]] = d[k]
         /\ \A b \in Block : (\A k \in 1 .. Len(h) : h[k] # b) => Rec(d, h)[b] = d[b]
<1>1. DOMAIN h = 1 .. Len(h) /\ \A k \in 1 .. Len(h) : h[k] \in Block
  OBVIOUS
<1>2. ASSUME NEW k \in 1 .. Len(h) PROVE Rec(d, h)[h[k]] = d[k]
  <2> DEFINE j == CHOOSE x \in DOMAIN h : h[x] = h[k]
  <2>1. j \in DOMAIN h /\ h[j] = h[k]
    BY <1>1, <1>2
  <2>2. j = k
    BY <1>1, <1>2, <2>1 DEF NoDup
  <2>3. QED
    BY <1>1, <1>2, <2>2 DEF Rec
<1>3. QED
  BY <1>1, <1>2 DEF Rec

LEMMA RecoveredIs == Recovered = Rec(disk, head) /\ Recovered' = Rec(disk', head')
BY DEF Recovered, Rec

\* Steps that leave the disk alone.
LEMMA RecoveredKept == ASSUME UNCHANGED <<disk, head>> PROVE Recovered' = Recovered
BY RecoveredIs

\* Two contents of the disk from which a recovery makes the same.
LEMMA RecSame ==
  ASSUME NEW d, NEW e, NEW h \in Seq(Block), NoDup(h), NEW g \in Seq(Block), NoDup(g),
         \A b \in Block : Rec(d, h)[b] = Rec(e, g)[b]
  PROVE  Rec(d, h) = Rec(e, g)
BY DEF Rec

\* The steps of the disk but for the header write of commit() change nothing
\* that a recovery sees, and nothing that system calls see.
LEMMA write_logSees == ASSUME IInv, Fits, write_log PROVE UNCHANGED <<Mem, Recovered>>
<1>1. stage = "log" /\ up /\ up' /\ head = <<>> /\ head' = <<>>
  BY DEF write_log, IInv, Control, Phases
<1>2. tail + 1 \in Addr \ Block
  <2>1. tail \in Nat /\ Len(lh) \in Nat /\ tail < Len(lh)
    BY <1>1 DEF IInv, Control, Types, Phases
  <2>2. QED
    BY <2>1, Layout DEF Fits
<1>3. \A b \in Block : cache'[b] = cache[b] /\ disk'[b] = disk[b]
  BY <1>2, Layout DEF write_log, CopyBlock, IInv, Control, Types
<1>4. Mem' = Mem
  BY <1>1, <1>3 DEF Mem
<1>5. Recovered' = Recovered
  BY <1>1, <1>3 DEF Recovered
<1>6. QED
  BY <1>4, <1>5

LEMMA install_transSees == ASSUME IInv, Fits, install_trans PROVE UNCHANGED <<Mem, Recovered>>
<1> DEFINE t == tail + 1
<1>1. /\ stage = "install" /\ up' = up /\ head' = head /\ head = lh
      /\ NoDup(head) /\ head \in Seq(Block) /\ LoopStep
  BY DEF install_trans, IInv, Control, Phases, Once, Types
<1>2. t \in 1 .. Len(lh) /\ lh[t] \in Block /\ lh[t] \in Addr /\ t \in Addr \ Block /\ cache[t] = disk[t]
  BY <1>1, LoopIs, Layout DEF Fits, IInv, Control, Types, Contents
<1>3. /\ disk'[lh[t]] = disk[t] /\ cache'[lh[t]] = disk[t]
      /\ \A a \in Addr \ {lh[t]} : disk'[a] = disk[a] /\ cache'[a] = cache[a]
  BY <1>2 DEF install_trans, CopyBlock, IInv, Control, Types
<1>4. \A k \in 1 .. Len(head) : disk'[k] = disk[k]
  BY <1>1, <1>2, <1>3, Layout DEF Fits, IInv, Control, Types
<1>5. Recovered' = Recovered
  <2>1. ASSUME NEW b \in Block PROVE Rec(disk', head)[b] = Rec(disk, head)[b]
    <3>1. CASE \E k \in 1 .. Len(head) : head[k] = b
      BY <1>1, <1>4, <3>1, RecValue
    <3>2. CASE \A k \in 1 .. Len(head) : head[k] # b
      <4>1. b # lh[t] /\ b \in Addr
        BY <1>1, <1>2, <3>2, Layout
      <4>2. QED
        BY <1>1, <1>3, <3>2, <4>1, RecValue
    <3>3. QED
      BY <3>1, <3>2
  <2>2. QED
    BY <1>1, <2>1, RecSame, RecoveredIs
<1>6. Mem' = Mem
  <2>1. CASE up
    <3>1. disk[t] = cache[lh[t]]
      BY <1>1, <1>2, <2>1 DEF IInv, Control, Contents
    <3>2. \A b \in Block : cache'[b] = cache[b]
      BY <1>3, <3>1, Layout
    <3>3. QED
      BY <1>1, <2>1, <3>2 DEF Mem
  <2>2. CASE ~up
    BY <1>1, <1>5, <2>2 DEF Mem
  <2>3. QED
    BY <2>1, <2>2
<1>7. QED
  BY <1>5, <1>6

LEMMA EraseLogSees == ASSUME IInv, EraseLog PROVE UNCHANGED <<Mem, Recovered>>
<1>1. /\ stage = "erase" /\ up' /\ head = lh /\ head' = <<>> /\ disk' = disk /\ cache' = cache
      /\ NoDup(head) /\ head \in Seq(Block)
  BY DEF EraseLog, IInv, Control, Phases, Once, Contents, Types
<1>2. Recovered = [b \in Block |-> disk[b]]
  <2>1. ASSUME NEW b \in Block PROVE Rec(disk, head)[b] = disk[b]
    <3>1. CASE \E k \in 1 .. Len(head) : head[k] = b
      <4>1. PICK k \in 1 .. Len(head) : head[k] = b
        BY <3>1
      <4>2. disk[b] = disk[k]
        BY <1>1, <4>1 DEF IInv, Control, Contents
      <4>3. QED
        BY <1>1, <4>1, <4>2, RecValue
    <3>2. CASE \A k \in 1 .. Len(head) : head[k] # b
      BY <1>1, <3>2, RecValue
    <3>3. QED
      BY <3>1, <3>2
  <2>2. Rec(disk, head) = [b \in Block |-> Rec(disk, head)[b]]
    BY DEF Rec
  <2>3. QED
    BY <2>1, <2>2, RecoveredIs
<1>3. Recovered' = [b \in Block |-> disk[b]]
  BY <1>1 DEF Recovered
<1>4. [b \in Block |-> cache[b]] = [b \in Block |-> disk[b]]
  BY <1>1, AllHome
<1>5. Mem = [b \in Block |-> disk[b]] /\ Mem' = [b \in Block |-> disk[b]]
  BY <1>1, <1>2, <1>4 DEF Mem
<1>6. QED
  BY <1>2, <1>3, <1>5

\* The header write of commit() makes durable all that is in memory.
LEMMA write_headCommits ==
  ASSUME IInv, Fits, write_head
  PROVE  InCall = {} /\ Mem' = Mem /\ Recovered' = Mem
<1>1. /\ stage = "head" /\ up /\ up' = up /\ head' = lh /\ disk' = disk /\ cache' = cache
      /\ InCall = {} /\ NoDup(lh) /\ lh \in Seq(Block)
  BY DEF write_head, IInv, Control, Phases, Once, Contents, Types
<1>2. ASSUME NEW b \in Block PROVE Rec(disk, lh)[b] = cache[b]
  <2>1. CASE \E k \in 1 .. Len(lh) : lh[k] = b
    <3>1. PICK k \in 1 .. Len(lh) : lh[k] = b
      BY <2>1
    <3>2. disk[k] = cache[b]
      BY <1>1, <3>1 DEF IInv, Control, Contents
    <3>3. QED
      BY <1>1, <3>1, <3>2, RecValue
  <2>2. CASE \A k \in 1 .. Len(lh) : lh[k] # b
    <3>1. ~InLog(b)
      BY <1>1, <2>2 DEF InLog, InCall
    <3>2. cache[b] = disk[b]
      BY <3>1 DEF IInv, Control, Contents
    <3>3. QED
      BY <1>1, <2>2, <3>2, RecValue
  <2>3. QED
    BY <2>1, <2>2
<1>3. Rec(disk, lh) = [b \in Block |-> Rec(disk, lh)[b]]
  BY DEF Rec
<1>4. QED
  BY <1>1, <1>2, <1>3, RecoveredIs DEF Mem

LEMMA read_headSees == ASSUME read_head PROVE UNCHANGED <<Mem, Recovered>>
<1>1. UNCHANGED <<disk, head, cache, up>>
  BY DEF read_head
<1>2. QED
  BY <1>1, RecoveredKept DEF Mem

LEMMA MemKept == ASSUME UNCHANGED <<disk, head, cache, up>> PROVE UNCHANGED <<Mem, Recovered>>
BY RecoveredKept DEF Mem

\* A step of the log that is not the header write of commit() stutters.
LEMMA Stutters == ASSUME UNCHANGED <<InCall, Mem, Recovered>> PROVE UNCHANGED J!jvars
BY DEF J!jvars, InCall, Mem

LEMMA CallRefines ==
  ASSUME IInv, NEW i \in Proc, CallStep(i)
  PROVE  [J!Next]_(J!jvars)
<1>0. pc \in [Proc -> Places]
  BY DEF IInv, Control, Types
<1>1. CASE BeginSleep(i)
  <2>1. InCall' = InCall
    BY <1>0, <1>1 DEF BeginSleep, InCall
  <2>2. QED
    BY <1>1, <2>1, MemKept, Stutters DEF BeginSleep
<1>2. CASE BeginOp(i)
  <2>1. InCall' = InCall \cup {i}
    BY <1>0, <1>2 DEF BeginOp, InCall
  <2>2. UNCHANGED <<Mem, Recovered>>
    BY <1>2, MemKept DEF BeginOp
  <2>3. J!Begin(i)
    BY <2>1, <2>2 DEF J!Begin, InCall, Mem
  <2>4. QED
    BY <2>3 DEF J!Next
<1>3. ASSUME NEW b \in Block, NEW v \in Value, LogCheck(i, b, v) PROVE J!Next
  <2>1. InCall' = InCall /\ i \in InCall
    BY <1>0, <1>3 DEF LogCheck, InCall
  <2>2. Recovered' = Recovered /\ up /\ up'
    BY <1>3, RecoveredKept DEF LogCheck, Running
  <2>3. Mem' = [Mem EXCEPT ![b] = v]
    <3>1. cache \in [Addr -> Value] /\ b \in Addr /\ cache' = [cache EXCEPT ![b] = v]
      BY <1>3, Layout DEF LogCheck, IInv, Control, Types
    <3>2. \A c \in Block : c \in Addr /\ cache'[c] = IF c = b THEN v ELSE cache[c]
      BY <3>1, Layout
    <3>3. Mem = [c \in Block |-> cache[c]] /\ Mem' = [c \in Block |-> cache'[c]]
      BY <2>2 DEF Mem
    <3>4. QED
      BY <3>2, <3>3
  <2>4. J!Write(i, b, v)
    BY <2>1, <2>2, <2>3 DEF J!Write, InCall, Mem
  <2>5. QED
    BY <2>4 DEF J!Next
<1>4. CASE LogAppend(i)
  <2>1. InCall' = InCall
    BY <1>0, <1>4 DEF LogAppend, InCall
  <2>2. QED
    BY <1>4, <2>1, MemKept, Stutters DEF LogAppend
<1>5. CASE EndOp(i) \/ EndOpLast(i)
  <2>1. InCall' = InCall \ {i} /\ i \in InCall
    BY <1>0, <1>5 DEF EndOp, EndOpLast, wakeup, InCall
  <2>2. UNCHANGED <<Mem, Recovered>>
    BY <1>5, MemKept DEF EndOp, EndOpLast
  <2>3. J!End(i)
    BY <2>1, <2>2 DEF J!End, InCall, Mem
  <2>4. QED
    BY <2>3 DEF J!Next
<1>6. CASE EndCommit(i)
  <2>1. InCall' = InCall
    BY <1>0, <1>6 DEF EndCommit, wakeup, InCall
  <2>2. QED
    BY <1>6, <2>1, MemKept, Stutters DEF EndCommit
<1>7. QED
  BY <1>1, <1>2, <1>3, <1>4, <1>5, <1>6 DEF CallStep

LEMMA DiskRefines == ASSUME IInv, Fits, DiskStep PROVE [J!Next]_(J!jvars)
<1>1. InCall' = InCall
  BY DEF DiskStep, write_log, write_head, install_trans, EraseLog, read_head, procVars, InCall
<1>2. CASE write_head
  <2>1. J!Commit
    BY <1>1, <1>2, write_headCommits DEF J!Commit, InCall, Mem
  <2>2. QED
    BY <2>1 DEF J!Next
<1>3. CASE ~write_head
  BY <1>1, <1>3, write_logSees, install_transSees, EraseLogSees, read_headSees, Stutters
     DEF DiskStep
<1>4. QED
  BY <1>2, <1>3

LEMMA CrashRefines == ASSUME Crash PROVE [J!Next]_(J!jvars)
<1>1. InCall' = {} /\ Recovered' = Recovered /\ Mem' = Recovered
  BY RecoveredKept DEF Crash, InCall, Mem
<1>2. J!Crash
  BY <1>1 DEF J!Crash, InCall, Mem
<1>3. QED
  BY <1>2 DEF J!Next

LEMMA NextRefines == ASSUME IInv, Fits, [Next]_vars PROVE [J!Next]_(J!jvars)
<1>1. ASSUME UNCHANGED vars PROVE UNCHANGED J!jvars
  <2>1. UNCHANGED <<disk, head, cache, up>> /\ InCall' = InCall
    BY <1>1 DEF vars, procVars, InCall
  <2>2. QED
    BY <2>1, MemKept, Stutters
<1>2. QED
  BY <1>1, CallRefines, DiskRefines, CrashRefines DEF Next

LEMMA InitRefines == ASSUME Init PROVE J!Init
<1>1. InCall = {} /\ ~up /\ head = <<>> /\ disk \in [Addr -> Value]
  BY DEF Init, InCall
<1>2. Recovered = [b \in Block |-> disk[b]]
  BY <1>1 DEF Recovered
<1>3. Recovered \in [Block -> Value]
  BY <1>1, <1>2, Layout
<1>4. QED
  BY <1>1, <1>3 DEF J!Init, InCall

-----------------------------------------------------------------------------
(* The reservation of begin_op(): what the calls under way may still add to *)
(* the transaction, as a set of slots, so that its size is a cardinality.   *)

SlotsOf(calls, w, b) ==
  {s \in calls \X (1 .. MAXOPBLOCKS) : s[2] > Cardinality(w[s[1]] \ {b[s[1]]})}

Slots == SlotsOf(InCall, wrote, blk)

\* What a system call has written, the block it has in log_write() included.
Written ==
  \A i \in Proc :
    /\ wrote[i] \subseteq Block
    /\ pc[i] = "logging" => blk[i] \in wrote[i] /\ Cardinality(wrote[i]) <= MAXOPBLOCKS
    /\ pc[i] # "logging" => blk[i] = NULL

Reserved ==
  /\ wrote \in [Proc -> SUBSET Block]
  /\ Written
  /\ Len(head) <= LOGSIZE
  /\ Len(lh) + Cardinality(Slots) <= LOGSIZE

LEMMA SlotsBound ==
  ASSUME NEW C, IsFiniteSet(C), NEW w, NEW b
  PROVE  /\ IsFiniteSet(SlotsOf(C, w, b))
         /\ Cardinality(SlotsOf(C, w, b)) \in Nat
         /\ Cardinality(SlotsOf(C, w, b)) <= Cardinality(C) * MAXOPBLOCKS
<1>1. MAXOPBLOCKS \in Nat \ {0}
  BY LogAssumption
<1>2. IsFiniteSet(1 .. MAXOPBLOCKS) /\ Cardinality(1 .. MAXOPBLOCKS) = MAXOPBLOCKS
  BY <1>1, FS_Interval
<1>3. /\ IsFiniteSet(C \X (1 .. MAXOPBLOCKS))
      /\ Cardinality(C \X (1 .. MAXOPBLOCKS)) = Cardinality(C) * MAXOPBLOCKS
  BY <1>2, FS_Product
<1>4. SlotsOf(C, w, b) \in SUBSET (C \X (1 .. MAXOPBLOCKS))
  BY DEF SlotsOf
<1>5. QED
  BY <1>3, <1>4, FS_Subset, FS_CardinalityType

LEMMA FiniteBlocks == ASSUME NEW S \in SUBSET Block PROVE IsFiniteSet(S) /\ Cardinality(S) \in Nat
<1>1. IsFiniteSet(Block)
  BY Layout, FS_Interval DEF Block
<1>2. QED
  BY <1>1, FS_Subset, FS_CardinalityType

\* A step that adds no slot and nothing to the log.
LEMMA FewerSlots ==
  ASSUME Control, Control', Reserved, Slots' \subseteq Slots, Len(lh') <= Len(lh), Len(head') <= LOGSIZE
  PROVE  Len(lh') + Cardinality(Slots') <= LOGSIZE
<1>1. IsFiniteSet(Slots) /\ Cardinality(Slots) \in Nat
  BY SlotsBound DEF Control, Counted, Slots
<1>2. Cardinality(Slots') <= Cardinality(Slots) /\ Cardinality(Slots') \in Nat
  BY <1>1, FS_Subset, FS_CardinalityType
<1>3. Len(lh) \in Nat /\ Len(lh') \in Nat /\ LOGSIZE \in Nat
  BY LogAssumption DEF Control, Types
<1>4. QED
  BY <1>1, <1>2, <1>3 DEF Reserved

\* The steps that write no block: nobody enters a system call.
LEMMA QuietReserved ==
  ASSUME Control, Control', Reserved, InCall' \subseteq InCall, UNCHANGED <<wrote, blk>>,
         \A i \in Proc : pc'[i] = "logging" <=> pc[i] = "logging",
         Len(lh') <= Len(lh), Len(head') <= LOGSIZE
  PROVE  Reserved'
<1>1. Slots' \subseteq Slots
  BY DEF Slots, SlotsOf
<1>2. Len(lh') + Cardinality(Slots') <= LOGSIZE
  BY <1>1, FewerSlots
<1>3. QED
  BY <1>2 DEF Reserved, Written

LEMMA BeginOpReserved ==
  ASSUME Control, Control', Reserved, NEW i \in Proc, BeginOp(i)
  PROVE  Reserved'
<1>1. /\ ~(Len(lh) + (outstanding + 1) * MAXOPBLOCKS > LOGSIZE)
      /\ UNCHANGED <<lh, head, blk>> /\ outstanding' = outstanding + 1
  BY DEF BeginOp, MustWait
<1>2. /\ Cardinality(Slots') \in Nat
      /\ Cardinality(Slots') <= (outstanding + 1) * MAXOPBLOCKS
  BY <1>1, SlotsBound DEF Control, Counted, Slots
<1>3. Len(lh) \in Nat /\ LOGSIZE \in Nat /\ (outstanding + 1) * MAXOPBLOCKS \in Nat
  BY LogAssumption DEF Control, Types
<1>4. Len(lh') + Cardinality(Slots') <= LOGSIZE
  BY <1>1, <1>2, <1>3
<1>5. wrote' \in [Proc -> SUBSET Block] /\ Written'
  BY DEF Reserved, Written, BeginOp, Control, Types
<1>6. QED
  BY <1>1, <1>4, <1>5 DEF Reserved

\* What LogCheck takes out of the reservation is the block in log_write().
LEMMA LogCheckReserved ==
  ASSUME Control, Control', Reserved, NEW i \in Proc, NEW b \in Block, NEW v \in Value, LogCheck(i, b, v)
  PROVE  Reserved'
<1>1. /\ pc[i] = "op" /\ b \notin wrote[i] /\ Cardinality(wrote[i]) < MAXOPBLOCKS
      /\ wrote' = [wrote EXCEPT ![i] = wrote[i] \cup {b}] /\ blk' = [blk EXCEPT ![i] = b]
      /\ pc' = [pc EXCEPT ![i] = "logging"] /\ UNCHANGED <<lh, head>>
  BY DEF LogCheck
<1>2. wrote \in [Proc -> SUBSET Block] /\ pc \in [Proc -> Places] /\ blk \in [Proc -> Block \cup {NULL}]
  BY DEF Reserved, Control, Types
<1>3. Cardinality(wrote[i] \cup {b}) = Cardinality(wrote[i]) + 1 /\ Cardinality(wrote[i]) \in Nat
  BY <1>1, <1>2, FiniteBlocks, FS_AddElement
<1>4. wrote' \in [Proc -> SUBSET Block] /\ Written'
  <2>1. MAXOPBLOCKS \in Nat
    BY LogAssumption
  <2>2. Cardinality(wrote'[i]) <= MAXOPBLOCKS
    BY <1>1, <1>2, <1>3, <2>1
  <2>3. QED
    BY <1>1, <1>2, <2>2 DEF Reserved, Written
<1>5. \A j \in Proc : wrote'[j] \ {blk'[j]} = wrote[j] \ {blk[j]}
  <2>1. blk[i] = NULL /\ NULL \notin wrote[i]
    BY <1>1, <1>2, Layout DEF Reserved, Written
  <2>2. wrote'[i] \ {blk'[i]} = wrote[i] /\ wrote[i] \ {blk[i]} = wrote[i]
    BY <1>1, <1>2, <2>1
  <2>3. QED
    BY <1>1, <1>2, <2>2
<1>6. InCall' = InCall /\ InCall \subseteq Proc
  BY <1>1, <1>2 DEF InCall
<1>7. Slots' \subseteq Slots
  <2>1. ASSUME NEW s \in Slots' PROVE s \in Slots
    <3>1. s \in InCall \X (1 .. MAXOPBLOCKS) /\ s[2] > Cardinality(wrote'[s[1]] \ {blk'[s[1]]})
      BY <1>6, <2>1 DEF Slots, SlotsOf
    <3>2. s[1] \in Proc
      BY <1>6, <3>1
    <3>3. QED
      BY <1>5, <3>1, <3>2 DEF Slots, SlotsOf
  <2>2. QED
    BY <2>1
<1>8. Len(lh') <= Len(lh) /\ Len(head') <= LOGSIZE
  BY <1>1 DEF Reserved, Control, Types
<1>9. QED
  BY <1>4, <1>7, <1>8, FewerSlots DEF Reserved

\* log_write() uses up a slot for the block it adds.
LEMMA LogAppendReserved ==
  ASSUME Control, Control', Reserved, NEW i \in Proc, LogAppend(i)
  PROVE  Reserved'
<1> DEFINE c == Cardinality(wrote[i])
<1>1. /\ pc[i] = "logging" /\ lh' = Absorbed(lh, blk[i]) /\ UNCHANGED <<head, wrote>>
      /\ blk' = [blk EXCEPT ![i] = NULL] /\ pc' = [pc EXCEPT ![i] = "op"]
  BY DEF LogAppend
<1>2. wrote \in [Proc -> SUBSET Block] /\ pc \in [Proc -> Places] /\ blk \in [Proc -> Block \cup {NULL}]
  BY DEF Reserved, Control, Types
<1>3. wrote' \in [Proc -> SUBSET Block] /\ Written'
  BY <1>1, <1>2 DEF Reserved, Written
<1>4. blk[i] \in wrote[i] /\ c <= MAXOPBLOCKS /\ MAXOPBLOCKS \in Nat /\ NULL \notin wrote[i]
  BY <1>1, <1>2, Layout, LogAssumption DEF Reserved, Written
<1>5. c \in Nat /\ Cardinality(wrote[i] \ {blk[i]}) = c - 1 /\ Cardinality(wrote[i] \ {blk[i]}) \in Nat
  BY <1>2, <1>4, FiniteBlocks, FS_RemoveElement
<1>6. InCall' = InCall /\ i \in InCall /\ InCall \subseteq Proc
  BY <1>1, <1>2 DEF InCall
<1>7. <<i, c>> \in Slots
  <2>1. c \in 1 .. MAXOPBLOCKS /\ c > Cardinality(wrote[i] \ {blk[i]})
    BY <1>4, <1>5
  <2> HIDE DEF c
  <2>2. <<i, c>> \in InCall \X (1 .. MAXOPBLOCKS) /\ <<i, c>>[1] = i /\ <<i, c>>[2] = c
    BY <1>6, <2>1
  <2>3. QED
    BY <2>1, <2>2 DEF Slots, SlotsOf
<1>8. Slots' \subseteq Slots \ {<<i, c>>}
  <2>1. ASSUME NEW s \in Slots' PROVE s \in Slots \ {<<i, c>>}
    <3>1. s \in InCall \X (1 .. MAXOPBLOCKS) /\ s[2] > Cardinality(wrote[s[1]] \ {blk'[s[1]]})
      BY <1>1, <1>6, <2>1 DEF Slots, SlotsOf
    <3>2. s[1] \in Proc /\ s[2] \in Nat
      BY <1>6, <3>1
    <3>3. CASE s[1] = i
      <4>1. wrote[i] \ {blk'[i]} = wrote[i]
        BY <1>1, <1>2, <1>4
      <4>2. s[2] > c
        BY <3>1, <3>3, <4>1
      <4>3. s[2] > Cardinality(wrote[s[1]] \ {blk[s[1]]}) /\ s[2] # c
        BY <1>5, <3>2, <3>3, <4>2
      <4>4. QED
        BY <3>1, <4>3 DEF Slots, SlotsOf
    <3>4. CASE s[1] # i
      <4>1. blk'[s[1]] = blk[s[1]]
        BY <1>1, <1>2, <3>2, <3>4
      <4>2. QED
        BY <3>1, <3>4, <4>1 DEF Slots, SlotsOf
    <3>5. QED
      BY <3>3, <3>4
  <2>2. QED
    BY <2>1
<1>9. Cardinality(Slots') \in Nat /\ Cardinality(Slots') <= Cardinality(Slots) - 1 /\ Cardinality(Slots) \in Nat
  <2>1. IsFiniteSet(Slots) /\ Cardinality(Slots) \in Nat
    BY SlotsBound DEF Control, Counted, Slots
  <2>2. /\ IsFiniteSet(Slots \ {<<i, c>>})
        /\ Cardinality(Slots \ {<<i, c>>}) = Cardinality(Slots) - 1
    BY <1>7, <2>1, FS_RemoveElement
  <2>3. Slots' \in SUBSET (Slots \ {<<i, c>>})
    BY <1>8
  <2>4. QED
    BY <2>1, <2>2, <2>3, FS_Subset, FS_CardinalityType
<1>10. Len(lh) \in Nat /\ Len(lh') \in Nat /\ Len(lh') <= Len(lh) + 1
  BY <1>1, <1>2, <1>4 DEF Absorbed, Control, Types
<1>11. Len(lh') + Cardinality(Slots') <= LOGSIZE
  <2>1. Len(lh) + Cardinality(Slots) <= LOGSIZE /\ LOGSIZE \in Nat
    BY LogAssumption DEF Reserved
  <2>2. QED
    BY <1>9, <1>10, <2>1
<1>12. QED
  BY <1>1, <1>3, <1>11 DEF Reserved

LEMMA DiskReserved == ASSUME Control, Control', Reserved, DiskStep PROVE Reserved'
<1>1. UNCHANGED procVars
  BY DEF DiskStep, write_log, write_head, install_trans, EraseLog, read_head
<1>2. InCall' = InCall /\ Slots' = Slots /\ UNCHANGED <<wrote, pc, blk>>
  BY <1>1 DEF procVars, InCall, Slots, SlotsOf
<1>3. Len(lh) \in Nat /\ Len(head) \in Nat /\ LOGSIZE \in Nat
  BY LogAssumption DEF Control, Types
<1>4. Cardinality(Slots) \in Nat
  BY SlotsBound DEF Control, Counted, Slots
<1>5. CASE read_head
  <2>1. InCall = {}
    BY <1>5 DEF read_head, Control, Phases
  <2>2. Cardinality(Slots) = 0
    <3>1. Slots = {}
      BY <2>1 DEF Slots, SlotsOf
    <3>2. QED
      BY <3>1, FS_EmptySet
  <2>3. Len(lh') + Cardinality(Slots') <= LOGSIZE /\ Len(head') <= LOGSIZE
    BY <1>2, <1>3, <1>5, <2>2 DEF read_head, Reserved
  <2>4. QED
    BY <1>2, <2>3 DEF Reserved, Written
<1>6. CASE ~read_head
  <2>1. Len(lh') <= Len(lh) /\ Len(head') <= LOGSIZE
    BY <1>3, <1>4, <1>6 DEF DiskStep, write_log, write_head, install_trans, EraseLog, Reserved
  <2>2. QED
    BY <1>2, <2>1, QuietReserved
<1>7. QED
  BY <1>5, <1>6

LEMMA CallReserved ==
  ASSUME Control, Control', Reserved, NEW i \in Proc, CallStep(i)
  PROVE  Reserved'
<1>1. CASE BeginSleep(i) \/ EndOp(i) \/ EndOpLast(i) \/ EndCommit(i)
  <2>1. /\ InCall' \subseteq InCall /\ UNCHANGED <<wrote, blk, lh, head>>
        /\ \A j \in Proc : pc'[j] = "logging" <=> pc[j] = "logging"
    BY <1>1 DEF BeginSleep, EndOp, EndOpLast, EndCommit, wakeup, InCall, Control, Types
  <2>2. Len(lh') <= Len(lh) /\ Len(head') <= LOGSIZE
    BY <2>1 DEF Reserved, Control, Types
  <2>3. QED
    BY <2>1, <2>2, QuietReserved
<1>2. QED
  BY <1>1, BeginOpReserved, LogCheckReserved, LogAppendReserved DEF CallStep

LEMMA NothingReserved ==
  /\ pc = [i \in Proc |-> "idle"] => Cardinality(Slots) = 0
  /\ pc' = [i \in Proc |-> "idle"] => Cardinality(Slots') = 0
<1>1. pc = [i \in Proc |-> "idle"] => Slots = {}
  BY DEF Slots, SlotsOf, InCall
<1>2. pc' = [i \in Proc |-> "idle"] => Slots' = {}
  BY DEF Slots, SlotsOf, InCall
<1>3. QED
  BY <1>1, <1>2, FS_EmptySet

LEMMA InitReserved == ASSUME Init PROVE Reserved
<1>1. wrote \in [Proc -> SUBSET Block] /\ Written
  BY DEF Init, Written
<1>2. Len(head) = 0 /\ Len(lh) = 0 /\ Cardinality(Slots) = 0 /\ LOGSIZE \in Nat
  BY NothingReserved, LogAssumption DEF Init
<1>3. QED
  BY <1>1, <1>2 DEF Reserved

LEMMA NextReserved == ASSUME Control, Control', Reserved, [Next]_vars PROVE Reserved'
<1>1. ASSUME Crash PROVE Reserved'
  <2>1. wrote' \in [Proc -> SUBSET Block] /\ Written'
    BY <1>1 DEF Crash, Written
  <2>2. Len(lh') = 0 /\ head' = head /\ Cardinality(Slots') = 0 /\ LOGSIZE \in Nat
    BY <1>1, NothingReserved, LogAssumption DEF Crash
  <2>3. QED
    BY <2>1, <2>2 DEF Reserved
<1>2. ASSUME UNCHANGED vars PROVE Reserved'
  <2>1. UNCHANGED <<wrote, blk, pc, lh, head>> /\ InCall' = InCall
    BY <1>2 DEF vars, procVars, InCall
  <2>2. Len(lh') <= Len(lh) /\ Len(head') <= LOGSIZE
    BY <2>1 DEF Reserved, Control, Types
  <2>3. QED
    BY <2>1, <2>2, QuietReserved
<1>3. QED
  BY <1>1, <1>2, CallReserved, DiskReserved DEF Next

\* When the log has room for LOGSIZE blocks, what was reserved fits.
LEMMA ReservedFits == ASSUME LOGSIZE < SIZE, Control, Reserved PROVE Fits
<1>1. Cardinality(Slots) \in Nat /\ Len(lh) \in Nat
  BY SlotsBound DEF Control, Types, Counted, Slots
<1>2. QED
  BY <1>1, LogAssumption DEF Reserved, Fits

LEMMA InitFlags == ASSUME Init PROVE Flags
BY DEF Init, Flags

LEMMA NextFlags == ASSUME Flags, [Next]_vars PROVE Flags'
<1>1. ASSUME NEW i \in Proc, CallStep(i) PROVE Flags'
  BY <1>1 DEF CallStep, BeginSleep, BeginOp, LogCheck, LogAppend, EndOp, EndOpLast, EndCommit, Flags
<1>2. ASSUME DiskStep PROVE Flags'
  BY <1>2 DEF DiskStep, write_log, write_head, install_trans, EraseLog, read_head, Flags
<1>3. ASSUME Crash PROVE Flags'
  BY <1>3 DEF Crash, Flags
<1>4. ASSUME UNCHANGED vars PROVE Flags'
  BY <1>4 DEF vars, Flags
<1>5. QED
  BY <1>1, <1>2, <1>3, <1>4 DEF Next

\* The slots are the blocks that RoomReserved counts.
LEMMA ReservedIsRoom == ASSUME Control, Flags, Reserved PROVE RoomReserved
<1>1. MayAdd = Slots
  BY DEF MayAdd, Slots, SlotsOf, InCall
<1>2. outstanding \in 0 .. Cardinality(Proc)
  <2>1. InCall \in SUBSET Proc /\ IsFiniteSet(Proc)
    BY LogAssumption DEF InCall
  <2>2. Cardinality(InCall) <= Cardinality(Proc) /\ Cardinality(Proc) \in Nat
    BY <2>1, FS_Subset, FS_CardinalityType
  <2>3. QED
    BY <2>2 DEF Control, Types, Counted
<1>3. tail \in 0 .. Len(lh)
  <2>1. lh \in Seq(Block) /\ Len(lh) \in Nat /\ tail \in Nat
    BY DEF Control, Types
  <2>2. tail = 0 \/ tail < Len(lh)
    BY DEF Control, Phases
  <2>3. QED
    BY <2>1, <2>2
<1>4. TypeOK
  BY <1>2, <1>3 DEF Control, Types, Flags, Reserved, TypeOK
<1>5. QED
  BY <1>1, <1>4 DEF RoomReserved, Reserved

-----------------------------------------------------------------------------
\* While no system call and no commit is under way, the header on the disk is
\* empty and every block of the file system is on the disk as it is in the
\* cache: end_op() leaves nothing behind that a crash would lose.
THEOREM QuietDurable == Spec /\ []Fits => []QuietIsDurable
<1>1. ASSUME IInv PROVE QuietIsDurable
  <2>1. SUFFICES ASSUME Running, outstanding = 0, ~committing
                 PROVE  head = <<>> /\ \A b \in Block : disk[b] = cache[b]
    BY DEF QuietIsDurable
  <2>2. InCall = {}
    BY <1>1, <2>1, FS_EmptySet DEF IInv, Control, Counted
  <2>3. stage = "none" /\ lh = <<>> /\ head = <<>>
    BY <1>1, <2>1, <2>2 DEF IInv, Control, Phases, Running
  <2>4. \A b \in Block : ~InLog(b)
    BY <2>2, <2>3 DEF InLog, InCall
  <2>5. QED
    BY <1>1, <2>3, <2>4 DEF IInv, Control, Contents
<1>2. Init => IInv
  BY InitInv
<1>3. IInv /\ Fits /\ [Next]_vars => IInv'
  BY NextInv
<1>4. QED
  BY <1>1, <1>2, <1>3, PTL DEF Spec

\* commit() makes the writes of the system calls of a transaction durable in
\* one step, and a crash at any point of begin_op(), log_write(), end_op(),
\* the commit or the recovery leaves each of them done or undone as a whole.
THEOREM Atomic == Spec /\ []Fits => ImplementsJournal
<1>1. Init => IInv /\ J!Init
  BY InitInv, InitRefines
<1>2. IInv /\ Fits /\ [Next]_vars => IInv'
  BY NextInv
<1>3. IInv /\ Fits /\ [Next]_vars => [J!Next]_(J!jvars)
  BY NextRefines
<1>4. QED
  BY <1>1, <1>2, <1>3, PTL DEF Spec, ImplementsJournal, J!Spec

\* begin_op() reserves enough: the blocks in the transaction and those that
\* the system calls under way may still add are never more than LOGSIZE, even
\* while log_write() tests the size of the log before it has the lock.  This
\* holds whether the transaction fits the log or not.
THEOREM RoomKept == Spec => []RoomReserved
<1>1. Init => Control /\ Flags /\ Reserved
  BY InitControl, InitFlags, InitReserved
<1>2. Control /\ Flags /\ Reserved /\ [Next]_vars => Control' /\ Flags' /\ Reserved'
  BY NextControl, NextFlags, NextReserved
<1>3. Control /\ Flags /\ Reserved => RoomReserved
  BY ReservedIsRoom
<1>4. QED
  BY <1>1, <1>2, <1>3, PTL DEF Spec

\* A log with LOGSIZE blocks behind its header is never too small for the
\* transactions that begin_op() admits, so it needs no further hypothesis.
THEOREM LargeLogAtomic ==
  ASSUME LOGSIZE < SIZE
  PROVE  Spec => ImplementsJournal /\ []QuietIsDurable
<1>1. Init => Control /\ Reserved
  BY InitControl, InitReserved
<1>2. Control /\ Reserved => Fits
  BY ReservedFits
<1>3. Control /\ Reserved /\ [Next]_vars => Control' /\ Reserved'
  BY NextControl, NextReserved
<1>4. Spec => []Fits
  BY <1>1, <1>2, <1>3, PTL DEF Spec
<1>5. QED
  BY <1>4, Atomic, QuietDurable, PTL
=============================================================================
