-------------------------------- MODULE Log --------------------------------
(***************************************************************************)
(* The write-ahead log of xv6_lab3 (log.c) above the buffer cache (bio.c)  *)
(* and the disk, with crashes.                                             *)
(*                                                                         *)
(* Threads run file system calls: begin_op(), a few times "bread, modify,  *)
(* log_write, brelse" of a block, end_op().  A section under log.lock is   *)
(* one step; a sleep on &log inside it loses no wakeup (see Proc).  Each   *)
(* write of a block to the disk is one step, atomic and in program order   *)
(* because bwrite() waits for the disk.  A crash may come between any two  *)
(* steps; the next boot runs recover_from_log().                           *)
(***************************************************************************)
EXTENDS Integers, Sequences, FiniteSets

CONSTANTS
  Threads,       \* processes that make file system calls
  Blocks,        \* blocks of the file system proper
  AfterLog,      \* the block behind the log area (sb.inodestart)
  Values,        \* what a block may hold
  NotCached, NoBlock,
  MAXOPBLOCKS, LOGSIZE,   \* param.h
  NLOG,          \* blocks of the log area, header included (log.size)
  OpBlocks       \* blocks a call really writes, at most MAXOPBLOCKS

ASSUME LogConstants ==
  /\ IsFiniteSet(Threads)
  /\ AfterLog \in Blocks
  /\ Values # {}
  /\ NotCached \notin Values
  /\ NoBlock \notin Blocks
  /\ MAXOPBLOCKS \in Nat \ {0}
  /\ LOGSIZE \in Nat /\ LOGSIZE >= MAXOPBLOCKS
  /\ NLOG \in Nat \ {0}
  /\ OpBlocks \in 0 .. MAXOPBLOCKS

VARIABLES
  disk,         \* the blocks at their home on the disk
  logblk,       \* the blocks of the log area behind its header
  head,         \* the header block of the log: the numbers of the logged blocks
  lh,           \* log.lh, the header in memory
  outstanding, committing,      \* struct log
  cache,        \* block -> b->data of its buffer, or NotCached
  dirty,        \* blocks whose buffer has B_DIRTY
  pc, buf,      \* thread -> where it is; the block it has locked
  wrote,        \* thread -> the blocks its call has logged
  cpc, tail,    \* where commit() or recover_from_log() is
  panicked

memory == <<lh, outstanding, committing, cache, dirty, pc, buf, wrote, cpc, tail, panicked>>
vars == <<disk, logblk, head, memory>>

LogSlots == 1 .. NLOG - 1

Init ==
  /\ disk \in [Blocks -> Values]
  /\ \E v \in Values : logblk = [i \in LogSlots |-> v]
  /\ head = <<>> /\ lh = <<>>
  /\ outstanding = 0 /\ committing = 0
  /\ cache = [b \in Blocks |-> NotCached]
  /\ dirty = {}
  /\ pc = [t \in Threads |-> "out"]
  /\ buf = [t \in Threads |-> NoBlock]
  /\ wrote = [t \in Threads |-> {}]
  /\ cpc = "read_head" /\ tail = 0
  /\ panicked = 0

-----------------------------------------------------------------------------
\* The buffer cache

\* What bread(b) finds: the cached data, or what it then reads from the disk.
Content(b) == IF cache[b] = NotCached THEN disk[b] ELSE cache[b]

Locked(b) == \E t \in Threads : buf[t] = b

\* recover_from_log() runs before the first file system call.
Recovering == committing = 0 /\ cpc # "idle"

\* A reader outside any call brings a block into the cache.
Load(b) ==
  /\ ~Recovering /\ ~Locked(b)
  /\ cache' = [cache EXCEPT ![b] = Content(b)]
  /\ UNCHANGED <<disk, logblk, head, lh, outstanding, committing, dirty, pc, buf,
                 wrote, cpc, tail, panicked>>

\* bget() gives the buffer of b to another block, never a B_DIRTY one.
MayRecycle(b) == ~Locked(b) /\ b \notin dirty

Recycle(b) ==
  /\ MayRecycle(b)
  /\ cache' = [cache EXCEPT ![b] = NotCached]
  /\ UNCHANGED <<disk, logblk, head, lh, outstanding, committing, dirty, pc, buf,
                 wrote, cpc, tail, panicked>>

-----------------------------------------------------------------------------
\* File system calls

\* Mutant: the calls in progress are given no room.
LogHasRoomForOne == Len(lh) + MAXOPBLOCKS <= LOGSIZE
LogHasRoom == Len(lh) + (outstanding + 1) * MAXOPBLOCKS <= LOGSIZE

InBeginOp(t) == pc[t] \in {"out", "woken"} /\ ~Recovering

\* Mutant: the call is not counted.
AdmitUncounted == outstanding
Admit == outstanding + 1

BeginOp(t) ==
  /\ InBeginOp(t)
  /\ committing = 0 /\ LogHasRoom
  /\ outstanding' = Admit
  /\ pc' = [pc EXCEPT ![t] = "in"]
  /\ wrote' = [wrote EXCEPT ![t] = {}]
  /\ UNCHANGED <<disk, logblk, head, lh, committing, cache, dirty, buf, cpc, tail, panicked>>

BeginOpSleeps(t) ==
  /\ InBeginOp(t)
  /\ committing = 1 \/ ~LogHasRoom
  /\ pc' = [pc EXCEPT ![t] = "asleep"]
  /\ UNCHANGED <<disk, logblk, head, lh, outstanding, committing, cache, dirty, buf,
                 wrote, cpc, tail, panicked>>

\* The call reads block b and changes the buffer's data.  A call writes at
\* most OpBlocks different blocks.
Modify(t, b, v) ==
  /\ pc[t] = "in" /\ ~Locked(b)
  /\ Cardinality(wrote[t] \cup {b}) <= OpBlocks
  /\ cache' = [cache EXCEPT ![b] = v]
  /\ buf' = [buf EXCEPT ![t] = b]
  /\ pc' = [pc EXCEPT ![t] = "modified"]
  /\ UNCHANGED <<disk, logblk, head, lh, outstanding, committing, dirty, wrote, cpc,
                 tail, panicked>>

\* log_write() looks at log.lh.n and log.outstanding before it takes log.lock.
LogWriteCheck(t) ==
  /\ pc[t] = "modified"
  /\ IF Len(lh) >= LOGSIZE \/ Len(lh) >= NLOG - 1 \/ outstanding < 1
     THEN panicked' = 1 /\ UNCHANGED pc
     ELSE pc' = [pc EXCEPT ![t] = "checked"] /\ UNCHANGED panicked
  /\ UNCHANGED <<disk, logblk, head, lh, outstanding, committing, cache, dirty, buf,
                 wrote, cpc, tail>>

\* Mutant: the buffer is not pinned.
RecordUnpinned(b) ==
  /\ lh' = IF \E i \in 1 .. Len(lh) : lh[i] = b THEN lh ELSE Append(lh, b)
  /\ UNCHANGED dirty

Record(b) ==
  /\ lh' = IF \E i \in 1 .. Len(lh) : lh[i] = b THEN lh ELSE Append(lh, b)
  /\ dirty' = dirty \cup {b}

\* The rest of log_write(), under log.lock, and brelse().
LogWrite(t) ==
  /\ pc[t] = "checked"
  /\ Record(buf[t])
  /\ wrote' = [wrote EXCEPT ![t] = @ \cup {buf[t]}]
  /\ buf' = [buf EXCEPT ![t] = NoBlock]
  /\ pc' = [pc EXCEPT ![t] = "in"]
  /\ UNCHANGED <<disk, logblk, head, outstanding, committing, cache, cpc, tail, panicked>>

\* wakeup(&log) on the program counters p.
Wakeup(p) == [t \in Threads |-> IF p[t] = "asleep" THEN "woken" ELSE p[t]]

\* end_op() while other calls run: their waiters may now find room.
EndOpWakes(t) == Wakeup([pc EXCEPT ![t] = "out"])

\* end_op(), up to commit() when this was the last call.
EndOp(t) ==
  /\ pc[t] = "in"
  /\ outstanding' = outstanding - 1
  /\ IF committing = 1
     THEN panicked' = 1 /\ UNCHANGED <<committing, pc, cpc, tail>>
     ELSE IF outstanding = 1
     THEN /\ committing' = 1
          /\ pc' = [pc EXCEPT ![t] = "commit"]
          /\ cpc' = IF lh = <<>> THEN "done" ELSE "write_log"
          /\ tail' = 0
          /\ UNCHANGED panicked
     ELSE /\ pc' = EndOpWakes(t)
          /\ UNCHANGED <<committing, cpc, tail, panicked>>
  /\ UNCHANGED <<disk, logblk, head, lh, cache, dirty, buf, wrote>>

-----------------------------------------------------------------------------
\* commit() and recover_from_log()

\* One turn of a loop over log.lh: on to the next entry, or to `then'.
Turn(then) ==
  /\ tail' = tail + 1
  /\ cpc' = IF tail + 1 < Len(lh) THEN cpc ELSE then

\* One block of write_log().  Past the end of the log area the "log block"
\* is the first block behind it.
WriteLog ==
  /\ cpc = "write_log"
  /\ LET from == lh[tail + 1] IN
     IF tail + 1 < NLOG
     THEN /\ logblk' = [logblk EXCEPT ![tail + 1] = Content(from)]
          /\ cache' = [cache EXCEPT ![from] = Content(from)]
          /\ UNCHANGED <<disk, dirty>>
     ELSE /\ cache' = [cache EXCEPT ![from] = Content(from), ![AfterLog] = Content(from)]
          /\ disk' = [disk EXCEPT ![AfterLog] = Content(from)]
          /\ dirty' = dirty \ {AfterLog}
          /\ UNCHANGED logblk
  /\ Turn("write_head")
  /\ UNCHANGED <<head, lh, outstanding, committing, pc, buf, wrote, panicked>>

\* The header goes to the disk: the real commit.
WriteHead ==
  /\ cpc = "write_head"
  /\ head' = lh
  /\ cpc' = "install_trans" /\ tail' = 0
  /\ UNCHANGED <<disk, logblk, lh, outstanding, committing, cache, dirty, pc, buf,
                 wrote, panicked>>

\* What install_trans() finds in log block i.
LogContent(i) == IF i < NLOG THEN logblk[i] ELSE Content(AfterLog)

\* One block of install_trans().
InstallTrans ==
  /\ cpc = "install_trans"
  /\ LET b == lh[tail + 1] IN
       /\ disk' = [disk EXCEPT ![b] = LogContent(tail + 1)]
       /\ cache' = [cache EXCEPT ![b] = LogContent(tail + 1)]
       /\ dirty' = dirty \ {b}
  /\ Turn("clear")
  /\ UNCHANGED <<logblk, head, lh, outstanding, committing, pc, buf, wrote, panicked>>

\* log.lh.n = 0 and write_head().
ClearLog ==
  /\ cpc = "clear"
  /\ lh' = <<>> /\ head' = <<>>
  /\ cpc' = IF committing = 1 THEN "done" ELSE "idle"
  /\ tail' = 0
  /\ UNCHANGED <<disk, logblk, outstanding, committing, cache, dirty, pc, buf, wrote, panicked>>

\* Mutant: the waiters are forgotten.
CommitWakesNone(p) == p
CommitWakes(p) == Wakeup(p)

\* The end of end_op() after commit().
CommitDone(t) ==
  /\ cpc = "done" /\ pc[t] = "commit"
  /\ committing' = 0
  /\ pc' = CommitWakes([pc EXCEPT ![t] = "out"])
  /\ cpc' = "idle"
  /\ UNCHANGED <<disk, logblk, head, lh, outstanding, cache, dirty, buf, wrote, tail, panicked>>

\* read_head() at boot.  Mutant: the log is taken as empty.
ReadHeadIgnored == <<>>
ReadHeadBlocks == head

ReadHead ==
  /\ cpc = "read_head"
  /\ lh' = ReadHeadBlocks
  /\ cpc' = IF ReadHeadBlocks = <<>> THEN "clear" ELSE "install_trans"
  /\ tail' = 0
  /\ UNCHANGED <<disk, logblk, head, outstanding, committing, cache, dirty, pc, buf,
                 wrote, panicked>>

\* The machine stops, with all that is in memory, and boots again.
Crash ==
  /\ lh' = <<>>
  /\ outstanding' = 0 /\ committing' = 0
  /\ cache' = [b \in Blocks |-> NotCached]
  /\ dirty' = {}
  /\ pc' = [t \in Threads |-> "out"]
  /\ buf' = [t \in Threads |-> NoBlock]
  /\ wrote' = [t \in Threads |-> {}]
  /\ cpc' = "read_head" /\ tail' = 0
  /\ panicked' = 0
  /\ UNCHANGED <<disk, logblk, head>>

-----------------------------------------------------------------------------
\* What thread t does by itself once it has made its call.
CallStep(t) ==
  \/ BeginOp(t) \/ BeginOpSleeps(t) \/ LogWriteCheck(t) \/ LogWrite(t)
  \/ EndOp(t) \/ CommitDone(t)

CommitStep == WriteLog \/ WriteHead \/ InstallTrans \/ ClearLog \/ ReadHead

Next ==
  \/ /\ panicked = 0
     /\ \/ \E t \in Threads :
             CallStep(t) \/ \E b \in Blocks, v \in Values : Modify(t, b, v)
        \/ CommitStep
        \/ \E b \in Blocks : Load(b) \/ Recycle(b)
  \/ Crash

Spec == Init /\ [][Next]_vars

\* A call makes finitely many changes and comes to its end, and so does a
\* commit.  Nothing is assumed of crashes, readers or new calls.
Fairness ==
  /\ \A t \in Threads :
       /\ WF_vars(panicked = 0 /\ (LogWriteCheck(t) \/ LogWrite(t) \/ CommitDone(t)))
       /\ SF_vars(panicked = 0 /\ EndOp(t))
  /\ WF_vars(panicked = 0 /\ CommitStep)

FairSpec == Spec /\ Fairness

-----------------------------------------------------------------------------
\* Properties

PCs == {"out", "asleep", "woken", "in", "modified", "checked", "commit"}
CommitPCs == {"idle", "read_head", "write_log", "write_head", "install_trans", "clear", "done"}

DiskType ==
  /\ disk \in [Blocks -> Values]
  /\ logblk \in [LogSlots -> Values]
  /\ head \in Seq(Blocks) /\ lh \in Seq(Blocks)

MemoryType ==
  /\ outstanding \in Nat
  /\ committing \in {0, 1}
  /\ cache \in [Blocks -> Values \cup {NotCached}]
  /\ dirty \subseteq Blocks
  /\ panicked \in {0, 1}

ThreadType ==
  /\ pc \in [Threads -> PCs]
  /\ buf \in [Threads -> Blocks \cup {NoBlock}]
  /\ wrote \in [Threads -> SUBSET Blocks]
  /\ cpc \in CommitPCs
  /\ tail \in Nat

\* Every variable has its type; log.outstanding never drops below 0.
TypeOK == DiskType /\ MemoryType /\ ThreadType

\* The threads between begin_op() and end_op().
Active == {t \in Threads : pc[t] \in {"in", "modified", "checked"}}

\* The log never holds more blocks than its area on the disk has room for.  It
\* does not follow from SpaceReserved: begin_op() hands out LOGSIZE blocks and
\* the area mkfs makes has NLOG - 1 = LOGSIZE - 1 data blocks.  It holds when
\* calls stay below MAXOPBLOCKS (MostLogged below).
LogFits == Len(lh) < NLOG

\* Every call in progress has MAXOPBLOCKS blocks of the log to itself, beside
\* those that calls of the same transaction have used: what begin_op() adds up
\* (log.c:132) stays true while calls end, absorb and come in.
UsedByEnded == {lh[i] : i \in DOMAIN lh} \ UNION {wrote[t] : t \in Active}
SpaceReserved ==
  Cardinality(UsedByEnded) + MAXOPBLOCKS * Cardinality(Active) <= LOGSIZE

\* A buffer that may be recycled holds what the disk holds, so recycling
\* loses no change: B_DIRTY pins every logged block from log_write() until
\* its installation.
CleanIsOnDisk ==
  \A b \in Blocks : MayRecycle(b) => Content(b) = disk[b]

\* A process asleep in begin_op() has a commit to wait for, or calls in
\* progress that hold the room it needs: nobody sleeps on an open log.
SleepersWaitForSomething ==
  \A t \in Threads : pc[t] = "asleep" =>
    committing = 1 \/ (outstanding > 0 /\ ~LogHasRoom)

\* The number of calls the log believes to be running is the number that are,
\* and none runs during a commit.
OutstandingCounts ==
  /\ outstanding = Cardinality(Active)
  /\ committing = 1 => outstanding = 0

\* A process asleep in begin_op() is woken in the end: by the last call's
\* commit, by a call that gives its reservation back, or by a reboot.
SleepersAreWoken ==
  \A t \in Threads : pc[t] = "asleep" ~> (pc[t] # "asleep" \/ panicked = 1)

-----------------------------------------------------------------------------
\* The log implements AtomicDisk: after a crash the disk is what recovery
\* makes of it, and the calls see the cache over it.

Recovered ==
  [b \in Blocks |->
     IF \E i \in 1 .. Len(head) : head[i] = b
     THEN logblk[CHOOSE i \in 1 .. Len(head) : head[i] = b]
     ELSE disk[b]]

CacheView == [b \in Blocks |-> Content(b)]

Current == IF Recovering THEN Recovered ELSE CacheView

Abstract == INSTANCE AtomicDisk WITH
  stable  <- Recovered,
  current <- Current,
  active  <- Active

\* The effects of the calls of one group reach the disk together at
\* write_head() or not at all, whenever the machine crashes, during
\* recovery too.
CrashAtomic == Abstract!ADSpec

-----------------------------------------------------------------------------
\* The inductive invariant behind CrashAtomic

Once(s) == \A i, j \in 1 .. Len(s) : s[i] = s[j] => i = j

\* Each block is logged once, and a thread has a buffer locked exactly
\* between its change and log_write().
ShapeInv ==
  /\ Once(lh) /\ Once(head)
  /\ Len(head) < NLOG
  /\ \A t \in Threads : pc[t] \in {"modified", "checked"} <=> buf[t] # NoBlock

\* Calls run only outside commit() and recovery.
CallInv ==
  /\ OutstandingCounts
  /\ Recovering => Active = {}
  /\ committing = 1 <=> \E t \in Threads : pc[t] = "commit"
  /\ \A s, t \in Threads : pc[s] = "commit" /\ pc[t] = "commit" => s = t

\* Only logged blocks that are not installed yet are dirty.
CacheInv ==
  /\ CleanIsOnDisk
  /\ \A b \in dirty : \E i \in 1 .. Len(lh) :
       lh[i] = b /\ (cpc \in {"install_trans", "clear"} => i > tail)
  /\ Recovering => dirty = {}

\* How far commit() or recovery has come.
CommitInv ==
  /\ cpc \in {"idle", "read_head"} => committing = 0
  /\ cpc \in {"write_log", "write_head", "done"} => committing = 1
  /\ cpc \in {"idle", "write_log", "write_head", "done"} => head = <<>>
  /\ cpc \in {"read_head", "done"} => lh = <<>>
  /\ cpc \in {"install_trans", "clear"} => head = lh
  /\ cpc \in {"write_log", "install_trans"} => tail < Len(lh)
  /\ cpc = "write_head" => lh # <<>>
  /\ cpc = "write_log" => \A i \in 1 .. tail : i < NLOG => logblk[i] = Content(lh[i])
  /\ cpc = "write_head" \/ (cpc = "install_trans" /\ committing = 1) =>
       \A i \in 1 .. Len(lh) : i < NLOG => logblk[i] = Content(lh[i])
  /\ cpc = "install_trans" => \A i \in 1 .. tail : disk[lh[i]] = logblk[i]
  /\ cpc = "clear" => tail >= Len(lh) /\ \A i \in 1 .. Len(lh) : disk[lh[i]] = logblk[i]

\* As long as the log fits into its area, every step keeps this; CleanIsOnDisk
\* and the equalities of CommitInv are what makes write_head() a commit point
\* and recovery a no-op for the file system.
IndInv == TypeOK /\ ShapeInv /\ CallInv /\ CacheInv /\ CommitInv

\* With it, nobody sleeps on an open log: the log is empty between two groups
\* of calls, and nobody sleeps through a reboot.
SleepInv ==
  /\ SleepersWaitForSomething
  /\ cpc = "idle" /\ outstanding = 0 => lh = <<>>
  /\ Recovering => \A t \in Threads : pc[t] = "out"

\* No call has logged more blocks than it may, nor will with the one it holds.
CallSizeInv ==
  \A t \in Threads :
    /\ IsFiniteSet(wrote[t]) /\ Cardinality(wrote[t]) <= OpBlocks
    /\ buf[t] # NoBlock => Cardinality(wrote[t] \cup {buf[t]}) <= OpBlocks

\* A budget of c blocks leaves k for each call in progress, and a transaction
\* on its way to the disk is within it.
RoomInv(k, c) ==
  /\ CallSizeInv
  /\ Cardinality(UsedByEnded) + k * Cardinality(Active) <= c
  /\ Len(head) <= c

\* begin_op() reserves MAXOPBLOCKS where a call takes OpBlocks: the last call
\* it admits leaves the difference unused.
MostLogged == LOGSIZE - (MAXOPBLOCKS - OpBlocks)
=============================================================================
