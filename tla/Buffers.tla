------------------------------ MODULE Buffers ------------------------------
(***************************************************************************)
(* The buffer cache (bio.c), the sleep locks of its buffers (sleeplock.c)  *)
(* and the disk driver (ide.c) under processes that read, change, log and  *)
(* write blocks, with the disk's interrupts and with kill().               *)
(*                                                                         *)
(* A section under bcache.lock, a buffer's lk or idelock is one step.  The *)
(* panics of bget() and log_write() stop their process for ever, with the  *)
(* locks it has; those of brelse(), bwrite() and iderw() are steps that    *)
(* are not taken (QueueMatches).  Of the log there is what pins buffers.   *)
(***************************************************************************)
EXTENDS Integers, Sequences, FiniteSets, Functions

CONSTANTS
  Procs, NoProc,
  NBUF,
  NBLOCKS,     \* the blocks of the disk are 1 .. NBLOCKS
  Values,      \* contents of a block
  LOGSIZE,     \* blocks log_write() takes: LOGSIZE or log.size - 1, the smaller
  Changed,     \* BOUND: the blocks that processes change; the others are only read
  MaxHold,     \* BOUND: buffers one process has at a time
  ReadFails,   \* whether the disk can report an error of a read
  MaxStray     \* BOUND: interrupts the disk raises without having finished

ASSUME BuffersAssumption ==
  /\ NoProc \notin Procs /\ IsFiniteSet(Procs)
  /\ NBUF \in Nat \ {0} /\ NBLOCKS \in Nat \ {0}
  /\ LOGSIZE \in Nat /\ MaxHold \in Nat \ {0} /\ MaxStray \in Nat
  /\ ReadFails \in BOOLEAN
  /\ Values # {} /\ Changed \subseteq 1 .. NBLOCKS

VARIABLES
  buf,        \* struct buf; block number 0 stands for dev 0, which nobody asks for
  lru,        \* the list through next, from head.next: most recently used first
  idequeue,   \* the list through qnext
  disk,       \* block -> content
  lh,         \* the blocks of the log's transaction (log.lh.block)
  ide,        \* the controller: busy with a command; pending interrupts
  proc        \* process -> where it is, the buffer of its call, those it has

vars == <<buf, lru, idequeue, disk, lh, ide, proc>>

Bufs == 1 .. NBUF
Blocks == 1 .. NBLOCKS

\* Where a process can be: in its caller; in acquiresleep(); about to call
\* iderw(); in the loop of iderw(); in brelse(), the sleep lock given back; in
\* the panic of bget() or of log_write().
Panics == {"nobuffers", "toobig"}
PCs == {"caller", "acquiresleep", "iderw", "iowait", "brelse", "nobuffers", "toobig"}

\* binit(): each buffer goes to the front of the list; ideinit(): the disk is
\* ready and idle.
Init ==
  /\ buf = [b \in Bufs |-> [blockno |-> 0, valid |-> FALSE, dirty |-> FALSE, refcnt |-> 0,
                            locked |-> NoProc, data |-> CHOOSE v \in Values : TRUE]]
  /\ lru = [i \in Bufs |-> NBUF + 1 - i]
  /\ idequeue = <<>>
  /\ disk = [k \in Blocks |-> CHOOSE v \in Values : TRUE]
  /\ lh = {}
  /\ ide = [busy |-> FALSE, write |-> FALSE, block |-> 1, data |-> CHOOSE v \in Values : TRUE,
            irq |-> 0, strays |-> 0]
  /\ proc = [p \in Procs |-> [pc |-> "caller", b |-> 1, asleep |-> FALSE, has |-> {}]]

-----------------------------------------------------------------------------
\* Mutant: the wakeup is left out.
WokenNone(pc, b) == proc

\* wakeup() of the processes that are at pc with buffer b.
Woken(pc, b) ==
  [p \in Procs |-> IF proc[p].pc = pc /\ proc[p].b = b THEN [proc[p] EXCEPT !.asleep = FALSE]
                   ELSE proc[p]]

Goto(p, pc, b) == [proc EXCEPT ![p].pc = pc, ![p].b = b]

\* The process is back in its caller with the locked buffer of its call.
Returns(p, b) == [Goto(p, "caller", 1) EXCEPT ![p].has = @ \cup {b}]

(* bget(): the buffer that caches block k, or else the least recently used  *)
(* one that nobody refers to and that no transaction has changed.           *)
Cached(k) == {b \in Bufs : buf[b].blockno = k}

\* Mutant: bget() takes dirty buffers too when it recycles.
UnusedOrDirty == {b \in Bufs : buf[b].refcnt = 0}

Unused == {b \in Bufs : buf[b].refcnt = 0 /\ ~buf[b].dirty}

Place(b) == CHOOSE i \in DOMAIN lru : lru[i] = b
Recycle == CHOOSE b \in Unused : \A c \in Unused : Place(c) <= Place(b)

\* Mutant: the flags of the recycled buffer are kept.
RecycledValid(b, k) == [buf EXCEPT ![b].blockno = k, ![b].refcnt = 1]

Recycled(b, k) ==
  [buf EXCEPT ![b].blockno = k, ![b].valid = FALSE, ![b].dirty = FALSE, ![b].refcnt = 1]

\* Mutant: bget() does not count the process that will wait for the lock.
HitUncounted(b) == buf

Hit(b) == [buf EXCEPT ![b].refcnt = @ + 1]

\* The processes that have several buffers take them in one order: a log
\* block before its destination (log.c), an indirect block before the bitmap
\* (fs.c).  The order of the numbers stands for it.
MayGet(p, k) ==
  /\ proc[p].pc = "caller" /\ Cardinality(proc[p].has) < MaxHold
  /\ \A b \in proc[p].has : buf[b].blockno < k

\* A process that panics in bget() does not give bcache.lock back.
BcacheFree == \A p \in Procs : proc[p].pc # "nobuffers"

Bget(p, k) ==
  /\ MayGet(p, k) /\ BcacheFree
  /\ \/ \E b \in Cached(k) :
          /\ buf' = Hit(b)
          /\ proc' = Goto(p, "acquiresleep", b)
     \/ /\ Cached(k) = {} /\ Unused # {}
        /\ buf' = Recycled(Recycle, k)
        /\ proc' = Goto(p, "acquiresleep", Recycle)
  /\ UNCHANGED <<lru, idequeue, disk, lh, ide>>

BgetPanics(p, k) ==
  /\ MayGet(p, k) /\ BcacheFree
  /\ Cached(k) = {} /\ Unused = {}
  /\ proc' = Goto(p, "nobuffers", 1)
  /\ UNCHANGED <<buf, lru, idequeue, disk, lh, ide>>

\* acquiresleep(), and the rest of bread().
LockFree(b) == buf[b].locked = NoProc

Acquiresleep(p) ==
  LET b == proc[p].b IN
  /\ proc[p].pc = "acquiresleep" /\ ~proc[p].asleep
  /\ IF LockFree(b)
     THEN /\ buf' = [buf EXCEPT ![b].locked = p]
          /\ proc' = IF buf[b].valid THEN Returns(p, b) ELSE Goto(p, "iderw", b)
     ELSE /\ proc' = [proc EXCEPT ![p].asleep = TRUE]
          /\ UNCHANGED buf
  /\ UNCHANGED <<lru, idequeue, disk, lh, ide>>

-----------------------------------------------------------------------------
\* What a process does with a buffer it has: it changes the data and logs the
\* block (log_write() notes it in the header and marks it dirty), or writes the
\* block.  Which calls are in a transaction is the subject of Log.
Logging(p, b) == proc[p].pc = "caller" /\ b \in proc[p].has /\ buf[b].blockno \in Changed

LogWrite(p, b, v) ==
  /\ Logging(p, b) /\ Cardinality(lh) < LOGSIZE
  /\ lh' = lh \cup {buf[b].blockno}
  /\ buf' = [buf EXCEPT ![b].data = v, ![b].dirty = TRUE]
  /\ UNCHANGED <<lru, idequeue, disk, ide, proc>>

LogWritePanics(p, b) ==
  /\ Logging(p, b) /\ Cardinality(lh) >= LOGSIZE
  /\ proc' = Goto(p, "toobig", 1)
  /\ UNCHANGED <<buf, lru, idequeue, disk, lh, ide>>

\* commit() empties the header once install_trans() has written every block of
\* it to its home.
CommitEnds ==
  /\ lh # {} /\ \A b \in Bufs : buf[b].blockno \in lh => ~buf[b].dirty
  /\ lh' = {}
  /\ UNCHANGED <<buf, lru, idequeue, disk, ide, proc>>

Bwrite(p, b) ==
  /\ proc[p].pc = "caller" /\ b \in proc[p].has
  /\ buf' = [buf EXCEPT ![b].dirty = TRUE]
  /\ proc' = Goto(p, "iderw", b)
  /\ UNCHANGED <<lru, idequeue, disk, lh, ide>>

\* brelse(): releasesleep(), and then the count under bcache.lock.
Brelse(p, b) ==
  /\ proc[p].pc = "caller" /\ b \in proc[p].has
  /\ buf' = [buf EXCEPT ![b].locked = NoProc]
  /\ proc' = [Woken("acquiresleep", b) EXCEPT ![p].pc = "brelse", ![p].b = b, ![p].has = @ \ {b}]
  /\ UNCHANGED <<lru, idequeue, disk, lh, ide>>

\* Mutant: a buffer that is given back stays counted.
UncountedNot(b) == buf

Uncounted(b) == [buf EXCEPT ![b].refcnt = @ - 1]

\* The buffer is taken out of the list and put in at head.next.
MoveToFront(b) ==
  [i \in Bufs |-> IF i = 1 THEN b ELSE IF i <= Place(b) THEN lru[i - 1] ELSE lru[i]]

BrelseCount(p) ==
  LET b == proc[p].b IN
  /\ proc[p].pc = "brelse" /\ BcacheFree
  /\ buf' = Uncounted(b)
  /\ lru' = IF buf[b].refcnt = 1 THEN MoveToFront(b) ELSE lru
  /\ proc' = Goto(p, "caller", 1)
  /\ UNCHANGED <<idequeue, disk, lh, ide>>

-----------------------------------------------------------------------------
(* idestart(): the command, the block and the data of a write go to the     *)
(* controller; idewait(0) before it spins until the disk is ready.          *)
Idestart(i, b) ==
  [i EXCEPT !.busy = TRUE, !.write = buf[b].dirty, !.block = buf[b].blockno,
            !.data = IF buf[b].dirty THEN buf[b].data ELSE @]

\* iderw(): the request goes to the end of the queue and its process sleeps.
Iderw(p) ==
  LET b == proc[p].b IN
  /\ proc[p].pc = "iderw"
  /\ idequeue' = Append(idequeue, b)
  /\ IF idequeue = <<>> THEN ~ide.busy /\ ide' = Idestart(ide, b) ELSE UNCHANGED ide
  /\ proc' = [proc EXCEPT ![p].pc = "iowait", ![p].asleep = TRUE]
  /\ UNCHANGED <<buf, lru, disk, lh>>

\* Mutant: iderw() returns when it is woken, by whomever.
SyncedAlways(b) == TRUE

Synced(b) == buf[b].valid /\ ~buf[b].dirty

\* The loop of iderw() after a wakeup.
IderwWoken(p) ==
  LET b == proc[p].b IN
  /\ proc[p].pc = "iowait" /\ ~proc[p].asleep
  /\ proc' = IF Synced(b) THEN Returns(p, b) ELSE [proc EXCEPT ![p].asleep = TRUE]
  /\ UNCHANGED <<buf, lru, idequeue, disk, lh, ide>>

\* External, the disk finishes the command and raises its interrupt, which may
\* be merged with one that is pending.
DiskDone ==
  /\ ide.busy
  /\ disk' = IF ide.write THEN [disk EXCEPT ![ide.block] = ide.data] ELSE disk
  /\ \E n \in {ide.irq, ide.irq + 1} \ {0} :
       ide' = [ide EXCEPT !.busy = FALSE, !.write = FALSE, !.block = 1, !.irq = n,
                          !.data = IF ide.write THEN @ ELSE disk[ide.block]]
  /\ UNCHANGED <<buf, lru, idequeue, lh, proc>>

\* External: an interrupt of no finished command.
StrayInterrupt ==
  /\ ide.strays < MaxStray
  /\ ide' = [ide EXCEPT !.irq = @ + 1, !.strays = @ + 1]
  /\ UNCHANGED <<buf, lru, idequeue, disk, lh, proc>>

\* ideintr(): the first request is the one that is done; a read waits for the
\* disk and takes the data, unless idewait(1) reports an error.  The next
\* request is started.
IdeintrNothing ==
  /\ ide.irq > 0 /\ idequeue = <<>>
  /\ ide' = [ide EXCEPT !.irq = @ - 1]
  /\ UNCHANGED <<buf, lru, idequeue, disk, lh, proc>>

DiskReady(b) == buf[b].dirty \/ ~ide.busy

Taken(i) == [i EXCEPT !.irq = @ - 1]

\* Mutant: ideintr() does not start the next request.
StartNextNot(rest) == ide' = Taken(ide)

StartNext(rest) ==
  IF rest = <<>> THEN ide' = Taken(ide) ELSE ~ide.busy /\ ide' = Idestart(Taken(ide), Head(rest))

Ideintr ==
  LET b == Head(idequeue) IN
  /\ ide.irq > 0 /\ idequeue # <<>>
  /\ DiskReady(b)
  /\ \E error \in {FALSE, ReadFails} :
       buf' = [buf EXCEPT ![b].data = IF buf[b].dirty \/ error THEN @ ELSE ide.data,
                          ![b].valid = TRUE, ![b].dirty = FALSE]
  /\ proc' = Woken("iowait", b)
  /\ idequeue' = Tail(idequeue)
  /\ StartNext(Tail(idequeue))
  /\ UNCHANGED <<lru, disk, lh>>

\* kill() wakes its target wherever it sleeps (proc.c).
Kill(p) ==
  /\ proc[p].asleep
  /\ proc' = [proc EXCEPT ![p].asleep = FALSE]
  /\ UNCHANGED <<buf, lru, idequeue, disk, lh, ide>>

\* panic() loops for ever.
Panicked == (\E p \in Procs : proc[p].pc \in Panics) /\ UNCHANGED vars

Next ==
  \/ \E p \in Procs :
       \/ \E k \in Blocks : Bget(p, k) \/ BgetPanics(p, k)
       \/ Acquiresleep(p) \/ Iderw(p) \/ IderwWoken(p) \/ BrelseCount(p) \/ Kill(p)
       \/ \E b \in Bufs : \/ Bwrite(p, b) \/ Brelse(p, b) \/ LogWritePanics(p, b)
                         \/ \E v \in Values : LogWrite(p, b, v)
  \/ CommitEnds \/ DiskDone \/ StrayInterrupt \/ IdeintrNothing \/ Ideintr \/ Panicked

Spec == Init /\ [][Next]_vars

(* The disk finishes, interrupts are taken and a process that can run in    *)
(* the driver runs; a processor that spins for idelock gets it (strong: the *)
(* others take it in between).  Nothing is assumed of a process that is in  *)
(* its caller, or that waits for a sleep lock, which others may take first. *)
Fairness ==
  /\ WF_vars(DiskDone) /\ WF_vars(Ideintr)
  /\ \A p \in Procs : SF_vars(Iderw(p)) /\ WF_vars(IderwWoken(p))

FairSpec == Spec /\ Fairness

-----------------------------------------------------------------------------
(* The types; lru stays a permutation of the buffers whatever brelse()      *)
(* moves to the front of the list.                                          *)
TypeOK ==
  /\ buf \in [Bufs -> [blockno : 0 .. NBLOCKS, valid : BOOLEAN, dirty : BOOLEAN,
                       refcnt : Nat,
                       locked : Procs \cup {NoProc}, data : Values]]
  /\ lru \in [Bufs -> Bufs] /\ \A b \in Bufs : \E i \in Bufs : lru[i] = b
  /\ idequeue \in Seq(Bufs)
  /\ disk \in [Blocks -> Values] /\ lh \subseteq Blocks
  /\ ide \in [busy : BOOLEAN, write : BOOLEAN, block : Blocks, data : Values,
              irq : Nat, strays : 0 .. MaxStray]
  /\ proc \in [Procs -> [pc : PCs, b : Bufs, asleep : BOOLEAN, has : SUBSET Bufs]]

(* The buffers a process refers to: those it has and the one of its call.   *)
Calling(p) == proc[p].pc \in {"acquiresleep", "iderw", "iowait", "brelse"}
Refers(p) == proc[p].has \cup (IF Calling(p) THEN {proc[p].b} ELSE {})

(* refcnt of a buffer is the number of processes that have it or wait for   *)
(* it, so that a buffer somebody still waits for is never recycled          *)
(* (bio.c:70, 85, 127).                                                     *)
RefcntCounts == \A b \in Bufs : buf[b].refcnt = Cardinality({p \in Procs : b \in Refers(p)})

(* bget() panics for want of buffers (bio.c:92) only when processes and the *)
(* log's transaction use as many buffers as there are: no buffer is lost to *)
(* a count that brelse(), or a mark that the driver, did not take back.     *)
Used == UNION {Refers(p) : p \in Procs}
PanicsOnlyWhenFull ==
  [][\A p \in Procs : proc[p].pc # "nobuffers" /\ proc'[p].pc = "nobuffers" =>
       NBUF <= Cardinality(lh) + Cardinality(Used)]_vars

InSync(b) == buf[b].valid /\ ~buf[b].dirty

(* The queue of the driver holds each buffer once, its process holds the    *)
(* lock and waits in iderw(), and there is something to do for it.          *)
QueueMatches ==
  /\ \A i, j \in DOMAIN idequeue : idequeue[i] = idequeue[j] => i = j
  /\ \A b \in Range(idequeue) : ~InSync(b)
  /\ \A p \in Procs : proc[p].pc \in {"iderw", "iowait"} =>
       /\ buf[proc[p].b].locked = p
       /\ proc[p].pc = "iowait" => (proc[p].b \in Range(idequeue) <=> ~InSync(proc[p].b))

(* No wakeup is lost: who sleeps for the lock of a buffer sleeps while      *)
(* somebody holds it, who sleeps for the disk while its request is queued.  *)
SleepersHaveReason == \A p \in Procs : proc[p].asleep =>
  IF proc[p].pc = "acquiresleep" THEN buf[proc[p].b].locked # NoProc ELSE ~InSync(proc[p].b)

(* A block that bwrite() has written is on the disk when it returns, as the *)
(* order of the log's writes needs, unless the disk raised a stray          *)
(* interrupt: ideintr() takes any interrupt for the end of a write.         *)
CleanIsOnDisk == ide.strays = 0 =>
  \A b \in Bufs : InSync(b) => disk[buf[b].blockno] = buf[b].data

(* The cache is a store of blocks, each used by one process at a time and   *)
(* changed only by its user: whatever is recycled and read again, and       *)
(* whichever interrupts come, bread() returns what was put in last.  (With  *)
(* ReadFails it does not: ideintr() marks the buffer valid all the same.)   *)
Buffered(k) == {b \in Bufs : buf[b].blockno = k /\ buf[b].valid}
Content(k) ==
  IF Buffered(k) # {} THEN buf[CHOOSE b \in Buffered(k) : TRUE].data
  ELSE IF ide.busy /\ ide.write /\ ide.block = k THEN ide.data
  ELSE disk[k]
Holder(k) ==
  IF \E p \in Procs : \E b \in proc[p].has : buf[b].blockno = k
  THEN CHOOSE p \in Procs : \E b \in proc[p].has : buf[b].blockno = k
  ELSE NoProc
Store == INSTANCE BlockStore WITH
  content <- [k \in Blocks |-> Content(k)], holder <- [k \in Blocks |-> Holder(k)]
IsBlockStore == Store!Spec

(* Every request is served: a process that calls the driver comes back.     *)
DiskServes == \A p \in Procs : proc[p].pc \in {"iderw", "iowait"} ~> proc[p].pc = "caller"

-----------------------------------------------------------------------------
(* The inductive invariant behind them                                      *)

(* No block has two buffers; what is changed was read before.               *)
CacheInv ==
  /\ \A a, b \in Bufs : buf[a].blockno = buf[b].blockno /\ buf[a].blockno # 0 => a = b
  /\ \A b \in Bufs : (buf[b].valid => buf[b].blockno # 0) /\ (buf[b].dirty => buf[b].valid)

Driving(p) == proc[p].pc \in {"iderw", "iowait"}

(* The sleep lock of a buffer is held by who has the buffer or drives the   *)
(* disk for it, and by nobody else.                                         *)
LockInv ==
  /\ \A p \in Procs :
       /\ \A b \in proc[p].has : buf[b].locked = p /\ buf[b].valid
       /\ Driving(p) => buf[proc[p].b].locked = p
       /\ proc[p].pc \in {"acquiresleep", "brelse"} => proc[p].b \notin proc[p].has
       /\ \A b \in Refers(p) : buf[b].blockno # 0
       /\ proc[p].asleep => proc[p].pc \in {"acquiresleep", "iowait"}
  /\ \A b \in Bufs, p \in Procs : buf[b].locked = p =>
       b \in proc[p].has \/ (Driving(p) /\ proc[p].b = b)

(* A queued buffer has its process in iderw(), and nobody asks the driver   *)
(* for nothing.                                                             *)
QueueInv ==
  /\ QueueMatches
  /\ \A b \in Range(idequeue) : \E p \in Procs : proc[p].pc = "iowait" /\ proc[p].b = b
  /\ \A p \in Procs : proc[p].pc = "iderw" => ~InSync(proc[p].b)

(* The command of the controller is that of the first request, before and   *)
(* after the disk has finished it; without stray interrupts each finished   *)
(* command has one interrupt.                                               *)
ControllerInv ==
  /\ idequeue # <<>> =>
       LET b == buf[Head(idequeue)] IN
       IF ide.busy
       THEN ide.block = b.blockno /\ ide.write = b.dirty /\ (b.dirty => ide.data = b.data)
       ELSE (IF b.dirty THEN b.data ELSE ide.data) = disk[b.blockno]
  /\ ide.busy /\ idequeue = <<>> => ide.write
  /\ ide.strays = 0 =>
       /\ idequeue = <<>> => ~ide.busy /\ ide.irq = 0
       /\ idequeue # <<>> => ide.irq = IF ide.busy THEN 0 ELSE 1

(* What the disk holds of block k once the command it is busy with is done. *)
Stored(k) == IF ide.busy /\ ide.write /\ ide.block = k THEN ide.data ELSE disk[k]

(* A buffer in step with the disk holds what is stored.                     *)
DataInv == \A b \in Bufs : InSync(b) => buf[b].data = Stored(buf[b].blockno)

(* A dirty buffer that is not on its way to the disk is of the transaction. *)
Logged == {b \in Bufs : buf[b].dirty /\ ~\E p \in Procs : Driving(p) /\ proc[p].b = b}
LogInv ==
  /\ IsFiniteSet(lh) /\ Cardinality(lh) <= LOGSIZE
  /\ \A b \in Logged : buf[b].blockno \in lh

IndInv ==
  /\ TypeOK /\ CacheInv /\ LockInv /\ RefcntCounts /\ QueueInv /\ SleepersHaveReason
  /\ ControllerInv /\ LogInv
=============================================================================
