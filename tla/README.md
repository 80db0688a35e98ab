# A verification project for slab_study

The repository holds one large program, the teaching kernel `xv6_lab3` (xv6 with a
priority scheduler, `waitpid`, exit statuses and stacks that grow on page faults), and
five small client/server programs on sockets (`dropbox`, `d_shell`, `thread_chat`,
`fshare`, `socket_multiThread`).  This directory holds TLA+ models of the kernel,
its shell and its file system tests, the TLC runs that check them on small instances, and TLAPS proofs of
what matters most for every size.  `PROJECT.json` lists the components, the runs, the
source lines behind every definition, the mutants that show that each property can fail,
the hazards and the findings.

## Inventory

| component | state | operations | what is hard | what makes it correct |
|---|---|---|---|---|
| process table (`proc.c`, `sysproc.c`, `trap.c`, `init.c`) | `ptable` (state, pid, parent, chan, killed, priority, exit_status of each slot), `nextpid`, each CPU's `c->proc` and cursor | scheduler, fork, exit, wait, waitpid, kill, getpriority, setpriority, sleep, wakeup, yield, the timer interrupt | several CPUs, `ptable.lock` handed across `swtch`, writes outside the lock in `fork`, kill against sleep, exits of parent and child at once, init inheriting zombies | a process on one CPU only, distinct pids, live parents, no lost slot, no lost wakeup, each status delivered once, equals take turns |
| file system log (`log.c`) | in-memory and on-disk header, log blocks, `outstanding`, `committing` | begin_op, log_write, end_op, commit, recovery | crash at any write, group commit, absorption, sleeping for space | a crash leaves all or nothing of each group of calls; sleepers in begin_op are woken |
| buffer cache (`bio.c`), sleep locks, spin locks | refcnt, B_VALID, B_DIRTY, lock owner, LRU list | bget, bread, bwrite, brelse, acquiresleep, releasesleep, acquire, release | two callers for the same block, eviction against B_DIRTY, waiters on a sleep lock | one buffer per block, one holder per buffer |
| disk driver (`ide.c`) | `idequeue`, B_VALID/B_DIRTY | iderw, idestart, ideintr | the interrupt against the sleeping caller | every request is served, in order, once |
| pipes (`pipe.c`) | ring buffer, `nread`, `nwrite`, `readopen`, `writeopen` | pipewrite, piperead, pipeclose, pipealloc | full and empty buffer, close and kill during a sleep, counters that wrap | first in first out, nothing lost or duplicated, no reader or writer asleep without reason, freed once |
| open files (`file.c`, `sysfile.c`) | `ftable` reference counts, per-process descriptors | filealloc, filedup, fileclose, fork, dup, pipe | close against dup in another process | the count equals the references; the last close releases the inode or pipe |
| inodes and directories (`fs.c`, `sysfile.c`) | inode cache (ref, valid, nlink), bitmap, directories | iget, ilock, iput, balloc, bfree, dirlookup, dirlink, create, link, unlink, open | iput of the last reference of an unlinked file, two creates of one name, lock order | an allocated block belongs to one file, links are counted, no deadlock |
| user memory (`vm.c`, `exec.c`, `trap.c`) | page table, `sz`, `stack_psize` | allocuvm, copyuvm, exec, page fault | stack growth combined with fork and exec | the child sees all of the parent's memory |
| shell (`sh.c`) and the other user programs | the parsed command, the descriptors of each process, the children it waits for | parsecmd, runcmd with fork, pipe, dup, close, wait | pipe ends inherited by everybody, wait() taking any child, the lowest free descriptor | the line runs as the grammar says, each program with its own input and output, and the prompt comes back |
| physical pages (`kalloc.c`) | free list | kalloc, kfree | lock-free early boot | a page is free or in one use |
| console (`console.c`) | input ring r, w, e | consoleintr, consoleread, consolewrite | editing a line while it is read | lines arrive whole, the ring does not overrun |
| dropbox, d_shell, thread_chat, fshare, fserver | client lists, file versions, shared buffers, sockets | one thread per client | shared lists without locks, requests that cross | see the hazards in `PROJECT.json` |
| boot, interrupt controllers, assembly | registers | fixed sequences | - | not modelled |

Components interact by direct calls under locks, and by `sleep`/`wakeup` on channels.  The
file system calls nest as sysfile -> file -> fs -> log -> bio -> ide; `fork` and `exit` call
into open files and inodes; the timer interrupt enters the process table.

## Modules

| module | models | composes or refines |
|---|---|---|
| `Proc` | process table, scheduler, process calls, timer, `init.c` | |
| `ProcProofs` | theorems about `Proc` | extends `Proc` |
| `Log` | `log.c` over the buffers it uses and the disk, with crashes | implements `AtomicDisk` |
| `AtomicDisk` | abstract: groups of calls reach the disk together or not at all | |
| `LogProofs` | theorems about `Log`, the refinement included | extends `Log`, `Facts` |
| `Pipe` | `pipe.c` and the closing of its ends by `fileclose()` | implements `Fifo` |
| `Fifo` | abstract: a bounded queue of bytes with an end of stream | |
| `PipeProofs` | theorems about `Pipe`, the refinement included | extends `Pipe`, `Facts` |
| `Buffers` | `bio.c`, the sleep locks of the buffers, `ide.c` and its interrupts | implements `BlockStore` |
| `BlockStore` | abstract: blocks used by one process at a time, that keep what was put in | |
| `BuffersProofs` | theorems about `Buffers`, the refinement included | extends `Buffers`, `Facts` |
| `Files` | inode cache, blocks, directories, open files and the calls on them, as steps between inode locks | |
| `FilesProofs` | theorems about the pointers, counts and blocks of `Files` | extends `Files`, `Facts` |
| `NamesProofs` | theorems about the names, link counts and checks of `Files` | extends `FilesProofs` |
| `UserTests` | tests of `usertests.c` and small user programs, run on `Files` | composes programs with `Files` |
| `Shell` | parser and processes of `sh.c` | |
| `UserMem` | page tables, `kalloc.c`, fork/exec/sbrk/page faults as far as memory goes | |
| `UserMemProofs` | theorems about `UserMem` | extends `UserMem`, `Facts` |
| `Facts` | lemmas the proofs share: induction over numbers and finite sets, the arithmetic of % | |
| `MCProc`, `MCLog`, `MCPipe`, `MCUserMem`, `MCBuffers`, `MCUserTests`, `MCShell` | the small sets TLC is given | extend the above |

In every module a definition whose comment says "Mutant" is a broken variant of the
definition after it; no specification uses it.

### Proc

State.  `state`, `pid`, `parent`, `chan`, `killed`, `priority`, `exit_status` are the fields
of `struct proc`, one function over the slots each; `nextpid` is the global; `cproc` and
`cur` are each CPU's `c->proc` and the round-robin cursor local to its `scheduler()`;
`holder` is `ptable.lock` where it is carried across `swtch`.  `pc`, `ctx` and `arg` stand for
the kernel stack of each thread: the kernel path it is on, the frame on top of it (timer
interrupt, `forkret`, `yield`, `sleep`), and the one value the path carries.  `passed` and
`got` are history: the status each pid gave `exit()` and the one its reaper received.

Steps.  A section under `ptable.lock` that is entered and left inside one call is one step,
enabled while the lock is free.  `swtch` out of a process ends the step with the rest of
`scheduler()`'s loop body (`BackToScheduler`); `swtch` into a process is `Dispatch`, which
leaves the lock held, and the thread's next step releases it.  What the code does without the
lock is a step of its own: the look at `killed` in `trap()`, `fork()`'s setting of `parent` and
its `state = UNUSED` on failure, `sys_sleep()`'s look at `killed` under `tickslock` only.  The
timer may interrupt a thread in user code and between any two kernel steps where interrupts
are on.  `init.c` is modelled as written (`MayCall`, `sh`); the program of every other pid makes any call
of `Calls[pid]`, in any order, or none, and `kill()` gets any pid of `KillPids`.  With `MemoryEnds`
`kalloc()` may fail in a fork.

### Log

State.  `disk`, `logblk` and `head` are on the disk; all else is memory and is lost in a
crash: the header `lh`, `outstanding`, `committing`, the buffers (`cache`, `dirty`), the
threads (`pc`, `buf`, `wrote`) and the place in `commit()` or `recover_from_log()` (`cpc`,
`tail`).

Steps.  A section under `log.lock` is one step; `log_write()`'s look at `lh.n` and
`outstanding` is a step before it, since it takes no lock.  Each disk write of `commit()` and
of recovery is one step, so a `Crash` falls between any two of them; a write of one block
is taken as atomic.  A call changes any blocks to any values, at most `OpBlocks` different
ones.  A buffer is recycled at any moment `bget()` allows it (not locked, not `B_DIRTY`).
Block `AfterLog` is where `write_log()` goes when the log overruns its area.

### Pipe

State: `struct pipe` (`data`, `nread`, `nwrite`, `readopen`, `writeopen`), the holder of `p->lock`
between two steps, how often the page was freed, which ends each process has open, and where
each process is.  The counters count modulo `UINT`, a small multiple of `PIPESIZE` as 2^32 is of
512.  `pipewrite()` and `piperead()` hold `p->lock` from one sleep to the next: that is one
step, in which all bytes that fit move; it is split between the look at `killed` and the sleep, where
`kill()`, which does not take that lock, can fall.  A close is two steps, the reference in
`fileclose()` and then `pipeclose()`.

### UserMem

Addresses and sizes are counted in pages.  An address space is a directory page and a map
from pages to frames (the second-level page tables are counted in with the directory).
Each `kalloc()` is a step, so that calls of several processes compete for the last
frame and each of them fails at every point it can.  `mem` says what a frame holds: zeros,
`kfree()`'s junk, or data.  The first process is as `userinit()` makes it, one page and no stack, and only calls
`exec()` (`initcode.S`, `Booted`).  Programs store, grow and shrink their heap, push one page below
their stack, fork, exec and exit.  `execed` is history.

### Buffers

State: `struct buf` (`blockno`, `valid`, `dirty`, `refcnt`, the owner of the sleep lock, data), the
list of recently used buffers, `idequeue`, the disk, the controller (the command it is busy with, the
data register, pending interrupts), and for each process where it is in `bread()`, `bwrite()` or
`brelse()` and which buffers it has.  A section under `bcache.lock`, `idelock` or a sleep lock's
spin lock is one step, so another process comes between `bget()`'s count and its
`acquiresleep()`, and between `releasesleep()` and `brelse()`'s count.  The disk finishes a command at any time; its
interrupt may be merged with a pending one; `StrayInterrupt` is one of no command.  `kill()` wakes
a sleeper at any moment.  Callers hold several buffers in one order, as `log.c` and `fs.c` do.  Of the log there is
what pins buffers: `lh` is the transaction's header, to which `log_write()` adds a block (it panics when the header is full, as
`log.c` does) and which `CommitEnds` empties once its blocks are at home.  When `bget()` finds no buffer it
panics: the process stops for ever with `bcache.lock` and the buffers it has, and the others go on as far as they can.
`Log` uses what `IsBlockStore` and `CleanIsOnDisk` show of the cache and the driver.

### Files and UserTests

State: the inodes as they are on the disk (type, links, content, block addresses), the free map,
`icache` (references, valid, owner of the sleep lock), `ftable`, the descriptors and
current directory of each process, and its kernel thread: the label it is at, the pointers it
owns, and the `iput()` calls it has still to make.  A call is cut at every `ilock()` and at both
halves of `iput()` (the test under the sleep lock, the decrement after it); between
two cuts it cannot wait and touches nothing another call can see without a lock.  Contents are
sequences of units, `BSIZE` to a block; names are whole, and `Longer` says which of them `DIRSIZ`
cuts.  A write of nothing returns 0.  `open()` and `pipe()` use a slot of the file table, and `pipe()`
its page, within one step, so that a failure for want of a slot or a page happens, but no other call sees a slot that
the failing call has taken and is about to give back.  `exit()` is its closing of files and its `iput()`; the hand-over of children is in `Proc`.
Transactions are left to `Log`: a call of `Files` is a call of `begin_op()`/`end_op()` there.
A step that would panic is not taken, and `ChecksHold` says that the checks it concerns never fail.
`Links(i)` is what the link count of inode i is for: the root, the entries that name it, the ".." of its
subdirectories, and the links that an `unlink()` has still to take off or a `link()` has already counted.

`UserTests` runs programs on `Files`: for each test of `usertests.c` that is about the file system a
sequence of calls per process, with what the test demands of each result.  A loop is cut to
the few turns that show what it tests, and four children to two; `concreate` keeps turns 0, 1, 2, 4 and 6, a turn of each kind
its two loops have (both create, both link, the parent links what the child creates, and the reverse).  `OnlyPutsDeadlock`
says that two calls wait for each other only when one of them is at an `iput()` of a directory with another inode
locked (finding 4).  It is about the calls of these programs, none of which links a file to
a path that ends in "." or "..": there `sys_link()` would lock two directories against their order, or one of them twice.  `free` is two programs that choose from a set of calls.

### Shell

The parser is written as `sh.c` has it, on token positions.  `Meant` is the reference: it
cuts a line at its weakest operator outside parentheses.  `runcmd()` is one step from one `fork()`
or `wait()` to the next, as in between a process changes only its own descriptors.
Descriptors hold what they lead to; programs are external: one ends by itself, or when its
input has ended and its output is read.  `exec()`, `open()`, `pipe()` and `fork()` may fail.

## Runs

The passing runs together take about eight minutes with two workers.

| run | instance | question |
|---|---|---|
| `table` | 2 CPUs, 3 slots, 3 pids; fork, exit, wait, waitpid, priorities -11, 0, 10 | `CpuExclusive`, `ParentsAlive`, `NoMissedWakeup`, `StatusDelivered`, `EmbryoOwned`, `TypeOK`, in every interleaving of a family as large as the table |
| `live` | 2 CPUs, 3 slots, 4 pids: a shell that forks, its child that sleeps, the shell after it, all of which kill the first two; fair | `OrphansReaped`, `EqualsTakeTurns`, `KillTakesEffect` |
| `bornkilled` | 1 CPU; fork, exit, kill | violation: finding 1 |
| `waitpid` | 4 slots; fork, exit, waitpid | violation: finding 2 |
| `log` | 2 threads, 2 blocks, calls of up to 2 = MAXOPBLOCKS blocks, fair | `CrashAtomic` (log.c implements `AtomicDisk`), `CleanIsOnDisk`, `SpaceReserved`, `OutstandingCounts`, `SleepersAreWoken` |
| `pipe` | 2 processes, PIPESIZE 2, counters modulo 4, calls of up to 3 bytes, fair | `IsFifo` (pipe.c implements `Fifo`), `FreedIsUnused`, `SleepersHaveReason`, `SleepersWake` |
| `memory` | 3 slots, 11 frames, 5 pages of address space | `FramesOwned`, `StackCounted`, `MemoryKept`, `ForkAfterExecCopies` |
| `grandchild` | the same with 12 frames | violation: finding 3 |
| `buffers` | 2 processes, 2 buffers, 3 blocks, transactions of 1 block, one stray interrupt, fair | `IsBlockStore`, `CleanIsOnDisk`, `RefcntCounts`, `PanicsOnlyWhenFull`, `QueueMatches`, `SleepersHaveReason`, `DiskServes` |
| `tests` | 24 tests, 4 programs (`cat`, `stressfs`, `init`, `ls`) and `free`; 3 processes, 10 inodes, 18 blocks of 2 units, 2 direct blocks | `Expected`, `RefCounts`, `FilesCounted`, `NamesCounted`, `BlocksOwned`, `ChecksHold`, `OnlyPutsDeadlock` |
| `linkunlink` | the test `linkunlink` alone, the same disk | violation: finding 4 |
| `shell` | all lines of up to 3 tokens and about 150 longer ones, then `a \| a`; 5 processes, fair | `ParsesGrammar`, `Plumbed`, `PromptAfterAll`, `LinesEnd` |

Why the bounds are enough.  Three slots make the table overflow, force the
reuse of a slot, and hold a parent, a child and init at once, the largest family in which
`exit()`, `wait()` and a fork in flight can meet; two CPUs are what it takes to hold `ptable.lock`
against each other.  In `live` the fourth pid is there for the orphan: the shell dies before its child, init
starts another shell, and the orphan must be reaped while that one lives.  One of its two CPUs runs a `kill()` while the
other is between `sys_sleep()`'s look at `killed` and its sleep, and each looks for the next process with its own cursor.  The priorities lie below, inside and on
the edge of the range.  In `log` a transaction spans both threads, absorbs a second
write, a second call sleeps for space and for a commit, and a crash hits every disk write of a commit, of a recovery and of the recovery
of a recovery; the proofs lift it to any size.  In `pipe` a call is longer than the pipe, which
fills, empties and wraps its counters.  In `memory` 11 frames are one fewer than three
processes of the smallest size (kernel stack, directory, one page, one stack page) need, so
that every allocation of fork, exec and sbrk is sometimes the one that fails.  In `buffers`
there are fewer buffers than blocks, so that every miss recycles, one buffer may be pinned by
the log while the other is wanted by both processes, and both panics are reached.  In `tests` files and directories reach
their indirect block, a write takes several transactions, tables of 4 files and 3 descriptors run
full, and inode numbers are used again.  `shell`'s five processes are one fewer than its longest
lines need, so that `fork()` fails at every place.

State-space reductions.  `memory` uses a
VIEW that forgets which frame is used for what.  Frames are never compared except by
`Kalloc`, which picks one of several frames that all hold junk and are in no use, so states with the same
view have the same continuations up to a renaming of frames; the value of `FramesOwned` is
part of the view, so a state that shares or loses a frame is never identified with one
that does not.  The action properties are evaluated on every transition from a
representative.

Deadlock is checked except in the pipe run, where a process that fills a pipe only it can
read does sleep for ever, as it does in the kernel.  `panic()` is a stuttering step in `Proc`, `Log`
and `UserMem`; in `Buffers` those of `bget()` and `log_write()` stop their process and the others are steps not taken, as in `Files`.  `Over` in `UserTests` and `Done` in `Shell` are the end
of what is to be run.

### Fairness

`Proc`: strong fairness for what each CPU does by itself (`CpuStep`: dispatch, return from `sched()` and from
interrupts, the next timer interrupt) and for each thread's steps in the kernel (`ThreadStep`).  A CPU does not
stop; a spinning `acquire` gets the lock, which the holders give back after finitely many instructions; the timer
interrupts for ever, and not always at the same place of one kernel path.  Strong fairness
is needed because the lock and the timer disable a step again and again without its thread
being at fault.  Nothing is assumed of user programs: they may spin for ever.  `init.c` alone is trusted
to make its next call.  No step assumes that a low priority is ever dispatched.

`Log`: a call that has begun makes finitely many changes and reaches `end_op()` (strong,
because it may alternate with the call's own writes), and `commit()` and recovery go on (weak).
Crashes, readers and new calls are never assumed.

`Pipe`: kernel steps go on (strong, for `p->lock`), and a process that is not in a call
does not keep its ends for ever: it closes them or exits.  Without the latter no pipe of any Unix can promise
that a reader wakes.  `SleepersWake` is stated for pipes whose processes have closed
the end they do not use.

`Buffers`: the disk finishes, its interrupts are taken, a process that is runnable in the driver runs
(weak), and a processor that spins for `idelock` gets it (strong: others take it in between).
Nothing is assumed of a process outside the driver, or of one that waits for a sleep lock, which
others may take first.

`Shell`: every process runs, init starts a new shell when one ends, and a program ends once it has
read its input to the end and its output is gone (weak).  That a program quits early or that anybody types
is never assumed.

## Findings

Each is a run that TLC must find violated.

1. `bornkilled` (`proc.c:666`): `kill()` takes the first slot whose pid matches, whatever its
   state; `kill(0)`, or the pid a failed fork left in its slot, marks a free slot, and
   `allocproc()` does not clear `killed`: the next process made there dies at its first trap.
2. `waitpid` (`proc.c:360`): `waitpid()` sleeps on the parent pointer of its target as it is at that
   moment; when it is still null, or the parent exits and hands the target to init, the
   target's `exit()` wakes another channel.
3. `grandchild` (`vm.c:345`): `fork()` does not copy `stack_psize`, so the fork of a process that has not called
   `exec()` copies as many stack pages as its slot happens to remember.
4. `linkunlink` (`fs.c:334`): `create()` puts the parent directory while it holds the lock of the new inode
   (`sysfile.c:280`); `iput()` takes the parent's sleep lock; an `unlink()` of the same name holds it and waits for
   the inode.  The test that is there "to look for deadlocks" can hang, and so can any two programs
   that create and remove one name.  `link()` does the same: it holds the directory when `dirlink()` puts the inode of
   a name that exists already (`fs.c:559`), so `concreate`, whose turns pair a `link()` with a create of that
   name, can hang too (`Tests = {"concreate"}` in that cfg gives the trace).  `OnlyPutsDeadlock` shows that no
   two calls of the programs lock each other out in another way.

Seen while modelling, and kept in the models as the code has them:

- `waitpid()` accepts any pid, child or not (`proc.c:331`); the comment on `exit` (`proc.c:226`)
  speaks of the parent.
- `getpriority()` assigns to its own parameter (`proc.c:377`): the caller's int is never
  written, although `eung_test.c:50` reads it.
- A writer that finds itself killed with the buffer full returns without waking the readers of
  the bytes it has put in (`pipe.c:88`); they wait for the next write or close.  `SleepersHaveReason`
  states this exception, `SleepersWake` shows that a close still ends the wait.
- A kill between the look at `killed` and the sleep in `pipe.c` does not wake the process; it
  sleeps on until the other side moves.  In `sys_sleep()` the next tick wakes it (`KillTakesEffect`).
- `growproc()` takes the size 0 that `deallocuvm()` returns for `sbrk(-sz)` as an error after
  the pages are gone (`proc.c:171`).
- A heap that reaches the stack panics with "remap", and any user fault below STACKBASE grows the
  stack or panics (`trap.c:82`); `UserMem`'s programs keep heap and stack apart.
- The cache has as many buffers as a transaction may pin, NBUF = LOGSIZE = 30 (`param.h`), so `bget()` can run out of them and
  panic (`bio.c:92`) with a large transaction and a few callers; `CacheSuffices` says how many more it takes.
- `begin_op()` hands out LOGSIZE blocks, and the area `mkfs` makes has LOGSIZE - 1 beside the header
  (`log.c:132`, `mkfs.c:25`).  `SpaceReserved` is what `begin_op()` guarantees; `LogFits` follows when
  calls stay below MAXOPBLOCKS (`LogAlwaysFits`).
- Two processes that put the last two references of an unlinked inode both see `ref = 2` (`fs.c:337`): neither
  frees it, and the inode and its blocks are lost.  `LastPutFrees` states what the comment above `iput()`
  promises; `openiputtest` violates it.
- A removed directory that is still somebody's current directory keeps its "..", which is no longer counted: its
  parent can be removed and its number reused.  `Links` does not count that entry.  No test goes that way, so `ChecksHold`
  holds in `tests`; a program that removes its current directory, then the parent of that, and then
  looks up ".." meets `panic("ilock: no type")` (`fs.c:310`).
  This is the only way there: `ChecksHoldUnlessStray` proves `ChecksHold` of all programs that never do it (`NoStray`).
- `mkfs` rounds the size of the root up by a whole block when it already ends on one (`mkfs.c:161`).
- `ideintr()` marks a buffer valid when the read failed, and takes any interrupt for the end of the first
  request (`ide.c:118-122`).  With `ReadFails` the cache is no `BlockStore`; after a stray interrupt `bwrite()` may return
  before the block is on the disk, which is why `CleanIsOnDisk` is stated without one.
- In the shell `a > x > y` leaves the output in `x`: the first redirection is the innermost and runs last.  `>>` opens
  as `>` does, which in turn does not truncate.  `a & b` is a syntax error.
- When init's own fork fails it calls `exit()`, and the kernel panics with "init exiting".

## Proofs

Checked by TLAPS for every value of the constants that satisfies `ProcConstants`, `LogConstants`,
`PipeConstants`, `BuffersAssumption`, `UserMemConstants` or `FilesAssumption`.  These ask that tables, buffers and logs
are not empty, that `UINT` is a larger multiple of `PIPESIZE`, as 2^32 is of 512, that a log holds at least one call,
that `Procs` or `Threads` are finite where they are counted, and that the image given to `mkfs` is a list of named files
that fits.  Each component has one inductive invariant `IndInv`, written
as a conjunction of named parts at the end of its module, and a proof with one step per action for each part that
the action can disturb.

`ProcProofs`.  `IndInv` is inductive (`Invariance`); from it follow `TypeCorrect`,
`OneCpuPerProcess` (`CpuExclusive`), `UniquePids`, `LiveParents` (`ParentsAlive`), `NoLostSlot`
(`EmbryoOwned`), `WaitMissesNothing` (`NoMissedWakeup`), `StatusIsDelivered` (`StatusDelivered`) and `DeadStaysDead`
(`ZombieStaysDead`).  None of these is inductive alone.  `ParentsAlive` needs to know that a free slot has no parent, that a fork in
flight owns its EMBRYO and at which moment it sets the parent (`ForkInv`,
`ParentInv`): otherwise an exit could leave a pointer to itself in a slot that is not yet
a process.  `NoMissedWakeup` needs that a sleeper in `wait()` sleeps on its own slot, the one
channel its children's `exit()` wakes.  `PidsUnique` needs every pid to be below `nextpid`.  `StatusDelivered`
needs `StatusInv`: a zombie still carries the status its pid gave to `exit()`, and a pid whose status was handed out
names no slot in use, so that a recycled slot can neither overwrite nor repeat it.
`PidsUnique` and `ZombieStaysDead` are proved and not run, as is `SleepersWaitForSomething` of `Log`.
The steps are first classified (`StepKinds`, `StepBooks`) into those that only move a thread between live
states and the few that allocate, build, end or free a process; only these touch
`ForkInv`, `ParentInv` and `StatusInv`.

`LogProofs`.  `IndInv` (`Invariance`) relates the header in memory, the header on the disk,
the log blocks, the buffers and the home blocks at each point of `commit()` and of recovery.  `LogIsAtomic` shows
that under it every step of `Log` is a step of `AtomicDisk` or a stutter: `WriteHead` is the one
step that maps to `Commit`, installation and recovery change nothing that recovery
would compute, and a crash is `Crash`.  `RecyclingIsSafe`, `CallsAreCounted`,
`NobodySleepsOnAnOpenLog` (with `SleepInv`) and `SpaceIsReserved` follow.  These carry the premise `[]LogFits`: a log that
overruns its area overwrites what lies behind it.  The premise is discharged by counting.  `RoomInv(k, c)` says that
the blocks of ended calls, and k more for each call in progress, are at most c; `begin_op()` establishes it for
k = MAXOPBLOCKS and c = LOGSIZE, which is `SpaceReserved`, and, as the last call it admits writes `OpBlocks` and
not MAXOPBLOCKS blocks, also for k = OpBlocks and c = `MostLogged` = LOGSIZE - (MAXOPBLOCKS - OpBlocks).  So a
transaction never exceeds `MostLogged` blocks, and if that is below `NLOG` the log fits (`LogAlwaysFits`) and is
atomic (`SmallCallsAreAtomic`) without a premise on the behaviour; with one block more to spare no panic of
`log.c` is reachable (`LogNeverPanics`).  For the numbers of `param.h` and `mkfs.c` (LOGSIZE = 30, NLOG = 30,
MAXOPBLOCKS = 10) the conditions say that calls write at most 9, respectively 8, different blocks.

`PipeProofs`.  `IndInv` is made of `LockInv` (who holds `p->lock` between two steps), `EndsInv` (an end is open
while a process has it or has still to close it, and the page is freed when both are closed) and `QueueInv` (at most
PIPESIZE bytes, and the reasons of sleepers also hold for who is about to sleep).  From it: `TypeCorrect`,
`NoUseAfterFree` (`FreedIsUnused`), `NoSleeperForgotten` (`SleepersHaveReason`) and `PipeIsFifo` (`IsFifo`).  For the
last, each `pipewrite()` appends to, and each `piperead()` takes from, the queue that `data` represents between
`nread` and `nwrite`; it rests on the arithmetic of counters that wrap at a multiple of the buffer's size, where the
index of byte k behind `nread` does not change when either counter wraps.

`BuffersProofs`.  `IndInv` joins `CacheInv` (no block has two buffers), `LockInv` (the sleep lock of a buffer is held by
exactly the process that has it or drives the disk for it), `RefcntCounts`, `QueueInv`, `SleepersHaveReason`,
`ControllerInv` (the controller is at the first request of the queue) and `LogInv` (a dirty buffer that is not on its way to the
disk is of the transaction).  From it `TypeCorrect`, `CountsAreReferences`, `QueueIsWaiters` and `NoSleeperForgotten`; the counts change by one process
at a time, and the list of recently used buffers is a permutation in every step.  `FullIsUse` (`PanicsOnlyWhenFull`) says that `bget()` panics only
when the transaction and the buffers processes have or wait for are as many as the cache: no buffer is lost to a count or
a mark that was not taken back.  `CacheSuffices` gives the size at which the panic is out of reach, NBUF >= LOGSIZE +
|Procs| * MaxHold, by bounding what each process refers to (`HoldInv`); the kernel's own NBUF = LOGSIZE does not
meet it.  What a buffer holds is `DataInv`,
proved under `ReadFails = FALSE` (`CleanIsStored`, `CleanIsWritten`): `ideintr()` marks a buffer valid after
a failed read, and then it holds anything.  Under the same premise `CacheIsBlockStore` shows that every step of
`bio.c` and `ide.c` is a step of `BlockStore` or a stutter: a caller gets a block where `bread()` returns and releases
it where `brelse()` gives up the sleep lock, and recycling, interrupts and disk writes change no block's content.

`UserMemProofs`.  `Owned` says that each physical page in use is at exactly one place (kernel stack, directory, page
of an address space or of one a call is building) and that no free one is at any.  It is inductive only with
`LifeInv` (what a slot holds in each state) and `TodoInv` (what `exec()` and `sbrk()` have still to map), since
the error paths free what the loops have built so far.  `PagesOwned` (`FramesOwned`) and `TypeCorrect` follow
for every program.  `StackIsCounted`, `MemoryIsKept` and `ForkIsComplete` need `StackInv`, `CopyInv` and
`ComingInv` (where the pages of a process that has called `exec()` are, and which of them `copyuvm()` has copied), and
the premise `MinSize # 0`: a program that gives back its last page by `sbrk(-sz)` is left with a wrong size.

`FilesProofs`.  `FilesSpec` is `Files` under any programs: every process makes any call of `SysCalls` with any path,
descriptor or data.  `FilesCountedHolds` and `RefCountsHold` show that the counts of open files and of cached inodes are
exactly the pointers to them.  Neither is inductive alone.  `Locals` says at which label a thread owns which of
`ip`, `dp` and `at`: without it a step could drop a pointer it does not have.  `Kinds` says that a parent stays a directory
while a call works in it, and `FilesInv` that an open file's inode is not free and, when it can be written, no directory,
so that `writei()` and `dirlink()` meet what they expect; `Uses` and `Lives` tie threads to descriptors and to running
processes.  The argument of each step is a balance (`Balance`): a counter changes by as much as the pointers of
the one process that moves and of the open files do (`Step`, `Shown`), while the pointers of all others stay (`Total`).
`iput()` is the step that needs the counts themselves: it frees an inode under `ref = 1`, and `Alone`
concludes that no file, parent or locked inode of any other call is the one that goes.  `fork()` and `pipe()` change
more than one process or file and have their own counting lemmas (`ForkUsers`, `PipeOpens`).

Of the blocks, `BlocksOwnedHolds` shows of `FilesSpec` that the blocks marked in use are those of the inodes, no block
in two of them or twice in one: `balloc()` and `bfree()` lose and share nothing on any path through `bmap()`,
`writei()`, `dirlink()`, `itrunc()` and the image of `mkfs.c`.  `BlocksInv` adds to it what the step of a write rests on.
`HasBlocks` says that an inode has a block for every unit of its content, the indirect block once there are more than
`NDIRECT`, and none when it is free; `Offsets` and `Transfers` say that an offset and the part of a write already
done are numbers within the data.  It is inductive relative to `IndInv`, which says that the inode a thread
writes or frees is the one it has locked.  The argument: `balloc()` returns as many different free blocks as a step
asks for (`Ranked`: a finite set of numbers has an element of every rank), so an inode grows by blocks that no
other has (`Grows`, `GrowsOwned`), and `iput()` gives back exactly its own (`FreedOwned`).  The first state uses the
assumption that the root directory does not fill its last block, `(Len(Image) + 2) % BSIZE # 0`: `mkfs.c` gives it a
block too few otherwise.

`NamesProofs`.  `NamesInv` is inductive relative to `IndInv` (`NamesInvariance`), and `NamesCountedHolds` follows: a link
count covers `Links(i)`, so what has a name is never freed.  `NamesCounted` alone is not inductive.  `rmdir` takes a
link off the directory it works in for the ".." of the one it removes, which is right only when the removed directory was in fact a
subdirectory by that one name (`OneParent`) and when its first two entries are its dots (`Dots`); `OneParent` in turn
needs that `link()` names no directory and that it knows so when it makes the entry, several locks
after it looked (`Knows`).  `unlink()` erases an entry it found before it locked the inode, which is right because
the directory stays locked (`Holds`) and so still has the entry (`Knows`).  `CountsLinks` says that a free inode has no link.
Each step is one of a few kinds: it changes no directory and no link (`QuietStep`), or it makes an entry, erases one, or moves one link
between a count and a call's hands; for each kind `Links` of every inode before and after differ by named elements.
`OneParentHolds` and `UnlinkHasLink` (`panic("unlink: nlink < 1")` is not reached) follow.  A link count is a `short` in
`fs.h` and a number in the model: it cannot wrap, as the disk's 1000 blocks of 32 entries
(`param.h`) hold fewer than 2^15 names.

`ChecksHoldUnlessStray` has the premise `[]NoStray`: no call looks ".." up in a directory that has no name and
whose parent is free.  Its invariant `LiveInv` says that the inodes which calls and current directories point to are in use.
A lookup keeps it, since an entry after the dots is counted (`NamesCounted`), "." leads to the directory itself, and ".." leads
to the directory that names it or, when none does, to what the premise is about; `iput()` keeps it, since
it frees an inode only when no other pointer is left (`Alone`).  Without the premise the statement is false (see Findings).

`Facts`.  The induction theorems of the library take an operator as a parameter, which the provers cannot instantiate;
`LeastNat` and `SubsetInduction` state induction for sets of numbers and sets of sets instead, proved from the
well-foundedness of <.  `SubsetInduction` carries the count of the blocks that the calls of a transaction write.

Only model-checked: everything under fairness (`OrphansReaped`, `EqualsTakeTurns`,
`KillTakesEffect`, `SleepersAreWoken`, `SleepersWake`, `DiskServes`, `LinesEnd`), which is out of the prover's reach;
`Expected` and `OnlyPutsDeadlock` of `UserTests`, which are about the programs of that module
and not about all programs; and `Shell`, whose parser and reference are recursive operators, about which TLAPS proves nothing.

## Not modelled

- Boot, interrupt controllers, assembly, `mp.c`: fixed sequences of register writes.
- `memide.c`, an alternative to `ide.c` that copies from memory.
- Spin locks as such: a section under one is a step.  Device numbers, and the console as a device.
- Paging permissions, segments and the TLB; ELF parsing in `exec()` beyond "it may fail".
- User programs that are sequential string and list code (`printf`, `grep`, `wc`, `umalloc.c`), and the
  tests of `usertests.c` that are not about files: what they exercise is in `Proc`, `Pipe` and `UserMem`,
  whose programs are free to make any call.
- The socket programs: each is a program of its own, with nothing in common with the kernel.  Their hazards are
  known: the client list of `thread_chat/chat_server.c:58` is edited by one thread per client with its mutex commented
  out, `d_shell/server1.c:261` hands every thread the address of one socket variable, and in
  `dropbox/sclient.c:305` both sides can wait for each other.
- Consequences of the design that no property calls wrong: a process that always runs starves every
  lower priority (`proc.c:452`); `fork()` overwrites a priority set on its child before it ends
  (`proc.c:218`); `nextpid` wraps after 2^31 forks (`proc.c:89`; the models bound the pids); a page fault anywhere
  below STACKBASE grows the stack (`trap.c:82`).

## Plan

1. `Dropbox`: the version protocol of `dropbox/` between two clients and the server; then the
   client list of `thread_chat/` and the accept loop of `d_shell/`.
2. `Console`: the line editor and its ring.
3. `Files` on top of `Log`: where a crash falls between two transactions of one call.
