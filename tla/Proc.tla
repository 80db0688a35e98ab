------------------------------- MODULE Proc -------------------------------
(***************************************************************************)
(* The process table of xv6_lab3 and everything that changes it: the       *)
(* per-CPU priority scheduler, fork, exit, wait, waitpid, kill, the        *)
(* priority calls, sleep and the timer interrupt (proc.c, sysproc.c,       *)
(* trap.c).                                                                *)
(*                                                                         *)
(* A slot of ptable.proc is a number in Slots; 0 is the null pointer and   *)
(* InitProc the slot userinit() takes.  A sleep channel is a slot (a       *)
(* struct proc pointer), 0, or TicksChan (the address of ticks).           *)
(*                                                                         *)
(* A section of code under ptable.lock that the code enters and leaves     *)
(* inside one call is one step, enabled while the lock is free.  The one   *)
(* place where the lock is carried from one thread to another, the swtch   *)
(* of scheduler() into a process, is two steps: Dispatch takes the lock    *)
(* and the process's next step (it resumes inside sched()) releases it.    *)
(* Writes the code makes without the lock are steps of their own, enabled  *)
(* whoever holds it.                                                       *)
(***************************************************************************)
EXTENDS Integers, FiniteSets

CONSTANTS
  NPROC,        \* slots in the process table (64 in param.h)
  CPUs,         \* processors running scheduler()
  CPU0,         \* the one whose timer interrupt advances ticks
  NoCPU,        \* ptable.lock is free
  MaxPid,       \* BOUND: processes ever created
  Prios,        \* the values user programs pass to setpriority()
  Statuses,     \* the values user programs pass to exit()
  KillPids,     \* the pids user programs pass to kill()
  MemoryEnds,   \* whether kalloc() can fail
  Calls         \* pid -> the system calls its program makes, init's aside

ASSUME ProcConstants ==
  /\ NPROC \in Nat \ {0}
  /\ MaxPid \in Nat \ {0}
  /\ CPU0 \in CPUs
  /\ NoCPU \notin CPUs
  /\ Prios \subseteq Int
  /\ Statuses \subseteq Int
  /\ KillPids \subseteq Int
  /\ MemoryEnds \in BOOLEAN

HIGHPRIO == 10
LOWPRIO == -10

Slots == 1 .. NPROC
InitProc == 1
TicksChan == NPROC + 1
Chans == 0 .. NPROC + 1

VARIABLES
  state, pid, parent, chan, killed, priority, exit_status,  \* struct proc
  nextpid,
  cproc,     \* CPU -> the slot it runs (c->proc), or 0
  cur,       \* CPU -> the round-robin cursor of its scheduler()
  holder,    \* the CPU that holds ptable.lock across a swtch, or NoCPU
  pc,        \* slot -> where the thread is (user code or a kernel path)
  ctx,       \* slot -> the frame on top of pc: how it left, or will leave, the CPU
  arg,       \* slot -> the value its kernel path carries across a step
  sh,        \* init.c's local pid: the shell it waits for, 0 when it must fork
  panicked,
  passed,    \* history: pid -> status it gave exit()
  got        \* history: pid -> status its reaper was given

table == <<state, pid, parent, chan, killed, priority, exit_status, nextpid>>
vars == <<state, pid, parent, chan, killed, priority, exit_status, nextpid,
          cproc, cur, holder, pc, ctx, arg, sh, panicked, passed, got>>

States == {"UNUSED", "EMBRYO", "SLEEPING", "RUNNABLE", "RUNNING", "ZOMBIE"}
\* user: in user code.  trapret: about to return to it, killed still to be
\* checked; intrret: the same at the end of an interrupt.  syscall: inside
\* syscall(), the call not yet begun.  The others name the call they are in
\* the middle of; dead: the slot has no thread.
PCs == {"user", "syscall", "trapret", "intrret", "fork_copy", "fork_run", "exit",
        "wait", "waitpid", "sleep", "sleep_locked", "setpriority", "dead"}
\* none: on the CPU.  tick: in the timer interrupt.  The others are the
\* frame that swtch() will return into.
Ctxs == {"none", "tick", "forkret", "yield", "sleep"}
NoStatus == -1000
ExitStatuses == Statuses \cup {0, 1}

\* The state main() leaves behind: userinit() has made the first process
\* runnable, the rest of the table is the zeroed BSS, and every CPU is about
\* to enter scheduler().
Init ==
  /\ state = [p \in Slots |-> IF p = InitProc THEN "RUNNABLE" ELSE "UNUSED"]
  /\ pid = [p \in Slots |-> IF p = InitProc THEN 1 ELSE 0]
  /\ parent = [p \in Slots |-> 0]
  /\ chan = [p \in Slots |-> 0]
  /\ killed = [p \in Slots |-> 0]
  /\ priority = [p \in Slots |-> 0]
  /\ exit_status = [p \in Slots |-> 0]
  /\ nextpid = 2
  /\ cproc = [c \in CPUs |-> 0]
  /\ cur = [c \in CPUs |-> 1]
  /\ holder = NoCPU
  /\ pc = [p \in Slots |-> IF p = InitProc THEN "user" ELSE "dead"]
  /\ ctx = [p \in Slots |-> IF p = InitProc THEN "forkret" ELSE "none"]
  /\ arg = [p \in Slots |-> 0]
  /\ sh = 0
  /\ panicked = 0
  /\ passed = [i \in 1 .. MaxPid |-> NoStatus]
  /\ got = [i \in 1 .. MaxPid |-> NoStatus]

-----------------------------------------------------------------------------
\* Helpers

\* p is the entry a loop over the table from ptable.proc stops at.
IsFirst(p, S) == p \in S /\ \A q \in S : p <= q

WithPid(n) == {q \in Slots : pid[q] = n}
Children(p) == {q \in Slots : parent[q] = p}

\* Thread p executes on c, at the kernel (or user) point `at', outside any
\* interrupt.
At(c, p, at) == cproc[c] = p /\ ctx[p] = "none" /\ pc[p] = at

LockFree == holder = NoCPU

\* tickslock is held, with interrupts off, from sys_sleep()'s look at ticks
\* and killed until sleep() has taken ptable.lock.
TicksLockFree == \A p \in Slots : pc[p] # "sleep_locked"

\* Mutants: the cursor runs off the table; it stays on the process that ran;
\* c->proc keeps the process that left.
BackToSchedulerNoWrap(c, p) ==
  /\ cproc' = [cproc EXCEPT ![c] = 0]
  /\ cur' = [cur EXCEPT ![c] = p + 1]
  /\ holder' = NoCPU

BackToSchedulerSameCursor(c, p) ==
  /\ cproc' = [cproc EXCEPT ![c] = 0]
  /\ holder' = NoCPU
  /\ UNCHANGED cur

BackToSchedulerKeepsProc(c, p) ==
  /\ cur' = [cur EXCEPT ![c] = IF p = NPROC THEN 1 ELSE p + 1]
  /\ holder' = NoCPU
  /\ UNCHANGED cproc

\* The rest of scheduler()'s loop body once a process has switched back:
\* advance the cursor past it, forget it, release ptable.lock.
BackToScheduler(c, p) ==
  /\ cproc' = [cproc EXCEPT ![c] = 0]
  /\ cur' = [cur EXCEPT ![c] = IF p = NPROC THEN 1 ELSE p + 1]
  /\ holder' = NoCPU

Goto(p, at) == pc' = [pc EXCEPT ![p] = at]

\* wakeup1(ch) on the table of states st.
Wakeup1(ch, st) ==
  [q \in Slots |-> IF st[q] = "SLEEPING" /\ chan[q] = ch THEN "RUNNABLE" ELSE st[q]]

-----------------------------------------------------------------------------
\* The scheduler

Runnable == {p \in Slots : state[p] = "RUNNABLE"}
HighestPriority == {p \in Runnable : \A q \in Runnable : priority[q] <= priority[p]}

\* How many entries the two loops from cur (to the end, then from the start)
\* pass before they look at p.
Offset(from, p) == IF from <= p THEN p - from ELSE p - from + NPROC

Pick(c) ==
  {p \in HighestPriority :
     \A q \in HighestPriority : Offset(cur[c], p) <= Offset(cur[c], q)}

Dispatch(c) ==
  /\ LockFree /\ cproc[c] = 0
  /\ \E p \in Pick(c) :
       /\ state' = [state EXCEPT ![p] = "RUNNING"]
       /\ cproc' = [cproc EXCEPT ![c] = p]
       /\ cur' = [cur EXCEPT ![c] = p]
  /\ holder' = c
  /\ UNCHANGED <<pid, parent, chan, killed, priority, exit_status, nextpid,
                 pc, ctx, arg, sh, panicked, passed, got>>

\* A new process starts in forkret(), which releases the lock and falls
\* through to user space: no check of killed on this path.
ForkRet(c) ==
  \E p \in Slots :
    /\ holder = c /\ cproc[c] = p /\ ctx[p] = "forkret"
    /\ holder' = NoCPU
    /\ ctx' = [ctx EXCEPT ![p] = "none"]
    /\ UNCHANGED <<table, cproc, cur, pc, arg, sh, panicked, passed, got>>

\* sched() returns into yield(), which releases the lock.  After an interrupt
\* from user code trap() looks at killed once more (intrret); interrupted
\* kernel code just goes on; setpriority() returns.
YieldReturn(c) ==
  \E p \in Slots :
    /\ holder = c /\ cproc[c] = p /\ ctx[p] = "yield"
    /\ holder' = NoCPU
    /\ ctx' = [ctx EXCEPT ![p] = "none"]
    /\ pc' = [pc EXCEPT ![p] = IF @ = "user" THEN "intrret" ELSE @]
    /\ UNCHANGED <<table, cproc, cur, arg, sh, panicked, passed, got>>

\* yield(): the thread leaves the CPU runnable, to resume at pc' in frame
\* "yield".
Yield(c, p) ==
  /\ LockFree
  /\ state' = [state EXCEPT ![p] = "RUNNABLE"]
  /\ ctx' = [ctx EXCEPT ![p] = "yield"]
  /\ BackToScheduler(c, p)
  /\ UNCHANGED <<pid, parent, chan, killed, priority, exit_status, nextpid,
                 arg, sh, panicked, passed, got>>

\* sleep(ch, lk), up to the swtch: the caller has, or now gets, ptable.lock.
Sleep(c, p, ch) ==
  /\ chan' = [chan EXCEPT ![p] = ch]
  /\ state' = [state EXCEPT ![p] = "SLEEPING"]
  /\ ctx' = [ctx EXCEPT ![p] = "sleep"]
  /\ BackToScheduler(c, p)
  /\ UNCHANGED <<pid, parent, killed, priority, exit_status, nextpid,
                 sh, panicked, passed, got>>

-----------------------------------------------------------------------------
\* Traps

\* T_SYSCALL: trap() looks at killed before the call is made.
SyscallEntry(c) ==
  \E p \in Slots :
    /\ At(c, p, "user")
    /\ Goto(p, IF killed[p] = 1 THEN "exit" ELSE "syscall")
    /\ arg' = [arg EXCEPT ![p] = IF killed[p] = 1 THEN 1 ELSE 0]
    /\ UNCHANGED <<table, cproc, cur, holder, ctx, sh, panicked, passed, got>>

\* The check of killed on the way back to user code.
TrapReturn(c) ==
  \E p \in Slots :
    /\ At(c, p, "trapret") \/ At(c, p, "intrret")
    /\ Goto(p, IF killed[p] = 1 THEN "exit" ELSE "user")
    /\ arg' = [arg EXCEPT ![p] = IF killed[p] = 1 THEN 1 ELSE 0]
    /\ UNCHANGED <<table, cproc, cur, holder, ctx, sh, panicked, passed, got>>

\* The states after a tick.  Mutant: it wakes nobody.
TickedNone == state
Ticked == Wakeup1(TicksChan, state)

\* The timer interrupts the thread on c, in user code or between two locked
\* sections of the kernel; CPU 0 also wakes the sleepers on ticks.
TimerInterrupt(c) ==
  \E p \in Slots :
    /\ cproc[c] = p /\ ctx[p] = "none"
    /\ pc[p] \notin {"sleep_locked", "intrret"}     \* interrupts are off there
    /\ c = CPU0 => LockFree /\ TicksLockFree
    /\ state' = IF c = CPU0 THEN Ticked ELSE state
    /\ ctx' = [ctx EXCEPT ![p] = "tick"]
    /\ UNCHANGED <<pid, parent, chan, killed, priority, exit_status, nextpid,
                   cproc, cur, holder, pc, arg, sh, panicked, passed, got>>

\* The same interrupt on CPU 0 while it idles in scheduler() with
\* interrupts enabled.
TimerWhileIdle ==
  /\ LockFree /\ TicksLockFree /\ cproc[CPU0] = 0
  /\ state' = Ticked
  /\ UNCHANGED <<pid, parent, chan, killed, priority, exit_status, nextpid,
                 cproc, cur, holder, pc, ctx, arg, sh, panicked, passed, got>>

\* The tail of trap() for that interrupt: a killed thread in user code exits,
\* any other gives up the CPU.
TimerExit(c) ==
  \E p \in Slots :
    /\ cproc[c] = p /\ ctx[p] = "tick" /\ pc[p] = "user" /\ killed[p] = 1
    /\ Goto(p, "exit")
    /\ arg' = [arg EXCEPT ![p] = 1]
    /\ ctx' = [ctx EXCEPT ![p] = "none"]
    /\ UNCHANGED <<table, cproc, cur, holder, sh, panicked, passed, got>>

TimerYield(c) ==
  \E p \in Slots :
    /\ cproc[c] = p /\ ctx[p] = "tick" /\ ~(pc[p] = "user" /\ killed[p] = 1)
    /\ Yield(c, p)
    /\ UNCHANGED pc

-----------------------------------------------------------------------------
\* System calls

\* Which call the program running as p makes next.  init.c forks a shell,
\* exits when that fails, and otherwise waits until the shell is reaped.
MayCall(p, call) ==
  IF p = InitProc
  THEN call = CASE sh = 0 -> "fork" [] sh = -1 -> "exit" [] OTHER -> "wait"
  ELSE call \in Calls[pid[p]]

\* The call returns towards trap()'s check of killed.
Return(p) ==
  /\ Goto(p, "trapret")
  /\ arg' = [arg EXCEPT ![p] = 0]

TakeSlot(np) ==
  /\ state' = [state EXCEPT ![np] = "EMBRYO"]
  /\ pid' = [pid EXCEPT ![np] = nextpid]
  /\ nextpid' = nextpid + 1

\* fork() calls allocproc(): the first unused slot becomes an EMBRYO with a
\* new pid, or fork() returns -1.  killed keeps what the slot held.
AllocProc(c) ==
  \E p \in Slots :
    /\ LockFree /\ At(c, p, "syscall") /\ MayCall(p, "fork")
    /\ nextpid <= MaxPid
    /\ \/ \E np \in Slots :
            /\ IsFirst(np, {q \in Slots : state[q] = "UNUSED"})
            /\ TakeSlot(np)
            /\ Goto(p, "fork_copy")
            /\ arg' = [arg EXCEPT ![p] = np]
            /\ UNCHANGED sh
       \/ /\ \A q \in Slots : state[q] # "UNUSED"
          /\ Return(p)
          /\ sh' = IF p = InitProc THEN -1 ELSE sh
          /\ UNCHANGED <<state, pid, nextpid>>
    /\ UNCHANGED <<parent, chan, killed, priority, exit_status, cproc, cur,
                   holder, ctx, panicked, passed, got>>

\* Mutant: the slot is not given back.
ForkFailsLeaksSlot(c) ==
  \E p \in Slots :
    /\ At(c, p, "fork_copy")
    /\ Return(p)
    /\ sh' = IF p = InitProc THEN -1 ELSE sh
    /\ UNCHANGED <<table, cproc, cur, holder, ctx, panicked, passed, got>>

\* kalloc() of the kernel stack or copyuvm() fails: the slot is marked UNUSED
\* with no lock held, and nothing else of it is undone.
ForkFails(c) ==
  \E p \in Slots :
    /\ MemoryEnds /\ At(c, p, "fork_copy")
    /\ state' = [state EXCEPT ![arg[p]] = "UNUSED"]
    /\ Return(p)
    /\ sh' = IF p = InitProc THEN -1 ELSE sh
    /\ UNCHANGED <<pid, parent, chan, killed, priority, exit_status, nextpid,
                   cproc, cur, holder, ctx, panicked, passed, got>>

\* The memory was copied; parent is set, still without the lock.
ForkCopy(c) ==
  \E p \in Slots :
    /\ At(c, p, "fork_copy")
    /\ parent' = [parent EXCEPT ![arg[p]] = p]
    /\ Goto(p, "fork_run")
    /\ UNCHANGED <<state, pid, chan, killed, priority, exit_status, nextpid,
                   cproc, cur, holder, ctx, arg, sh, panicked, passed, got>>

ForkRun(c) ==
  \E p \in Slots : LET np == arg[p] IN
    /\ LockFree /\ At(c, p, "fork_run")
    /\ priority' = [priority EXCEPT ![np] = 0]
    /\ state' = [state EXCEPT ![np] = "RUNNABLE"]
    /\ pc' = [pc EXCEPT ![p] = "trapret", ![np] = "user"]
    /\ ctx' = [ctx EXCEPT ![np] = "forkret"]
    /\ arg' = [arg EXCEPT ![p] = 0]
    /\ sh' = IF p = InitProc THEN pid[np] ELSE sh
    /\ UNCHANGED <<pid, parent, chan, killed, exit_status, nextpid,
                   cproc, cur, holder, panicked, passed, got>>

\* sys_exit(): the status argument is fetched.
SysExit(c) ==
  \E p \in Slots, s \in ExitStatuses :
    /\ At(c, p, "syscall") /\ MayCall(p, "exit")
    /\ p = InitProc => s = 1
    /\ Goto(p, "exit")
    /\ arg' = [arg EXCEPT ![p] = s]
    /\ UNCHANGED <<table, cproc, cur, holder, ctx, sh, panicked, passed, got>>

\* exit() in the first process.
ExitPanic(c) ==
  /\ At(c, InitProc, "exit")
  /\ panicked' = 1
  /\ UNCHANGED <<table, cproc, cur, holder, pc, ctx, arg, sh, passed, got>>

\* The states after exit()'s wakeups: the parent, and init when it is about
\* to inherit a zombie.  Mutant: the parent is not woken.
ExitWakesInitOnly(p) ==
  IF \E q \in Children(p) : state[q] = "ZOMBIE" THEN Wakeup1(InitProc, state) ELSE state

ExitWakes(p) ==
  LET woken == Wakeup1(parent[p], state)
  IN IF \E q \in Children(p) : state[q] = "ZOMBIE"
     THEN Wakeup1(InitProc, woken)
     ELSE woken

\* The parents after the children of p have been passed to init.  Mutant:
\* only the zombies are passed on.
PassZombiesToInit(p) ==
  [q \in Slots |-> IF parent[q] = p /\ state[q] = "ZOMBIE" THEN InitProc ELSE parent[q]]

PassToInit(p) == [q \in Slots |-> IF parent[q] = p THEN InitProc ELSE parent[q]]

\* Mutant: the status would be stored after sched(), which does not return.
StoreStatusTooLate(p) == UNCHANGED exit_status
StoreStatus(p) == exit_status' = [exit_status EXCEPT ![p] = arg[p]]

\* exit(): wake the parent, give the children to init (waking it when one of
\* them is a zombie), become a zombie and leave the CPU for good.
Exit(c) ==
  \E p \in Slots \ {InitProc} :
    /\ LockFree /\ At(c, p, "exit")
    /\ state' = [ExitWakes(p) EXCEPT ![p] = "ZOMBIE"]
    /\ parent' = PassToInit(p)
    /\ StoreStatus(p)
    /\ passed' = [passed EXCEPT ![pid[p]] = arg[p]]
    /\ Goto(p, "dead")
    /\ arg' = [arg EXCEPT ![p] = 0]
    /\ BackToScheduler(c, p)
    /\ UNCHANGED <<pid, chan, killed, priority, nextpid, ctx, sh, panicked, got>>

\* p is at the top of the for(;;) of wait() or waitpid() with the lock: it
\* has just made the call, or sched() has returned into its sleep().
InLoop(c, p, call) ==
  \/ LockFree /\ At(c, p, "syscall") /\ MayCall(p, call)
  \/ holder = c /\ cproc[c] = p /\ ctx[p] = "sleep" /\ pc[p] = call

\* Leave the loop: the lock is released and the call returns.
LeaveLoop(p) ==
  /\ holder' = NoCPU
  /\ chan' = [chan EXCEPT ![p] = 0]
  /\ ctx' = [ctx EXCEPT ![p] = "none"]
  /\ Return(p)

\* p frees the zombie q and returns its pid and its status.
Reap(p, q) ==
  /\ state' = [state EXCEPT ![q] = "UNUSED"]
  /\ pid' = [pid EXCEPT ![q] = 0]
  /\ parent' = [parent EXCEPT ![q] = 0]
  /\ killed' = [killed EXCEPT ![q] = 0]
  /\ got' = [got EXCEPT ![pid[q]] = exit_status[q]]
  /\ sh' = IF p = InitProc /\ pid[q] = sh THEN 0 ELSE sh
  /\ LeaveLoop(p)
  /\ UNCHANGED <<priority, exit_status, nextpid, cproc, cur, panicked, passed>>

\* No child, or killed: return -1 (init.c then starts another shell).
NothingToReap(p) ==
  /\ sh' = IF p = InitProc THEN 0 ELSE sh
  /\ LeaveLoop(p)
  /\ UNCHANGED <<state, pid, parent, killed, priority, exit_status, nextpid,
                 cproc, cur, panicked, passed, got>>

Wait(c) ==
  \E p \in Slots :
    /\ InLoop(c, p, "wait")
    /\ LET zombies == {q \in Children(p) : state[q] = "ZOMBIE"}
       IN \/ \E q \in zombies : IsFirst(q, zombies) /\ Reap(p, q)
          \/ /\ zombies = {} /\ (Children(p) = {} \/ killed[p] = 1)
             /\ NothingToReap(p)
          \/ /\ zombies = {} /\ Children(p) # {} /\ killed[p] = 0
             /\ Sleep(c, p, p)
             /\ Goto(p, "wait")
             /\ UNCHANGED arg

\* waitpid(n, status, options).  The scan looks at every slot, child of the
\* caller or not, and stops at the first whose pid is n; the caller then
\* sleeps on that slot's parent pointer as it is now.
Waitpid(c) ==
  \E p \in Slots, n \in 0 .. MaxPid :
    /\ InLoop(c, p, "waitpid")
    /\ pc[p] = "waitpid" => n = arg[p]
    /\ \/ \E q \in WithPid(n) :
            /\ IsFirst(q, WithPid(n))
            /\ \/ state[q] = "ZOMBIE" /\ Reap(p, q)
               \/ state[q] # "ZOMBIE" /\ killed[p] = 1 /\ NothingToReap(p)
               \/ /\ state[q] # "ZOMBIE" /\ killed[p] = 0
                  /\ Sleep(c, p, parent[q])
                  /\ Goto(p, "waitpid")
                  /\ arg' = [arg EXCEPT ![p] = n]
       \/ WithPid(n) = {} /\ NothingToReap(p)

\* What kill() does to the state of its target.
KilledState(st) == IF st = "SLEEPING" THEN "RUNNABLE" ELSE st

\* kill(n): the first slot whose pid is n, whatever its state.
Kill(c) ==
  \E p \in Slots, n \in KillPids :
    /\ LockFree /\ At(c, p, "syscall") /\ MayCall(p, "kill")
    /\ \/ \E q \in WithPid(n) :
            /\ IsFirst(q, WithPid(n))
            /\ killed' = [killed EXCEPT ![q] = 1]
            /\ state' = [state EXCEPT ![q] = KilledState(@)]
       \/ WithPid(n) = {} /\ UNCHANGED <<killed, state>>
    /\ Return(p)
    /\ UNCHANGED <<pid, parent, chan, priority, exit_status, nextpid, cproc, cur,
                   holder, ctx, sh, panicked, passed, got>>

\* The pid the priority calls act on: 0 names the caller.
TargetPid(p, n) == IF n = 0 THEN pid[p] ELSE n

\* setpriority(n, prio), up to the release of the lock; on success yield()
\* follows.
SetPriority(c) ==
  \E p \in Slots, n \in 0 .. MaxPid, prio \in Prios :
    /\ LockFree /\ At(c, p, "syscall") /\ MayCall(p, "setpriority")
    /\ LET slots == WithPid(TargetPid(p, n))
           inRange == LOWPRIO <= prio /\ prio <= HIGHPRIO
       IN \/ \E q \in slots :
               /\ inRange /\ IsFirst(q, slots)
               /\ priority' = [priority EXCEPT ![q] = prio]
               /\ Goto(p, "setpriority")
               /\ UNCHANGED arg
          \/ /\ ~inRange \/ slots = {}
             /\ Return(p)
             /\ UNCHANGED priority
    /\ UNCHANGED <<state, pid, parent, chan, killed, exit_status, nextpid, cproc, cur,
                   holder, ctx, sh, panicked, passed, got>>

SetPriorityYield(c) ==
  \E p \in Slots :
    /\ At(c, p, "setpriority")
    /\ Yield(c, p)
    /\ Goto(p, "trapret")

\* getpriority(n, priority) looks for the slot and points its own parameter
\* at the slot's field: found or not, nothing is written, not even the
\* caller's int.
GetPriority(c) ==
  \E p \in Slots :
    /\ LockFree /\ At(c, p, "syscall") /\ MayCall(p, "getpriority")
    /\ Return(p)
    /\ UNCHANGED <<table, cproc, cur, holder, ctx, sh, panicked, passed, got>>

\* sys_sleep() holds tickslock, not ptable.lock, while it decides.  Not
\* enough ticks have passed and the caller was not killed, so it will sleep
\* (how many ticks are enough is left open here).
SysSleep(c) ==
  \E p \in Slots :
    /\ \/ At(c, p, "sleep")
       \/ At(c, p, "syscall") /\ MayCall(p, "sleep")
    /\ TicksLockFree
    /\ killed[p] = 0
    /\ Goto(p, "sleep_locked")
    /\ UNCHANGED <<table, cproc, cur, holder, ctx, arg, sh, panicked, passed, got>>

\* sleep(&ticks, &tickslock): ptable.lock is taken, then tickslock released.
SysSleepSleeps(c) ==
  \E p \in Slots :
    /\ LockFree /\ At(c, p, "sleep_locked")
    /\ Sleep(c, p, TicksChan)
    /\ Goto(p, "sleep")
    /\ UNCHANGED arg

\* sched() returns into sleep(&ticks, &tickslock).
SysSleepWakes(c) ==
  \E p \in Slots :
    /\ holder = c /\ cproc[c] = p /\ ctx[p] = "sleep" /\ pc[p] = "sleep"
    /\ holder' = NoCPU
    /\ chan' = [chan EXCEPT ![p] = 0]
    /\ ctx' = [ctx EXCEPT ![p] = "none"]
    /\ UNCHANGED <<state, pid, parent, killed, priority, exit_status, nextpid,
                   cproc, cur, pc, arg, sh, panicked, passed, got>>

\* Enough ticks have passed, or the sleeper was killed.
SysSleepReturns(c) ==
  \E p \in Slots :
    /\ At(c, p, "sleep")
    /\ Return(p)
    /\ UNCHANGED <<table, cproc, cur, holder, ctx, sh, panicked, passed, got>>
-----------------------------------------------------------------------------

\* What the kernel does by itself on c: no step here waits for a program.
Kernel(c) ==
  \/ Dispatch(c) \/ ForkRet(c) \/ YieldReturn(c)
  \/ TrapReturn(c) \/ TimerInterrupt(c) \/ TimerExit(c) \/ TimerYield(c)
  \/ ForkFails(c) \/ ForkCopy(c) \/ ForkRun(c)
  \/ ExitPanic(c) \/ Exit(c)
  \/ SetPriorityYield(c) \/ SysSleepSleeps(c) \/ SysSleepWakes(c) \/ SysSleepReturns(c)

\* The beginning of a system call; Wait and Waitpid are also its resumption.
Syscall(c) ==
  \/ SyscallEntry(c)
  \/ AllocProc(c) \/ SysExit(c) \/ Wait(c) \/ Waitpid(c) \/ Kill(c)
  \/ SetPriority(c) \/ GetPriority(c) \/ SysSleep(c)

Next ==
  \/ panicked = 0 /\ \E c \in CPUs : Kernel(c) \/ Syscall(c)
  \/ panicked = 0 /\ TimerWhileIdle
  \/ panicked = 1 /\ UNCHANGED vars      \* panic() loops forever

Spec == Init /\ [][Next]_vars

-----------------------------------------------------------------------------
\* Fairness.  A CPU does not stop, spinning for a lock does not last for ever,
\* the timer interrupts for ever, and it does not hit a kernel path at the
\* same place each time, so that a thread in the kernel that is given the CPU
\* again and again gets on.  Nothing is assumed of user programs except
\* init.c, which never stops between its calls.

\* What c does by itself: choose a process, or take the tick when there is
\* none; return from sched() or from an interrupt; take the next timer
\* interrupt.  Only c leaves each of these states, so that one condition is
\* enough for all.
CpuStep(c) ==
  \/ Dispatch(c) \/ ForkRet(c) \/ YieldReturn(c) \/ SysSleepWakes(c)
  \/ TimerInterrupt(c) \/ TimerExit(c) \/ TimerYield(c)
  \/ (\E p \in Slots : At(c, p, "intrret")) /\ TrapReturn(c)
  \/ c = CPU0 /\ Runnable = {} /\ TimerWhileIdle

\* Thread p gets on with its kernel path; init.c makes its next call.
ThreadStep(p) ==
  \E c \in CPUs :
    /\ cproc[c] = p
    /\ \/ pc[p] = "trapret" /\ TrapReturn(c)
       \/ p = InitProc /\ SyscallEntry(c)
       \/ ForkFails(c) \/ ForkCopy(c) \/ ForkRun(c)
       \/ ExitPanic(c) \/ Exit(c) \/ SetPriorityYield(c)
       \/ SysSleepSleeps(c) \/ SysSleepReturns(c)
       \/ AllocProc(c) \/ SysExit(c) \/ Wait(c) \/ Waitpid(c) \/ Kill(c)
       \/ SetPriority(c) \/ GetPriority(c) \/ SysSleep(c)

Fairness ==
  /\ \A c \in CPUs : SF_vars(panicked = 0 /\ CpuStep(c))
  /\ \A p \in Slots : SF_vars(panicked = 0 /\ ThreadStep(p))

FairSpec == Spec /\ Fairness

-----------------------------------------------------------------------------
\* Properties

Live == {"SLEEPING", "RUNNABLE", "RUNNING"}

TableType ==
  /\ state \in [Slots -> States]
  /\ pid \in [Slots -> 0 .. MaxPid]
  /\ parent \in [Slots -> 0 .. NPROC]
  /\ chan \in [Slots -> Chans]
  /\ killed \in [Slots -> {0, 1}]
  /\ priority \in [Slots -> Int]
  /\ exit_status \in [Slots -> Int]
  /\ nextpid \in 1 .. MaxPid + 1

CpuType ==
  /\ cproc \in [CPUs -> 0 .. NPROC]
  /\ cur \in [CPUs -> Slots]
  /\ holder \in CPUs \cup {NoCPU}
  /\ panicked \in {0, 1}

ThreadType ==
  /\ pc \in [Slots -> PCs]
  /\ ctx \in [Slots -> Ctxs]
  /\ arg \in [Slots -> Int]
  /\ sh \in Int
  /\ passed \in [1 .. MaxPid -> Int]
  /\ got \in [1 .. MaxPid -> Int]

ForkArgs == \A p \in Slots : pc[p] \in {"fork_copy", "fork_run"} => arg[p] \in Slots

\* Every variable has its type; in particular a CPU's cursor stays inside the
\* table and a fork in flight names a slot.
TypeOK ==
  /\ TableType
  /\ CpuType
  /\ ThreadType
  /\ ForkArgs

\* A process is RUNNING exactly when one CPU, and only one, has it as c->proc:
\* no two schedulers ever run the same thread (its one kernel stack), and a
\* RUNNING process is never forgotten by the CPU that should run it.
CpuExclusive ==
  /\ \A c \in CPUs : cproc[c] # 0 => state[cproc[c]] = "RUNNING"
  /\ \A p \in Slots : state[p] = "RUNNING" => \E c \in CPUs : cproc[c] = p
  /\ \A c, d \in CPUs : cproc[c] # 0 /\ cproc[c] = cproc[d] => c = d

\* No two slots carry the same pid, slots left behind by a failed fork
\* included, so the loops of kill(), waitpid() and setpriority() that stop at
\* the first match never stop at the wrong process.
PidsUnique ==
  \A p, q \in Slots : p # q /\ pid[p] # 0 => pid[p] # pid[q]

\* The parent of every process that has run is a process that can still
\* call wait(): exit() passes each child on, also the one whose fork() is in
\* flight, before the slot can be freed and reused.
ParentsAlive ==
  \A p \in Slots \ {InitProc} :
    state[p] \in Live \cup {"ZOMBIE"} =>
      parent[p] \in Slots /\ parent[p] # p /\ state[parent[p]] \in Live

\* An EMBRYO belongs to one thread that is still inside fork() and will make
\* it RUNNABLE or UNUSED again: no slot of the table is lost, and no two
\* forks build the same slot.
Forking(p) == pc[p] \in {"fork_copy", "fork_run"}
EmbryoOwned ==
  /\ \A e \in Slots : state[e] = "EMBRYO" =>
       \E p \in Slots : Forking(p) /\ arg[p] = e /\ state[p] \in Live
  /\ \A p, q \in Slots : Forking(p) /\ Forking(q) /\ arg[p] = arg[q] => p = q

\* A process asleep in wait() has a child and none of its children is a
\* zombie: the wakeup of an exiting child, and of the exiting grandparent
\* that hands a zombie to init, is never missed.
NoMissedWakeup ==
  \A p \in Slots : state[p] = "SLEEPING" /\ pc[p] = "wait" =>
    /\ Children(p) # {}
    /\ \A q \in Children(p) : state[q] # "ZOMBIE"

\* The status wait() and waitpid() hand out for a pid is the one that process
\* gave to exit(), not what an earlier owner of the slot left there.
StatusDelivered ==
  \A i \in 1 .. MaxPid : got[i] # NoStatus => got[i] = passed[i]

\* A process runs at most once to its end: a zombie only ever becomes UNUSED,
\* and only an EMBRYO becomes runnable for the first time.
ZombieStaysDead ==
  [][\A p \in Slots :
       /\ state[p] = "ZOMBIE" => state'[p] \in {"ZOMBIE", "UNUSED"}
       /\ state[p] = "UNUSED" => state'[p] \in {"UNUSED", "EMBRYO"}]_vars

\* Only the bound on pids keeps init from starting its next shell.
OutOfPids == sh = 0 /\ nextpid > MaxPid

\* No zombie stays with init for ever, whether it was born there or was handed
\* over by an exiting parent: exit()'s wakeup of init is not lost, and init.c
\* goes on calling wait() through one shell after the other (proc.c, init.c).
OrphansReaped ==
  \A p \in Slots \ {InitProc} :
    ~ <>[](state[p] = "ZOMBIE" /\ parent[p] = InitProc /\ panicked = 0 /\ ~OutOfPids)

\* A process that stays RUNNABLE and whose priority nobody runnable exceeds
\* is dispatched in the end: each CPU's cursor moves on past the process it
\* ran, so equals take turns.
EqualsTakeTurns ==
  \A p \in Slots : ~ <>[](p \in HighestPriority /\ panicked = 0)

\* A process that has been killed is gone in the end, also when the kill
\* found it asleep, or found sys_sleep() between its look at killed and its
\* sleep, where nothing but the next tick wakes it (sysproc.c, proc.c).
KillTakesEffect ==
  \A p \in Slots \ {InitProc} : ~ <>[](killed[p] = 1 /\ state[p] \in Live /\ panicked = 0)

-----------------------------------------------------------------------------
\* The inductive strengthening of the invariants above

\* A slot has a thread exactly while its process is live, and the slot a fork
\* works on stays its EMBRYO.
ForkInv ==
  /\ \A p \in Slots : state[p] \in Live <=> pc[p] # "dead"
  /\ \A p \in Slots : Forking(p) => state[arg[p]] = "EMBRYO"
  /\ EmbryoOwned

PidInv ==
  /\ \A p \in Slots : pid[p] < nextpid
  /\ PidsUnique

\* A parent pointer is null or names a live process.  It is null in a free
\* slot and in an EMBRYO until its fork() sets it, and from then on never
\* null except in init.
ParentInv ==
  /\ state[InitProc] \in Live /\ parent[InitProc] = 0
  /\ \A p \in Slots : parent[p] # 0 => parent[p] # p /\ state[parent[p]] \in Live
  /\ \A p \in Slots : state[p] = "UNUSED" => parent[p] = 0
  /\ \A p \in Slots : pc[p] = "fork_copy" => parent[arg[p]] = 0
  /\ \A p \in Slots : pc[p] = "fork_run" => parent[arg[p]] = p
  /\ \A p \in Slots \ {InitProc} : state[p] \in Live \cup {"ZOMBIE"} => parent[p] # 0

\* A process asleep in wait() sleeps on its own slot.
WaitInv ==
  /\ \A p \in Slots : state[p] = "SLEEPING" /\ pc[p] = "wait" => chan[p] = p
  /\ NoMissedWakeup

\* A slot in use has a pid, a zombie's status is the one its process gave,
\* and a pid whose status was handed out names no slot any more.
StatusInv ==
  /\ StatusDelivered
  /\ \A p \in Slots : state[p] # "UNUSED" => pid[p] # 0
  /\ \A p \in Slots : state[p] = "ZOMBIE" => exit_status[p] = passed[pid[p]]
  /\ \A i \in 1 .. MaxPid : got[i] # NoStatus => i < nextpid /\ \A p \in Slots : pid[p] # i

\* What is inductive: the invariants above hold in every reachable state only
\* together with the fork, parent and channel bookkeeping they rest on.
IndInv == TypeOK /\ CpuExclusive /\ ForkInv /\ PidInv /\ ParentInv /\ WaitInv /\ StatusInv

-----------------------------------------------------------------------------
\* Statements of the code's comments that the code does not keep

\* kill(): "Kill the process with the given pid."  A process that is being
\* created has a pid nobody knew before, so it cannot have been killed yet.
NewProcessNotKilled ==
  [][\A p \in Slots : state[p] = "UNUSED" /\ state'[p] = "EMBRYO" => killed'[p] = 0]_vars

\* sleep(): "we can be guaranteed that we won't miss any wakeup".  A process
\* asleep in waitpid() is awake once the process it waits for is a zombie.
WaitpidSeesExit ==
  \A p, q \in Slots :
    state[p] = "SLEEPING" /\ pc[p] = "waitpid" /\ arg[p] # 0 /\ pid[q] = arg[p]
      => state[q] # "ZOMBIE"
=============================================================================
