----------------------------- MODULE ProcProofs -----------------------------
(***************************************************************************)
(* Proofs about Proc for every number of slots, CPUs and pids and every    *)
(* choice of the calls user programs make.                                 *)
(*                                                                         *)
(* IndInv is inductive.  Its parts are proved one lemma each: the types    *)
(* action by action, ForkInv and ParentInv from a classification of the    *)
(* steps (StepKinds) into ordinary ones and the six that allocate, build,  *)
(* end or free a process, WaitInv again action by action.                  *)
(***************************************************************************)
EXTENDS Proc, TLAPS

\* Slots are numbers, so that the loops over the table have an order.
LEMMA SlotsInt == Slots \subseteq Int
  BY DEF Slots

\* Every address the code sleeps on is a channel of the model.
LEMMA SlotIsChan == Slots \subseteq Chans /\ 0 \in Chans /\ TicksChan \in Chans
  BY ProcConstants DEF Slots, Chans, TicksChan

\* What main() and userinit() leave behind satisfies the invariant.
LEMMA InitIndInv == Init => IndInv
<1> SUFFICES ASSUME Init PROVE IndInv
  OBVIOUS
<1> USE ProcConstants DEF Init
<1>1. TableType
  BY DEF TableType, Slots, InitProc, States, Chans
<1>2. CpuType
  BY DEF CpuType, Slots
<1>3. ThreadType
  BY DEF ThreadType, PCs, Ctxs, NoStatus
<1>4. ForkArgs
  BY DEF ForkArgs
<1>5. CpuExclusive
  BY DEF CpuExclusive
<1>6. ForkInv
  BY DEF ForkInv, EmbryoOwned, Forking, Live
<1>7. PidInv
  BY DEF PidInv, PidsUnique
<1>8. InitProc \in Slots /\ InitProc # 0
  BY DEF InitProc, Slots
<1>9. ParentInv
  BY <1>8 DEF ParentInv, Live
<1>10. WaitInv
  BY DEF WaitInv, NoMissedWakeup
<1>11. StatusInv
  BY <1>8 DEF StatusInv, StatusDelivered
<1> QED
  BY <1>1, <1>2, <1>3, <1>4, <1>5, <1>6, <1>7, <1>9, <1>10, <1>11 DEF IndInv, TypeOK

-----------------------------------------------------------------------------
\* Types

\* Every step keeps the threads' program counters, frames and carried
\* values in their types.
LEMMA StepThreadType ==
  ASSUME TableType, ThreadType, ForkArgs, Next
  PROVE  ThreadType'
<1>ch. \A q \in Slots : parent[q] \in Chans
  BY ProcConstants DEF TableType, Chans
<1>pid. pid \in [Slots -> Int] /\ exit_status \in [Slots -> Int]
  BY DEF TableType
<1> USE DEF ThreadType, Goto, Return, PCs, Ctxs
<1>1. ASSUME NEW c \in CPUs, Dispatch(c) PROVE ThreadType'
  BY <1>1 DEF Dispatch
<1>2. ASSUME NEW c \in CPUs, ForkRet(c) PROVE ThreadType'
  BY <1>2 DEF ForkRet
<1>3. ASSUME NEW c \in CPUs, YieldReturn(c) PROVE ThreadType'
  BY <1>3 DEF YieldReturn
<1>4. ASSUME NEW c \in CPUs, TrapReturn(c) PROVE ThreadType'
  BY <1>4 DEF TrapReturn
<1>5. ASSUME NEW c \in CPUs, SyscallEntry(c) PROVE ThreadType'
  BY <1>5 DEF SyscallEntry
<1>6. ASSUME NEW c \in CPUs, TimerInterrupt(c) PROVE ThreadType'
  BY <1>6 DEF TimerInterrupt
<1>7. ASSUME NEW c \in CPUs, TimerExit(c) PROVE ThreadType'
  BY <1>7 DEF TimerExit
<1>8. ASSUME NEW c \in CPUs, TimerYield(c) PROVE ThreadType'
  BY <1>8 DEF TimerYield, Yield
<1>9. ASSUME NEW c \in CPUs, AllocProc(c) PROVE ThreadType'
  <2>1. PICK p \in Slots : AllocProc(c)!(p)
    BY <1>9 DEF AllocProc
  <2>2. sh' = -1 \/ sh' = sh
    BY <2>1
  <2>3. arg' = [arg EXCEPT ![p] = 0] \/ \E np \in Slots : arg' = [arg EXCEPT ![p] = np]
    BY <2>1
  <2>4. sh' \in Int /\ arg' \in [Slots -> Int]
    BY <2>2, <2>3, SlotsInt
  <2>5. pc' \in [Slots -> PCs]
    BY <2>1
  <2> QED
    BY <2>1, <2>4, <2>5
<1>10. ASSUME NEW c \in CPUs, ForkFails(c) PROVE ThreadType'
  BY <1>10 DEF ForkFails
<1>11. ASSUME NEW c \in CPUs, ForkCopy(c) PROVE ThreadType'
  BY <1>11 DEF ForkCopy
<1>12. ASSUME NEW c \in CPUs, ForkRun(c) PROVE ThreadType'
  <2>1. PICK p \in Slots : ForkRun(c)!(p)
    BY <1>12 DEF ForkRun
  <2>2. sh' = sh \/ sh' = pid[arg[p]]
    BY <2>1
  <2>3. sh' \in Int
    BY <2>1, <2>2, <1>pid DEF ForkArgs, At
  <2>a. arg' = [arg EXCEPT ![p] = 0]
    BY <2>1
  <2>b. arg[p] \in Slots
    BY <2>1 DEF ForkArgs, At
  <2>4. arg' \in [Slots -> Int]
    BY <2>a, <2>b
  <2>5. pc' \in [Slots -> PCs] /\ ctx' \in [Slots -> Ctxs]
    BY <2>1
  <2> QED
    BY <2>1, <2>3, <2>4, <2>5
<1>13. ASSUME NEW c \in CPUs, SysExit(c) PROVE ThreadType'
  BY <1>13, ProcConstants DEF SysExit, ExitStatuses
<1>14. ASSUME NEW c \in CPUs, ExitPanic(c) PROVE ThreadType'
  BY <1>14 DEF ExitPanic
<1>15. ASSUME NEW c \in CPUs, Exit(c) PROVE ThreadType'
  <2>1. PICK p \in Slots \ {InitProc} : Exit(c)!(p)
    BY <1>15 DEF Exit
  <2>2. passed' \in [1 .. MaxPid -> Int]
    BY <2>1
  <2>3. arg' \in [Slots -> Int] /\ pc' \in [Slots -> PCs]
    BY <2>1
  <2> QED
    BY <2>1, <2>2, <2>3
<1>16. ASSUME NEW c \in CPUs, Wait(c) PROVE ThreadType'
  <2>1. ASSUME NEW p \in Slots, NEW q \in Slots, Reap(p, q) PROVE ThreadType'
    <3>1. got' \in [1 .. MaxPid -> Int]
      BY <2>1, <1>pid DEF Reap
    <3>2. sh' \in Int
      BY <2>1 DEF Reap
    <3>3. pc' \in [Slots -> PCs] /\ ctx' \in [Slots -> Ctxs] /\ arg' \in [Slots -> Int]
      BY <2>1 DEF Reap, LeaveLoop
    <3> QED
      BY <2>1, <3>1, <3>2, <3>3 DEF Reap
  <2>2. ASSUME NEW p \in Slots, NothingToReap(p) PROVE ThreadType'
    BY <2>2 DEF NothingToReap, LeaveLoop
  <2>3. ASSUME NEW p \in Slots, NEW ch \in Chans, NEW n \in Int, Sleep(c, p, ch),
               Goto(p, "wait"), arg' = arg \/ arg' = [arg EXCEPT ![p] = n]
        PROVE  ThreadType'
    BY <2>3 DEF Sleep
  <2> QED
    <3>1. PICK p \in Slots : Wait(c)!(p)
      BY <1>16 DEF Wait
    <3>2. CASE NothingToReap(p)
      BY <3>2, <2>2
    <3>3. CASE \E q \in Slots : Reap(p, q)
      BY <3>3, <2>1
    <3>4. ASSUME Sleep(c, p, p), Goto(p, "wait"), UNCHANGED arg
          PROVE  ThreadType'
      BY <3>4, <2>3, SlotIsChan
    <3> QED
      BY <3>1, <3>2, <3>3, <3>4 DEF Children
<1>17. ASSUME NEW c \in CPUs, Waitpid(c) PROVE ThreadType'
  <2>1. ASSUME NEW p \in Slots, NEW q \in Slots, Reap(p, q) PROVE ThreadType'
    <3>1. got' \in [1 .. MaxPid -> Int]
      BY <2>1, <1>pid DEF Reap
    <3>2. sh' \in Int
      BY <2>1 DEF Reap
    <3>3. pc' \in [Slots -> PCs] /\ ctx' \in [Slots -> Ctxs] /\ arg' \in [Slots -> Int]
      BY <2>1 DEF Reap, LeaveLoop
    <3> QED
      BY <2>1, <3>1, <3>2, <3>3 DEF Reap
  <2>2. ASSUME NEW p \in Slots, NothingToReap(p) PROVE ThreadType'
    BY <2>2 DEF NothingToReap, LeaveLoop
  <2>3. ASSUME NEW p \in Slots, NEW ch \in Chans, NEW n \in Int, Sleep(c, p, ch),
               Goto(p, "waitpid"), arg' = arg \/ arg' = [arg EXCEPT ![p] = n]
        PROVE  ThreadType'
    BY <2>3 DEF Sleep
  <2> QED
    <3>1. PICK p \in Slots, n \in 0 .. MaxPid : Waitpid(c)!(p, n)
      BY <1>17 DEF Waitpid
    <3>2. CASE WithPid(n) = {} /\ NothingToReap(p)
      BY <3>2, <2>2
    <3>3. CASE \E q \in WithPid(n) : Reap(p, q) \/ NothingToReap(p)
      BY <3>3, <2>1, <2>2 DEF WithPid
    <3>4. ASSUME NEW q \in WithPid(n), Sleep(c, p, parent[q]), Goto(p, "waitpid"),
                 arg' = [arg EXCEPT ![p] = n]
          PROVE  ThreadType'
      <4>1. parent[q] \in Chans /\ n \in Int
        BY <1>ch DEF WithPid
      <4> QED
        BY <3>4, <4>1, <2>3
    <3> QED
      BY <3>1, <3>2, <3>3, <3>4
<1>18. ASSUME NEW c \in CPUs, Kill(c) PROVE ThreadType'
  BY <1>18 DEF Kill
<1>19. ASSUME NEW c \in CPUs, SetPriority(c) PROVE ThreadType'
  <2>1. arg' \in [Slots -> Int]
    BY <1>19 DEF SetPriority
  <2>2. pc' \in [Slots -> PCs]
    BY <1>19 DEF SetPriority
  <2> QED
    BY <1>19, <2>1, <2>2 DEF SetPriority
<1>20. ASSUME NEW c \in CPUs, SetPriorityYield(c) PROVE ThreadType'
  BY <1>20 DEF SetPriorityYield, Yield
<1>21. ASSUME NEW c \in CPUs, GetPriority(c) PROVE ThreadType'
  BY <1>21 DEF GetPriority
<1>22. ASSUME NEW c \in CPUs, SysSleep(c) PROVE ThreadType'
  BY <1>22 DEF SysSleep
<1>23. ASSUME NEW c \in CPUs, SysSleepSleeps(c) PROVE ThreadType'
  BY <1>23 DEF SysSleepSleeps, Sleep
<1>24. ASSUME NEW c \in CPUs, SysSleepWakes(c) PROVE ThreadType'
  BY <1>24 DEF SysSleepWakes
<1>25. ASSUME NEW c \in CPUs, SysSleepReturns(c) PROVE ThreadType'
  BY <1>25 DEF SysSleepReturns
<1>26. ASSUME TimerWhileIdle PROVE ThreadType'
  BY <1>26 DEF TimerWhileIdle
<1>27. ASSUME UNCHANGED vars PROVE ThreadType'
  BY <1>27 DEF vars
<1> QED
  BY <1>1, <1>2, <1>3, <1>4, <1>5, <1>6, <1>7, <1>8, <1>9, <1>10, <1>11,
     <1>12, <1>13, <1>14, <1>15, <1>16, <1>17, <1>18, <1>19, <1>20, <1>21,
     <1>22, <1>23, <1>24, <1>25, <1>26, <1>27 DEF Next, Kernel, Syscall

\* Every step keeps the CPUs' variables in their types: the cursor of
\* scheduler() in particular.
LEMMA StepCpuType ==
  ASSUME TableType, CpuType, Next
  PROVE  CpuType'
<1>ch. \A q \in Slots : parent[q] \in Chans
  BY ProcConstants DEF TableType, Chans
<1> USE DEF CpuType
<1>1. ASSUME NEW c \in CPUs, Dispatch(c) PROVE CpuType'
  BY <1>1 DEF Dispatch, Pick, HighestPriority, Runnable, Slots
<1>2. ASSUME NEW c \in CPUs, ForkRet(c) PROVE CpuType'
  BY <1>2 DEF ForkRet
<1>3. ASSUME NEW c \in CPUs, YieldReturn(c) PROVE CpuType'
  BY <1>3 DEF YieldReturn
<1>4. ASSUME NEW c \in CPUs, TrapReturn(c) PROVE CpuType'
  BY <1>4 DEF TrapReturn
<1>5. ASSUME NEW c \in CPUs, SyscallEntry(c) PROVE CpuType'
  BY <1>5 DEF SyscallEntry
<1>6. ASSUME NEW c \in CPUs, TimerInterrupt(c) PROVE CpuType'
  BY <1>6 DEF TimerInterrupt
<1>7. ASSUME NEW c \in CPUs, TimerExit(c) PROVE CpuType'
  BY <1>7 DEF TimerExit
<1>8. ASSUME NEW c \in CPUs, TimerYield(c) PROVE CpuType'
  BY <1>8, ProcConstants DEF TimerYield, Yield, BackToScheduler, Slots
<1>9. ASSUME NEW c \in CPUs, AllocProc(c) PROVE CpuType'
  BY <1>9 DEF AllocProc
<1>10. ASSUME NEW c \in CPUs, ForkFails(c) PROVE CpuType'
  BY <1>10 DEF ForkFails
<1>11. ASSUME NEW c \in CPUs, ForkCopy(c) PROVE CpuType'
  BY <1>11 DEF ForkCopy
<1>12. ASSUME NEW c \in CPUs, ForkRun(c) PROVE CpuType'
  BY <1>12 DEF ForkRun
<1>13. ASSUME NEW c \in CPUs, SysExit(c) PROVE CpuType'
  BY <1>13 DEF SysExit
<1>14. ASSUME NEW c \in CPUs, ExitPanic(c) PROVE CpuType'
  BY <1>14 DEF ExitPanic
<1>15. ASSUME NEW c \in CPUs, Exit(c) PROVE CpuType'
  BY <1>15, ProcConstants DEF Exit, BackToScheduler, Slots
<1>16. ASSUME NEW c \in CPUs, Wait(c) PROVE CpuType'
  <2>1. ASSUME NEW p \in Slots, NEW q \in Slots, Reap(p, q) PROVE CpuType'
    BY <2>1 DEF Reap, LeaveLoop
  <2>2. ASSUME NEW p \in Slots, NothingToReap(p) PROVE CpuType'
    BY <2>2 DEF NothingToReap, LeaveLoop
  <2>3. ASSUME NEW p \in Slots, NEW ch \in Chans, NEW n \in Int, Sleep(c, p, ch),
               Goto(p, "wait"), arg' = arg \/ arg' = [arg EXCEPT ![p] = n]
        PROVE  CpuType'
    BY <2>3, ProcConstants DEF Sleep, BackToScheduler, Slots
  <2> QED
    <3>1. PICK p \in Slots : Wait(c)!(p)
      BY <1>16 DEF Wait
    <3>2. CASE NothingToReap(p)
      BY <3>2, <2>2
    <3>3. CASE \E q \in Slots : Reap(p, q)
      BY <3>3, <2>1
    <3>4. ASSUME Sleep(c, p, p), Goto(p, "wait"), UNCHANGED arg
          PROVE  CpuType'
      BY <3>4, <2>3, SlotIsChan
    <3> QED
      BY <3>1, <3>2, <3>3, <3>4 DEF Children
<1>17. ASSUME NEW c \in CPUs, Waitpid(c) PROVE CpuType'
  <2>1. ASSUME NEW p \in Slots, NEW q \in Slots, Reap(p, q) PROVE CpuType'
    BY <2>1 DEF Reap, LeaveLoop
  <2>2. ASSUME NEW p \in Slots, NothingToReap(p) PROVE CpuType'
    BY <2>2 DEF NothingToReap, LeaveLoop
  <2>3. ASSUME NEW p \in Slots, NEW ch \in Chans, NEW n \in Int, Sleep(c, p, ch),
               Goto(p, "waitpid"), arg' = arg \/ arg' = [arg EXCEPT ![p] = n]
        PROVE  CpuType'
    BY <2>3, ProcConstants DEF Sleep, BackToScheduler, Slots
  <2> QED
    <3>1. PICK p \in Slots, n \in 0 .. MaxPid : Waitpid(c)!(p, n)
      BY <1>17 DEF Waitpid
    <3>2. CASE WithPid(n) = {} /\ NothingToReap(p)
      BY <3>2, <2>2
    <3>3. CASE \E q \in WithPid(n) : Reap(p, q) \/ NothingToReap(p)
      BY <3>3, <2>1, <2>2 DEF WithPid
    <3>4. ASSUME NEW q \in WithPid(n), Sleep(c, p, parent[q]), Goto(p, "waitpid"),
                 arg' = [arg EXCEPT ![p] = n]
          PROVE  CpuType'
      <4>1. parent[q] \in Chans /\ n \in Int
        BY <1>ch DEF WithPid
      <4> QED
        BY <3>4, <4>1, <2>3
    <3> QED
      BY <3>1, <3>2, <3>3, <3>4
<1>18. ASSUME NEW c \in CPUs, Kill(c) PROVE CpuType'
  BY <1>18 DEF Kill
<1>19. ASSUME NEW c \in CPUs, SetPriority(c) PROVE CpuType'
  BY <1>19 DEF SetPriority
<1>20. ASSUME NEW c \in CPUs, SetPriorityYield(c) PROVE CpuType'
  BY <1>20, ProcConstants DEF SetPriorityYield, Yield, BackToScheduler, Slots
<1>21. ASSUME NEW c \in CPUs, GetPriority(c) PROVE CpuType'
  BY <1>21 DEF GetPriority
<1>22. ASSUME NEW c \in CPUs, SysSleep(c) PROVE CpuType'
  BY <1>22 DEF SysSleep
<1>23. ASSUME NEW c \in CPUs, SysSleepSleeps(c) PROVE CpuType'
  BY <1>23, ProcConstants DEF SysSleepSleeps, Sleep, BackToScheduler, Slots
<1>24. ASSUME NEW c \in CPUs, SysSleepWakes(c) PROVE CpuType'
  BY <1>24 DEF SysSleepWakes
<1>25. ASSUME NEW c \in CPUs, SysSleepReturns(c) PROVE CpuType'
  BY <1>25 DEF SysSleepReturns
<1>26. ASSUME TimerWhileIdle PROVE CpuType'
  BY <1>26 DEF TimerWhileIdle
<1>27. ASSUME UNCHANGED vars PROVE CpuType'
  BY <1>27 DEF vars
<1> QED
  BY <1>1, <1>2, <1>3, <1>4, <1>5, <1>6, <1>7, <1>8, <1>9, <1>10, <1>11,
     <1>12, <1>13, <1>14, <1>15, <1>16, <1>17, <1>18, <1>19, <1>20, <1>21,
     <1>22, <1>23, <1>24, <1>25, <1>26, <1>27 DEF Next, Kernel, Syscall

\* Every step keeps the fields of the process table in their types.
LEMMA StepTableType ==
  ASSUME TableType, ThreadType, ForkArgs, Next
  PROVE  TableType'
<1>ch. \A q \in Slots : parent[q] \in Chans
  BY ProcConstants DEF TableType, Chans
<1>arg. arg \in [Slots -> Int]
  BY DEF ThreadType
<1> USE DEF TableType
<1>1. ASSUME NEW c \in CPUs, Dispatch(c) PROVE TableType'
  BY <1>1 DEF Dispatch, States
<1>2. ASSUME NEW c \in CPUs, ForkRet(c) PROVE TableType'
  BY <1>2 DEF ForkRet, table
<1>3. ASSUME NEW c \in CPUs, YieldReturn(c) PROVE TableType'
  BY <1>3 DEF YieldReturn, table
<1>4. ASSUME NEW c \in CPUs, TrapReturn(c) PROVE TableType'
  BY <1>4 DEF TrapReturn, table
<1>5. ASSUME NEW c \in CPUs, SyscallEntry(c) PROVE TableType'
  BY <1>5 DEF SyscallEntry, table
<1>6. ASSUME NEW c \in CPUs, TimerInterrupt(c) PROVE TableType'
  BY <1>6 DEF TimerInterrupt, Ticked, Wakeup1, States
<1>7. ASSUME NEW c \in CPUs, TimerExit(c) PROVE TableType'
  BY <1>7 DEF TimerExit, table
<1>8. ASSUME NEW c \in CPUs, TimerYield(c) PROVE TableType'
  BY <1>8 DEF TimerYield, Yield, States
<1>9. ASSUME NEW c \in CPUs, AllocProc(c) PROVE TableType'
  <2>1. PICK p \in Slots : AllocProc(c)!(p)
    BY <1>9 DEF AllocProc
  <2>2. CASE UNCHANGED <<state, pid, nextpid>>
    BY <2>1, <2>2
  <2>3. CASE \E np \in Slots : TakeSlot(np)
    BY <2>1, <2>3, ProcConstants DEF TakeSlot, States
  <2> QED
    BY <2>1, <2>2, <2>3
<1>10. ASSUME NEW c \in CPUs, ForkFails(c) PROVE TableType'
  BY <1>10 DEF ForkFails, States
<1>11. ASSUME NEW c \in CPUs, ForkCopy(c) PROVE TableType'
  <2>1. PICK p \in Slots : ForkCopy(c)!(p)
    BY <1>11 DEF ForkCopy
  <2>2. parent' = [parent EXCEPT ![arg[p]] = p] /\ arg[p] \in Slots
    BY <2>1 DEF ForkArgs, At
  <2>3. parent' \in [Slots -> 0 .. NPROC]
    BY <2>2 DEF Slots
  <2> QED
    BY <2>1, <2>3
<1>12. ASSUME NEW c \in CPUs, ForkRun(c) PROVE TableType'
  <2>1. PICK p \in Slots : ForkRun(c)!(p)
    BY <1>12 DEF ForkRun
  <2>2. /\ priority' = [priority EXCEPT ![arg[p]] = 0]
        /\ state' = [state EXCEPT ![arg[p]] = "RUNNABLE"]
        /\ arg[p] \in Slots
    BY <2>1 DEF ForkArgs, At
  <2>3. priority' \in [Slots -> Int] /\ state' \in [Slots -> States]
    BY <2>2 DEF States
  <2> QED
    BY <2>1, <2>3
<1>13. ASSUME NEW c \in CPUs, SysExit(c) PROVE TableType'
  BY <1>13 DEF SysExit, table
<1>14. ASSUME NEW c \in CPUs, ExitPanic(c) PROVE TableType'
  BY <1>14 DEF ExitPanic, table
<1>15. ASSUME NEW c \in CPUs, Exit(c) PROVE TableType'
  <2>1. PICK p \in Slots \ {InitProc} : Exit(c)!(p)
    BY <1>15 DEF Exit
  <2>2. exit_status' \in [Slots -> Int]
    BY <2>1, <1>arg DEF StoreStatus
  <2>3. ExitWakes(p) \in [Slots -> States]
    BY DEF ExitWakes, Wakeup1, States
  <2>4. state' \in [Slots -> States]
    BY <2>1, <2>3 DEF States
  <2>5. parent' \in [Slots -> 0 .. NPROC]
    BY <2>1, ProcConstants DEF PassToInit, InitProc
  <2> QED
    BY <2>1, <2>2, <2>4, <2>5
<1>16. ASSUME NEW c \in CPUs, Wait(c) PROVE TableType'
  <2>1. ASSUME NEW p \in Slots, NEW q \in Slots, Reap(p, q) PROVE TableType'
    <3>1. state' \in [Slots -> States] /\ killed' \in [Slots -> {0, 1}]
      BY <2>1 DEF Reap, States
    <3>2. pid' \in [Slots -> 0 .. MaxPid] /\ parent' \in [Slots -> 0 .. NPROC]
      BY <2>1, ProcConstants DEF Reap
    <3>3. chan' \in [Slots -> Chans]
      BY <2>1, SlotIsChan DEF Reap, LeaveLoop
    <3> QED
      BY <2>1, <3>1, <3>2, <3>3 DEF Reap
  <2>2. ASSUME NEW p \in Slots, NothingToReap(p) PROVE TableType'
    BY <2>2, ProcConstants DEF NothingToReap, LeaveLoop, Chans
  <2>3. ASSUME NEW p \in Slots, NEW ch \in Chans, NEW n \in Int, Sleep(c, p, ch),
               Goto(p, "wait"), arg' = arg \/ arg' = [arg EXCEPT ![p] = n]
        PROVE  TableType'
    BY <2>3 DEF Sleep, States
  <2> QED
    <3>1. PICK p \in Slots : Wait(c)!(p)
      BY <1>16 DEF Wait
    <3>2. CASE NothingToReap(p)
      BY <3>2, <2>2
    <3>3. CASE \E q \in Slots : Reap(p, q)
      BY <3>3, <2>1
    <3>4. ASSUME Sleep(c, p, p), Goto(p, "wait"), UNCHANGED arg
          PROVE  TableType'
      BY <3>4, <2>3, SlotIsChan
    <3> QED
      BY <3>1, <3>2, <3>3, <3>4 DEF Children
<1>17. ASSUME NEW c \in CPUs, Waitpid(c) PROVE TableType'
  <2>1. ASSUME NEW p \in Slots, NEW q \in Slots, Reap(p, q) PROVE TableType'
    <3>1. state' \in [Slots -> States] /\ killed' \in [Slots -> {0, 1}]
      BY <2>1 DEF Reap, States
    <3>2. pid' \in [Slots -> 0 .. MaxPid] /\ parent' \in [Slots -> 0 .. NPROC]
      BY <2>1, ProcConstants DEF Reap
    <3>3. chan' \in [Slots -> Chans]
      BY <2>1, SlotIsChan DEF Reap, LeaveLoop
    <3> QED
      BY <2>1, <3>1, <3>2, <3>3 DEF Reap
  <2>2. ASSUME NEW p \in Slots, NothingToReap(p) PROVE TableType'
    BY <2>2, ProcConstants DEF NothingToReap, LeaveLoop, Chans
  <2>3. ASSUME NEW p \in Slots, NEW ch \in Chans, NEW n \in Int, Sleep(c, p, ch),
               Goto(p, "waitpid"), arg' = arg \/ arg' = [arg EXCEPT ![p] = n]
        PROVE  TableType'
    BY <2>3 DEF Sleep, States
  <2> QED
    <3>1. PICK p \in Slots, n \in 0 .. MaxPid : Waitpid(c)!(p, n)
      BY <1>17 DEF Waitpid
    <3>2. CASE WithPid(n) = {} /\ NothingToReap(p)
      BY <3>2, <2>2
    <3>3. CASE \E q \in WithPid(n) : Reap(p, q) \/ NothingToReap(p)
      BY <3>3, <2>1, <2>2 DEF WithPid
    <3>4. ASSUME NEW q \in WithPid(n), Sleep(c, p, parent[q]), Goto(p, "waitpid"),
                 arg' = [arg EXCEPT ![p] = n]
          PROVE  TableType'
      <4>1. parent[q] \in Chans /\ n \in Int
        BY <1>ch DEF WithPid
      <4> QED
        BY <3>4, <4>1, <2>3
    <3> QED
      BY <3>1, <3>2, <3>3, <3>4
<1>18. ASSUME NEW c \in CPUs, Kill(c) PROVE TableType'
  <2>1. killed' \in [Slots -> {0, 1}]
    BY <1>18 DEF Kill
  <2>2. state' \in [Slots -> States]
    BY <1>18 DEF Kill, KilledState, States
  <2> QED
    BY <1>18, <2>1, <2>2 DEF Kill
<1>19. ASSUME NEW c \in CPUs, SetPriority(c) PROVE TableType'
  <2>1. priority' \in [Slots -> Int]
    BY <1>19, ProcConstants DEF SetPriority, WithPid
  <2> QED
    BY <1>19, <2>1 DEF SetPriority
<1>20. ASSUME NEW c \in CPUs, SetPriorityYield(c) PROVE TableType'
  BY <1>20 DEF SetPriorityYield, Yield, States
<1>21. ASSUME NEW c \in CPUs, GetPriority(c) PROVE TableType'
  BY <1>21 DEF GetPriority, table
<1>22. ASSUME NEW c \in CPUs, SysSleep(c) PROVE TableType'
  BY <1>22 DEF SysSleep, table
<1>23. ASSUME NEW c \in CPUs, SysSleepSleeps(c) PROVE TableType'
  BY <1>23, SlotIsChan DEF SysSleepSleeps, Sleep, States
<1>24. ASSUME NEW c \in CPUs, SysSleepWakes(c) PROVE TableType'
  BY <1>24, SlotIsChan DEF SysSleepWakes
<1>25. ASSUME NEW c \in CPUs, SysSleepReturns(c) PROVE TableType'
  BY <1>25 DEF SysSleepReturns, table
<1>26. ASSUME TimerWhileIdle PROVE TableType'
  BY <1>26 DEF TimerWhileIdle, Ticked, Wakeup1, States
<1>27. ASSUME UNCHANGED vars PROVE TableType'
  BY <1>27 DEF vars
<1> QED
  BY <1>1, <1>2, <1>3, <1>4, <1>5, <1>6, <1>7, <1>8, <1>9, <1>10, <1>11,
     <1>12, <1>13, <1>14, <1>15, <1>16, <1>17, <1>18, <1>19, <1>20, <1>21,
     <1>22, <1>23, <1>24, <1>25, <1>26, <1>27 DEF Next, Kernel, Syscall

-----------------------------------------------------------------------------
\* Wakeups

\* From the states s to the states t, sleepers have become runnable and
\* nothing else has happened.
OnlyWakes(s, t) ==
  /\ t \in [Slots -> States]
  /\ \A q \in Slots : t[q] # s[q] => s[q] = "SLEEPING" /\ t[q] = "RUNNABLE"

\* wakeup1() changes nothing but SLEEPING to RUNNABLE.
LEMMA Wakeup1OnlyWakes ==
  ASSUME NEW st \in [Slots -> States], NEW ch
  PROVE  OnlyWakes(st, Wakeup1(ch, st))
  BY DEF OnlyWakes, Wakeup1, States

\* The wakeups of exit(), of the parent and of init, do no more either.
LEMMA ExitOnlyWakes ==
  ASSUME state \in [Slots -> States], NEW p \in Slots
  PROVE  OnlyWakes(state, ExitWakes(p))
  <1> DEFINE w == Wakeup1(parent[p], state)
             v == Wakeup1(InitProc, w)
  <1>1. OnlyWakes(state, w)
    BY Wakeup1OnlyWakes
  <1>2. OnlyWakes(w, v)
    BY <1>1, Wakeup1OnlyWakes DEF OnlyWakes
  <1>3. OnlyWakes(state, v)
    <2> HIDE DEF w, v
    <2> QED
      BY <1>1, <1>2 DEF OnlyWakes
  <1> QED
    BY <1>1, <1>3 DEF ExitWakes

\* kill() changes no state but that of a sleeper.
LEMMA KillOnlyWakes ==
  ASSUME state \in [Slots -> States], NEW c \in CPUs, Kill(c)
  PROVE  OnlyWakes(state, state')
  <1>1. CASE UNCHANGED state
    BY <1>1 DEF OnlyWakes
  <1>2. CASE \E q \in Slots : state' = [state EXCEPT ![q] = KilledState(@)]
    BY <1>2 DEF OnlyWakes, KilledState, States
  <1> QED
    BY <1>1, <1>2 DEF Kill, WithPid

\* The timer interrupt changes no state but that of the sleepers on ticks.
LEMMA TimerOnlyWakes ==
  ASSUME state \in [Slots -> States], NEW c \in CPUs, TimerInterrupt(c) \/ TimerWhileIdle
  PROVE  OnlyWakes(state, state')
  <1>1. OnlyWakes(state, state)
    BY DEF OnlyWakes
  <1> QED
    BY <1>1, Wakeup1OnlyWakes DEF Ticked, TimerInterrupt, TimerWhileIdle

-----------------------------------------------------------------------------
\* A process is on one CPU, a pid in one slot

\* Every step keeps each RUNNING process on exactly one CPU.
LEMMA StepCpuExclusive ==
  ASSUME TypeOK, CpuExclusive, ForkInv, Next
  PROVE  CpuExclusive'
<1>st. state \in [Slots -> States]
  BY DEF TypeOK, TableType
<1>cp. cproc \in [CPUs -> 0 .. NPROC]
  BY DEF TypeOK, CpuType
<1>arg. arg \in [Slots -> Int] /\ pc \in [Slots -> PCs] /\ ForkArgs
  BY DEF TypeOK, ThreadType
<1> USE DEF CpuExclusive
<1>1. ASSUME NEW c \in CPUs, Dispatch(c) PROVE CpuExclusive'
  <2>1. PICK p \in Slots : /\ state[p] = "RUNNABLE"
                          /\ state' = [state EXCEPT ![p] = "RUNNING"]
                          /\ cproc' = [cproc EXCEPT ![c] = p]
    BY <1>1 DEF Dispatch, Pick, HighestPriority, Runnable
  <2>2. cproc[c] = 0 /\ p # 0
    BY <1>1, ProcConstants DEF Dispatch, Slots
  <2>3. \A d \in CPUs : cproc[d] # p
    BY <2>1, <2>2
  <2> QED
    BY <2>1, <2>2, <2>3, <1>st, <1>cp DEF Slots
<1>2. ASSUME NEW c \in CPUs, ForkRet(c) PROVE CpuExclusive'
  BY <1>2 DEF ForkRet, table
<1>3. ASSUME NEW c \in CPUs, YieldReturn(c) PROVE CpuExclusive'
  BY <1>3 DEF YieldReturn, table
<1>4. ASSUME NEW c \in CPUs, TrapReturn(c) PROVE CpuExclusive'
  BY <1>4 DEF TrapReturn, table
<1>5. ASSUME NEW c \in CPUs, SyscallEntry(c) PROVE CpuExclusive'
  BY <1>5 DEF SyscallEntry, table
<1>6. ASSUME NEW c \in CPUs, TimerInterrupt(c) PROVE CpuExclusive'
  <2>1. OnlyWakes(state, state')
    BY <1>6, <1>st, ProcConstants, TimerOnlyWakes
  <2> QED
    BY <1>6, <2>1, <1>cp DEF OnlyWakes, TimerInterrupt, Slots
<1>7. ASSUME NEW c \in CPUs, TimerExit(c) PROVE CpuExclusive'
  BY <1>7 DEF TimerExit, table
<1>8. ASSUME NEW c \in CPUs, TimerYield(c) PROVE CpuExclusive'
  BY <1>8, <1>st, <1>cp, ProcConstants DEF TimerYield, Yield, At, BackToScheduler, Slots
<1>9. ASSUME NEW c \in CPUs, AllocProc(c) PROVE CpuExclusive'
  <2>1. PICK p \in Slots : AllocProc(c)!(p)
    BY <1>9 DEF AllocProc
  <2>2. CASE UNCHANGED <<state, pid, nextpid>>
    BY <2>1, <2>2
  <2>3. CASE \E np \in Slots : state[np] = "UNUSED" /\ TakeSlot(np)
    BY <2>1, <2>3, <1>st DEF TakeSlot
  <2> QED
    BY <2>1, <2>2, <2>3 DEF IsFirst
<1>10. ASSUME NEW c \in CPUs, ForkFails(c) PROVE CpuExclusive'
  BY <1>10, <1>st, <1>arg DEF ForkFails, At, ForkInv, Forking, ForkArgs
<1>11. ASSUME NEW c \in CPUs, ForkCopy(c) PROVE CpuExclusive'
  BY <1>11 DEF ForkCopy, table
<1>12. ASSUME NEW c \in CPUs, ForkRun(c) PROVE CpuExclusive'
  BY <1>12, <1>st, <1>arg DEF ForkRun, At, ForkInv, Forking, ForkArgs
<1>13. ASSUME NEW c \in CPUs, SysExit(c) PROVE CpuExclusive'
  BY <1>13 DEF SysExit, table
<1>14. ASSUME NEW c \in CPUs, ExitPanic(c) PROVE CpuExclusive'
  BY <1>14 DEF ExitPanic, table
<1>15. ASSUME NEW c \in CPUs, Exit(c) PROVE CpuExclusive'
  <2>1. PICK p \in Slots \ {InitProc} : Exit(c)!(p)
    BY <1>15 DEF Exit
  <2>2. OnlyWakes(state, ExitWakes(p))
    BY <1>st, ExitOnlyWakes
  <2>3. state'[p] = "ZOMBIE" /\ \A q \in Slots \ {p} : state'[q] = ExitWakes(p)[q]
    BY <2>1, <2>2 DEF OnlyWakes
  <2>4. cproc[c] = p /\ cproc' = [cproc EXCEPT ![c] = 0]
    BY <2>1 DEF At, BackToScheduler
  <2>5. p # 0
    BY <2>1 DEF Slots
  <2>6. \A q \in Slots \ {p} : state'[q] = "RUNNING" <=> state[q] = "RUNNING"
    BY <2>2, <2>3 DEF OnlyWakes
  <2>7. \A d \in CPUs : d # c => cproc'[d] = cproc[d] /\ cproc[d] # p
    BY <2>4, <2>5, <1>cp
  <2>8. cproc'[c] = 0 /\ \A d \in CPUs : cproc[d] # 0 => cproc[d] \in Slots
    BY <2>4, <1>cp, ProcConstants DEF Slots
  <2>9. \A d \in CPUs : cproc'[d] # 0 => state'[cproc'[d]] = "RUNNING"
    BY <2>6, <2>7, <2>8
  <2>10. \A q \in Slots : state'[q] = "RUNNING" => \E d \in CPUs : cproc'[d] = q
    BY <2>3, <2>4, <2>6, <2>7
  <2> QED
    BY <2>7, <2>8, <2>9, <2>10
<1>16. ASSUME NEW c \in CPUs, Wait(c) PROVE CpuExclusive'
  <2>1. PICK p \in Slots : Wait(c)!(p)
    BY <1>16 DEF Wait
  <2>2. CASE NothingToReap(p)
    BY <2>2 DEF NothingToReap
  <2>3. ASSUME NEW q \in Slots, state[q] = "ZOMBIE", Reap(p, q) PROVE CpuExclusive'
    BY <2>3, <1>st DEF Reap
  <2>4. CASE Sleep(c, p, p)
    BY <2>1, <2>4, <1>st, <1>cp, ProcConstants DEF InLoop, At, Sleep, BackToScheduler, Slots
  <2> QED
    BY <2>1, <2>2, <2>3, <2>4 DEF Children
<1>17. ASSUME NEW c \in CPUs, Waitpid(c) PROVE CpuExclusive'
  <2>1. PICK p \in Slots, n \in 0 .. MaxPid : Waitpid(c)!(p, n)
    BY <1>17 DEF Waitpid
  <2>2. CASE NothingToReap(p)
    BY <2>2 DEF NothingToReap
  <2>3. ASSUME NEW q \in Slots, state[q] = "ZOMBIE", Reap(p, q) PROVE CpuExclusive'
    BY <2>3, <1>st DEF Reap
  <2>4. ASSUME NEW q \in Slots, Sleep(c, p, parent[q]) PROVE CpuExclusive'
    BY <2>1, <2>4, <1>st, <1>cp, ProcConstants DEF InLoop, At, Sleep, BackToScheduler, Slots
  <2> QED
    BY <2>1, <2>2, <2>3, <2>4 DEF WithPid
<1>18. ASSUME NEW c \in CPUs, Kill(c) PROVE CpuExclusive'
  <2>1. OnlyWakes(state, state')
    BY <1>18, <1>st, KillOnlyWakes
  <2> QED
    BY <1>18, <2>1, <1>cp DEF OnlyWakes, Kill, Slots
<1>19. ASSUME NEW c \in CPUs, SetPriority(c) PROVE CpuExclusive'
  BY <1>19 DEF SetPriority, table
<1>20. ASSUME NEW c \in CPUs, SetPriorityYield(c) PROVE CpuExclusive'
  BY <1>20, <1>st, <1>cp, ProcConstants DEF SetPriorityYield, Yield, At, BackToScheduler, Slots
<1>21. ASSUME NEW c \in CPUs, GetPriority(c) PROVE CpuExclusive'
  BY <1>21 DEF GetPriority, table
<1>22. ASSUME NEW c \in CPUs, SysSleep(c) PROVE CpuExclusive'
  BY <1>22 DEF SysSleep, table
<1>23. ASSUME NEW c \in CPUs, SysSleepSleeps(c) PROVE CpuExclusive'
  BY <1>23, <1>st, <1>cp, ProcConstants DEF SysSleepSleeps, Sleep, At, BackToScheduler, Slots
<1>24. ASSUME NEW c \in CPUs, SysSleepWakes(c) PROVE CpuExclusive'
  BY <1>24 DEF SysSleepWakes, table
<1>25. ASSUME NEW c \in CPUs, SysSleepReturns(c) PROVE CpuExclusive'
  BY <1>25 DEF SysSleepReturns, table
<1>26. ASSUME TimerWhileIdle PROVE CpuExclusive'
  <2>1. OnlyWakes(state, state')
    BY <1>26, <1>st, ProcConstants, TimerOnlyWakes
  <2> QED
    BY <1>26, <2>1, <1>cp DEF OnlyWakes, TimerWhileIdle, Slots
<1>27. ASSUME UNCHANGED vars PROVE CpuExclusive'
  BY <1>27 DEF vars
<1> QED
  BY <1>1, <1>2, <1>3, <1>4, <1>5, <1>6, <1>7, <1>8, <1>9, <1>10, <1>11,
     <1>12, <1>13, <1>14, <1>15, <1>16, <1>17, <1>18, <1>19, <1>20, <1>21,
     <1>22, <1>23, <1>24, <1>25, <1>26, <1>27 DEF Next, Kernel, Syscall

\* Every step keeps the pids in the table distinct and below nextpid.
LEMMA StepPidInv ==
  ASSUME TypeOK, PidInv, Next
  PROVE  PidInv'
<1>pid. pid \in [Slots -> Int] /\ nextpid \in Int /\ nextpid >= 1
  BY DEF TypeOK, TableType
<1> USE DEF PidInv, PidsUnique
<1>1. ASSUME NEW c \in CPUs, Dispatch(c) PROVE PidInv'
  BY <1>1 DEF Dispatch, table
<1>2. ASSUME NEW c \in CPUs, ForkRet(c) PROVE PidInv'
  BY <1>2 DEF ForkRet, table
<1>3. ASSUME NEW c \in CPUs, YieldReturn(c) PROVE PidInv'
  BY <1>3 DEF YieldReturn, table
<1>4. ASSUME NEW c \in CPUs, TrapReturn(c) PROVE PidInv'
  BY <1>4 DEF TrapReturn, table
<1>5. ASSUME NEW c \in CPUs, SyscallEntry(c) PROVE PidInv'
  BY <1>5 DEF SyscallEntry, table
<1>6. ASSUME NEW c \in CPUs, TimerInterrupt(c) PROVE PidInv'
  BY <1>6 DEF TimerInterrupt, table
<1>7. ASSUME NEW c \in CPUs, TimerExit(c) PROVE PidInv'
  BY <1>7 DEF TimerExit, table
<1>8. ASSUME NEW c \in CPUs, TimerYield(c) PROVE PidInv'
  BY <1>8 DEF TimerYield, Yield, table
<1>9. ASSUME NEW c \in CPUs, AllocProc(c) PROVE PidInv'
  <2>1. PICK p \in Slots : AllocProc(c)!(p)
    BY <1>9 DEF AllocProc
  <2>2. CASE UNCHANGED <<state, pid, nextpid>>
    BY <2>1, <2>2
  <2>3. CASE \E np \in Slots : TakeSlot(np)
    BY <2>1, <2>3, <1>pid DEF TakeSlot
  <2> QED
    BY <2>1, <2>2, <2>3
<1>10. ASSUME NEW c \in CPUs, ForkFails(c) PROVE PidInv'
  BY <1>10 DEF ForkFails, table
<1>11. ASSUME NEW c \in CPUs, ForkCopy(c) PROVE PidInv'
  BY <1>11 DEF ForkCopy, table
<1>12. ASSUME NEW c \in CPUs, ForkRun(c) PROVE PidInv'
  BY <1>12 DEF ForkRun, table
<1>13. ASSUME NEW c \in CPUs, SysExit(c) PROVE PidInv'
  BY <1>13 DEF SysExit, table
<1>14. ASSUME NEW c \in CPUs, ExitPanic(c) PROVE PidInv'
  BY <1>14 DEF ExitPanic, table
<1>15. ASSUME NEW c \in CPUs, Exit(c) PROVE PidInv'
  BY <1>15 DEF Exit, table
<1>16. ASSUME NEW c \in CPUs, Wait(c) PROVE PidInv'
  <2>1. ASSUME NEW p \in Slots, NEW q \in Slots, Reap(p, q) PROVE PidInv'
    BY <2>1, <1>pid DEF Reap
  <2> QED
    BY <1>16, <2>1 DEF Wait, Children, NothingToReap, Sleep
<1>17. ASSUME NEW c \in CPUs, Waitpid(c) PROVE PidInv'
  <2>1. ASSUME NEW p \in Slots, NEW q \in Slots, Reap(p, q) PROVE PidInv'
    BY <2>1, <1>pid DEF Reap
  <2> QED
    BY <1>17, <2>1 DEF Waitpid, WithPid, NothingToReap, Sleep
<1>18. ASSUME NEW c \in CPUs, Kill(c) PROVE PidInv'
  BY <1>18 DEF Kill, table
<1>19. ASSUME NEW c \in CPUs, SetPriority(c) PROVE PidInv'
  BY <1>19 DEF SetPriority, table
<1>20. ASSUME NEW c \in CPUs, SetPriorityYield(c) PROVE PidInv'
  BY <1>20 DEF SetPriorityYield, Yield, table
<1>21. ASSUME NEW c \in CPUs, GetPriority(c) PROVE PidInv'
  BY <1>21 DEF GetPriority, table
<1>22. ASSUME NEW c \in CPUs, SysSleep(c) PROVE PidInv'
  BY <1>22 DEF SysSleep, table
<1>23. ASSUME NEW c \in CPUs, SysSleepSleeps(c) PROVE PidInv'
  BY <1>23 DEF SysSleepSleeps, Sleep, table
<1>24. ASSUME NEW c \in CPUs, SysSleepWakes(c) PROVE PidInv'
  BY <1>24 DEF SysSleepWakes, table
<1>25. ASSUME NEW c \in CPUs, SysSleepReturns(c) PROVE PidInv'
  BY <1>25 DEF SysSleepReturns, table
<1>26. ASSUME TimerWhileIdle PROVE PidInv'
  BY <1>26 DEF TimerWhileIdle, table
<1>27. ASSUME UNCHANGED vars PROVE PidInv'
  BY <1>27 DEF vars
<1> QED
  BY <1>1, <1>2, <1>3, <1>4, <1>5, <1>6, <1>7, <1>8, <1>9, <1>10, <1>11,
     <1>12, <1>13, <1>14, <1>15, <1>16, <1>17, <1>18, <1>19, <1>20, <1>21,
     <1>22, <1>23, <1>24, <1>25, <1>26, <1>27 DEF Next, Kernel, Syscall

-----------------------------------------------------------------------------
\* Forks, exits and the family tree

\* The places of a thread that ForkInv and ParentInv are about.
Special == {"fork_copy", "fork_run", "dead"}

\* A step in which every thread stays where it is or moves between other
\* places, and every process stays what it is or remains live.
GoesOn ==
  /\ \A q \in Slots : pc[q] \in Special \/ pc'[q] \in Special =>
                        pc'[q] = pc[q] /\ arg'[q] = arg[q]
  /\ \A q \in Slots : state'[q] # state[q] => state[q] \in Live /\ state'[q] \in Live
  /\ parent' = parent

\* The parts of an action that are not like that.
Allocates(c) == AllocProc(c) /\ \E np \in Slots : state[np] = "UNUSED" /\ TakeSlot(np)
Reaps == \E p, q \in Slots : state[q] = "ZOMBIE" /\ Reap(p, q) /\ pc[p] \notin Special

\* Every step goes on with threads that stay what they are, or is one of the
\* six that allocate, build, end or free a process.
LEMMA StepKinds ==
  ASSUME TypeOK, CpuExclusive, Next
  PROVE  \/ GoesOn
         \/ Reaps
         \/ \E c \in CPUs : Allocates(c) \/ ForkFails(c) \/ ForkCopy(c) \/ ForkRun(c) \/ Exit(c)
<1>st. state \in [Slots -> States]
  BY DEF TypeOK, TableType
<1>th. pc \in [Slots -> PCs] /\ arg \in [Slots -> Int]
  BY DEF TypeOK, ThreadType
<1>run. \A c \in CPUs, p \in Slots : cproc[c] = p => state[p] = "RUNNING"
  BY ProcConstants DEF CpuExclusive, Slots
<1> USE DEF GoesOn, Special, Live
<1>1. ASSUME NEW c \in CPUs, Dispatch(c) PROVE GoesOn
  BY <1>1, <1>st, <1>th, <1>run DEF Dispatch, Pick, HighestPriority, Runnable
<1>2. ASSUME NEW c \in CPUs, ForkRet(c) PROVE GoesOn
  BY <1>2, <1>st, <1>th, <1>run DEF ForkRet, table
<1>3. ASSUME NEW c \in CPUs, YieldReturn(c) PROVE GoesOn
  BY <1>3, <1>st, <1>th, <1>run DEF YieldReturn, table
<1>4. ASSUME NEW c \in CPUs, TrapReturn(c) PROVE GoesOn
  BY <1>4, <1>st, <1>th, <1>run DEF TrapReturn, At, Goto, table
<1>5. ASSUME NEW c \in CPUs, SyscallEntry(c) PROVE GoesOn
  BY <1>5, <1>st, <1>th, <1>run DEF SyscallEntry, At, Goto, table
<1>6. ASSUME NEW c \in CPUs, TimerExit(c) PROVE GoesOn
  BY <1>6, <1>st, <1>th, <1>run DEF TimerExit, Goto, table
<1>7. ASSUME NEW c \in CPUs, TimerYield(c) PROVE GoesOn
  BY <1>7, <1>st, <1>th, <1>run DEF TimerYield, Yield
<1>8. ASSUME NEW c \in CPUs, SysExit(c) PROVE GoesOn
  BY <1>8, <1>st, <1>th, <1>run DEF SysExit, At, Goto, table
<1>9. ASSUME NEW c \in CPUs, ExitPanic(c) PROVE GoesOn
  BY <1>9, <1>st, <1>th, <1>run DEF ExitPanic, table
<1>10. ASSUME NEW c \in CPUs, SetPriorityYield(c) PROVE GoesOn
  BY <1>10, <1>st, <1>th, <1>run DEF SetPriorityYield, Yield, At, Goto
<1>11. ASSUME NEW c \in CPUs, SysSleep(c) PROVE GoesOn
  BY <1>11, <1>st, <1>th, <1>run DEF SysSleep, At, Goto, table
<1>12. ASSUME NEW c \in CPUs, SysSleepSleeps(c) PROVE GoesOn
  BY <1>12, <1>st, <1>th, <1>run DEF SysSleepSleeps, Sleep, At, Goto
<1>13. ASSUME NEW c \in CPUs, SysSleepWakes(c) PROVE GoesOn
  BY <1>13, <1>st, <1>th, <1>run DEF SysSleepWakes
<1>14. ASSUME NEW c \in CPUs, SysSleepReturns(c) PROVE GoesOn
  BY <1>14, <1>st, <1>th, <1>run DEF SysSleepReturns, At, Return, Goto, table
<1>15. ASSUME NEW c \in CPUs, GetPriority(c) PROVE GoesOn
  BY <1>15, <1>st, <1>th, <1>run DEF GetPriority, At, Return, Goto, table
<1>16. ASSUME NEW c \in CPUs, SetPriority(c) PROVE GoesOn
  <2>1. PICK p \in Slots : /\ pc[p] = "syscall"
                           /\ pc' = [pc EXCEPT ![p] = "setpriority"] \/ pc' = [pc EXCEPT ![p] = "trapret"]
                           /\ arg' = arg \/ \E x : arg' = [arg EXCEPT ![p] = x]
    BY <1>16 DEF SetPriority, At, Return, Goto
  <2>2. state' = state /\ parent' = parent
    BY <1>16 DEF SetPriority
  <2> QED
    BY <2>1, <2>2, <1>th
<1>17. ASSUME NEW c \in CPUs, TimerInterrupt(c) PROVE GoesOn
  <2>1. OnlyWakes(state, state')
    BY <1>17, <1>st, ProcConstants, TimerOnlyWakes
  <2> QED
    BY <1>17, <2>1 DEF OnlyWakes, TimerInterrupt
<1>18. ASSUME TimerWhileIdle PROVE GoesOn
  <2>1. OnlyWakes(state, state')
    BY <1>18, <1>st, ProcConstants, TimerOnlyWakes
  <2> QED
    BY <1>18, <2>1 DEF OnlyWakes, TimerWhileIdle
<1>19. ASSUME NEW c \in CPUs, Kill(c) PROVE GoesOn
  <2>1. OnlyWakes(state, state')
    BY <1>19, <1>st, KillOnlyWakes
  <2>2. PICK p \in Slots : pc[p] = "syscall" /\ Return(p)
    BY <1>19 DEF Kill, At
  <2>3. parent' = parent
    BY <1>19 DEF Kill
  <2> QED
    BY <2>1, <2>2, <2>3, <1>th DEF OnlyWakes, Return, Goto
<1>20. ASSUME NEW c \in CPUs, AllocProc(c) PROVE GoesOn \/ Allocates(c)
  <2>1. PICK p \in Slots : AllocProc(c)!(p)
    BY <1>20 DEF AllocProc
  <2>2. CASE \E np \in Slots : state[np] = "UNUSED" /\ TakeSlot(np)
    BY <1>20, <2>2 DEF Allocates
  <2>3. CASE Return(p) /\ UNCHANGED state
    <3>1. pc[p] = "syscall" /\ parent' = parent
      BY <2>1 DEF At
    <3> QED
      BY <2>3, <3>1, <1>th DEF Return, Goto
  <2> QED
    BY <2>1, <2>2, <2>3 DEF IsFirst
<1>21. ASSUME NEW c \in CPUs, Wait(c) PROVE GoesOn \/ Reaps
  <2>1. PICK p \in Slots : Wait(c)!(p)
    BY <1>21 DEF Wait
  <2>2. cproc[c] = p /\ pc[p] \notin Special
    BY <2>1 DEF InLoop, At
  <2>3. CASE NothingToReap(p)
    BY <2>2, <2>3, <1>th DEF NothingToReap, LeaveLoop, Return, Goto
  <2>4. CASE \E q \in Slots : state[q] = "ZOMBIE" /\ Reap(p, q)
    BY <2>2, <2>4 DEF Reaps
  <2>5. ASSUME NEW ch, NEW n1, Sleep(c, p, ch), Goto(p, "wait"),
               arg' = arg \/ arg' = [arg EXCEPT ![p] = n1]
        PROVE  GoesOn
    BY <2>2, <2>5, <1>st, <1>th, <1>run DEF Sleep, Goto
  <2> QED
    BY <2>1, <2>3, <2>4, <2>5 DEF Children
<1>22. ASSUME NEW c \in CPUs, Waitpid(c) PROVE GoesOn \/ Reaps
  <2>1. PICK p \in Slots, n \in 0 .. MaxPid : Waitpid(c)!(p, n)
    BY <1>22 DEF Waitpid
  <2>2. cproc[c] = p /\ pc[p] \notin Special
    BY <2>1 DEF InLoop, At
  <2>3. CASE NothingToReap(p)
    BY <2>2, <2>3, <1>th DEF NothingToReap, LeaveLoop, Return, Goto
  <2>4. CASE \E q \in Slots : state[q] = "ZOMBIE" /\ Reap(p, q)
    BY <2>2, <2>4 DEF Reaps
  <2>5. ASSUME NEW ch, NEW n1, Sleep(c, p, ch), Goto(p, "waitpid"),
               arg' = arg \/ arg' = [arg EXCEPT ![p] = n1]
        PROVE  GoesOn
    BY <2>2, <2>5, <1>st, <1>th, <1>run DEF Sleep, Goto
  <2> QED
    BY <2>1, <2>3, <2>4, <2>5 DEF WithPid
<1>23. ASSUME UNCHANGED vars PROVE GoesOn
  BY <1>23 DEF vars
<1> QED
  BY <1>1, <1>2, <1>3, <1>4, <1>5, <1>6, <1>7, <1>8, <1>9, <1>10, <1>11,
     <1>12, <1>13, <1>14, <1>15, <1>16, <1>17, <1>18, <1>19, <1>20, <1>21,
     <1>22, <1>23 DEF Next, Kernel, Syscall

\* What the steps of a fork, an exit and a reaping do to the table and to the
\* threads.
LEMMA AllocatesChanges ==
  ASSUME TypeOK, NEW c \in CPUs, Allocates(c)
  PROVE  \E p, np \in Slots :
           /\ cproc[c] = p /\ pc[p] = "syscall" /\ state[np] = "UNUSED"
           /\ state' = [state EXCEPT ![np] = "EMBRYO"]
           /\ pc' = [pc EXCEPT ![p] = "fork_copy"]
           /\ arg' = [arg EXCEPT ![p] = np]
           /\ parent' = parent
  <1>1. PICK p \in Slots : AllocProc(c)!(p)
    BY DEF Allocates, AllocProc
  <1>2. \E np \in Slots : state[np] = "UNUSED"
    BY DEF Allocates
  <1>3. cproc[c] = p /\ pc[p] = "syscall" /\ parent' = parent
    BY <1>1 DEF At
  <1>4. PICK np \in Slots : /\ IsFirst(np, {q \in Slots : state[q] = "UNUSED"})
                            /\ TakeSlot(np) /\ Goto(p, "fork_copy")
                            /\ arg' = [arg EXCEPT ![p] = np]
    BY <1>1, <1>2
  <1>5. state[np] = "UNUSED"
    BY <1>4 DEF IsFirst
  <1> QED
    BY <1>3, <1>4, <1>5 DEF TakeSlot, Goto

\* A failed fork() frees the slot and nothing else of the table.
LEMMA ForkFailsChanges ==
  ASSUME NEW c \in CPUs, ForkFails(c)
  PROVE  \E p \in Slots :
           /\ cproc[c] = p /\ pc[p] = "fork_copy"
           /\ state' = [state EXCEPT ![arg[p]] = "UNUSED"]
           /\ pc' = [pc EXCEPT ![p] = "trapret"]
           /\ arg' = [arg EXCEPT ![p] = 0]
           /\ parent' = parent
  BY DEF ForkFails, At, Return, Goto

\* fork() sets the parent of its EMBRYO.
LEMMA ForkCopyChanges ==
  ASSUME NEW c \in CPUs, ForkCopy(c)
  PROVE  \E p \in Slots :
           /\ cproc[c] = p /\ pc[p] = "fork_copy"
           /\ parent' = [parent EXCEPT ![arg[p]] = p]
           /\ pc' = [pc EXCEPT ![p] = "fork_run"]
           /\ UNCHANGED <<state, arg>>
  BY DEF ForkCopy, At, Goto

\* fork() makes its EMBRYO RUNNABLE.
LEMMA ForkRunChanges ==
  ASSUME NEW c \in CPUs, ForkRun(c)
  PROVE  \E p \in Slots :
           /\ cproc[c] = p /\ pc[p] = "fork_run"
           /\ state' = [state EXCEPT ![arg[p]] = "RUNNABLE"]
           /\ pc' = [pc EXCEPT ![p] = "trapret", ![arg[p]] = "user"]
           /\ arg' = [arg EXCEPT ![p] = 0]
           /\ parent' = parent
  BY DEF ForkRun, At

\* exit() makes its caller a zombie, wakes sleepers and moves parents to init.
LEMMA ExitChanges ==
  ASSUME TypeOK, CpuExclusive, NEW c \in CPUs, Exit(c)
  PROVE  \E p \in Slots \ {InitProc} :
           /\ state[p] = "RUNNING" /\ pc[p] = "exit"
           /\ state'[p] = "ZOMBIE"
           /\ \A q \in Slots \ {p} : state'[q] # state[q] =>
                state[q] = "SLEEPING" /\ state'[q] = "RUNNABLE"
           /\ parent' = PassToInit(p)
           /\ pc' = [pc EXCEPT ![p] = "dead"]
           /\ arg' = [arg EXCEPT ![p] = 0]
  <1>1. PICK p \in Slots \ {InitProc} : Exit(c)!(p)
    BY DEF Exit
  <1>2. OnlyWakes(state, ExitWakes(p))
    BY ExitOnlyWakes DEF TypeOK, TableType
  <1>3. state'[p] = "ZOMBIE"
    BY <1>1, <1>2 DEF OnlyWakes
  <1>4. \A q \in Slots \ {p} : state'[q] = ExitWakes(p)[q]
    BY <1>1, <1>2 DEF OnlyWakes
  <1>5. \A q \in Slots \ {p} : state'[q] # state[q] =>
          state[q] = "SLEEPING" /\ state'[q] = "RUNNABLE"
    BY <1>2, <1>4 DEF OnlyWakes
  <1>6. state[p] = "RUNNING" /\ pc[p] = "exit"
    BY <1>1, ProcConstants DEF At, CpuExclusive, Slots
  <1> QED
    BY <1>1, <1>3, <1>5, <1>6 DEF Goto

\* wait() and waitpid() free one zombie slot.
LEMMA ReapsChanges ==
  ASSUME Reaps
  PROVE  \E p, q \in Slots :
           /\ state[q] = "ZOMBIE" /\ pc[p] \notin Special
           /\ state' = [state EXCEPT ![q] = "UNUSED"]
           /\ parent' = [parent EXCEPT ![q] = 0]
           /\ pc' = [pc EXCEPT ![p] = "trapret"]
           /\ arg' = [arg EXCEPT ![p] = 0]
  BY DEF Reaps, Reap, LeaveLoop, Return, Goto

\* Every step keeps the slot a fork in flight names a slot.
LEMMA StepForkArgs ==
  ASSUME TypeOK, CpuExclusive, Next
  PROVE  ForkArgs'
<1>st. state \in [Slots -> States] /\ parent \in [Slots -> 0 .. NPROC]
  BY DEF TypeOK, TableType
<1>th. pc \in [Slots -> PCs] /\ arg \in [Slots -> Int]
  BY DEF TypeOK, ThreadType
<1>fk. \A p \in Slots : Forking(p) => arg[p] \in Slots
  BY DEF TypeOK, ForkArgs, Forking
<1>run. \A c \in CPUs, p \in Slots : cproc[c] = p => state[p] = "RUNNING"
  BY ProcConstants DEF CpuExclusive, Slots
<1> USE DEF ForkArgs, Forking, Special
<1>1. CASE GoesOn
  BY <1>1, <1>st, <1>th, <1>fk DEF GoesOn
<1>2. CASE Reaps
  BY <1>2, <1>st, <1>th, <1>fk, <1>run, ReapsChanges
<1>3. ASSUME NEW c \in CPUs, Allocates(c) PROVE ForkArgs'
  BY <1>3, <1>st, <1>th, <1>fk, <1>run, AllocatesChanges
<1>4. ASSUME NEW c \in CPUs, ForkFails(c) PROVE ForkArgs'
  BY <1>4, <1>st, <1>th, <1>fk, <1>run, ForkFailsChanges
<1>5. ASSUME NEW c \in CPUs, ForkCopy(c) PROVE ForkArgs'
  BY <1>5, <1>st, <1>th, <1>fk, <1>run, ForkCopyChanges
<1>6. ASSUME NEW c \in CPUs, ForkRun(c) PROVE ForkArgs'
  BY <1>6, <1>st, <1>th, <1>fk, <1>run, ForkRunChanges
<1>7. ASSUME NEW c \in CPUs, Exit(c) PROVE ForkArgs'
  BY <1>7, <1>st, <1>th, <1>fk, <1>run, ExitChanges
<1> QED
  BY <1>1, <1>2, <1>3, <1>4, <1>5, <1>6, <1>7, StepKinds

\* Every step keeps each EMBRYO with the one fork() that builds it.
LEMMA StepForkInv ==
  ASSUME TypeOK, CpuExclusive, ForkInv, Next
  PROVE  ForkInv'
<1>st. state \in [Slots -> States] /\ parent \in [Slots -> 0 .. NPROC]
  BY DEF TypeOK, TableType
<1>th. pc \in [Slots -> PCs] /\ arg \in [Slots -> Int]
  BY DEF TypeOK, ThreadType
<1>fk. \A p \in Slots : Forking(p) => arg[p] \in Slots
  BY DEF TypeOK, ForkArgs, Forking
<1>run. \A c \in CPUs, p \in Slots : cproc[c] = p => state[p] = "RUNNING"
  BY ProcConstants DEF CpuExclusive, Slots
<1> USE DEF ForkInv, EmbryoOwned, Forking, Special, Live
<1>1. CASE GoesOn
  BY <1>1, <1>st, <1>th, <1>fk DEF GoesOn
<1>2. CASE Reaps
  BY <1>2, <1>st, <1>th, <1>fk, <1>run, ReapsChanges
<1>3. ASSUME NEW c \in CPUs, Allocates(c) PROVE ForkInv'
  BY <1>3, <1>st, <1>th, <1>fk, <1>run, AllocatesChanges
<1>4. ASSUME NEW c \in CPUs, ForkFails(c) PROVE ForkInv'
  BY <1>4, <1>st, <1>th, <1>fk, <1>run, ForkFailsChanges
<1>5. ASSUME NEW c \in CPUs, ForkCopy(c) PROVE ForkInv'
  BY <1>5, <1>st, <1>th, <1>fk, <1>run, ForkCopyChanges
<1>6. ASSUME NEW c \in CPUs, ForkRun(c) PROVE ForkInv'
  BY <1>6, <1>st, <1>th, <1>fk, <1>run, ForkRunChanges
<1>7. ASSUME NEW c \in CPUs, Exit(c) PROVE ForkInv'
  BY <1>7, <1>st, <1>th, <1>fk, <1>run, ExitChanges
<1> QED
  BY <1>1, <1>2, <1>3, <1>4, <1>5, <1>6, <1>7, StepKinds

\* Every step keeps every process with a live parent.
LEMMA StepParentInv ==
  ASSUME TypeOK, CpuExclusive, ForkInv, ParentInv, Next
  PROVE  ParentInv'
<1>st. state \in [Slots -> States]
  BY DEF TypeOK, TableType
<1>pa. parent \in [Slots -> Int] /\ \A p \in Slots : parent[p] # 0 => parent[p] \in Slots
  BY DEF TypeOK, TableType, Slots
<1>in. InitProc \in Slots /\ InitProc # 0 /\ 0 \notin Slots
  BY ProcConstants DEF InitProc, Slots
<1>th. pc \in [Slots -> PCs] /\ arg \in [Slots -> Int]
  BY DEF TypeOK, ThreadType
<1>fk. \A p \in Slots : Forking(p) => arg[p] \in Slots
  BY DEF TypeOK, ForkArgs, Forking
<1>run. \A c \in CPUs, p \in Slots : cproc[c] = p => state[p] = "RUNNING"
  BY ProcConstants DEF CpuExclusive, Slots
<1> USE DEF ParentInv, ForkInv, Forking, Special, Live
<1>1. CASE GoesOn
  BY <1>1, <1>st, <1>th, <1>fk, <1>pa, <1>in DEF GoesOn
<1>2. CASE Reaps
  BY <1>2, <1>st, <1>th, <1>fk, <1>run, <1>pa, <1>in, ReapsChanges
<1>3. ASSUME NEW c \in CPUs, Allocates(c) PROVE ParentInv'
  BY <1>3, <1>st, <1>th, <1>fk, <1>run, <1>pa, <1>in, AllocatesChanges
<1>4. ASSUME NEW c \in CPUs, ForkFails(c) PROVE ParentInv'
  BY <1>4, <1>st, <1>th, <1>fk, <1>run, <1>pa, <1>in, ForkFailsChanges
<1>5. ASSUME NEW c \in CPUs, ForkCopy(c) PROVE ParentInv'
  <2>1. PICK p \in Slots : /\ cproc[c] = p /\ pc[p] = "fork_copy"
                           /\ parent' = [parent EXCEPT ![arg[p]] = p]
                           /\ pc' = [pc EXCEPT ![p] = "fork_run"]
                           /\ UNCHANGED <<state, arg>>
    BY <1>5, ForkCopyChanges
  <2> DEFINE np == arg[p]
  <2>2. np \in Slots /\ state[np] = "EMBRYO" /\ state[p] = "RUNNING" /\ np # p /\ np # InitProc
    BY <2>1, <1>fk, <1>run
  <2>3. parent'[np] = p /\ \A q \in Slots \ {np} : parent'[q] = parent[q]
    BY <2>1, <2>2, <1>pa
  <2>4. pc'[p] = "fork_run" /\ \A q \in Slots \ {p} : pc'[q] = pc[q]
    BY <2>1, <1>th
  <2>5. \A q \in Slots \ {p} : Forking(q) => arg[q] # np
    BY <2>1 DEF EmbryoOwned
  <2> HIDE DEF np
  <2>6. \A q \in Slots : pc'[q] = "fork_copy" => parent'[arg'[q]] = 0
    BY <2>1, <2>3, <2>4, <2>5, <1>fk
  <2>7. \A q \in Slots : pc'[q] = "fork_run" => parent'[arg'[q]] = q
    BY <2>1, <2>3, <2>4, <2>5, <1>fk DEF np
  <2> QED
    BY <2>1, <2>2, <2>3, <2>6, <2>7, <1>pa, <1>in
<1>6. ASSUME NEW c \in CPUs, ForkRun(c) PROVE ParentInv'
  BY <1>6, <1>st, <1>th, <1>fk, <1>run, <1>pa, <1>in, ForkRunChanges
<1>7. ASSUME NEW c \in CPUs, Exit(c) PROVE ParentInv'
  BY <1>7, <1>st, <1>th, <1>fk, <1>run, <1>pa, <1>in, ExitChanges DEF PassToInit
<1> QED
  BY <1>1, <1>2, <1>3, <1>4, <1>5, <1>6, <1>7, StepKinds

-----------------------------------------------------------------------------
\* Sleepers in wait()

\* A step after which whoever is asleep in wait() was so before, no process has
\* become a zombie and no parent has changed.
Quiet ==
  /\ \A q \in Slots : state'[q] = "SLEEPING" /\ pc'[q] = "wait" =>
       state[q] = "SLEEPING" /\ pc[q] = "wait" /\ chan'[q] = chan[q]
  /\ \A q \in Slots : state'[q] = "ZOMBIE" => state[q] = "ZOMBIE"
  /\ parent' = parent

\* Such a step cannot make a sleeper in wait() miss anything.
LEMMA QuietWaitInv ==
  ASSUME WaitInv, Quiet
  PROVE  WaitInv'
  BY DEF WaitInv, NoMissedWakeup, Quiet, Children

\* Every step keeps sleepers in wait() without zombie children.
LEMMA StepWaitInv ==
  ASSUME TypeOK, CpuExclusive, ForkInv, ParentInv, WaitInv, Next
  PROVE  WaitInv'
<1>st. state \in [Slots -> States]
  BY DEF TypeOK, TableType
<1>pa. parent \in [Slots -> Int] /\ \A p \in Slots : parent[p] # 0 => parent[p] \in Slots
  BY DEF TypeOK, TableType, Slots
<1>in. InitProc \in Slots /\ InitProc # 0 /\ 0 \notin Slots
  BY ProcConstants DEF InitProc, Slots
<1>ch. chan \in [Slots -> Chans]
  BY DEF TypeOK, TableType
<1>th. pc \in [Slots -> PCs] /\ arg \in [Slots -> Int]
  BY DEF TypeOK, ThreadType
<1>fk. \A p \in Slots : Forking(p) => arg[p] \in Slots
  BY DEF TypeOK, ForkArgs, Forking
<1>run. \A c \in CPUs, p \in Slots : cproc[c] = p => state[p] = "RUNNING"
  BY ProcConstants DEF CpuExclusive, Slots
<1>1. ASSUME NEW c \in CPUs, Dispatch(c) PROVE WaitInv'
  <2>1. Quiet
    BY <1>1, <1>st, <1>th, <1>ch, <1>run DEF Quiet, Dispatch, Pick, HighestPriority, Runnable
  <2> QED
    BY <2>1, QuietWaitInv
<1>2. ASSUME NEW c \in CPUs, ForkRet(c) PROVE WaitInv'
  <2>1. Quiet
    BY <1>2, <1>st, <1>th, <1>ch, <1>run DEF Quiet, ForkRet, table
  <2> QED
    BY <2>1, QuietWaitInv
<1>3. ASSUME NEW c \in CPUs, YieldReturn(c) PROVE WaitInv'
  <2>1. Quiet
    BY <1>3, <1>st, <1>th, <1>ch, <1>run DEF Quiet, YieldReturn, table
  <2> QED
    BY <2>1, QuietWaitInv
<1>4. ASSUME NEW c \in CPUs, TrapReturn(c) PROVE WaitInv'
  <2>1. Quiet
    BY <1>4, <1>st, <1>th, <1>ch, <1>run DEF Quiet, TrapReturn, At, Goto, table
  <2> QED
    BY <2>1, QuietWaitInv
<1>5. ASSUME NEW c \in CPUs, SyscallEntry(c) PROVE WaitInv'
  <2>1. Quiet
    BY <1>5, <1>st, <1>th, <1>ch, <1>run DEF Quiet, SyscallEntry, At, Goto, table
  <2> QED
    BY <2>1, QuietWaitInv
<1>6. ASSUME NEW c \in CPUs, TimerInterrupt(c) PROVE WaitInv'
  <2>1. OnlyWakes(state, state')
    BY <1>6, <1>st, ProcConstants, TimerOnlyWakes
  <2>2. Quiet
    BY <1>6, <2>1, <1>th DEF Quiet, OnlyWakes, TimerInterrupt
  <2> QED
    BY <2>2, QuietWaitInv
<1>7. ASSUME NEW c \in CPUs, TimerExit(c) PROVE WaitInv'
  <2>1. Quiet
    BY <1>7, <1>st, <1>th, <1>ch, <1>run DEF Quiet, TimerExit, Goto, table
  <2> QED
    BY <2>1, QuietWaitInv
<1>8. ASSUME NEW c \in CPUs, TimerYield(c) PROVE WaitInv'
  <2>1. Quiet
    BY <1>8, <1>st, <1>th, <1>ch, <1>run DEF Quiet, TimerYield, Yield
  <2> QED
    BY <2>1, QuietWaitInv
<1>9. ASSUME NEW c \in CPUs, AllocProc(c) PROVE WaitInv'
  <2>1. Quiet
    BY <1>9, <1>st, <1>th, <1>ch, <1>run DEF Quiet, AllocProc, TakeSlot, Return, Goto, At
  <2> QED
    BY <2>1, QuietWaitInv
<1>10. ASSUME NEW c \in CPUs, ForkFails(c) PROVE WaitInv'
  <2>1. Quiet
    BY <1>10, <1>st, <1>th, <1>ch, <1>run DEF Quiet, ForkFails, Return, Goto, At
  <2> QED
    BY <2>1, QuietWaitInv
<1>11. ASSUME NEW c \in CPUs, ForkCopy(c) PROVE WaitInv'
  <2>1. PICK p \in Slots : /\ cproc[c] = p /\ pc[p] = "fork_copy"
                           /\ parent' = [parent EXCEPT ![arg[p]] = p]
                           /\ pc' = [pc EXCEPT ![p] = "fork_run"]
                           /\ UNCHANGED <<state, arg>>
    BY <1>11, ForkCopyChanges
  <2>2. arg[p] \in Slots /\ parent[arg[p]] = 0 /\ state[p] = "RUNNING"
    BY <2>1, <1>fk, <1>run DEF ParentInv, Forking
  <2>3. chan' = chan
    BY <1>11 DEF ForkCopy
  <2> QED
    BY <2>1, <2>2, <2>3, <1>st, <1>th, <1>pa, <1>in DEF WaitInv, NoMissedWakeup, Children
<1>12. ASSUME NEW c \in CPUs, ForkRun(c) PROVE WaitInv'
  <2>1. Quiet
    BY <1>12, <1>st, <1>th, <1>ch, <1>run DEF Quiet, ForkRun, At
  <2> QED
    BY <2>1, QuietWaitInv
<1>13. ASSUME NEW c \in CPUs, SysExit(c) PROVE WaitInv'
  <2>1. Quiet
    BY <1>13, <1>st, <1>th, <1>ch, <1>run DEF Quiet, SysExit, At, Goto, table
  <2> QED
    BY <2>1, QuietWaitInv
<1>14. ASSUME NEW c \in CPUs, ExitPanic(c) PROVE WaitInv'
  <2>1. Quiet
    BY <1>14, <1>st, <1>th, <1>ch, <1>run DEF Quiet, ExitPanic, table
  <2> QED
    BY <2>1, QuietWaitInv
<1>15. ASSUME NEW c \in CPUs, Exit(c) PROVE WaitInv'
  <2>1. PICK p \in Slots \ {InitProc} : Exit(c)!(p)
    BY <1>15 DEF Exit
  <2>2. state[p] = "RUNNING" /\ chan' = chan /\ pc' = [pc EXCEPT ![p] = "dead"]
    BY <2>1, <1>run DEF At, Goto
  <2>3. OnlyWakes(state, ExitWakes(p))
    BY <1>st, ExitOnlyWakes
  <2>4. state'[p] = "ZOMBIE" /\ \A q \in Slots \ {p} : state'[q] = ExitWakes(p)[q]
    BY <2>1, <2>3 DEF OnlyWakes
  <2>5. \A q \in Slots \ {p} : state'[q] = "SLEEPING" => state[q] = "SLEEPING"
    BY <2>3, <2>4 DEF OnlyWakes, States
  <2>6. \A q \in Slots \ {p} : state'[q] = "ZOMBIE" => state[q] = "ZOMBIE"
    BY <2>3, <2>4 DEF OnlyWakes
  \* Whoever still sleeps in wait() is not the parent of p, and is not init
  \* when a child of p is a zombie.
  <2>7. \A q \in Slots \ {p} : state'[q] = "SLEEPING" => chan[q] # parent[p]
    BY <2>4 DEF ExitWakes, Wakeup1
  <2>8. ASSUME state'[InitProc] = "SLEEPING", chan[InitProc] = InitProc,
               NEW z \in Children(p), state[z] = "ZOMBIE"
        PROVE  FALSE
    BY <2>4, <2>8, <1>in DEF ExitWakes, Wakeup1
  <2>9. \A q \in Slots : parent'[q] = IF parent[q] = p THEN InitProc ELSE parent[q]
    BY <2>1 DEF PassToInit
  <2>10. ASSUME NEW w \in Slots, state'[w] = "SLEEPING", pc'[w] = "wait"
         PROVE  /\ chan'[w] = w
                /\ Children(w)' # {}
                /\ \A q \in Children(w)' : state'[q] # "ZOMBIE"
    <3>1. w # p /\ state[w] = "SLEEPING" /\ pc[w] = "wait" /\ chan[w] = w
      BY <2>10, <2>4, <2>5, <2>2, <1>th DEF WaitInv
    <3>2. w # parent[p]
      BY <2>10, <3>1, <2>7
    <3>3. Children(w) # {} /\ \A q \in Children(w) : state[q] # "ZOMBIE"
      BY <3>1 DEF WaitInv, NoMissedWakeup
    <3>4. Children(w) \subseteq Children(w)'
      BY <3>1, <2>9 DEF Children
    <3>5. ASSUME NEW q \in Children(w)', state'[q] = "ZOMBIE" PROVE FALSE
      <4>1. q \in Slots /\ parent'[q] = w
        BY <3>5 DEF Children
      <4>2. q # p
        BY <4>1, <2>9, <3>2, <1>in, <1>pa DEF ParentInv
      <4>3. state[q] = "ZOMBIE"
        BY <4>1, <4>2, <3>5, <2>6
      <4>4. CASE parent[q] = w
        BY <4>1, <4>3, <4>4, <3>3 DEF Children
      <4>5. CASE parent[q] = p /\ w = InitProc
        BY <4>1, <4>3, <4>5, <2>8, <2>10, <3>1 DEF Children
      <4> QED
        BY <4>1, <4>4, <4>5, <2>9
    <3> QED
      BY <3>1, <3>3, <3>4, <3>5, <2>2
  <2> QED
    BY <2>10 DEF WaitInv, NoMissedWakeup
<1>16. ASSUME NEW c \in CPUs, Wait(c) PROVE WaitInv'
  <2>1. PICK p \in Slots : Wait(c)!(p)
    BY <1>16 DEF Wait
  <2>2. cproc[c] = p /\ state[p] = "RUNNING"
    BY <2>1, <1>run DEF InLoop, At
  <2>3. ASSUME NEW q \in Slots, state[q] = "ZOMBIE", Reap(p, q) PROVE WaitInv'
    <3>1. /\ parent' = [parent EXCEPT ![q] = 0]
          /\ state' = [state EXCEPT ![q] = "UNUSED"]
          /\ pc' = [pc EXCEPT ![p] = "trapret"]
          /\ chan' = [chan EXCEPT ![p] = 0]
      BY <2>3 DEF Reap, LeaveLoop, Return, Goto
    <3> QED
      BY <2>2, <2>3, <3>1, <1>st, <1>th, <1>ch, <1>pa, <1>in
         DEF WaitInv, NoMissedWakeup, Children
  <2>4. CASE NothingToReap(p)
    <3>1. Quiet
      BY <2>2, <2>4, <1>st, <1>th, <1>ch DEF Quiet, NothingToReap, LeaveLoop, Return, Goto
    <3> QED
      BY <3>1, QuietWaitInv
  <2>5. ASSUME Children(p) # {}, \A q \in Children(p) : state[q] # "ZOMBIE",
               Sleep(c, p, p), Goto(p, "wait")
        PROVE  WaitInv'
    BY <2>5, <1>st, <1>th, <1>ch DEF Sleep, Goto, WaitInv, NoMissedWakeup, Children
  <2> QED
    BY <2>1, <2>3, <2>4, <2>5 DEF Children
<1>17. ASSUME NEW c \in CPUs, Waitpid(c) PROVE WaitInv'
  <2>1. PICK p \in Slots, n \in 0 .. MaxPid : Waitpid(c)!(p, n)
    BY <1>17 DEF Waitpid
  <2>2. cproc[c] = p /\ state[p] = "RUNNING"
    BY <2>1, <1>run DEF InLoop, At
  <2>3. ASSUME NEW q \in Slots, state[q] = "ZOMBIE", Reap(p, q) PROVE WaitInv'
    <3>1. /\ parent' = [parent EXCEPT ![q] = 0]
          /\ state' = [state EXCEPT ![q] = "UNUSED"]
          /\ pc' = [pc EXCEPT ![p] = "trapret"]
          /\ chan' = [chan EXCEPT ![p] = 0]
      BY <2>3 DEF Reap, LeaveLoop, Return, Goto
    <3> QED
      BY <2>2, <2>3, <3>1, <1>st, <1>th, <1>ch, <1>pa, <1>in
         DEF WaitInv, NoMissedWakeup, Children
  <2>4. CASE NothingToReap(p)
    <3>1. Quiet
      BY <2>2, <2>4, <1>st, <1>th, <1>ch DEF Quiet, NothingToReap, LeaveLoop, Return, Goto
    <3> QED
      BY <3>1, QuietWaitInv
  <2>5. ASSUME NEW ch, Sleep(c, p, ch), Goto(p, "waitpid") PROVE WaitInv'
    <3>1. Quiet
      BY <2>5, <1>st, <1>th, <1>ch DEF Quiet, Sleep, Goto
    <3> QED
      BY <3>1, QuietWaitInv
  <2> QED
    BY <2>1, <2>3, <2>4, <2>5 DEF WithPid
<1>18. ASSUME NEW c \in CPUs, Kill(c) PROVE WaitInv'
  <2>1. OnlyWakes(state, state')
    BY <1>18, <1>st, ProcConstants, KillOnlyWakes
  <2>2. Quiet
    BY <1>18, <2>1, <1>th DEF Quiet, OnlyWakes, Kill, Return, Goto, At
  <2> QED
    BY <2>2, QuietWaitInv
<1>19. ASSUME NEW c \in CPUs, SetPriority(c) PROVE WaitInv'
  <2>1. Quiet
    BY <1>19, <1>st, <1>th, <1>ch, <1>run DEF Quiet, SetPriority, At, Return, Goto
  <2> QED
    BY <2>1, QuietWaitInv
<1>20. ASSUME NEW c \in CPUs, SetPriorityYield(c) PROVE WaitInv'
  <2>1. Quiet
    BY <1>20, <1>st, <1>th, <1>ch, <1>run DEF Quiet, SetPriorityYield, Yield, At, Goto
  <2> QED
    BY <2>1, QuietWaitInv
<1>21. ASSUME NEW c \in CPUs, GetPriority(c) PROVE WaitInv'
  <2>1. Quiet
    BY <1>21, <1>st, <1>th, <1>ch, <1>run DEF Quiet, GetPriority, At, Return, Goto, table
  <2> QED
    BY <2>1, QuietWaitInv
<1>22. ASSUME NEW c \in CPUs, SysSleep(c) PROVE WaitInv'
  <2>1. Quiet
    BY <1>22, <1>st, <1>th, <1>ch, <1>run DEF Quiet, SysSleep, At, Goto, table
  <2> QED
    BY <2>1, QuietWaitInv
<1>23. ASSUME NEW c \in CPUs, SysSleepSleeps(c) PROVE WaitInv'
  <2>1. Quiet
    BY <1>23, <1>st, <1>th, <1>ch, <1>run DEF Quiet, SysSleepSleeps, Sleep, At, Goto
  <2> QED
    BY <2>1, QuietWaitInv
<1>24. ASSUME NEW c \in CPUs, SysSleepWakes(c) PROVE WaitInv'
  <2>1. Quiet
    BY <1>24, <1>st, <1>th, <1>ch, <1>run DEF Quiet, SysSleepWakes
  <2> QED
    BY <2>1, QuietWaitInv
<1>25. ASSUME NEW c \in CPUs, SysSleepReturns(c) PROVE WaitInv'
  <2>1. Quiet
    BY <1>25, <1>st, <1>th, <1>ch, <1>run DEF Quiet, SysSleepReturns, At, Return, Goto, table
  <2> QED
    BY <2>1, QuietWaitInv
<1>26. ASSUME TimerWhileIdle PROVE WaitInv'
  <2>1. OnlyWakes(state, state')
    BY <1>26, <1>st, ProcConstants, TimerOnlyWakes
  <2>2. Quiet
    BY <1>26, <2>1, <1>th DEF Quiet, OnlyWakes, TimerWhileIdle
  <2> QED
    BY <2>2, QuietWaitInv
<1>27. ASSUME UNCHANGED vars PROVE WaitInv'
  BY <1>27 DEF vars, WaitInv, NoMissedWakeup, Children
<1> QED
  BY <1>1, <1>2, <1>3, <1>4, <1>5, <1>6, <1>7, <1>8, <1>9, <1>10, <1>11,
     <1>12, <1>13, <1>14, <1>15, <1>16, <1>17, <1>18, <1>19, <1>20, <1>21,
     <1>22, <1>23, <1>24, <1>25, <1>26, <1>27 DEF Next, Kernel, Syscall

-----------------------------------------------------------------------------
\* Exit statuses

\* A step that touches no pid and no status.
BooksKept == UNCHANGED <<pid, nextpid, exit_status, passed, got>>

\* Only allocating, exiting and reaping touch them.
LEMMA StepBooks ==
  ASSUME Next
  PROVE  BooksKept \/ Reaps \/ \E c \in CPUs : Allocates(c) \/ Exit(c)
<1> USE DEF BooksKept
<1>1. ASSUME NEW c \in CPUs, Dispatch(c) \/ ForkRet(c) \/ YieldReturn(c) \/ TrapReturn(c) PROVE BooksKept
  BY <1>1 DEF Dispatch, ForkRet, YieldReturn, TrapReturn, table
<1>2. ASSUME NEW c \in CPUs, TimerInterrupt(c) \/ TimerExit(c) \/ TimerYield(c) PROVE BooksKept
  BY <1>2 DEF TimerInterrupt, TimerExit, TimerYield, Yield, table
<1>3. ASSUME NEW c \in CPUs, ForkFails(c) \/ ForkCopy(c) \/ ForkRun(c) \/ ExitPanic(c) PROVE BooksKept
  BY <1>3 DEF ForkFails, ForkCopy, ForkRun, ExitPanic, table
<1>4. ASSUME NEW c \in CPUs, SetPriorityYield(c) \/ SysSleepSleeps(c) \/ SysSleepWakes(c) \/ SysSleepReturns(c)
      PROVE  BooksKept
  BY <1>4 DEF SetPriorityYield, Yield, SysSleepSleeps, Sleep, SysSleepWakes, SysSleepReturns, table
<1>5. ASSUME NEW c \in CPUs, SyscallEntry(c) \/ SysExit(c) \/ Kill(c) PROVE BooksKept
  BY <1>5 DEF SyscallEntry, SysExit, Kill, table
<1>6. ASSUME NEW c \in CPUs, SetPriority(c) \/ GetPriority(c) \/ SysSleep(c) PROVE BooksKept
  BY <1>6 DEF SetPriority, GetPriority, SysSleep, table
<1>7. ASSUME NEW c \in CPUs, AllocProc(c) PROVE BooksKept \/ Allocates(c)
  <2>1. PICK p \in Slots : AllocProc(c)!(p)
    BY <1>7 DEF AllocProc
  <2>2. CASE \E np \in Slots : state[np] = "UNUSED" /\ TakeSlot(np)
    BY <1>7, <2>2 DEF Allocates
  <2>3. CASE UNCHANGED <<state, pid, nextpid>>
    BY <2>1, <2>3
  <2> QED
    BY <2>1, <2>2, <2>3 DEF IsFirst
<1>8. ASSUME NEW c \in CPUs, Wait(c) PROVE BooksKept \/ Reaps
  <2>1. PICK p \in Slots : Wait(c)!(p)
    BY <1>8 DEF Wait
  <2>2. pc[p] \notin Special
    BY <2>1 DEF InLoop, At, Special
  <2>3. CASE NothingToReap(p)
    BY <2>3 DEF NothingToReap
  <2>4. CASE \E q \in Slots : state[q] = "ZOMBIE" /\ Reap(p, q)
    BY <2>2, <2>4 DEF Reaps
  <2>5. CASE Sleep(c, p, p)
    BY <2>5 DEF Sleep
  <2> QED
    BY <2>1, <2>3, <2>4, <2>5 DEF Children
<1>9. ASSUME NEW c \in CPUs, Waitpid(c) PROVE BooksKept \/ Reaps
  <2>1. PICK p \in Slots, n \in 0 .. MaxPid : Waitpid(c)!(p, n)
    BY <1>9 DEF Waitpid
  <2>2. pc[p] \notin Special
    BY <2>1 DEF InLoop, At, Special
  <2>3. CASE NothingToReap(p)
    BY <2>3 DEF NothingToReap
  <2>4. CASE \E q \in Slots : state[q] = "ZOMBIE" /\ Reap(p, q)
    BY <2>2, <2>4 DEF Reaps
  <2>5. ASSUME NEW ch, Sleep(c, p, ch) PROVE BooksKept
    BY <2>5 DEF Sleep
  <2> QED
    BY <2>1, <2>3, <2>4, <2>5 DEF WithPid
<1>10. ASSUME TimerWhileIdle PROVE BooksKept
  BY <1>10 DEF TimerWhileIdle
<1>11. ASSUME UNCHANGED vars PROVE BooksKept
  BY <1>11 DEF vars
<1> QED
  BY <1>1, <1>2, <1>3, <1>4, <1>5, <1>6, <1>7, <1>8, <1>9, <1>10, <1>11 DEF Next, Kernel, Syscall

\* Every step keeps the statuses of the dead with their pids.
LEMMA StepStatusInv ==
  ASSUME TypeOK, CpuExclusive, ForkInv, PidInv, StatusInv, Next
  PROVE  StatusInv'
<1>ty. /\ state \in [Slots -> States] /\ pid \in [Slots -> 0 .. MaxPid] /\ exit_status \in [Slots -> Int]
       /\ nextpid \in 1 .. MaxPid + 1 /\ passed \in [1 .. MaxPid -> Int] /\ got \in [1 .. MaxPid -> Int]
  BY DEF TypeOK, TableType, ThreadType
<1>mp. MaxPid \in Nat
  BY ProcConstants
<1>fk. \A p \in Slots : Forking(p) => arg[p] \in Slots /\ state[arg[p]] = "EMBRYO"
  BY DEF TypeOK, ForkArgs, ForkInv, Forking
<1>si. /\ \A i \in 1 .. MaxPid : got[i] # NoStatus => got[i] = passed[i]
       /\ \A p \in Slots : state[p] # "UNUSED" => pid[p] # 0
       /\ \A p \in Slots : state[p] = "ZOMBIE" => exit_status[p] = passed[pid[p]]
       /\ \A i \in 1 .. MaxPid : got[i] # NoStatus => i < nextpid /\ \A p \in Slots : pid[p] # i
  BY DEF StatusInv, StatusDelivered
<1>un. \A p, q \in Slots : p # q /\ pid[p] # 0 => pid[p] # pid[q]
  BY DEF PidInv, PidsUnique
<1>0. ASSUME BooksKept,
             \A q \in Slots : state[q] = "UNUSED" => state'[q] = "UNUSED",
             \A q \in Slots : state'[q] = "ZOMBIE" => state[q] = "ZOMBIE"
      PROVE  StatusInv'
  BY <1>0, <1>si DEF BooksKept, StatusInv, StatusDelivered
<1>1. CASE GoesOn /\ BooksKept
  <2>1. \A q \in Slots : state[q] \notin Live \/ state'[q] \notin Live => state'[q] = state[q]
    BY <1>1 DEF GoesOn
  <2> QED
    BY <1>0, <1>1, <2>1 DEF Live
<1>2. ASSUME NEW c \in CPUs, ForkFails(c) \/ ForkRun(c) \/ ForkCopy(c) PROVE StatusInv'
  <2>1. BooksKept
    BY <1>2 DEF ForkFails, ForkCopy, ForkRun, BooksKept
  <2>2. /\ \A q \in Slots : state[q] = "UNUSED" => state'[q] = "UNUSED"
        /\ \A q \in Slots : state'[q] = "ZOMBIE" => state[q] = "ZOMBIE"
    <3>1. CASE ForkCopy(c)
      BY <3>1 DEF ForkCopy
    <3>2. CASE ForkFails(c)
      <4>1. PICK p \in Slots : pc[p] = "fork_copy" /\ state' = [state EXCEPT ![arg[p]] = "UNUSED"]
        BY <3>2, ForkFailsChanges
      <4> QED
        BY <4>1, <1>fk, <1>ty DEF Forking
    <3>3. CASE ForkRun(c)
      <4>1. PICK p \in Slots : pc[p] = "fork_run" /\ state' = [state EXCEPT ![arg[p]] = "RUNNABLE"]
        BY <3>3, ForkRunChanges
      <4> QED
        BY <4>1, <1>fk, <1>ty DEF Forking
    <3> QED
      BY <1>2, <3>1, <3>2, <3>3
  <2> QED
    BY <1>0, <2>1, <2>2
<1>3. ASSUME NEW c \in CPUs, Allocates(c) PROVE StatusInv'
  <2>1. PICK p \in Slots : AllocProc(c)!(p)
    BY <1>3 DEF Allocates, AllocProc
  <2>2. \E np \in Slots : state[np] = "UNUSED"
    BY <1>3 DEF Allocates
  <2>3. PICK np \in Slots : IsFirst(np, {q \in Slots : state[q] = "UNUSED"}) /\ TakeSlot(np)
    BY <2>1, <2>2
  <2>4. exit_status' = exit_status /\ passed' = passed /\ got' = got /\ nextpid <= MaxPid
    BY <2>1
  <2>5. /\ state'[np] = "EMBRYO" /\ \A q \in Slots \ {np} : state'[q] = state[q]
        /\ pid'[np] = nextpid /\ \A q \in Slots \ {np} : pid'[q] = pid[q]
        /\ nextpid' = nextpid + 1
    BY <1>ty, <2>3 DEF TakeSlot
  <2>6. \A i \in 1 .. MaxPid : got[i] # NoStatus => i < nextpid + 1 /\ i # nextpid
    BY <1>si, <1>ty
  <2>7. \A i \in 1 .. MaxPid : got'[i] # NoStatus => i < nextpid' /\ \A q \in Slots : pid'[q] # i
    BY <1>si, <2>4, <2>5, <2>6
  <2>8. \A q \in Slots : state'[q] # "UNUSED" => pid'[q] # 0
    BY <1>si, <1>ty, <2>5
  <2>9. \A q \in Slots : state'[q] = "ZOMBIE" => exit_status'[q] = passed'[pid'[q]]
    BY <1>si, <2>4, <2>5
  <2> QED
    BY <1>si, <2>4, <2>7, <2>8, <2>9 DEF StatusInv, StatusDelivered
<1>4. ASSUME NEW c \in CPUs, Exit(c) PROVE StatusInv'
  <2>1. PICK p \in Slots \ {InitProc} : Exit(c)!(p)
    BY <1>4 DEF Exit
  <2>2. OnlyWakes(state, ExitWakes(p))
    BY <1>ty, ExitOnlyWakes
  <2>3. /\ state'[p] = "ZOMBIE"
        /\ \A q \in Slots \ {p} : state'[q] # state[q] => state[q] = "SLEEPING" /\ state'[q] = "RUNNABLE"
    BY <2>1, <2>2 DEF OnlyWakes
  <2>4. state[p] = "RUNNING"
    BY <2>1, ProcConstants DEF At, CpuExclusive, Slots
  <2>5. pid[p] \in 1 .. MaxPid
    BY <1>si, <1>ty, <1>mp, <2>4
  <2>6. /\ pid' = pid /\ nextpid' = nextpid /\ got' = got
        /\ exit_status'[p] = arg[p] /\ \A q \in Slots \ {p} : exit_status'[q] = exit_status[q]
        /\ passed'[pid[p]] = arg[p] /\ \A i \in (1 .. MaxPid) \ {pid[p]} : passed'[i] = passed[i]
    BY <1>ty, <2>1, <2>5 DEF StoreStatus
  <2>7. \A i \in 1 .. MaxPid : got'[i] # NoStatus => got'[i] = passed'[i]
    BY <1>si, <2>6
  <2>8. \A q \in Slots : state'[q] # "UNUSED" => pid'[q] # 0
    BY <1>si, <2>3, <2>4, <2>6
  <2>9. ASSUME NEW q \in Slots, state'[q] = "ZOMBIE" PROVE exit_status'[q] = passed'[pid'[q]]
    <3>1. CASE q = p
      BY <2>6, <3>1
    <3>2. CASE q # p
      <4>1. state[q] = "ZOMBIE"
        BY <2>3, <2>9, <3>2
      <4>2. pid[q] \in (1 .. MaxPid) \ {pid[p]}
        BY <1>si, <1>ty, <1>mp, <1>un, <3>2, <4>1
      <4> QED
        BY <1>si, <2>6, <3>2, <4>1, <4>2
    <3> QED
      BY <3>1, <3>2
  <2>10. \A i \in 1 .. MaxPid : got'[i] # NoStatus => i < nextpid' /\ \A q \in Slots : pid'[q] # i
    BY <1>si, <2>6
  <2> QED
    BY <2>7, <2>8, <2>9, <2>10 DEF StatusInv, StatusDelivered
<1>5. CASE Reaps
  <2>1. PICK p \in Slots, q \in Slots : state[q] = "ZOMBIE" /\ Reap(p, q)
    BY <1>5 DEF Reaps
  <2>2. pid[q] \in 1 .. MaxPid
    BY <1>si, <1>ty, <1>mp, <2>1
  <2>3. /\ state'[q] = "UNUSED" /\ \A x \in Slots \ {q} : state'[x] = state[x]
        /\ pid'[q] = 0 /\ \A x \in Slots \ {q} : pid'[x] = pid[x]
        /\ got'[pid[q]] = exit_status[q] /\ \A i \in (1 .. MaxPid) \ {pid[q]} : got'[i] = got[i]
        /\ exit_status' = exit_status /\ passed' = passed /\ nextpid' = nextpid
    BY <1>ty, <2>1, <2>2 DEF Reap
  <2>4. exit_status[q] = passed[pid[q]]
    BY <1>si, <2>1
  <2>5. \A i \in 1 .. MaxPid : got'[i] # NoStatus => got'[i] = passed'[i]
    BY <1>si, <2>3, <2>4
  <2>6. \A x \in Slots : state'[x] # "UNUSED" => pid'[x] # 0
    BY <1>si, <2>3
  <2>7. \A x \in Slots : state'[x] = "ZOMBIE" => exit_status'[x] = passed'[pid'[x]]
    BY <1>si, <2>3
  <2>8. ASSUME NEW i \in 1 .. MaxPid, got'[i] # NoStatus
        PROVE  i < nextpid' /\ \A x \in Slots : pid'[x] # i
    <3>1. CASE i = pid[q]
      <4>1. i < nextpid
        BY <3>1 DEF PidInv
      <4>2. \A x \in Slots : pid'[x] # i
        BY <1>un, <2>2, <2>3, <3>1
      <4> QED
        BY <2>3, <4>1, <4>2
    <3>2. CASE i # pid[q]
      BY <1>si, <2>3, <2>8, <3>2
    <3> QED
      BY <3>1, <3>2
  <2> QED
    BY <2>5, <2>6, <2>7, <2>8 DEF StatusInv, StatusDelivered
<1> QED
  BY <1>1, <1>2, <1>3, <1>4, <1>5, StepKinds, StepBooks

-----------------------------------------------------------------------------
\* The theorems

\* IndInv is an inductive invariant of the process table.
THEOREM Invariance == Spec => []IndInv
<1>1. IndInv /\ [Next]_vars => IndInv'
  <2> SUFFICES ASSUME IndInv, [Next]_vars PROVE IndInv'
    OBVIOUS
  <2>1. CASE UNCHANGED vars
    <3>1. TypeOK'
      BY <2>1 DEF vars, IndInv, TypeOK, TableType, CpuType, ThreadType, ForkArgs
    <3>2. CpuExclusive' /\ PidInv'
      BY <2>1 DEF vars, IndInv, CpuExclusive, PidInv, PidsUnique
    <3>3. ForkInv' /\ ParentInv'
      BY <2>1 DEF vars, IndInv, ForkInv, EmbryoOwned, Forking, ParentInv
    <3>4. WaitInv'
      BY <2>1 DEF vars, IndInv, WaitInv, NoMissedWakeup, Children
    <3>5. StatusInv'
      BY <2>1 DEF vars, IndInv, StatusInv, StatusDelivered
    <3> QED
      BY <3>1, <3>2, <3>3, <3>4, <3>5 DEF IndInv
  <2>2. CASE Next
    <3>1. TypeOK'
      BY <2>2, StepTableType, StepCpuType, StepThreadType, StepForkArgs DEF IndInv, TypeOK
    <3>2. CpuExclusive' /\ PidInv'
      BY <2>2, StepCpuExclusive, StepPidInv DEF IndInv
    <3>3. ForkInv' /\ ParentInv'
      BY <2>2, StepForkInv, StepParentInv DEF IndInv
    <3>4. WaitInv'
      BY <2>2, StepWaitInv DEF IndInv
    <3>5. StatusInv'
      BY <2>2, StepStatusInv DEF IndInv
    <3> QED
      BY <3>1, <3>2, <3>3, <3>4, <3>5 DEF IndInv
  <2> QED
    BY <2>1, <2>2
<1> QED
  BY <1>1, InitIndInv, PTL DEF Spec

\* Every variable keeps its type; in particular scheduler()'s cursor never
\* leaves the table.
THEOREM TypeCorrect == Spec => []TypeOK
<1>1. IndInv => TypeOK
  BY DEF IndInv
<1> QED
  BY <1>1, Invariance, PTL

\* No two CPUs ever run the same process, and every RUNNING process is on a
\* CPU, however scheduler(), sleep(), yield(), kill() and exit() interleave.
THEOREM OneCpuPerProcess == Spec => []CpuExclusive
<1>1. IndInv => CpuExclusive
  BY DEF IndInv
<1> QED
  BY <1>1, Invariance, PTL

\* No two slots ever carry the same pid.
THEOREM UniquePids == Spec => []PidsUnique
<1>1. IndInv => PidsUnique
  BY DEF IndInv, PidInv
<1> QED
  BY <1>1, Invariance, PTL

\* Every process but init has a live parent, whoever exits, is killed or is
\* reaped by whom.
THEOREM LiveParents == Spec => []ParentsAlive
<1>1. IndInv => ParentsAlive
  BY DEF IndInv, ParentInv, ParentsAlive, TypeOK, TableType, Slots
<1> QED
  BY <1>1, Invariance, PTL

\* No slot is lost in EMBRYO and no two forks share one.
THEOREM NoLostSlot == Spec => []EmbryoOwned
<1>1. IndInv => EmbryoOwned
  BY DEF IndInv, ForkInv
<1> QED
  BY <1>1, Invariance, PTL

\* A process asleep in wait() never has a zombie child.
THEOREM WaitMissesNothing == Spec => []NoMissedWakeup
<1>1. IndInv => NoMissedWakeup
  BY DEF IndInv, WaitInv
<1> QED
  BY <1>1, Invariance, PTL

\* wait() and waitpid() hand out for a pid the status that process gave to
\* exit(), however often its slot is reused and whatever forks fail.
THEOREM StatusIsDelivered == Spec => []StatusDelivered
<1>1. IndInv => StatusDelivered
  BY DEF IndInv, StatusInv
<1> QED
  BY <1>1, Invariance, PTL

\* A zombie can only be freed, and a free slot only be allocated.
THEOREM DeadStaysDead == Spec => ZombieStaysDead
<1> DEFINE Dead == \A p \in Slots :
             /\ state[p] = "ZOMBIE" => state'[p] \in {"ZOMBIE", "UNUSED"}
             /\ state[p] = "UNUSED" => state'[p] \in {"UNUSED", "EMBRYO"}
<1>1. IndInv /\ [Next]_vars => [Dead]_vars
  <2> SUFFICES ASSUME IndInv, Next PROVE Dead
    OBVIOUS
  <2>st. TypeOK /\ CpuExclusive /\ ForkInv /\ state \in [Slots -> States]
    BY DEF IndInv, TypeOK, TableType
  <2>fk. \A p \in Slots : Forking(p) => arg[p] \in Slots /\ state[arg[p]] = "EMBRYO"
    BY <2>st DEF TypeOK, ForkArgs, ForkInv, Forking
  <2>1. CASE GoesOn
    BY <2>1 DEF GoesOn, Live
  <2>2. CASE Reaps
    BY <2>2, <2>st, ReapsChanges
  <2>3. ASSUME NEW c \in CPUs, Allocates(c) PROVE Dead
    BY <2>3, <2>st, AllocatesChanges
  <2>4. ASSUME NEW c \in CPUs, ForkFails(c) PROVE Dead
    BY <2>4, <2>st, <2>fk, ForkFailsChanges DEF Forking
  <2>5. ASSUME NEW c \in CPUs, ForkCopy(c) PROVE Dead
    BY <2>5, ForkCopyChanges
  <2>6. ASSUME NEW c \in CPUs, ForkRun(c) PROVE Dead
    BY <2>6, <2>st, <2>fk, ForkRunChanges DEF Forking
  <2>7. ASSUME NEW c \in CPUs, Exit(c) PROVE Dead
    BY <2>7, <2>st, ExitChanges
  <2> QED
    BY <2>1, <2>2, <2>3, <2>4, <2>5, <2>6, <2>7, <2>st, StepKinds
<1> QED
  BY <1>1, Invariance, PTL DEF Spec, ZombieStaysDead
=============================================================================
