----------------------------- MODULE LogProofs -----------------------------
(***************************************************************************)
(* Proofs about Log for every set of threads and blocks and every size of  *)
(* the log.                                                                *)
(*                                                                         *)
(* IndInv is inductive as long as the log fits into its area (LogFits);    *)
(* under it the steps of Log are steps of AtomicDisk.  RoomInv bounds what *)
(* the log holds, so that it does fit when calls take fewer blocks than    *)
(* begin_op() reserves.                                                    *)
(***************************************************************************)
EXTENDS Log, Facts

\* Whatever bread() finds is the value of a block.
LEMMA ContentType ==
  ASSUME TypeOK, NEW b \in Blocks
  PROVE  Content(b) \in Values
  BY DEF Content, TypeOK, DiskType, MemoryType

\* The calls in progress can be counted, and counting one more or one less
\* changes the count by one.
LEMMA ActiveCount ==
  ASSUME NEW S \in SUBSET Threads, NEW t \in Threads
  PROVE  /\ Cardinality(S) \in Nat
         /\ t \notin S => Cardinality(S \cup {t}) = Cardinality(S) + 1
         /\ t \in S => Cardinality(S \ {t}) = Cardinality(S) - 1
         /\ Cardinality(S) = 0 <=> S = {}
<1>1. IsFiniteSet(S)
  BY FS_Subset, LogConstants
<1> QED
  BY <1>1, FS_CardinalityType, FS_AddElement, FS_RemoveElement, FS_EmptySet

\* Init satisfies the invariant.
LEMMA InitIndInv == Init => IndInv
<1> SUFFICES ASSUME Init PROVE IndInv
  OBVIOUS
<1>1. TypeOK
  BY LogConstants DEF Init, TypeOK, DiskType, MemoryType, ThreadType, PCs, CommitPCs
<1>2. ShapeInv
  BY LogConstants DEF Init, ShapeInv, Once
<1>3. Active = {}
  BY DEF Init, Active
<1>4. CallInv
  BY <1>3, FS_EmptySet DEF Init, CallInv, OutstandingCounts
<1>5. CacheInv
  BY DEF Init, CacheInv, CleanIsOnDisk, Content
<1>6. CommitInv
  BY DEF Init, CommitInv
<1> QED
  BY <1>1, <1>2, <1>4, <1>5, <1>6 DEF IndInv

\* Every step keeps blocks and headers in their types.
LEMMA StepDiskType ==
  ASSUME IndInv, LogFits, Next
  PROVE  DiskType'
<1>ty. DiskType /\ MemoryType /\ ThreadType
  BY DEF IndInv, TypeOK
<1>ct. \A x \in Blocks : Content(x) \in Values
  BY ContentType DEF IndInv
<1> USE DEF DiskType
<1>1. ASSUME NEW t \in Threads, BeginOp(t) PROVE DiskType'
  BY <1>1, <1>ty DEF BeginOp
<1>2. ASSUME NEW t \in Threads, BeginOpSleeps(t) PROVE DiskType'
  BY <1>2, <1>ty DEF BeginOpSleeps
<1>3. ASSUME NEW t \in Threads, NEW b \in Blocks, NEW v \in Values, Modify(t, b, v) PROVE DiskType'
  BY <1>3, <1>ty DEF Modify
<1>4. ASSUME NEW t \in Threads, LogWriteCheck(t) PROVE DiskType'
  BY <1>4, <1>ty DEF LogWriteCheck
<1>5. ASSUME NEW t \in Threads, LogWrite(t) PROVE DiskType'
  <2>1. buf[t] \in Blocks
    BY <1>5, <1>ty DEF LogWrite, IndInv, ShapeInv, ThreadType
  <2> QED
    BY <1>5, <1>ty, <2>1 DEF LogWrite, Record
<1>6. ASSUME NEW t \in Threads, EndOp(t) PROVE DiskType'
  BY <1>6, <1>ty DEF EndOp, EndOpWakes, Wakeup
<1>7. ASSUME NEW t \in Threads, CommitDone(t) PROVE DiskType'
  BY <1>7, <1>ty DEF CommitDone, CommitWakes, Wakeup
<1>8. ASSUME WriteLog PROVE DiskType'
  <2>1. lh[tail + 1] \in Blocks
    BY <1>8, <1>ty DEF WriteLog, IndInv, CommitInv, ThreadType
  <2>2. Content(lh[tail + 1]) \in Values
    BY <2>1, <1>ct
  <2> QED
    BY <1>8, <1>ty, <2>2 DEF WriteLog, LogSlots
<1>9. ASSUME WriteHead PROVE DiskType'
  BY <1>9, <1>ty DEF WriteHead
<1>10. ASSUME InstallTrans PROVE DiskType'
  <2>1. LogContent(tail + 1) \in Values
    BY <1>ty, <1>ct, LogConstants DEF LogContent, LogSlots, ThreadType
  <2> QED
    BY <1>10, <1>ty, <2>1 DEF InstallTrans
<1>11. ASSUME ClearLog PROVE DiskType'
  BY <1>11, <1>ty DEF ClearLog
<1>12. ASSUME ReadHead PROVE DiskType'
  BY <1>12, <1>ty DEF ReadHead, ReadHeadBlocks
<1>13. ASSUME NEW b \in Blocks, Load(b) PROVE DiskType'
  BY <1>13, <1>ty DEF Load
<1>14. ASSUME NEW b \in Blocks, Recycle(b) PROVE DiskType'
  BY <1>14, <1>ty DEF Recycle
<1>15. ASSUME Crash PROVE DiskType'
  BY <1>15, <1>ty DEF Crash
<1> QED
  BY <1>1, <1>2, <1>3, <1>4, <1>5, <1>6, <1>7, <1>8, <1>9, <1>10, <1>11,
     <1>12, <1>13, <1>14, <1>15 DEF Next, CallStep, CommitStep

\* Every step keeps the log's counters and the cache in their types.
LEMMA StepMemoryType ==
  ASSUME IndInv, LogFits, Next
  PROVE  MemoryType'
<1>ty. DiskType /\ MemoryType /\ ThreadType
  BY DEF IndInv, TypeOK
<1>ct. \A x \in Blocks : Content(x) \in Values
  BY ContentType DEF IndInv
<1> USE DEF MemoryType
<1>1. ASSUME NEW t \in Threads, BeginOp(t) PROVE MemoryType'
  BY <1>1, <1>ty DEF BeginOp, Admit
<1>2. ASSUME NEW t \in Threads, BeginOpSleeps(t) PROVE MemoryType'
  BY <1>2, <1>ty DEF BeginOpSleeps
<1>3. ASSUME NEW t \in Threads, NEW b \in Blocks, NEW v \in Values, Modify(t, b, v) PROVE MemoryType'
  BY <1>3, <1>ty, LogConstants DEF Modify
<1>4. ASSUME NEW t \in Threads, LogWriteCheck(t) PROVE MemoryType'
  BY <1>4, <1>ty DEF LogWriteCheck
<1>5. ASSUME NEW t \in Threads, LogWrite(t) PROVE MemoryType'
  <2>1. buf[t] \in Blocks
    BY <1>5, <1>ty DEF LogWrite, IndInv, ShapeInv, ThreadType
  <2> QED
    BY <1>5, <1>ty, <2>1 DEF LogWrite, Record
<1>6. ASSUME NEW t \in Threads, EndOp(t) PROVE MemoryType'
  <2>1. t \in Active
    BY <1>6 DEF EndOp, Active
  <2>2. Cardinality(Active) \in Nat /\ Cardinality(Active) # 0
    BY <2>1, ActiveCount DEF Active
  <2>3. outstanding = Cardinality(Active)
    BY DEF IndInv, CallInv, OutstandingCounts
  <2> QED
    BY <1>6, <1>ty, <2>2, <2>3 DEF EndOp
<1>7. ASSUME NEW t \in Threads, CommitDone(t) PROVE MemoryType'
  BY <1>7, <1>ty DEF CommitDone, CommitWakes, Wakeup
<1>8. ASSUME WriteLog PROVE MemoryType'
  <2>1. lh[tail + 1] \in Blocks
    BY <1>8, <1>ty DEF WriteLog, IndInv, CommitInv, DiskType, ThreadType
  <2>2. Content(lh[tail + 1]) \in Values
    BY <2>1, <1>ct
  <2> QED
    BY <1>8, <1>ty, <2>2 DEF WriteLog
<1>9. ASSUME WriteHead PROVE MemoryType'
  BY <1>9, <1>ty DEF WriteHead
<1>10. ASSUME InstallTrans PROVE MemoryType'
  <2>1. LogContent(tail + 1) \in Values
    BY <1>ty, <1>ct, LogConstants DEF LogContent, LogSlots, ThreadType, DiskType
  <2> QED
    BY <1>10, <1>ty, <2>1 DEF InstallTrans
<1>11. ASSUME ClearLog PROVE MemoryType'
  BY <1>11, <1>ty DEF ClearLog
<1>12. ASSUME ReadHead PROVE MemoryType'
  BY <1>12, <1>ty DEF ReadHead, ReadHeadBlocks
<1>13. ASSUME NEW b \in Blocks, Load(b) PROVE MemoryType'
  BY <1>13, <1>ty, <1>ct DEF Load
<1>14. ASSUME NEW b \in Blocks, Recycle(b) PROVE MemoryType'
  BY <1>14, <1>ty DEF Recycle
<1>15. ASSUME Crash PROVE MemoryType'
  BY <1>15, <1>ty DEF Crash
<1> QED
  BY <1>1, <1>2, <1>3, <1>4, <1>5, <1>6, <1>7, <1>8, <1>9, <1>10, <1>11,
     <1>12, <1>13, <1>14, <1>15 DEF Next, CallStep, CommitStep

\* Every step keeps the threads' and the commit's variables in their types.
LEMMA StepThreadType ==
  ASSUME IndInv, LogFits, Next
  PROVE  ThreadType'
<1>ty. DiskType /\ MemoryType /\ ThreadType
  BY DEF IndInv, TypeOK
<1>ct. \A x \in Blocks : Content(x) \in Values
  BY ContentType DEF IndInv
<1> USE DEF ThreadType, PCs, CommitPCs
<1>1. ASSUME NEW t \in Threads, BeginOp(t) PROVE ThreadType'
  BY <1>1, <1>ty DEF BeginOp
<1>2. ASSUME NEW t \in Threads, BeginOpSleeps(t) PROVE ThreadType'
  BY <1>2, <1>ty DEF BeginOpSleeps
<1>3. ASSUME NEW t \in Threads, NEW b \in Blocks, NEW v \in Values, Modify(t, b, v) PROVE ThreadType'
  BY <1>3, <1>ty DEF Modify
<1>4. ASSUME NEW t \in Threads, LogWriteCheck(t) PROVE ThreadType'
  BY <1>4, <1>ty DEF LogWriteCheck
<1>5. ASSUME NEW t \in Threads, LogWrite(t) PROVE ThreadType'
  <2>1. buf[t] \in Blocks
    BY <1>5, <1>ty DEF LogWrite, IndInv, ShapeInv
  <2> QED
    BY <1>5, <1>ty, <2>1 DEF LogWrite
<1>6. ASSUME NEW t \in Threads, EndOp(t) PROVE ThreadType'
  BY <1>6, <1>ty DEF EndOp, EndOpWakes, Wakeup
<1>7. ASSUME NEW t \in Threads, CommitDone(t) PROVE ThreadType'
  BY <1>7, <1>ty DEF CommitDone, CommitWakes, Wakeup
<1>8. ASSUME WriteLog PROVE ThreadType'
  BY <1>8, <1>ty DEF WriteLog, Turn
<1>9. ASSUME WriteHead PROVE ThreadType'
  BY <1>9, <1>ty DEF WriteHead
<1>10. ASSUME InstallTrans PROVE ThreadType'
  BY <1>10, <1>ty DEF InstallTrans, Turn
<1>11. ASSUME ClearLog PROVE ThreadType'
  BY <1>11, <1>ty DEF ClearLog
<1>12. ASSUME ReadHead PROVE ThreadType'
  BY <1>12, <1>ty DEF ReadHead, ReadHeadBlocks
<1>13. ASSUME NEW b \in Blocks, Load(b) PROVE ThreadType'
  BY <1>13, <1>ty DEF Load
<1>14. ASSUME NEW b \in Blocks, Recycle(b) PROVE ThreadType'
  BY <1>14, <1>ty DEF Recycle
<1>15. ASSUME Crash PROVE ThreadType'
  BY <1>15, <1>ty DEF Crash
<1> QED
  BY <1>1, <1>2, <1>3, <1>4, <1>5, <1>6, <1>7, <1>8, <1>9, <1>10, <1>11,
     <1>12, <1>13, <1>14, <1>15 DEF Next, CallStep, CommitStep

\* Every step keeps the headers free of repetitions and the buffer locks with
\* the threads that use them.
LEMMA StepShapeInv ==
  ASSUME IndInv, LogFits, Next
  PROVE  ShapeInv'
<1>ty. DiskType /\ MemoryType /\ ThreadType
  BY DEF IndInv, TypeOK
<1>ct. \A x \in Blocks : Content(x) \in Values
  BY ContentType DEF IndInv
<1>sh. ShapeInv
  BY DEF IndInv
<1> USE DEF ShapeInv
<1>1. ASSUME NEW t \in Threads, BeginOp(t) PROVE ShapeInv'
  BY <1>1, <1>ty, <1>sh DEF BeginOp, ThreadType, Once, InBeginOp
<1>2. ASSUME NEW t \in Threads, BeginOpSleeps(t) PROVE ShapeInv'
  BY <1>2, <1>ty, <1>sh DEF BeginOpSleeps, ThreadType, Once, InBeginOp
<1>3. ASSUME NEW t \in Threads, NEW b \in Blocks, NEW v \in Values, Modify(t, b, v) PROVE ShapeInv'
  BY <1>3, <1>ty, <1>sh, LogConstants DEF Modify, ThreadType, Once
<1>4. ASSUME NEW t \in Threads, LogWriteCheck(t) PROVE ShapeInv'
  BY <1>4, <1>ty, <1>sh DEF LogWriteCheck, ThreadType, Once
<1>5. ASSUME NEW t \in Threads, LogWrite(t) PROVE ShapeInv'
  <2>1. buf[t] \in Blocks
    BY <1>5, <1>ty, <1>sh DEF LogWrite, ThreadType
  <2>2. Once(lh')
    BY <1>5, <1>ty, <1>sh, <2>1 DEF LogWrite, Record, Once, DiskType
  <2> QED
    BY <1>5, <1>ty, <1>sh, <2>2 DEF LogWrite, ThreadType, Once
<1>6. ASSUME NEW t \in Threads, EndOp(t) PROVE ShapeInv'
  BY <1>6, <1>ty, <1>sh DEF EndOp, EndOpWakes, Wakeup, ThreadType, Once
<1>7. ASSUME NEW t \in Threads, CommitDone(t) PROVE ShapeInv'
  BY <1>7, <1>ty, <1>sh DEF CommitDone, CommitWakes, Wakeup, ThreadType, Once
<1>8. ASSUME WriteLog PROVE ShapeInv'
  BY <1>8, <1>ty, <1>sh DEF WriteLog, Turn, ThreadType, Once
<1>9. ASSUME WriteHead PROVE ShapeInv'
  BY <1>9, <1>sh DEF WriteHead, Once, LogFits
<1>10. ASSUME InstallTrans PROVE ShapeInv'
  BY <1>10, <1>ty, <1>sh DEF InstallTrans, Turn, ThreadType, Once
<1>11. ASSUME ClearLog PROVE ShapeInv'
  BY <1>11, <1>sh, LogConstants DEF ClearLog, Once
<1>12. ASSUME ReadHead PROVE ShapeInv'
  BY <1>12, <1>sh, LogConstants DEF ReadHead, ReadHeadBlocks, Once
<1>13. ASSUME NEW b \in Blocks, Load(b) PROVE ShapeInv'
  BY <1>13, <1>ty, <1>sh DEF Load, ThreadType, Once
<1>14. ASSUME NEW b \in Blocks, Recycle(b) PROVE ShapeInv'
  BY <1>14, <1>ty, <1>sh DEF Recycle, ThreadType, Once
<1>15. ASSUME Crash PROVE ShapeInv'
  BY <1>15, <1>sh, LogConstants DEF Crash, Once
<1> QED
  BY <1>1, <1>2, <1>3, <1>4, <1>5, <1>6, <1>7, <1>8, <1>9, <1>10, <1>11,
     <1>12, <1>13, <1>14, <1>15 DEF Next, CallStep, CommitStep

\* Every step keeps the count of calls right and calls out of commits.
LEMMA StepCallInv ==
  ASSUME IndInv, LogFits, Next
  PROVE  CallInv'
<1>ty. DiskType /\ MemoryType /\ ThreadType
  BY DEF IndInv, TypeOK
<1>ct. \A x \in Blocks : Content(x) \in Values
  BY ContentType DEF IndInv
<1>ca. CallInv
  BY DEF IndInv
<1> USE DEF CallInv, OutstandingCounts
<1>1. ASSUME NEW t \in Threads, BeginOp(t) PROVE CallInv'
  <2>1. Active' = Active \cup {t} /\ t \notin Active
    BY <1>1, <1>ty DEF BeginOp, InBeginOp, Active, ThreadType
  <2>2. Cardinality(Active') = Cardinality(Active) + 1
    BY <2>1, ActiveCount DEF Active
  <2> QED
    BY <1>1, <1>ty, <1>ca, <2>2 DEF BeginOp, InBeginOp, Admit, Recovering, ThreadType
<1>2. ASSUME NEW t \in Threads, BeginOpSleeps(t) PROVE CallInv'
  <2>1. Active' = Active
    BY <1>2, <1>ty DEF BeginOpSleeps, InBeginOp, Active, ThreadType
  <2> QED
    BY <1>2, <1>ty, <1>ca, <2>1 DEF BeginOpSleeps, InBeginOp, Recovering, ThreadType
<1>3. ASSUME NEW t \in Threads, NEW b \in Blocks, NEW v \in Values, Modify(t, b, v) PROVE CallInv'
  <2>1. Active' = Active
    BY <1>3, <1>ty DEF Modify, Active, ThreadType
  <2> QED
    BY <1>3, <1>ty, <1>ca, <2>1 DEF Modify, Recovering, ThreadType
<1>4. ASSUME NEW t \in Threads, LogWriteCheck(t) PROVE CallInv'
  <2>1. Active' = Active
    BY <1>4, <1>ty DEF LogWriteCheck, Active, ThreadType
  <2> QED
    BY <1>4, <1>ty, <1>ca, <2>1 DEF LogWriteCheck, Recovering, ThreadType
<1>5. ASSUME NEW t \in Threads, LogWrite(t) PROVE CallInv'
  <2>1. Active' = Active
    BY <1>5, <1>ty DEF LogWrite, Active, ThreadType
  <2> QED
    BY <1>5, <1>ty, <1>ca, <2>1 DEF LogWrite, Recovering, ThreadType
<1>6. ASSUME NEW t \in Threads, EndOp(t) PROVE CallInv'
  <2>1. t \in Active /\ Active \in SUBSET Threads
    BY <1>6 DEF EndOp, Active
  <2>2. /\ Cardinality(Active) \in Nat /\ Cardinality(Active) # 0
        /\ Cardinality(Active \ {t}) = Cardinality(Active) - 1
        /\ Cardinality(Active \ {t}) = 0 <=> Active \ {t} = {}
    BY <2>1, ActiveCount
  <2>3. committing = 0 /\ ~Recovering
    BY <2>1, <2>2, <1>ty, <1>ca DEF MemoryType
  <2>4. Active' = Active \ {t}
    BY <1>6, <1>ty, <2>3 DEF EndOp, EndOpWakes, Wakeup, Active, ThreadType
  <2>5. outstanding' = Cardinality(Active')
    BY <1>6, <2>2, <2>4, <1>ca DEF EndOp
  <2>6. CASE outstanding = 1
    BY <1>6, <1>ty, <1>ca, <2>1, <2>3, <2>5, <2>6 DEF EndOp, Recovering, ThreadType
  <2>7. CASE outstanding # 1
    BY <1>6, <1>ty, <1>ca, <2>1, <2>3, <2>5, <2>7 DEF EndOp, EndOpWakes, Wakeup, Recovering, ThreadType
  <2> QED
    BY <2>6, <2>7
<1>7. ASSUME NEW t \in Threads, CommitDone(t) PROVE CallInv'
  <2>1. Active' = Active
    BY <1>7, <1>ty DEF CommitDone, CommitWakes, Wakeup, Active, ThreadType
  <2>3. committing' = 0 /\ cpc' = "idle" /\ outstanding' = outstanding
    BY <1>7 DEF CommitDone
  <2>2. \A s \in Threads : pc'[s] # "commit"
    BY <1>7, <1>ty, <1>ca DEF CommitDone, CommitWakes, Wakeup, ThreadType
  <2> QED
    BY <1>ca, <2>1, <2>2, <2>3 DEF Recovering
<1>8. ASSUME WriteLog PROVE CallInv'
  BY <1>8, <1>ty, <1>ca DEF WriteLog, Turn, Active, Recovering
<1>9. ASSUME WriteHead PROVE CallInv'
  BY <1>9, <1>ty, <1>ca DEF WriteHead, Active, Recovering
<1>10. ASSUME InstallTrans PROVE CallInv'
  BY <1>10, <1>ty, <1>ca DEF InstallTrans, Turn, Active, Recovering
<1>11. ASSUME ClearLog PROVE CallInv'
  BY <1>11, <1>ty, <1>ca DEF ClearLog, Active, Recovering
<1>12. ASSUME ReadHead PROVE CallInv'
  BY <1>12, <1>ca DEF ReadHead, ReadHeadBlocks, Active, Recovering
<1>13. ASSUME NEW b \in Blocks, Load(b) PROVE CallInv'
  BY <1>13, <1>ty, <1>ca DEF Load, Active, Recovering
<1>14. ASSUME NEW b \in Blocks, Recycle(b) PROVE CallInv'
  BY <1>14, <1>ty, <1>ca DEF Recycle, Active, Recovering
<1>15. ASSUME Crash PROVE CallInv'
  <2>1. Active' = {}
    BY <1>15 DEF Crash, Active
  <2> QED
    BY <1>15, <2>1, FS_EmptySet DEF Crash
<1> QED
  BY <1>1, <1>2, <1>3, <1>4, <1>5, <1>6, <1>7, <1>8, <1>9, <1>10, <1>11,
     <1>12, <1>13, <1>14, <1>15 DEF Next, CallStep, CommitStep

\* Outside its calls and during recovery a thread holds no buffer, so every
\* clean block is then on the disk.
LEMMA NobodyLocks ==
  ASSUME IndInv, Active = {}, NEW b \in Blocks
  PROVE  ~Locked(b) /\ (b \notin dirty => Content(b) = disk[b])
<1>1. \A t \in Threads : buf[t] = NoBlock
  BY DEF IndInv, ShapeInv, Active
<1>2. ~Locked(b)
  BY <1>1, LogConstants DEF Locked
<1> QED
  BY <1>2 DEF IndInv, CacheInv, CleanIsOnDisk, MayRecycle

\* A reader's bread() and the recycling of a buffer change no content.
LEMMA LoadContent ==
  ASSUME TypeOK, NEW b \in Blocks, Load(b)
  PROVE  \A x \in Blocks : Content(x)' = Content(x)
  BY LogConstants DEF Load, Content, TypeOK, DiskType, MemoryType

\* A buffer that may be recycled is as on the disk.
LEMMA RecycleContent ==
  ASSUME TypeOK, CleanIsOnDisk, NEW b \in Blocks, Recycle(b)
  PROVE  \A x \in Blocks : Content(x)' = Content(x)
<1>1. Content(b) = disk[b]
  BY DEF Recycle, CleanIsOnDisk
<1> QED
  BY <1>1, LogConstants DEF Recycle, Content, TypeOK, DiskType, MemoryType

\* While a call runs there is neither a commit nor a recovery.
LEMMA CallsRunAlone ==
  ASSUME IndInv, Active # {}
  PROVE  cpc = "idle" /\ committing = 0
<1>1. committing = 0
  <2>1. outstanding # 0
    BY ActiveCount DEF IndInv, CallInv, OutstandingCounts, Active
  <2> QED
    BY <2>1 DEF IndInv, CallInv, OutstandingCounts, TypeOK, MemoryType
<1> QED
  BY <1>1 DEF IndInv, CallInv, Recovering

\* write_log() copies from the cache and changes nothing there.
LEMMA WriteLogContent ==
  ASSUME IndInv, LogFits, WriteLog
  PROVE  /\ tail + 1 \in 1 .. Len(lh) /\ tail + 1 \in LogSlots
         /\ lh[tail + 1] \in Blocks
         /\ logblk' = [logblk EXCEPT ![tail + 1] = Content(lh[tail + 1])]
         /\ \A x \in Blocks : Content(x)' = Content(x)
         /\ UNCHANGED <<disk, dirty>>
<1>ty. DiskType /\ MemoryType /\ ThreadType /\ Len(lh) \in Nat
  BY DEF IndInv, TypeOK, DiskType
<1>1. tail < Len(lh)
  BY DEF WriteLog, IndInv, CommitInv
<1>2. tail + 1 \in 1 .. Len(lh) /\ tail + 1 \in LogSlots /\ tail + 1 < NLOG
  BY <1>1, <1>ty, LogConstants DEF LogFits, LogSlots, ThreadType
<1>3. lh[tail + 1] \in Blocks
  BY <1>2, <1>ty DEF DiskType
<1>4. Content(lh[tail + 1]) \in Values
  BY <1>3, ContentType DEF IndInv
<1>5. /\ cache' = [cache EXCEPT ![lh[tail + 1]] = Content(lh[tail + 1])]
      /\ logblk' = [logblk EXCEPT ![tail + 1] = Content(lh[tail + 1])]
      /\ UNCHANGED <<disk, dirty>>
  BY <1>2 DEF WriteLog
<1>6. \A x \in Blocks : Content(x)' = Content(x)
  BY <1>3, <1>4, <1>5, <1>ty, LogConstants DEF Content, MemoryType
<1> QED
  BY <1>2, <1>3, <1>5, <1>6

\* install_trans() puts the next log block both into the cache and on the disk.
LEMMA InstallContent ==
  ASSUME IndInv, LogFits, InstallTrans
  PROVE  /\ tail + 1 \in 1 .. Len(lh) /\ tail + 1 \in LogSlots
         /\ lh[tail + 1] \in Blocks
         /\ disk' = [disk EXCEPT ![lh[tail + 1]] = logblk[tail + 1]]
         /\ dirty' = dirty \ {lh[tail + 1]}
         /\ \A x \in Blocks :
              Content(x)' = IF x = lh[tail + 1] THEN logblk[tail + 1] ELSE Content(x)
<1>ty. DiskType /\ MemoryType /\ ThreadType /\ Len(lh) \in Nat
  BY DEF IndInv, TypeOK, DiskType
<1>1. tail < Len(lh)
  BY DEF InstallTrans, IndInv, CommitInv
<1>2. tail + 1 \in 1 .. Len(lh) /\ tail + 1 \in LogSlots /\ tail + 1 < NLOG
  BY <1>1, <1>ty, LogConstants DEF LogFits, LogSlots, ThreadType
<1>3. lh[tail + 1] \in Blocks
  BY <1>2, <1>ty DEF DiskType
<1>4. LogContent(tail + 1) = logblk[tail + 1] /\ logblk[tail + 1] \in Values
  BY <1>2, <1>ty DEF LogContent, DiskType
<1>5. /\ cache' = [cache EXCEPT ![lh[tail + 1]] = logblk[tail + 1]]
      /\ disk' = [disk EXCEPT ![lh[tail + 1]] = logblk[tail + 1]]
      /\ dirty' = dirty \ {lh[tail + 1]}
  BY <1>4 DEF InstallTrans
<1>6. \A x \in Blocks :
        Content(x)' = IF x = lh[tail + 1] THEN logblk[tail + 1] ELSE Content(x)
  BY <1>3, <1>4, <1>5, <1>ty, LogConstants DEF Content, MemoryType, DiskType
<1> QED
  BY <1>2, <1>3, <1>5, <1>6

\* Every step keeps clean buffers equal to the disk and pins the logged ones.
LEMMA StepCacheInv ==
  ASSUME IndInv, LogFits, Next
  PROVE  CacheInv'
<1>ty. DiskType /\ MemoryType /\ ThreadType
  BY DEF IndInv, TypeOK
<1>in. ShapeInv /\ CallInv /\ CacheInv /\ CommitInv
  BY DEF IndInv
<1> USE DEF CacheInv
<1>1. ASSUME NEW t \in Threads, BeginOp(t) PROVE CacheInv'
  BY <1>1, <1>in DEF BeginOp, CleanIsOnDisk, MayRecycle, Locked, Content, Recovering
<1>2. ASSUME NEW t \in Threads, BeginOpSleeps(t) PROVE CacheInv'
  BY <1>2, <1>in DEF BeginOpSleeps, CleanIsOnDisk, MayRecycle, Locked, Content, Recovering
<1>3. ASSUME NEW t \in Threads, NEW b \in Blocks, NEW v \in Values, Modify(t, b, v) PROVE CacheInv'
  <2>1. \A x \in Blocks : x # b => Content(x)' = Content(x)
    BY <1>3 DEF Modify, Content
  <2>2. \A x \in Blocks : Locked(x) => Locked(x)'
    BY <1>3, <1>ty, <1>in, LogConstants DEF Modify, Locked, ThreadType, ShapeInv
  <2>3. Locked(b)'
    BY <1>3, <1>ty DEF Modify, Locked, ThreadType
  <2>4. CleanIsOnDisk'
    BY <1>3, <1>in, <2>1, <2>2, <2>3 DEF Modify, CleanIsOnDisk, MayRecycle
  <2> QED
    BY <1>3, <1>in, <2>4 DEF Modify, Recovering
<1>4. ASSUME NEW t \in Threads, LogWriteCheck(t) PROVE CacheInv'
  BY <1>4, <1>in DEF LogWriteCheck, CleanIsOnDisk, MayRecycle, Locked, Content, Recovering
<1>5. ASSUME NEW t \in Threads, LogWrite(t) PROVE CacheInv'
  <2>1. cpc = "idle" /\ committing = 0
    BY <1>5, CallsRunAlone DEF LogWrite, Active
  <2>2. buf[t] \in Blocks
    BY <1>5, <1>ty, <1>in DEF LogWrite, ShapeInv, ThreadType
  <2>3. \A x \in Blocks : x # buf[t] /\ Locked(x) => Locked(x)'
    BY <1>5, <1>ty DEF LogWrite, Locked, ThreadType
  <2>4. CleanIsOnDisk'
    BY <1>5, <1>in, <2>2, <2>3 DEF LogWrite, Record, CleanIsOnDisk, MayRecycle, Content
  <2>5. \A x \in dirty' : \E i \in 1 .. Len(lh') : lh'[i] = x
    <3>1. Len(lh) \in Nat /\ lh \in Seq(Blocks)
      BY <1>ty DEF DiskType
    <3>2. CASE \E i \in 1 .. Len(lh) : lh[i] = buf[t]
      BY <1>5, <1>in, <3>2 DEF LogWrite, Record
    <3>3. CASE ~ \E i \in 1 .. Len(lh) : lh[i] = buf[t]
      <4>1. lh' = Append(lh, buf[t]) /\ dirty' = dirty \cup {buf[t]}
        BY <1>5, <3>3 DEF LogWrite, Record
      <4>2. Len(lh') = Len(lh) + 1 /\ lh'[Len(lh) + 1] = buf[t]
            /\ \A i \in 1 .. Len(lh) : lh'[i] = lh[i]
        BY <4>1, <3>1, <2>2
      <4> QED
        BY <4>1, <4>2, <3>1, <1>in
    <3> QED
      BY <3>2, <3>3
  <2> QED
    BY <1>5, <2>1, <2>4, <2>5 DEF LogWrite, Recovering
<1>6. ASSUME NEW t \in Threads, EndOp(t) PROVE CacheInv'
  <2>1. cpc = "idle" /\ committing = 0
    BY <1>6, CallsRunAlone DEF EndOp, Active
  <2>2. CleanIsOnDisk'
    BY <1>6, <1>in DEF EndOp, CleanIsOnDisk, MayRecycle, Locked, Content
  <2>3. cpc' \in {"idle", "done", "write_log"} /\ ~Recovering'
    BY <1>6, <2>1 DEF EndOp, Recovering
  <2> QED
    BY <1>6, <1>in, <2>2, <2>3 DEF EndOp
<1>7. ASSUME NEW t \in Threads, CommitDone(t) PROVE CacheInv'
  <2>2. CleanIsOnDisk'
    BY <1>7, <1>in DEF CommitDone, CleanIsOnDisk, MayRecycle, Locked, Content
  <2> QED
    BY <1>7, <1>in, <2>2 DEF CommitDone, Recovering
<1>8. ASSUME WriteLog PROVE CacheInv'
  <2>1. CleanIsOnDisk'
    BY <1>8, <1>in, WriteLogContent DEF WriteLog, CleanIsOnDisk, MayRecycle, Locked
  <2>2. cpc' \in {"write_log", "write_head"} /\ committing' = 1
    BY <1>8, <1>in DEF WriteLog, Turn, CommitInv
  <2> QED
    BY <1>8, <1>in, <2>1, <2>2, WriteLogContent DEF WriteLog, Recovering
<1>9. ASSUME WriteHead PROVE CacheInv'
  <2>1. CleanIsOnDisk'
    BY <1>9, <1>in DEF WriteHead, CleanIsOnDisk, MayRecycle, Locked, Content
  <2> QED
    BY <1>9, <1>in, <2>1 DEF WriteHead, Recovering, CommitInv
<1>10. ASSUME InstallTrans PROVE CacheInv'
  <2>1. CleanIsOnDisk'
    BY <1>10, <1>in, <1>ty, InstallContent
       DEF InstallTrans, CleanIsOnDisk, MayRecycle, Locked, DiskType
  <2>2. tail' = tail + 1 /\ lh' = lh /\ tail \in Nat /\ committing' = committing
    BY <1>10, <1>ty DEF InstallTrans, Turn, ThreadType
  <2>3. \A x \in dirty' : \E i \in 1 .. Len(lh') : lh'[i] = x /\ i > tail'
    BY <1>10, <1>in, <2>2, InstallContent DEF InstallTrans
  <2>4. Recovering' => dirty' = {}
    BY <1>10, <1>in, <2>2, InstallContent DEF InstallTrans, Recovering
  <2> QED
    BY <2>1, <2>3, <2>4
<1>11. ASSUME ClearLog PROVE CacheInv'
  <2>1. CleanIsOnDisk'
    BY <1>11, <1>in DEF ClearLog, CleanIsOnDisk, MayRecycle, Locked, Content
  <2>2. dirty = {}
    BY <1>11, <1>in, <1>ty DEF ClearLog, CommitInv, ThreadType, DiskType
  <2> QED
    BY <1>11, <2>1, <2>2 DEF ClearLog
<1>12. ASSUME ReadHead PROVE CacheInv'
  <2>1. CleanIsOnDisk'
    BY <1>12, <1>in DEF ReadHead, CleanIsOnDisk, MayRecycle, Locked, Content
  <2>2. dirty = {}
    BY <1>12, <1>in DEF ReadHead, CommitInv, Recovering
  <2> QED
    BY <1>12, <2>1, <2>2 DEF ReadHead
<1>13. ASSUME NEW b \in Blocks, Load(b) PROVE CacheInv'
  <2>1. CleanIsOnDisk'
    BY <1>13, <1>in, LoadContent DEF IndInv, Load, CleanIsOnDisk, MayRecycle, Locked
  <2> QED
    BY <1>13, <1>in, <2>1 DEF Load, Recovering
<1>14. ASSUME NEW b \in Blocks, Recycle(b) PROVE CacheInv'
  <2>1. CleanIsOnDisk'
    BY <1>14, <1>in, RecycleContent DEF IndInv, Recycle, CleanIsOnDisk, MayRecycle, Locked
  <2> QED
    BY <1>14, <1>in, <2>1 DEF Recycle, Recovering
<1>15. ASSUME Crash PROVE CacheInv'
  BY <1>15 DEF Crash, CleanIsOnDisk, Content
<1> QED
  BY <1>1, <1>2, <1>3, <1>4, <1>5, <1>6, <1>7, <1>8, <1>9, <1>10, <1>11,
     <1>12, <1>13, <1>14, <1>15 DEF Next, CallStep, CommitStep

\* Every step keeps log, header and disk where commit() and recovery left them.
LEMMA StepCommitInv ==
  ASSUME IndInv, LogFits, Next
  PROVE  CommitInv'
<1>ty. DiskType /\ MemoryType /\ ThreadType
  BY DEF IndInv, TypeOK
<1>in. ShapeInv /\ CallInv /\ CacheInv /\ CommitInv
  BY DEF IndInv
<1>lh. cpc = "write_head" => lh # <<>>
  BY <1>in DEF CommitInv
<1> USE DEF CommitInv
<1>1. ASSUME NEW t \in Threads, BeginOp(t) PROVE CommitInv'
  BY <1>1, <1>in DEF BeginOp, Content
<1>2. ASSUME NEW t \in Threads, BeginOpSleeps(t) PROVE CommitInv'
  BY <1>2, <1>in DEF BeginOpSleeps, Content
<1>3. ASSUME NEW t \in Threads, NEW b \in Blocks, NEW v \in Values, Modify(t, b, v) PROVE CommitInv'
  <2>1. cpc = "idle" /\ committing = 0
    BY <1>3, CallsRunAlone DEF Modify, Active
  <2> QED
    BY <1>3, <1>in, <2>1 DEF Modify
<1>4. ASSUME NEW t \in Threads, LogWriteCheck(t) PROVE CommitInv'
  BY <1>4, <1>in DEF LogWriteCheck, Content
<1>5. ASSUME NEW t \in Threads, LogWrite(t) PROVE CommitInv'
  <2>1. cpc = "idle" /\ committing = 0
    BY <1>5, CallsRunAlone DEF LogWrite, Active
  <2> QED
    BY <1>5, <1>in, <2>1 DEF LogWrite
<1>6. ASSUME NEW t \in Threads, EndOp(t) PROVE CommitInv'
  <2>1. cpc = "idle" /\ committing = 0 /\ head = <<>>
    BY <1>6, <1>in, CallsRunAlone DEF EndOp, Active
  <2>2. lh # <<>> => 0 < Len(lh)
    BY <1>ty DEF DiskType
  <2>3. CASE outstanding = 1
    BY <1>6, <2>1, <2>2, <2>3 DEF EndOp
  <2>4. CASE outstanding # 1
    BY <1>6, <2>1, <2>4 DEF EndOp
  <2> QED
    BY <2>3, <2>4
<1>7. ASSUME NEW t \in Threads, CommitDone(t) PROVE CommitInv'
  BY <1>7, <1>in DEF CommitDone, CommitWakes, Wakeup
<1>8. ASSUME WriteLog PROVE CommitInv'
  <2>1. /\ tail' = tail + 1 /\ lh' = lh /\ head' = head /\ committing' = committing
        /\ cpc' = IF tail + 1 < Len(lh) THEN "write_log" ELSE "write_head"
        /\ tail \in Nat /\ Len(lh) \in Nat
    BY <1>8, <1>ty DEF WriteLog, Turn, ThreadType, DiskType
  <2>2. \A i \in 1 .. tail + 1 : i < NLOG => logblk'[i] = Content(lh[i])
    <3> SUFFICES ASSUME NEW i \in 1 .. tail + 1, i < NLOG PROVE logblk'[i] = Content(lh[i])
      OBVIOUS
    <3>1. i \in LogSlots
      BY <2>1, LogConstants DEF LogSlots
    <3>2. i # tail + 1 => logblk[i] = Content(lh[i])
      BY <1>8, <1>in, <2>1 DEF WriteLog
    <3> QED
      BY <1>8, <1>ty, <3>1, <3>2, WriteLogContent DEF DiskType
  <2>3. tail + 1 \in 1 .. Len(lh) /\ \A i \in 1 .. Len(lh) : lh[i] \in Blocks
    BY <1>8, <1>ty, WriteLogContent DEF DiskType
  <2>4. \A i \in 1 .. tail + 1 : i < NLOG => logblk'[i] = Content(lh[i])'
    BY <1>8, <2>1, <2>2, <2>3, WriteLogContent
  <2>5. committing = 1 /\ head = <<>>
    BY <1>8, <1>in DEF WriteLog
  <2> QED
    BY <2>1, <2>3, <2>4, <2>5
<1>9. ASSUME WriteHead PROVE CommitInv'
  <2>1. \A x \in Blocks : Content(x)' = Content(x)
    BY <1>9 DEF WriteHead, Content
  <2>2. \A i \in 1 .. Len(lh) : lh[i] \in Blocks
    BY <1>ty DEF DiskType
  <2>3. Len(lh) > 0 /\ Len(lh) \in Nat
    BY <1>9, <1>ty, <1>lh DEF WriteHead, DiskType
  <2> QED
    BY <1>9, <1>in, <2>1, <2>2, <2>3 DEF WriteHead
<1>10. ASSUME InstallTrans PROVE CommitInv'
  <2>1. /\ tail' = tail + 1 /\ lh' = lh /\ head' = head /\ committing' = committing
        /\ logblk' = logblk
        /\ cpc' = IF tail + 1 < Len(lh) THEN "install_trans" ELSE "clear"
        /\ tail \in Nat /\ Len(lh) \in Nat
    BY <1>10, <1>ty DEF InstallTrans, Turn, ThreadType, DiskType
  <2>2. tail + 1 \in 1 .. Len(lh) /\ \A i \in 1 .. Len(lh) : lh[i] \in Blocks
    BY <1>10, <1>ty, InstallContent DEF DiskType
  <2>3. head = lh
    BY <1>10, <1>in DEF InstallTrans
  <2>4. \A i \in 1 .. tail + 1 : disk'[lh[i]] = logblk[i]
    <3> SUFFICES ASSUME NEW i \in 1 .. tail + 1 PROVE disk'[lh[i]] = logblk[i]
      OBVIOUS
    <3>1. lh[i] \in Blocks /\ (i # tail + 1 => lh[i] # lh[tail + 1])
      BY <2>1, <2>2, <1>in DEF ShapeInv, Once
    <3>2. i # tail + 1 => disk[lh[i]] = logblk[i]
      BY <1>10, <1>in, <2>1 DEF InstallTrans
    <3> QED
      BY <1>10, <1>ty, <3>1, <3>2, InstallContent DEF DiskType
  <2>5. committing = 1 => \A i \in 1 .. Len(lh) : i < NLOG => logblk[i] = Content(lh[i])'
    <3> SUFFICES ASSUME committing = 1, NEW i \in 1 .. Len(lh), i < NLOG
                 PROVE  logblk[i] = Content(lh[i])'
      BY <2>1
    <3>1. logblk[i] = Content(lh[i])
      BY <1>10, <1>in DEF InstallTrans
    <3>2. i # tail + 1 => lh[i] # lh[tail + 1]
      BY <2>2, <1>in DEF ShapeInv, Once
    <3> QED
      BY <1>10, <2>1, <2>2, <3>1, <3>2, InstallContent
  <2> QED
    BY <2>1, <2>2, <2>3, <2>4, <2>5
<1>11. ASSUME ClearLog PROVE CommitInv'
  BY <1>11, <1>in, <1>ty DEF ClearLog, MemoryType
<1>12. ASSUME ReadHead PROVE CommitInv'
  <2>1. head # <<>> => 0 < Len(head)
    BY <1>ty DEF DiskType
  <2> QED
    BY <1>12, <1>in, <2>1 DEF ReadHead, ReadHeadBlocks
<1>13. ASSUME NEW b \in Blocks, Load(b) PROVE CommitInv'
  <2>1. \A x \in Blocks : Content(x)' = Content(x)
    BY <1>13, LoadContent DEF IndInv
  <2>2. \A i \in 1 .. Len(lh) : lh[i] \in Blocks
    BY <1>ty DEF DiskType
  <2>3. Len(lh) \in Nat /\ tail \in Nat
    BY <1>ty DEF DiskType, ThreadType
  <2> QED
    BY <1>13, <1>in, <2>1, <2>2, <2>3 DEF Load
<1>14. ASSUME NEW b \in Blocks, Recycle(b) PROVE CommitInv'
  <2>1. \A x \in Blocks : Content(x)' = Content(x)
    BY <1>14, <1>in, RecycleContent DEF IndInv, CacheInv
  <2>2. \A i \in 1 .. Len(lh) : lh[i] \in Blocks
    BY <1>ty DEF DiskType
  <2>3. Len(lh) \in Nat /\ tail \in Nat
    BY <1>ty DEF DiskType, ThreadType
  <2> QED
    BY <1>14, <1>in, <2>1, <2>2, <2>3 DEF Recycle
<1>15. ASSUME Crash PROVE CommitInv'
  BY <1>15, <1>in DEF Crash
<1> QED
  BY <1>1, <1>2, <1>3, <1>4, <1>5, <1>6, <1>7, <1>8, <1>9, <1>10, <1>11,
     <1>12, <1>13, <1>14, <1>15 DEF Next, CallStep, CommitStep

-----------------------------------------------------------------------------
\* The refinement

\* What recovery would leave in a block, by the position of the block in the
\* header on the disk.
RecoveredShape ==
  /\ Recovered \in [Blocks -> Values]
  /\ \A i \in 1 .. Len(head) : Recovered[head[i]] = logblk[i]
  /\ \A x \in Blocks : (\A i \in 1 .. Len(head) : head[i] # x) => Recovered[x] = disk[x]

\* Recovery copies each logged block from its place in the log.
LEMMA RecoveredBlock == IndInv => RecoveredShape
<1> SUFFICES ASSUME IndInv PROVE RecoveredShape
  OBVIOUS
<1>ty. DiskType /\ Len(head) \in Nat /\ Once(head) /\ Len(head) < NLOG
  BY DEF IndInv, TypeOK, DiskType, ShapeInv
<1>1. \A i \in 1 .. Len(head) : head[i] \in Blocks /\ i \in LogSlots /\ logblk[i] \in Values
  BY <1>ty, LogConstants DEF DiskType, LogSlots
<1>2. ASSUME NEW i \in 1 .. Len(head)
      PROVE  (CHOOSE j \in 1 .. Len(head) : head[j] = head[i]) = i
  BY <1>ty DEF Once
<1>3. ASSUME NEW i \in 1 .. Len(head) PROVE Recovered[head[i]] = logblk[i]
  BY <1>1, <1>2 DEF Recovered
<1>4. ASSUME NEW x \in Blocks, \A i \in 1 .. Len(head) : head[i] # x
      PROVE  Recovered[x] = disk[x]
  BY <1>4 DEF Recovered
<1>5. ASSUME NEW x \in Blocks PROVE Recovered[x] \in Values
  BY <1>1, <1>3, <1>4, <1>ty DEF DiskType
<1>6. Recovered = [x \in Blocks |-> Recovered[x]]
  BY DEF Recovered
<1> QED
  BY <1>3, <1>4, <1>5, <1>6 DEF RecoveredShape

\* The same of the next state.
LEMMA RecoveredBlockNext == IndInv' => RecoveredShape'
  BY RecoveredBlock, PTL

\* With an empty header recovery has nothing to do.
LEMMA RecoveredIsDisk ==
  ASSUME IndInv, head = <<>>
  PROVE  Recovered = disk
  BY DEF Recovered, IndInv, TypeOK, DiskType

\* A step that leaves disk, log and header alone leaves what recovery would
\* find; one that leaves every content alone leaves the view of the calls.
LEMMA SameRecovered ==
  ASSUME UNCHANGED <<disk, logblk, head>>
  PROVE  Recovered' = Recovered
  BY DEF Recovered

\* The view of the calls is made of contents only.
LEMMA SameView ==
  ASSUME \A x \in Blocks : Content(x)' = Content(x)
  PROVE  CacheView' = CacheView
  BY DEF CacheView

\* Every step of the log is a step of AtomicDisk or changes nothing there.
LEMMA StepRefines ==
  ASSUME IndInv, LogFits, IndInv', Next
  PROVE  [Abstract!ADNext]_Abstract!advars
<1>ty. DiskType /\ MemoryType /\ ThreadType
  BY DEF IndInv, TypeOK
<1>in. ShapeInv /\ CallInv /\ CacheInv /\ CommitInv
  BY DEF IndInv
<1>rs. RecoveredShape
  BY RecoveredBlock
<1>np. RecoveredShape'
  BY RecoveredBlockNext
<1>1. ASSUME NEW t \in Threads, BeginOp(t) PROVE [Abstract!ADNext]_Abstract!advars
  <2>1. Recovered' = Recovered
    BY <1>1, SameRecovered DEF BeginOp
  <2>2. CacheView' = CacheView
    BY <1>1 DEF BeginOp, Content, CacheView
  <2>3. Active' = Active \cup {t} /\ t \notin Active /\ Recovering' = Recovering
    BY <1>1, <1>ty DEF BeginOp, InBeginOp, Active, Recovering, ThreadType
  <2>4. Abstract!Begin(t)
    BY <2>1, <2>2, <2>3 DEF Abstract!Begin, Current
  <2> QED
    BY <2>4 DEF Abstract!ADNext
<1>2. ASSUME NEW t \in Threads, BeginOpSleeps(t) PROVE [Abstract!ADNext]_Abstract!advars
  <2>1. Recovered' = Recovered
    BY <1>2, SameRecovered DEF BeginOpSleeps, InBeginOp
  <2>2. CacheView' = CacheView
    BY <1>2 DEF BeginOpSleeps, InBeginOp, Content, CacheView
  <2>3. Active' = Active /\ Recovering' = Recovering
    BY <1>2, <1>ty DEF BeginOpSleeps, InBeginOp, Active, Recovering, ThreadType
  <2> QED
    BY <2>1, <2>2, <2>3 DEF Abstract!advars, Current
<1>3. ASSUME NEW t \in Threads, NEW b \in Blocks, NEW v \in Values, Modify(t, b, v) PROVE [Abstract!ADNext]_Abstract!advars
  <2>1. Recovered' = Recovered
    BY <1>3, SameRecovered DEF Modify
  <2>2. cpc = "idle" /\ committing = 0 /\ t \in Active
    BY <1>3, CallsRunAlone DEF Modify, Active
  <2>3. ~Recovering /\ ~Recovering'
    BY <1>3, <2>2 DEF Modify, Recovering
  <2>4. CacheView' = [CacheView EXCEPT ![b] = v]
    BY <1>3, <1>ty, LogConstants DEF Modify, CacheView, Content, MemoryType
  <2>5. Active' = Active
    BY <1>3, <1>ty DEF Modify, Active, ThreadType
  <2>6. Abstract!Write(t, b, v)
    BY <2>1, <2>2, <2>3, <2>4, <2>5 DEF Abstract!Write, Current
  <2> QED
    BY <2>6 DEF Abstract!ADNext
<1>4. ASSUME NEW t \in Threads, LogWriteCheck(t) PROVE [Abstract!ADNext]_Abstract!advars
  <2>1. Recovered' = Recovered
    BY <1>4, SameRecovered DEF LogWriteCheck
  <2>2. CacheView' = CacheView
    BY <1>4 DEF LogWriteCheck, Content, CacheView
  <2>3. Active' = Active /\ Recovering' = Recovering
    BY <1>4, <1>ty DEF LogWriteCheck, Active, Recovering, ThreadType
  <2> QED
    BY <2>1, <2>2, <2>3 DEF Abstract!advars, Current
<1>5. ASSUME NEW t \in Threads, LogWrite(t) PROVE [Abstract!ADNext]_Abstract!advars
  <2>1. Recovered' = Recovered
    BY <1>5, SameRecovered DEF LogWrite
  <2>2. CacheView' = CacheView
    BY <1>5 DEF LogWrite, Content, CacheView
  <2>3. Active' = Active /\ Recovering' = Recovering
    BY <1>5, <1>ty DEF LogWrite, Active, Recovering, ThreadType
  <2> QED
    BY <2>1, <2>2, <2>3 DEF Abstract!advars, Current
<1>6. ASSUME NEW t \in Threads, EndOp(t) PROVE [Abstract!ADNext]_Abstract!advars
  <2>1. Recovered' = Recovered
    BY <1>6, SameRecovered DEF EndOp
  <2>2. cpc = "idle" /\ committing = 0 /\ t \in Active
    BY <1>6, CallsRunAlone DEF EndOp, Active
  <2>3. ~Recovering /\ ~Recovering'
    BY <1>6, <2>2 DEF EndOp, Recovering
  <2>4. CacheView' = CacheView
    BY <1>6 DEF EndOp, CacheView, Content
  <2>5. Active' = Active \ {t}
    BY <1>6, <2>2, <1>ty DEF EndOp, EndOpWakes, Wakeup, Active, ThreadType
  <2>6. Abstract!End(t)
    BY <2>1, <2>2, <2>3, <2>4, <2>5 DEF Abstract!End, Current
  <2> QED
    BY <2>6 DEF Abstract!ADNext
<1>7. ASSUME NEW t \in Threads, CommitDone(t) PROVE [Abstract!ADNext]_Abstract!advars
  <2>1. Recovered' = Recovered
    BY <1>7, SameRecovered DEF CommitDone
  <2>2. CacheView' = CacheView
    BY <1>7 DEF CommitDone, Content, CacheView
  <2>3. ~Recovering /\ ~Recovering'
    BY <1>7, <1>in DEF CommitDone, Recovering, CommitInv
  <2>4. Active' = Active
    BY <1>7, <1>ty DEF CommitDone, CommitWakes, Wakeup, Active, ThreadType
  <2> QED
    BY <2>1, <2>2, <2>3, <2>4 DEF Abstract!advars, Current
<1>8. ASSUME WriteLog PROVE [Abstract!ADNext]_Abstract!advars
  <2>1. head = <<>> /\ head' = <<>> /\ disk' = disk /\ committing = 1 /\ committing' = 1
    BY <1>8, <1>in, WriteLogContent DEF WriteLog, CommitInv
  <2>2. Recovered' = Recovered
    BY <2>1 DEF Recovered
  <2>3. CacheView' = CacheView
    BY <1>8, WriteLogContent, SameView
  <2>4. Active' = Active
    BY <1>8 DEF WriteLog, Active
  <2> QED
    BY <2>1, <2>2, <2>3, <2>4 DEF Abstract!advars, Current, Recovering
<1>9. ASSUME WriteHead PROVE [Abstract!ADNext]_Abstract!advars
  <2>1. head' = lh /\ committing = 1 /\ committing' = 1 /\ UNCHANGED <<disk, logblk, lh>>
    BY <1>9, <1>in DEF WriteHead, CommitInv
  <2>2. Active = {} /\ Active' = Active
    BY <1>9, <2>1, CallsRunAlone DEF WriteHead, Active
  <2>3. CacheView' = CacheView
    BY <1>9 DEF WriteHead, Content, CacheView
  <2>4. Len(lh) \in Nat /\ \A i \in 1 .. Len(lh) : i < NLOG /\ lh[i] \in Blocks
    BY <1>ty, LogConstants DEF LogFits, DiskType
  <2>5. ASSUME NEW x \in Blocks PROVE Recovered'[x] = Content(x)
    <3>1. CASE \E i \in 1 .. Len(lh) : lh[i] = x
      <4>1. PICK i \in 1 .. Len(lh) : lh[i] = x
        BY <3>1
      <4>2. Recovered'[x] = logblk[i]
        BY <1>np, <2>1, <4>1 DEF RecoveredShape
      <4>3. logblk[i] = Content(x)
        BY <1>9, <1>in, <2>4, <4>1 DEF WriteHead, CommitInv
      <4> QED
        BY <4>2, <4>3
    <3>2. CASE ~ \E i \in 1 .. Len(lh) : lh[i] = x
      <4>1. Recovered'[x] = disk[x]
        BY <1>np, <2>1, <3>2 DEF RecoveredShape
      <4>2. x \notin dirty
        BY <1>in, <3>2 DEF CacheInv
      <4> QED
        BY <4>1, <4>2, <2>2, NobodyLocks
    <3> QED
      BY <3>1, <3>2
  <2>6. Recovered' = CacheView
    BY <1>np, <2>5 DEF CacheView, RecoveredShape
  <2>7. Abstract!Commit
    BY <2>1, <2>2, <2>3, <2>6 DEF Abstract!Commit, Current, Recovering
  <2> QED
    BY <2>7 DEF Abstract!ADNext
<1>10. ASSUME InstallTrans PROVE [Abstract!ADNext]_Abstract!advars
  <2>1. head = lh /\ UNCHANGED <<logblk, head, lh, committing>>
    BY <1>10, <1>in DEF InstallTrans, CommitInv
  <2>2. tail + 1 \in 1 .. Len(lh) /\ lh[tail + 1] \in Blocks
    BY <1>10, InstallContent
  <2>3. ASSUME NEW x \in Blocks PROVE Recovered'[x] = Recovered[x]
    <3>1. CASE \E i \in 1 .. Len(lh) : lh[i] = x
      BY <3>1, <2>1, <1>np, <1>rs DEF RecoveredShape
    <3>2. CASE ~ \E i \in 1 .. Len(lh) : lh[i] = x
      <4>1. Recovered'[x] = disk'[x] /\ Recovered[x] = disk[x]
        BY <3>2, <2>1, <1>np, <1>rs DEF RecoveredShape
      <4>2. x # lh[tail + 1]
        BY <3>2, <2>2
      <4> QED
        BY <1>10, <1>ty, <4>1, <4>2, InstallContent DEF DiskType
    <3> QED
      BY <3>1, <3>2
  <2>4. Recovered' = Recovered
    BY <2>3, <1>np, <1>rs DEF RecoveredShape
  <2>5. Active' = Active
    BY <1>10 DEF InstallTrans, Active
  <2>6. CASE committing = 1
    <3>1. logblk[tail + 1] = Content(lh[tail + 1])
      <4>1. tail + 1 < NLOG
        BY <1>10, <1>ty, InstallContent, LogConstants DEF LogSlots, ThreadType
      <4> QED
        BY <1>10, <1>in, <2>2, <2>6, <4>1 DEF InstallTrans, CommitInv
    <3>2. CacheView' = CacheView
      BY <1>10, <3>1, InstallContent, SameView
    <3> QED
      BY <2>1, <2>4, <2>5, <2>6, <3>2 DEF Abstract!advars, Current, Recovering
  <2>7. CASE committing = 0
    <3>1. cpc' # "idle"
      BY <1>10 DEF InstallTrans, Turn
    <3>2. Recovering /\ Recovering'
      BY <1>10, <2>1, <2>7, <3>1 DEF InstallTrans, Recovering
    <3> QED
      BY <2>4, <2>5, <3>2 DEF Abstract!advars, Current
  <2> QED
    BY <2>6, <2>7, <1>ty DEF MemoryType
<1>11. ASSUME ClearLog PROVE [Abstract!ADNext]_Abstract!advars
  <2>1. head = lh /\ head' = <<>> /\ UNCHANGED <<disk, cache, committing>>
    BY <1>11, <1>in DEF ClearLog, CommitInv
  <2>2. \A i \in 1 .. Len(lh) : disk[lh[i]] = logblk[i]
    BY <1>11, <1>in DEF ClearLog, CommitInv
  <2>3. \A x \in Blocks : Recovered[x] = disk[x]
    BY <2>1, <2>2, <1>rs DEF RecoveredShape
  <2>4. Recovered = disk
    BY <2>3, <1>rs, <1>ty DEF DiskType, RecoveredShape
  <2>5. Recovered' = disk
    BY <2>1, <1>ty DEF Recovered, DiskType
  <2>6. Active' = Active /\ Active = {} /\ ~Recovering'
    BY <1>11, CallsRunAlone DEF ClearLog, Active, Recovering
  <2>7. CacheView' = CacheView
    BY <2>1 DEF CacheView, Content
  <2>8. dirty = {}
    BY <1>11, <1>in, <1>ty DEF ClearLog, CommitInv, CacheInv, ThreadType, DiskType
  <2>9. CacheView = disk
    BY <2>6, <2>8, NobodyLocks, <1>ty DEF CacheView, DiskType
  <2> QED
    BY <2>4, <2>5, <2>6, <2>7, <2>9 DEF Abstract!advars, Current
<1>12. ASSUME ReadHead PROVE [Abstract!ADNext]_Abstract!advars
  <2>1. Recovered' = Recovered
    BY <1>12, SameRecovered DEF ReadHead
  <2>2. committing = 0
    BY <1>12, <1>in DEF ReadHead, CommitInv
  <2>3. Active' = Active /\ Recovering' /\ Recovering
    BY <1>12, <2>2 DEF ReadHead, Active, Recovering
  <2> QED
    BY <2>1, <2>3 DEF Abstract!advars, Current
<1>13. ASSUME NEW b \in Blocks, Load(b) PROVE [Abstract!ADNext]_Abstract!advars
  <2>1. Recovered' = Recovered
    BY <1>13, SameRecovered DEF Load
  <2>2. CacheView' = CacheView
    BY <1>13, LoadContent, SameView DEF IndInv
  <2>3. Active' = Active /\ Recovering' = Recovering
    BY <1>13 DEF Load, Active, Recovering
  <2> QED
    BY <2>1, <2>2, <2>3 DEF Abstract!advars, Current
<1>14. ASSUME NEW b \in Blocks, Recycle(b) PROVE [Abstract!ADNext]_Abstract!advars
  <2>1. Recovered' = Recovered
    BY <1>14, SameRecovered DEF Recycle
  <2>2. CacheView' = CacheView
    BY <1>14, <1>in, RecycleContent, SameView DEF IndInv, CacheInv
  <2>3. Active' = Active /\ Recovering' = Recovering
    BY <1>14 DEF Recycle, Active, Recovering
  <2> QED
    BY <2>1, <2>2, <2>3 DEF Abstract!advars, Current
<1>15. ASSUME Crash PROVE [Abstract!ADNext]_Abstract!advars
  <2>1. Recovered' = Recovered
    BY <1>15, SameRecovered DEF Crash
  <2>2. Active' = {} /\ Recovering'
    BY <1>15 DEF Crash, Active, Recovering
  <2>3. Abstract!Crash
    BY <2>1, <2>2 DEF Abstract!Crash, Current
  <2> QED
    BY <2>3 DEF Abstract!ADNext
<1> QED
  BY <1>1, <1>2, <1>3, <1>4, <1>5, <1>6, <1>7, <1>8, <1>9, <1>10, <1>11,
     <1>12, <1>13, <1>14, <1>15 DEF Next, CallStep, CommitStep

\* Every step keeps the sleepers in begin_op() with something to wait for.
LEMMA StepSleepInv ==
  ASSUME IndInv, LogFits, SleepInv, Next
  PROVE  SleepInv'
<1>ty. DiskType /\ MemoryType /\ ThreadType
  BY DEF IndInv, TypeOK
<1>in. ShapeInv /\ CallInv /\ CacheInv /\ CommitInv
  BY DEF IndInv
<1>sl. SleepInv
  OBVIOUS
<1> USE DEF SleepInv
<1>1. ASSUME NEW t \in Threads, BeginOp(t) PROVE SleepInv'
  <2>1. outstanding \in Nat /\ outstanding' = outstanding + 1 /\ lh' = lh /\ Len(lh) \in Nat
    BY <1>1, <1>ty DEF BeginOp, Admit, MemoryType, DiskType
  <2>2. ~LogHasRoom => ~LogHasRoom'
    <3>1. /\ (outstanding + 1) * MAXOPBLOCKS \in Nat
          /\ (outstanding' + 1) * MAXOPBLOCKS = (outstanding + 1) * MAXOPBLOCKS + MAXOPBLOCKS
      BY <2>1, LogConstants
    <3> QED
      BY <3>1, <2>1, LogConstants DEF LogHasRoom
  <2>3. ASSUME NEW s \in Threads, pc'[s] = "asleep" PROVE outstanding' > 0 /\ ~LogHasRoom'
    BY <1>1, <1>ty, <1>sl, <2>1, <2>2, <2>3 DEF BeginOp, SleepersWaitForSomething, ThreadType
  <2>4. SleepersWaitForSomething'
    BY <2>3 DEF SleepersWaitForSomething
  <2> QED
    BY <1>1, <2>1, <2>4 DEF BeginOp, InBeginOp, Recovering
<1>2. ASSUME NEW t \in Threads, BeginOpSleeps(t) PROVE SleepInv'
  <2>1. ~Recovering /\ UNCHANGED <<committing, outstanding, lh, cpc>>
    BY <1>2 DEF BeginOpSleeps, InBeginOp
  <2>2. committing = 1 \/ (outstanding > 0 /\ ~LogHasRoom)
    <3>1. CASE committing = 0 /\ outstanding = 0
      <4>1. cpc = "idle" /\ Len(lh) = 0
        BY <2>1, <1>sl, <3>1 DEF Recovering
      <4>2. LogHasRoom
        BY <3>1, <4>1, LogConstants DEF LogHasRoom
      <4> QED
        BY <1>2, <3>1, <4>2 DEF BeginOpSleeps
    <3> QED
      BY <1>2, <1>ty, <3>1 DEF BeginOpSleeps, MemoryType
  <2>3. SleepersWaitForSomething'
    BY <2>1, <2>2 DEF SleepersWaitForSomething, LogHasRoom
  <2> QED
    BY <2>1, <2>3, <1>sl DEF Recovering
<1>3. ASSUME NEW t \in Threads, NEW b \in Blocks, NEW v \in Values, Modify(t, b, v) PROVE SleepInv'
  <2>1. cpc = "idle" /\ committing = 0
    BY <1>3, CallsRunAlone DEF Modify, Active
  <2>2. SleepersWaitForSomething'
    BY <1>3, <1>ty, <1>sl DEF Modify, SleepersWaitForSomething, LogHasRoom, ThreadType
  <2> QED
    BY <1>3, <1>sl, <2>1, <2>2 DEF Modify, Recovering
<1>4. ASSUME NEW t \in Threads, LogWriteCheck(t) PROVE SleepInv'
  <2>1. SleepersWaitForSomething'
    BY <1>4, <1>ty, <1>sl DEF LogWriteCheck, SleepersWaitForSomething, LogHasRoom, ThreadType
  <2>2. ~Recovering
    BY <1>4, CallsRunAlone DEF LogWriteCheck, Active, Recovering
  <2> QED
    BY <1>4, <1>sl, <2>1, <2>2 DEF LogWriteCheck, Recovering
<1>5. ASSUME NEW t \in Threads, LogWrite(t) PROVE SleepInv'
  <2>1. cpc = "idle" /\ committing = 0 /\ outstanding # 0
    <3>1. t \in Active
      BY <1>5 DEF LogWrite, Active
    <3>2. Cardinality(Active) # 0
      BY <3>1, ActiveCount DEF Active
    <3> QED
      BY <3>1, <3>2, <1>in, CallsRunAlone DEF CallInv, OutstandingCounts
  <2>2. Len(lh') \in Nat /\ Len(lh') >= Len(lh) /\ outstanding' = outstanding
    <3>1. buf[t] \in Blocks
      BY <1>5, <1>ty, <1>in DEF LogWrite, ShapeInv, ThreadType
    <3> QED
      BY <1>5, <3>1, <1>ty DEF LogWrite, Record, DiskType
  <2>3. ~LogHasRoom => ~LogHasRoom'
    <3>1. (outstanding + 1) * MAXOPBLOCKS \in Nat /\ Len(lh) \in Nat
      BY <1>ty, LogConstants DEF MemoryType, DiskType
    <3> QED
      BY <3>1, <2>2, LogConstants DEF LogHasRoom
  <2>4. SleepersWaitForSomething'
    BY <1>5, <1>ty, <1>sl, <2>2, <2>3 DEF LogWrite, SleepersWaitForSomething, ThreadType
  <2> QED
    BY <1>5, <2>1, <2>4 DEF LogWrite, Recovering
<1>6. ASSUME NEW t \in Threads, EndOp(t) PROVE SleepInv'
  <2>1. cpc = "idle" /\ committing = 0 /\ outstanding \in Nat
    BY <1>6, <1>ty, CallsRunAlone DEF EndOp, Active, MemoryType
  <2>2. CASE outstanding = 1
    <3>1. committing' = 1 /\ cpc' # "idle"
      BY <1>6, <2>1, <2>2 DEF EndOp
    <3> QED
      BY <3>1 DEF SleepersWaitForSomething, Recovering
  <2>3. CASE outstanding # 1
    <3>1. cpc' = "idle" /\ outstanding' = outstanding - 1
      BY <1>6, <2>1, <2>3 DEF EndOp
    <3>2. \A s \in Threads : pc'[s] # "asleep"
      BY <1>6, <1>ty, <2>1, <2>3 DEF EndOp, EndOpWakes, Wakeup, ThreadType
    <3> QED
      BY <2>1, <2>3, <3>1, <3>2 DEF SleepersWaitForSomething, Recovering
  <2> QED
    BY <2>2, <2>3
<1>7. ASSUME NEW t \in Threads, CommitDone(t) PROVE SleepInv'
  <2>1. \A s \in Threads : pc'[s] # "asleep"
    BY <1>7, <1>ty DEF CommitDone, CommitWakes, Wakeup, ThreadType
  <2>2. cpc' = "idle" /\ lh' = <<>>
    BY <1>7, <1>in DEF CommitDone, CommitInv
  <2> QED
    BY <2>1, <2>2 DEF SleepersWaitForSomething, Recovering
<1>8. ASSUME WriteLog PROVE SleepInv'
  <2>1. committing = 1 /\ committing' = 1 /\ cpc' # "idle"
    BY <1>8, <1>in DEF WriteLog, Turn, CommitInv
  <2> QED
    BY <2>1 DEF SleepersWaitForSomething, Recovering
<1>9. ASSUME WriteHead PROVE SleepInv'
  <2>1. committing = 1 /\ committing' = 1 /\ cpc' # "idle"
    BY <1>9, <1>in DEF WriteHead, CommitInv
  <2> QED
    BY <2>1 DEF SleepersWaitForSomething, Recovering
<1>10. ASSUME InstallTrans PROVE SleepInv'
  <2>1. cpc' # "idle" /\ UNCHANGED <<committing, pc, outstanding, lh>>
    BY <1>10 DEF InstallTrans, Turn
  <2> QED
    BY <1>10, <1>sl, <2>1 DEF InstallTrans, SleepersWaitForSomething, LogHasRoom, Recovering
<1>11. ASSUME ClearLog PROVE SleepInv'
  <2>1. committing = 1 \/ \A s \in Threads : pc[s] = "out"
    BY <1>11, <1>ty, <1>sl DEF ClearLog, Recovering, MemoryType
  <2>2. UNCHANGED <<committing, pc>> /\ lh' = <<>> /\ ~Recovering'
    BY <1>11 DEF ClearLog, Recovering
  <2> QED
    BY <2>1, <2>2 DEF SleepersWaitForSomething
<1>12. ASSUME ReadHead PROVE SleepInv'
  <2>1. Recovering /\ UNCHANGED pc /\ cpc' # "idle"
    BY <1>12, <1>in DEF ReadHead, Recovering, CommitInv
  <2> QED
    BY <1>sl, <2>1 DEF SleepersWaitForSomething
<1>13. ASSUME NEW b \in Blocks, Load(b) PROVE SleepInv'
  BY <1>13, <1>sl DEF Load, SleepersWaitForSomething, LogHasRoom, Recovering
<1>14. ASSUME NEW b \in Blocks, Recycle(b) PROVE SleepInv'
  BY <1>14, <1>sl DEF Recycle, SleepersWaitForSomething, LogHasRoom,
     Recovering
<1>15. ASSUME Crash PROVE SleepInv'
  BY <1>15 DEF Crash, SleepersWaitForSomething, Recovering
<1> QED
  BY <1>1, <1>2, <1>3, <1>4, <1>5, <1>6, <1>7, <1>8, <1>9, <1>10, <1>11,
     <1>12, <1>13, <1>14, <1>15 DEF Next, CallStep, CommitStep

-----------------------------------------------------------------------------
\* How full the log gets

\* The blocks of the header can be counted.
LEMMA LoggedCount ==
  ASSUME NEW s \in Seq(Blocks)
  PROVE  LET U == {s[i] : i \in DOMAIN s} IN
           /\ IsFiniteSet(U)
           /\ Cardinality(U) \in Nat /\ Cardinality(U) <= Len(s)
           /\ Once(s) => Cardinality(U) = Len(s)
<1> DEFINE U == {s[i] : i \in DOMAIN s}
<1>0. Len(s) \in Nat
  OBVIOUS
<1>1. DOMAIN s = 1 .. Len(s)
  OBVIOUS
<1>2. s \in Surjection(1 .. Len(s), U)
  BY <1>1 DEF Surjection
<1>3. IsFiniteSet(1 .. Len(s)) /\ Cardinality(1 .. Len(s)) = Len(s)
  <2>1. PICK n \in Nat : n = Len(s)
    BY <1>0
  <2>2. 1 \in Int /\ n \in Int
    OBVIOUS
  <2>3. IsFiniteSet(1 .. n) /\ Cardinality(1 .. n) = IF 1 > n THEN 0 ELSE n - 1 + 1
    BY <2>2, FS_Interval
  <2> QED
    BY <2>1, <2>3
<1>4. Once(s) => s \in Injection(1 .. Len(s), U)
  BY <1>1, <1>2 DEF Once, Injection, IsInjective, Surjection
<1> HIDE DEF U
<1>5. /\ IsFiniteSet(U) /\ Cardinality(U) <= Len(s)
      /\ s \in Injection(1 .. Len(s), U) => Cardinality(U) = Len(s)
  BY <1>2, <1>3, FS_Surjection
<1>6. Cardinality(U) \in Nat
  BY <1>5, FS_CardinalityType
<1> QED
  BY <1>4, <1>5, <1>6 DEF U

\* What calls in progress have logged is at most OpBlocks each.
LEMMA WroteCount ==
  ASSUME CallSizeInv, NEW S \in SUBSET Threads
  PROVE  LET W == UNION {wrote[t] : t \in S} IN
           IsFiniteSet(W) /\ Cardinality(W) \in Nat /\ Cardinality(W) <= OpBlocks * Cardinality(S)
<1> DEFINE W(T) == UNION {wrote[t] : t \in T}
           P == {T \in SUBSET S : IsFiniteSet(W(T)) /\ Cardinality(W(T)) <= OpBlocks * Cardinality(T)}
<1>1. IsFiniteSet(S)
  BY FS_Subset, LogConstants
<1>2. {} \in P
  <2>1. W({}) = {} /\ Cardinality({}) = 0 /\ IsFiniteSet({})
    BY FS_EmptySet
  <2>2. OpBlocks * 0 = 0
    BY LogConstants
  <2> QED
    BY <2>1, <2>2
<1>3. ASSUME NEW T \in P, NEW x \in S \ T PROVE T \cup {x} \in P
  <2>1. W(T \cup {x}) = W(T) \cup wrote[x]
    OBVIOUS
  <2>2. IsFiniteSet(wrote[x]) /\ Cardinality(wrote[x]) <= OpBlocks
    BY DEF CallSizeInv
  <2>3. IsFiniteSet(W(T)) /\ Cardinality(W(T)) <= OpBlocks * Cardinality(T)
    OBVIOUS
  <2> HIDE DEF W
  <2>4. /\ IsFiniteSet(W(T) \cup wrote[x])
        /\ Cardinality(W(T) \cup wrote[x]) = Cardinality(W(T)) + Cardinality(wrote[x]) - Cardinality(W(T) \cap wrote[x])
    BY <2>2, <2>3, FS_Union
  <2>5. IsFiniteSet(W(T) \cap wrote[x])
    BY <2>2, FS_Subset
  <2>6. Cardinality(W(T)) \in Nat /\ Cardinality(wrote[x]) \in Nat /\ Cardinality(W(T) \cap wrote[x]) \in Nat
    BY <2>2, <2>3, <2>5, FS_CardinalityType
  <2>7. Cardinality(T) \in Nat /\ Cardinality(T \cup {x}) = Cardinality(T) + 1
    BY ActiveCount
  <2>8. OpBlocks * (Cardinality(T) + 1) = OpBlocks * Cardinality(T) + OpBlocks
    BY <2>7, LogConstants
  <2>9. OpBlocks \in Nat /\ OpBlocks * Cardinality(T) \in Nat
    BY <2>7, LogConstants
  <2>10. Cardinality(W(T) \cup wrote[x]) <= OpBlocks * Cardinality(T \cup {x})
    BY <2>2, <2>3, <2>4, <2>6, <2>7, <2>8, <2>9
  <2> QED
    BY <2>1, <2>4, <2>10 DEF W
<1>4. P \in SUBSET SUBSET S
  OBVIOUS
<1> HIDE DEF P
<1>5. S \in P
  BY <1>1, <1>2, <1>3, <1>4, SubsetInduction
<1>6. IsFiniteSet(W(S)) /\ Cardinality(W(S)) <= OpBlocks * Cardinality(S)
  BY <1>5 DEF P
<1> QED
  BY <1>6, FS_CardinalityType

\* What the calls that have ended left in the header.
LEMMA EndedCount ==
  ASSUME NEW s \in Seq(Blocks), NEW E \in SUBSET {s[i] : i \in DOMAIN s}
  PROVE  IsFiniteSet(E) /\ Cardinality(E) \in Nat /\ Cardinality(E) <= Len(s)
<1> DEFINE U == {s[i] : i \in DOMAIN s}
<1>1. IsFiniteSet(U) /\ Cardinality(U) \in Nat /\ Cardinality(U) <= Len(s)
  BY LoggedCount
<1>2. E \in SUBSET U
  OBVIOUS
<1>3. Len(s) \in Nat
  OBVIOUS
<1> HIDE DEF U
<1>4. IsFiniteSet(E) /\ Cardinality(E) <= Cardinality(U)
  BY <1>1, <1>2, FS_Subset
<1>5. Cardinality(E) \in Nat
  BY <1>4, FS_CardinalityType
<1> QED
  BY <1>1, <1>3, <1>4, <1>5

\* The log holds at most the budget that leaves OpBlocks to each call.
LEMMA RoomBounds ==
  ASSUME IndInv, NEW c \in Int, RoomInv(OpBlocks, c)
  PROVE  Len(lh) <= c
<1> DEFINE U == {lh[i] : i \in DOMAIN lh}
           W == UNION {wrote[t] : t \in Active}
<1>1. lh \in Seq(Blocks) /\ Once(lh)
  BY DEF IndInv, TypeOK, DiskType, ShapeInv
<1>2. IsFiniteSet(U) /\ Cardinality(U) = Len(lh) /\ Len(lh) \in Nat
  BY <1>1, LoggedCount
<1>3. Active \in SUBSET Threads
  BY DEF Active
<1>4. IsFiniteSet(W) /\ Cardinality(W) \in Nat /\ Cardinality(W) <= OpBlocks * Cardinality(Active)
  BY <1>3, WroteCount DEF RoomInv
<1>5. IsFiniteSet(UsedByEnded) /\ Cardinality(UsedByEnded) \in Nat
  BY <1>1, EndedCount DEF UsedByEnded
<1>6. U \in SUBSET (UsedByEnded \cup W)
  BY DEF UsedByEnded
<1>7. Cardinality(UsedByEnded) + OpBlocks * Cardinality(Active) <= c
  BY DEF RoomInv
<1>8. Cardinality(Active) \in Nat
  BY <1>3, FS_Subset, FS_CardinalityType, LogConstants
<1>9. OpBlocks * Cardinality(Active) \in Nat
  BY <1>8, LogConstants
<1> HIDE DEF U, W
<1>10. /\ IsFiniteSet(UsedByEnded \cup W)
       /\ Cardinality(UsedByEnded \cup W) = Cardinality(UsedByEnded) + Cardinality(W) - Cardinality(UsedByEnded \cap W)
  BY <1>4, <1>5, FS_Union
<1>11. Cardinality(UsedByEnded \cap W) \in Nat
  BY <1>4, FS_Subset, FS_CardinalityType
<1>12. Cardinality(U) <= Cardinality(UsedByEnded \cup W)
  BY <1>6, <1>10, FS_Subset
<1> QED
  BY <1>2, <1>4, <1>5, <1>7, <1>9, <1>10, <1>11, <1>12

\* Budgets that begin_op()'s test keeps, where a call takes at most k blocks.
Budget(k, c) ==
  /\ k \in Nat /\ c \in Nat /\ OpBlocks <= k
  /\ \A l, m \in Nat : m >= 1 /\ l + m * MAXOPBLOCKS <= LOGSIZE => l + m * k <= c

\* The two budgets of interest.
LEMMA Budgets == Budget(MAXOPBLOCKS, LOGSIZE) /\ Budget(OpBlocks, MostLogged)
<1>1. /\ MAXOPBLOCKS \in Nat /\ LOGSIZE \in Nat /\ OpBlocks \in Nat
      /\ OpBlocks <= MAXOPBLOCKS /\ MAXOPBLOCKS <= LOGSIZE
  BY LogConstants
<1>2. Budget(MAXOPBLOCKS, LOGSIZE)
  BY <1>1 DEF Budget
<1>3. ASSUME NEW l \in Nat, NEW m \in Nat, m >= 1, l + m * MAXOPBLOCKS <= LOGSIZE
      PROVE  l + m * OpBlocks <= MostLogged
  <2>1. PICK d \in Nat : d = MAXOPBLOCKS - OpBlocks
    BY <1>1
  <2>2. PICK n \in Nat : n = m - 1
    BY <1>3
  <2>3. MAXOPBLOCKS = OpBlocks + d /\ m = n + 1
    BY <1>1, <2>1, <2>2
  <2>4. m * MAXOPBLOCKS = m * OpBlocks + m * d
    BY <1>1, <2>3
  <2>5. m * d = n * d + d /\ n * d \in Nat /\ m * OpBlocks \in Nat
    BY <1>1, <2>3
  <2> QED
    BY <1>1, <1>3, <2>1, <2>4, <2>5 DEF MostLogged
<1>4. Budget(OpBlocks, MostLogged)
  <2>1. MostLogged \in Nat
    BY <1>1 DEF MostLogged
  <2> QED
    BY <1>1, <1>3, <2>1 DEF Budget
<1> QED
  BY <1>2, <1>4

\* Every step keeps calls within their OpBlocks.
LEMMA StepCallSize ==
  ASSUME IndInv, CallSizeInv, Next
  PROVE  CallSizeInv'
<1>ty. ThreadType /\ ShapeInv /\ OpBlocks \in Nat
  BY LogConstants DEF IndInv, TypeOK
<1>0. ASSUME wrote' = wrote, buf' = buf PROVE CallSizeInv'
  BY <1>0 DEF CallSizeInv
<1>e. IsFiniteSet({}) /\ Cardinality({}) = 0
  BY FS_EmptySet
<1>1. ASSUME NEW t \in Threads, BeginOp(t) PROVE CallSizeInv'
  <2>1. buf[t] = NoBlock
    BY <1>1, <1>ty DEF BeginOp, InBeginOp, ShapeInv
  <2>2. buf' = buf /\ wrote'[t] = {} /\ \A u \in Threads \ {t} : wrote'[u] = wrote[u]
    BY <1>1, <1>ty DEF BeginOp, ThreadType
  <2> QED
    BY <1>e, <1>ty, <2>1, <2>2 DEF CallSizeInv
<1>2. ASSUME NEW t \in Threads, BeginOpSleeps(t) PROVE CallSizeInv'
  BY <1>0, <1>2 DEF BeginOpSleeps
<1>3. ASSUME NEW t \in Threads, NEW b \in Blocks, NEW v \in Values, Modify(t, b, v) PROVE CallSizeInv'
  <2>1. wrote' = wrote /\ Cardinality(wrote[t] \cup {b}) <= OpBlocks
    BY <1>3 DEF Modify
  <2>2. buf'[t] = b /\ \A u \in Threads \ {t} : buf'[u] = buf[u]
    BY <1>3, <1>ty DEF Modify, ThreadType
  <2> QED
    BY <2>1, <2>2 DEF CallSizeInv
<1>4. ASSUME NEW t \in Threads, LogWriteCheck(t) PROVE CallSizeInv'
  BY <1>0, <1>4 DEF LogWriteCheck
<1>5. ASSUME NEW t \in Threads, LogWrite(t) PROVE CallSizeInv'
  <2>1. buf[t] # NoBlock
    BY <1>5, <1>ty DEF LogWrite, ShapeInv
  <2>2. /\ buf'[t] = NoBlock /\ wrote'[t] = wrote[t] \cup {buf[t]}
        /\ \A u \in Threads \ {t} : buf'[u] = buf[u] /\ wrote'[u] = wrote[u]
    BY <1>5, <1>ty DEF LogWrite, ThreadType
  <2>3. IsFiniteSet(wrote[t] \cup {buf[t]})
    BY FS_AddElement DEF CallSizeInv
  <2> QED
    BY <2>1, <2>2, <2>3 DEF CallSizeInv
<1>6. ASSUME NEW t \in Threads, EndOp(t) PROVE CallSizeInv'
  BY <1>0, <1>6 DEF EndOp
<1>7. ASSUME NEW t \in Threads, CommitDone(t) PROVE CallSizeInv'
  BY <1>0, <1>7 DEF CommitDone
<1>8. ASSUME CommitStep PROVE CallSizeInv'
  BY <1>0, <1>8 DEF CommitStep, WriteLog, WriteHead, InstallTrans, ClearLog, ReadHead
<1>9. ASSUME NEW b \in Blocks, Load(b) \/ Recycle(b) PROVE CallSizeInv'
  BY <1>0, <1>9 DEF Load, Recycle
<1>10. ASSUME Crash PROVE CallSizeInv'
  BY <1>e, <1>ty, <1>10 DEF Crash, CallSizeInv
<1> QED
  BY <1>1, <1>2, <1>3, <1>4, <1>5, <1>6, <1>7, <1>8, <1>9, <1>10 DEF Next, CallStep

\* A step that logs nothing, ends no call and writes no header.
LEMMA RoomSame ==
  ASSUME NEW k, NEW c, RoomInv(k, c), CallSizeInv',
         lh' = lh, wrote' = wrote, head' = head, Active' = Active
  PROVE  RoomInv(k, c)'
<1>1. UsedByEnded' = UsedByEnded
  BY DEF UsedByEnded
<1> QED
  BY <1>1 DEF RoomInv

\* A step after which the log is empty and nobody is in a call.
LEMMA RoomEmpty ==
  ASSUME NEW k, NEW c, Budget(k, c), CallSizeInv', lh' = <<>>, Active' = {}, Len(head') <= c
  PROVE  RoomInv(k, c)'
<1>1. UsedByEnded' = {}
  BY DEF UsedByEnded
<1>2. Cardinality({}) = 0
  BY FS_EmptySet
<1>3. 0 + k * 0 <= c
  BY DEF Budget
<1> QED
  BY <1>1, <1>2, <1>3 DEF RoomInv

\* Every step keeps a budget.
LEMMA StepRoom ==
  ASSUME NEW k, NEW c, Budget(k, c), IndInv, LogFits, RoomInv(k, c), Next, IndInv'
  PROVE  RoomInv(k, c)'
<1>ty. /\ lh \in Seq(Blocks) /\ lh' \in Seq(Blocks) /\ head \in Seq(Blocks) /\ Once(lh)
       /\ ThreadType /\ ShapeInv /\ CallInv /\ CommitInv
  BY DEF IndInv, TypeOK, DiskType, ShapeInv
<1>nat. k \in Nat /\ c \in Nat /\ OpBlocks \in Nat /\ OpBlocks <= k
  BY LogConstants DEF Budget
<1>cs. CallSizeInv /\ CallSizeInv'
  BY StepCallSize DEF RoomInv
<1>act. /\ Active \in SUBSET Threads
        /\ outstanding = Cardinality(Active) /\ Cardinality(Active) \in Nat
  <2>1. Active \in SUBSET Threads
    BY DEF Active
  <2>2. Cardinality(Active) \in Nat
    BY <2>1, FS_Subset, FS_CardinalityType, LogConstants
  <2> QED
    BY <1>ty, <2>1, <2>2 DEF CallInv, OutstandingCounts
<1>in. Cardinality(UsedByEnded) + k * Cardinality(Active) <= c /\ Len(head) <= c
  BY DEF RoomInv
<1>ube. IsFiniteSet(UsedByEnded) /\ Cardinality(UsedByEnded) \in Nat
  BY <1>ty, EndedCount DEF UsedByEnded
<1>ube2. IsFiniteSet(UsedByEnded') /\ Cardinality(UsedByEnded') \in Nat /\ Cardinality(UsedByEnded') <= Len(lh')
  <2>1. UsedByEnded' \in SUBSET {lh'[i] : i \in DOMAIN lh'}
    BY DEF UsedByEnded
  <2> QED
    BY <1>ty, <2>1, EndedCount
<1>0. committing = 1 => Active = {}
  <2>1. committing = 1 => Cardinality(Active) = 0
    BY <1>ty, <1>act DEF CallInv, OutstandingCounts
  <2>2. IsFiniteSet(Active)
    BY <1>act, FS_Subset, LogConstants
  <2> QED
    BY <2>1, <2>2, FS_EmptySet
<1>00. cpc # "idle" => Active = {}
  <2>1. committing \in {0, 1}
    BY DEF IndInv, TypeOK, MemoryType
  <2> QED
    BY <1>ty, <1>0, <2>1 DEF CallInv, Recovering
<1>1. ASSUME NEW t \in Threads, BeginOp(t) PROVE RoomInv(k, c)'
  <2>1. Active' = Active \cup {t} /\ t \notin Active
    BY <1>1, <1>ty DEF BeginOp, InBeginOp, Active, ThreadType
  <2>2. Cardinality(Active') = Cardinality(Active) + 1
    BY <2>1, <1>act, ActiveCount
  <2>3. head' = head /\ lh' = lh /\ Len(lh) + (Cardinality(Active) + 1) * MAXOPBLOCKS <= LOGSIZE
    BY <1>1, <1>act DEF BeginOp, LogHasRoom
  <2>4. PICK l \in Nat : l = Cardinality(UsedByEnded')
    BY <1>ube2
  <2>5. PICK m \in Nat : m = Cardinality(Active) + 1
    BY <1>act
  <2>6. Len(lh) \in Nat /\ l <= Len(lh)
    BY <1>ty, <1>ube2, <2>3, <2>4
  <2>7. m >= 1 /\ l + m * MAXOPBLOCKS <= LOGSIZE
    <3>1. m * MAXOPBLOCKS \in Int /\ LOGSIZE \in Int /\ m >= 1
      BY <1>act, <2>5, LogConstants
    <3>2. Len(lh) + m * MAXOPBLOCKS <= LOGSIZE
      BY <2>3, <2>5
    <3> QED
      BY <2>6, <3>1, <3>2
  <2>8. l + m * k <= c
    BY <2>7 DEF Budget
  <2>9. m * k = k * m
    BY <1>nat
  <2> QED
    BY <1>cs, <1>in, <2>2, <2>3, <2>4, <2>5, <2>8, <2>9 DEF RoomInv
<1>2. ASSUME NEW t \in Threads, BeginOpSleeps(t) PROVE RoomInv(k, c)'
  <2>1. Active' = Active
    BY <1>2, <1>ty DEF BeginOpSleeps, InBeginOp, Active, ThreadType
  <2> QED
    BY <1>2, <1>cs, <2>1, RoomSame DEF BeginOpSleeps
<1>3. ASSUME NEW t \in Threads, NEW b \in Blocks, NEW v \in Values, Modify(t, b, v) PROVE RoomInv(k, c)'
  <2>1. Active' = Active
    BY <1>3, <1>ty DEF Modify, Active, ThreadType
  <2> QED
    BY <1>3, <1>cs, <2>1, RoomSame DEF Modify
<1>4. ASSUME NEW t \in Threads, LogWriteCheck(t) PROVE RoomInv(k, c)'
  <2>1. Active' = Active
    BY <1>4, <1>ty DEF LogWriteCheck, Active, ThreadType
  <2> QED
    BY <1>4, <1>cs, <2>1, RoomSame DEF LogWriteCheck
<1>5. ASSUME NEW t \in Threads, LogWrite(t) PROVE RoomInv(k, c)'
  <2>1. Active' = Active /\ t \in Active
    BY <1>5, <1>ty DEF LogWrite, Active, ThreadType
  <2>2. PICK b \in Blocks : b = buf[t]
    BY <1>5, <1>ty DEF LogWrite, ShapeInv, ThreadType
  <2>3. lh' = lh \/ lh' = Append(lh, b)
    BY <1>5, <2>2 DEF LogWrite, Record
  <2>4. \A x \in {lh'[i] : i \in DOMAIN lh'} : x = b \/ x \in {lh[i] : i \in DOMAIN lh}
    BY <1>ty, <2>3
  <2>5. /\ wrote'[t] = wrote[t] \cup {b} /\ \A u \in Threads \ {t} : wrote'[u] = wrote[u]
        /\ head' = head
    BY <1>5, <1>ty, <2>2 DEF LogWrite, ThreadType
  <2>6. UsedByEnded' \in SUBSET UsedByEnded
    <3>1. ASSUME NEW x \in UsedByEnded' PROVE x \in UsedByEnded
      <4>1. x \in {lh'[i] : i \in DOMAIN lh'} /\ \A u \in Active : x \notin wrote'[u]
        BY <2>1, <3>1 DEF UsedByEnded
      <4>2. x # b /\ \A u \in Active : x \notin wrote[u]
        BY <1>act, <2>1, <2>5, <4>1
      <4> QED
        BY <2>4, <4>1, <4>2 DEF UsedByEnded
    <3> QED
      BY <3>1
  <2>7. Cardinality(UsedByEnded') <= Cardinality(UsedByEnded)
    BY <1>ube, <2>6, FS_Subset
  <2>8. k * Cardinality(Active) \in Nat
    BY <1>act, <1>nat
  <2>9. Cardinality(UsedByEnded') + k * Cardinality(Active') <= c
    BY <1>in, <1>ube, <1>ube2, <1>nat, <2>1, <2>7, <2>8
  <2> QED
    BY <1>cs, <1>in, <2>5, <2>9 DEF RoomInv
<1>6. ASSUME NEW t \in Threads, EndOp(t) PROVE RoomInv(k, c)'
  <2>1. t \in Active /\ committing # 1
    BY <1>0, <1>6 DEF EndOp, Active
  <2>2. Active' = Active \ {t}
    BY <1>6, <1>ty, <2>1 DEF EndOp, EndOpWakes, Wakeup, Active, ThreadType
  <2>3. Cardinality(Active') = Cardinality(Active) - 1
    BY <1>act, <2>1, <2>2, ActiveCount
  <2>4. lh' = lh /\ wrote' = wrote /\ head' = head
    BY <1>6 DEF EndOp
  <2>5. UsedByEnded' \in SUBSET (UsedByEnded \cup wrote[t])
    BY <2>2, <2>4 DEF UsedByEnded
  <2>6. IsFiniteSet(wrote[t]) /\ Cardinality(wrote[t]) <= OpBlocks
    BY <1>cs DEF CallSizeInv
  <2>7. /\ IsFiniteSet(UsedByEnded \cup wrote[t])
        /\ Cardinality(UsedByEnded \cup wrote[t]) = Cardinality(UsedByEnded) + Cardinality(wrote[t]) - Cardinality(UsedByEnded \cap wrote[t])
    BY <1>ube, <2>6, FS_Union
  <2>8. Cardinality(wrote[t]) \in Nat /\ Cardinality(UsedByEnded \cap wrote[t]) \in Nat
    BY <2>6, FS_Subset, FS_CardinalityType
  <2>9. Cardinality(UsedByEnded') <= Cardinality(UsedByEnded \cup wrote[t])
    BY <2>5, <2>7, FS_Subset
  <2> DEFINE e == Cardinality(UsedByEnded)
             e2 == Cardinality(UsedByEnded')
             w == Cardinality(wrote[t])
             both == Cardinality(UsedByEnded \cap wrote[t])
             n == Cardinality(Active)
  <2>a. /\ e \in Nat /\ e2 \in Nat /\ w \in Nat /\ both \in Nat /\ n \in Nat
        /\ e2 <= e + w - both /\ w <= OpBlocks /\ e + k * n <= c /\ Cardinality(Active') = n - 1
    BY <1>act, <1>in, <1>ube, <1>ube2, <2>3, <2>6, <2>7, <2>8, <2>9
  <2> HIDE DEF e, e2, w, both, n
  <2>10. e2 <= e + k
    BY <1>nat, <2>a
  <2>11. k * (n - 1) = k * n - k /\ k * n \in Nat
    BY <1>nat, <2>a
  <2>12. e2 + k * (n - 1) <= c
    BY <1>nat, <2>a, <2>10, <2>11
  <2> QED
    BY <1>cs, <1>in, <2>4, <2>a, <2>12 DEF RoomInv, e2
<1>7. ASSUME NEW t \in Threads, CommitDone(t) PROVE RoomInv(k, c)'
  <2>1. Active' = Active
    BY <1>7, <1>ty DEF CommitDone, CommitWakes, Wakeup, Active, ThreadType
  <2> QED
    BY <1>7, <1>cs, <2>1, RoomSame DEF CommitDone
<1>8. ASSUME WriteLog PROVE RoomInv(k, c)'
  BY <1>8, <1>cs, RoomSame DEF WriteLog, Active
<1>9. ASSUME WriteHead PROVE RoomInv(k, c)'
  <2>1. Active' = Active /\ lh' = lh /\ wrote' = wrote /\ head' = lh /\ Active = {}
    BY <1>00, <1>9 DEF WriteHead, Active
  <2>2. UsedByEnded' = UsedByEnded
    BY <2>1 DEF UsedByEnded
  <2>3. UsedByEnded = {lh[i] : i \in DOMAIN lh}
    BY <2>1 DEF UsedByEnded
  <2>4. Cardinality(UsedByEnded) = Len(lh)
    BY <1>ty, <2>3, LoggedCount
  <2>5. k * Cardinality(Active) \in Nat
    BY <1>act, <1>nat
  <2>6. Len(lh) <= c
    BY <1>in, <1>nat, <1>ube, <2>4, <2>5
  <2> QED
    BY <1>cs, <1>in, <2>1, <2>2, <2>6 DEF RoomInv
<1>10. ASSUME InstallTrans PROVE RoomInv(k, c)'
  BY <1>10, <1>cs, RoomSame DEF InstallTrans, Active
<1>11. ASSUME ClearLog PROVE RoomInv(k, c)'
  <2>1. Active' = {} /\ lh' = <<>> /\ Len(head') <= c
    BY <1>00, <1>11, <1>nat DEF ClearLog, Active
  <2> QED
    BY <1>cs, <2>1, RoomEmpty
<1>12. ASSUME ReadHead PROVE RoomInv(k, c)'
  <2>1. Active' = {} /\ lh' = head /\ head' = head
    BY <1>00, <1>12 DEF ReadHead, ReadHeadBlocks, Active
  <2>2. Cardinality({}) = 0 /\ k * 0 = 0
    BY <1>nat, FS_EmptySet
  <2>3. Cardinality(UsedByEnded') + k * Cardinality(Active') <= c
    BY <1>in, <1>nat, <1>ty, <1>ube2, <2>1, <2>2
  <2> QED
    BY <1>cs, <1>in, <2>1, <2>3 DEF RoomInv
<1>13. ASSUME NEW b \in Blocks, Load(b) \/ Recycle(b) PROVE RoomInv(k, c)'
  BY <1>13, <1>cs, RoomSame DEF Load, Recycle, Active
<1>14. ASSUME Crash PROVE RoomInv(k, c)'
  <2>1. Active' = {} /\ lh' = <<>> /\ head' = head
    BY <1>14 DEF Crash, Active
  <2> QED
    BY <1>cs, <1>in, <2>1, RoomEmpty
<1> QED
  BY <1>1, <1>2, <1>3, <1>4, <1>5, <1>6, <1>7, <1>8, <1>9, <1>10, <1>11,
     <1>12, <1>13, <1>14 DEF Next, CallStep, CommitStep

\* Every step from a state within a budget is within it, the first state too.
LEMMA RoomIsKept ==
  ASSUME NEW k, NEW c, Budget(k, c)
  PROVE  /\ Init => RoomInv(k, c)
         /\ IndInv /\ IndInv' /\ LogFits /\ RoomInv(k, c) /\ [Next]_vars => RoomInv(k, c)'
<1>1. ASSUME Init PROVE RoomInv(k, c)
  <2>1. UsedByEnded = {} /\ Active = {} /\ Len(head) = 0
    BY <1>1 DEF Init, UsedByEnded, Active
  <2>2. IsFiniteSet({}) /\ Cardinality({}) = 0
    BY FS_EmptySet
  <2>3. CallSizeInv
    BY <1>1, <2>2, LogConstants DEF Init, CallSizeInv
  <2>4. 0 + k * 0 <= c /\ 0 <= c
    BY DEF Budget
  <2> QED
    BY <2>1, <2>2, <2>3, <2>4 DEF RoomInv
<1>2. ASSUME IndInv, IndInv', LogFits, RoomInv(k, c), [Next]_vars PROVE RoomInv(k, c)'
  <2>1. CASE Next
    BY <1>2, <2>1, StepRoom
  <2>2. CASE UNCHANGED vars
    BY <1>2, <2>2 DEF vars, memory, RoomInv, CallSizeInv, UsedByEnded, Active
  <2> QED
    BY <1>2, <2>1, <2>2
<1> QED
  BY <1>1, <1>2

-----------------------------------------------------------------------------
\* The theorems

\* One step of the log keeps the whole invariant.
LEMMA StepIndInv == IndInv /\ LogFits /\ [Next]_vars => IndInv'
<1> SUFFICES ASSUME IndInv, LogFits, [Next]_vars PROVE IndInv'
  OBVIOUS
<1>1. CASE Next
  BY <1>1, StepDiskType, StepMemoryType, StepThreadType, StepShapeInv, StepCallInv,
     StepCacheInv, StepCommitInv DEF IndInv, TypeOK
<1>2. CASE UNCHANGED vars
  <2>1. TypeOK'
    BY <1>2 DEF vars, memory, IndInv, TypeOK, DiskType, MemoryType, ThreadType
  <2>2. ShapeInv' /\ CallInv'
    BY <1>2 DEF vars, memory, IndInv, ShapeInv, Once, CallInv, OutstandingCounts,
                Active, Recovering
  <2>3. CacheInv'
    BY <1>2 DEF vars, memory, IndInv, CacheInv, CleanIsOnDisk, MayRecycle, Locked,
                Content, Recovering
  <2>4. CommitInv'
    BY <1>2 DEF vars, memory, IndInv, CommitInv, Content
  <2> QED
    BY <2>1, <2>2, <2>3, <2>4 DEF IndInv
<1> QED
  BY <1>1, <1>2

\* As long as the log fits into its area, the invariant of log, header, cache
\* and disk holds, across crashes and recoveries.
THEOREM Invariance == Spec /\ []LogFits => []IndInv
  BY InitIndInv, StepIndInv, PTL DEF Spec

\* A buffer that bget() may recycle holds what the disk holds: recycling
\* never loses a change that a call has logged.
THEOREM RecyclingIsSafe == Spec /\ []LogFits => []CleanIsOnDisk
<1>1. IndInv => CleanIsOnDisk
  BY DEF IndInv, CacheInv
<1> QED
  BY <1>1, Invariance, PTL

\* log.outstanding counts the calls in progress, and none is in progress
\* during a commit.
THEOREM CallsAreCounted == Spec /\ []LogFits => []OutstandingCounts
<1>1. IndInv => OutstandingCounts
  BY DEF IndInv, CallInv
<1> QED
  BY <1>1, Invariance, PTL

\* Nobody sleeps in begin_op() without a commit, or a call in progress that
\* holds the room, to wait for.
THEOREM NobodySleepsOnAnOpenLog == Spec /\ []LogFits => []SleepersWaitForSomething
<1>1. Init => SleepInv
  BY DEF Init, SleepInv, SleepersWaitForSomething
<1>2. IndInv /\ LogFits /\ SleepInv /\ [Next]_vars => SleepInv'
  <2> SUFFICES ASSUME IndInv, LogFits, SleepInv, [Next]_vars PROVE SleepInv'
    OBVIOUS
  <2>1. CASE UNCHANGED vars
    BY <2>1 DEF vars, memory, SleepInv, SleepersWaitForSomething, LogHasRoom, Recovering
  <2> QED
    BY <2>1, StepSleepInv
<1>3. SleepInv => SleepersWaitForSomething
  BY DEF SleepInv
<1> QED
  BY <1>1, <1>2, <1>3, Invariance, PTL DEF Spec

\* log.c implements AtomicDisk: whenever the machine crashes, in the middle
\* of commit() or of a recovery too, the next boot finds the blocks as they
\* were when no call was in progress.
THEOREM LogIsAtomic == Spec /\ []LogFits => CrashAtomic
<1>1. Init => Abstract!ADInit
  <2> SUFFICES ASSUME Init PROVE Abstract!ADInit
    OBVIOUS
  <2>1. Recovered = disk /\ disk \in [Blocks -> Values]
    BY InitIndInv, RecoveredIsDisk DEF Init
  <2>2. Recovering /\ Active = {}
    BY DEF Init, Recovering, Active
  <2> QED
    BY <2>1, <2>2 DEF Abstract!ADInit, Current
<1>2. IndInv /\ IndInv' /\ LogFits /\ [Next]_vars => [Abstract!ADNext]_Abstract!advars
  <2> SUFFICES ASSUME IndInv, IndInv', LogFits, [Next]_vars
               PROVE  [Abstract!ADNext]_Abstract!advars
    OBVIOUS
  <2>1. CASE UNCHANGED vars
    BY <2>1 DEF vars, memory, Abstract!advars, Recovered, Current, CacheView, Content,
                Recovering, Active
  <2> QED
    BY <2>1, StepRefines
<1> QED
  BY <1>1, <1>2, Invariance, PTL DEF Spec, CrashAtomic, Abstract!ADSpec

\* What begin_op() adds up stays true: beside what the calls that have ended
\* have used, each call in progress has MAXOPBLOCKS blocks of the log.
THEOREM SpaceIsReserved == Spec /\ []LogFits => []SpaceReserved
<1>1. /\ Init => RoomInv(MAXOPBLOCKS, LOGSIZE)
      /\ IndInv /\ IndInv' /\ LogFits /\ RoomInv(MAXOPBLOCKS, LOGSIZE) /\ [Next]_vars => RoomInv(MAXOPBLOCKS, LOGSIZE)'
  BY Budgets, RoomIsKept
<1>2. RoomInv(MAXOPBLOCKS, LOGSIZE) => SpaceReserved
  BY DEF RoomInv, SpaceReserved
<1> QED
  BY <1>1, <1>2, Invariance, PTL DEF Spec

\* When calls take fewer blocks than begin_op() reserves for them, or the log
\* area has a block more than LOGSIZE, the log always fits into its area.
THEOREM LogAlwaysFits ==
  ASSUME MostLogged < NLOG
  PROVE  Spec => [](LogFits /\ IndInv /\ RoomInv(OpBlocks, MostLogged))
<1>1. IndInv /\ RoomInv(OpBlocks, MostLogged) => LogFits
  <2> SUFFICES ASSUME IndInv, RoomInv(OpBlocks, MostLogged) PROVE LogFits
    OBVIOUS
  <2>1. MostLogged \in Int /\ NLOG \in Int
    BY LogConstants DEF MostLogged
  <2>2. Len(lh) <= MostLogged
    BY <2>1, RoomBounds
  <2>3. Len(lh) \in Nat
    BY DEF IndInv, TypeOK, DiskType
  <2> QED
    BY <2>1, <2>2, <2>3 DEF LogFits
<1>2. /\ Init => RoomInv(OpBlocks, MostLogged)
      /\ IndInv /\ IndInv' /\ LogFits /\ RoomInv(OpBlocks, MostLogged) /\ [Next]_vars => RoomInv(OpBlocks, MostLogged)'
  BY Budgets, RoomIsKept
<1> QED
  BY <1>1, <1>2, InitIndInv, StepIndInv, PTL DEF Spec

\* Then log.c is atomic whatever the calls and the crashes.
THEOREM SmallCallsAreAtomic ==
  ASSUME MostLogged < NLOG
  PROVE  Spec => CrashAtomic
  BY LogAlwaysFits, LogIsAtomic, PTL

\* With one block more to spare, log_write() never finds its transaction too
\* big and no call ends during a commit: nothing in log.c panics.
THEOREM LogNeverPanics ==
  ASSUME MostLogged < LOGSIZE, MostLogged < NLOG - 1
  PROVE  Spec => [](panicked = 0)
<1>0. MostLogged \in Int /\ NLOG \in Int /\ LOGSIZE \in Int /\ MostLogged < NLOG
  BY LogConstants DEF MostLogged
<1>1. Init => panicked = 0
  BY DEF Init
<1>2. IndInv /\ RoomInv(OpBlocks, MostLogged) /\ panicked = 0 /\ [Next]_vars => (panicked = 0)'
  <2> SUFFICES ASSUME IndInv, RoomInv(OpBlocks, MostLogged), panicked = 0, [Next]_vars PROVE panicked' = 0
    OBVIOUS
  <2>1. Len(lh) <= MostLogged
    BY <1>0, RoomBounds
  <2>2. Len(lh) \in Nat
    BY DEF IndInv, TypeOK, DiskType
  <2>3. ~(Len(lh) >= LOGSIZE) /\ ~(Len(lh) >= NLOG - 1)
    BY <1>0, <2>1, <2>2
  <2>4. ASSUME NEW t \in Threads, t \in Active PROVE outstanding >= 1 /\ committing # 1
    <3>1. Cardinality(Active) \in Nat /\ Cardinality(Active) # 0
      BY <2>4, ActiveCount DEF Active
    <3> QED
      BY <3>1 DEF IndInv, CallInv, OutstandingCounts
  <2>5. ASSUME NEW t \in Threads, LogWriteCheck(t) PROVE panicked' = 0
    <3>1. outstanding >= 1 /\ outstanding \in Nat
      BY <2>4, <2>5 DEF LogWriteCheck, Active, IndInv, TypeOK, MemoryType
    <3> QED
      BY <2>3, <2>5, <3>1 DEF LogWriteCheck
  <2>6. ASSUME NEW t \in Threads, EndOp(t) PROVE panicked' = 0
    <3>1. committing # 1
      BY <2>4, <2>6 DEF EndOp, Active
    <3> QED
      BY <2>6, <3>1 DEF EndOp
  <2>7. CASE UNCHANGED vars
    BY <2>7 DEF vars, memory
  <2>8. CASE Next
    BY <2>5, <2>6, <2>8 DEF Next, CallStep, CommitStep, BeginOp, BeginOpSleeps, LogWrite, CommitDone, Modify,
       WriteLog, WriteHead, InstallTrans, ClearLog, ReadHead, Load, Recycle, Crash
  <2> QED
    BY <2>7, <2>8
<1> QED
  BY <1>0, <1>1, <1>2, LogAlwaysFits, PTL DEF Spec
=============================================================================
