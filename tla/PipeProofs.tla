----------------------------- MODULE PipeProofs -----------------------------
(***************************************************************************)
(* Proofs about Pipe for every set of processes, every size of the buffer  *)
(* and every multiple of it that the counters wrap at: the page is freed   *)
(* once and after its last use, no sleeper is forgotten, and the ring      *)
(* buffer implements Fifo.                                                 *)
(***************************************************************************)
EXTENDS Pipe, Facts

\* What an unsigned int holds.
Counters == 0 .. UINT - 1

-----------------------------------------------------------------------------
\* The counters

\* What the counters need to know of the sizes.
LEMMA Sizes ==
  UINT \in Nat \ {0} /\ PIPESIZE \in Nat \ {0} /\ PIPESIZE < UINT
  BY PipeConstants

\* Counting wraps once at most.
LEMMA Wrap ==
  ASSUME NEW r \in Counters, NEW k \in 0 .. UINT
  PROVE  (r + k) % UINT = IF r + k < UINT THEN r + k ELSE r + k - UINT
<1>1. ASSUME NEW a \in Int, 0 <= a, a < UINT + UINT
      PROVE  a % UINT = IF a < UINT THEN a ELSE a - UINT
  <2>1. /\ 0 <= a /\ a < UINT => a % UINT = a
        /\ UINT <= a /\ a < UINT + UINT => a % UINT = a - UINT
    BY Sizes, ModNear, Zenon
  <2> QED
    BY <1>1, <2>1, Sizes
<1>2. PICK a \in Int : a = r + k
  BY Sizes DEF Counters
<1>3. 0 <= a /\ a < UINT + UINT
  BY <1>2, Sizes DEF Counters
<1>4. a % UINT = IF a < UINT THEN a ELSE a - UINT
  BY <1>1, <1>3
<1> QED
  BY <1>2, <1>4, Sizes DEF Counters

\* The distance of two counters is a distance, and 0 only between equals.
LEMMA AheadRange ==
  ASSUME NEW w \in Counters, NEW r \in Counters
  PROVE  Ahead(w, r) \in Counters /\ (Ahead(w, r) = 0 <=> r = w)
  BY Sizes DEF Ahead, Counters

\* Counting k up from r arrives at w when k is the distance, or a round more.
LEMMA AheadMeets ==
  ASSUME NEW w \in Counters, NEW r \in Counters, NEW k \in 0 .. UINT
  PROVE  (r + k) % UINT = w <=> k = Ahead(w, r) \/ (k = UINT /\ r = w)
<1> DEFINE x == (r + k) % UINT
<1>1. x = IF r + k < UINT THEN r + k ELSE r + k - UINT
  BY Wrap
<1> HIDE DEF x
<1>2. x = w <=> k = Ahead(w, r) \/ (k = UINT /\ r = w)
  BY <1>1, Sizes DEF Ahead, Counters
<1> QED
  BY <1>2 DEF x

\* Used is the distance of nwrite from nread.
LEMMA UsedIs ==
  ASSUME NEW w \in Counters, NEW r \in Counters
  PROVE  Min({k \in 0 .. UINT : (r + k) % UINT = w}) = Ahead(w, r)
<1> DEFINE S == {k \in 0 .. UINT : (r + k) % UINT = w}
<1>1. Ahead(w, r) \in 0 .. UINT /\ Ahead(w, r) <= UINT
  BY AheadRange, Sizes DEF Counters
<1>2. S = {k \in 0 .. UINT : k = Ahead(w, r) \/ (k = UINT /\ r = w)}
  BY AheadMeets
<1> HIDE DEF S
<1>3. S \in SUBSET Int /\ Ahead(w, r) \in S /\ \A k \in S : Ahead(w, r) <= k
  BY <1>1, <1>2
<1>4. Min(S) = Ahead(w, r)
  BY <1>3, MinIs
<1> QED
  BY <1>4 DEF S

\* The buffer is full when nwrite is PIPESIZE ahead.
LEMMA FullIs ==
  ASSUME NEW w \in Counters, NEW r \in Counters
  PROVE  IsFull(w, r) <=> Ahead(w, r) = PIPESIZE
<1>1. PIPESIZE \in 0 .. UINT /\ PIPESIZE # UINT
  BY Sizes
<1>2. (r + PIPESIZE) % UINT = w <=> PIPESIZE = Ahead(w, r)
  BY <1>1, AheadMeets
<1> QED
  BY <1>2, Zenon DEF IsFull

\* Bytes put in add to the distance, ...
LEMMA PutAhead ==
  ASSUME NEW w \in Counters, NEW r \in Counters, NEW n \in Nat, Ahead(w, r) + n <= PIPESIZE
  PROVE  /\ (w + n) % UINT \in Counters
         /\ Ahead((w + n) % UINT, r) = Ahead(w, r) + n
<1> DEFINE x == (w + n) % UINT
<1>1. n \in 0 .. UINT
  BY AheadRange, Sizes DEF Counters
<1>2. x = IF w + n < UINT THEN w + n ELSE w + n - UINT
  BY <1>1, Wrap
<1> HIDE DEF x
<1>3. x \in Counters /\ Ahead(x, r) = Ahead(w, r) + n
  BY <1>2, Sizes DEF Ahead, Counters
<1> QED
  BY <1>3 DEF x

\* ... bytes taken out shorten it.
LEMMA GetAhead ==
  ASSUME NEW w \in Counters, NEW r \in Counters, NEW n \in Nat, n <= Ahead(w, r)
  PROVE  /\ (r + n) % UINT \in Counters
         /\ Ahead(w, (r + n) % UINT) = Ahead(w, r) - n
<1> DEFINE x == (r + n) % UINT
<1>1. n \in 0 .. UINT
  BY AheadRange, Sizes DEF Counters
<1>2. x = IF r + n < UINT THEN r + n ELSE r + n - UINT
  BY <1>1, Wrap
<1> HIDE DEF x
<1>3. x \in Counters /\ Ahead(w, x) = Ahead(w, r) - n
  BY <1>2, Sizes DEF Ahead, Counters
<1> QED
  BY <1>3 DEF x

\* Room is what is left.
LEMMA RoomIs ==
  ASSUME nwrite \in Counters, nread \in Counters, Ahead(nwrite, nread) <= PIPESIZE
  PROVE  Room = PIPESIZE - Ahead(nwrite, nread)
<1> DEFINE S == {k \in 0 .. UINT : IsFull((nwrite + k) % UINT, nread)}
           a == Ahead(nwrite, nread)
           m == PIPESIZE - a
<1>0. a \in Counters
  BY AheadRange
<1>1. a \in Nat /\ m \in Nat /\ m \in 0 .. UINT
  BY <1>0, Sizes DEF Counters
<1>2. ASSUME NEW k \in Nat, a + k <= PIPESIZE
      PROVE  IsFull((nwrite + k) % UINT, nread) <=> a + k = PIPESIZE
  BY <1>2, PutAhead, FullIs
<1> HIDE DEF a
<1>3. S \in SUBSET Int /\ m \in S
  BY <1>1, <1>2, Sizes
<1>4. ASSUME NEW k \in S PROVE m <= k
  BY <1>1, <1>2, Sizes
<1> HIDE DEF S, m
<1>5. Min(S) = m
  BY <1>3, <1>4, MinIs
<1> QED
  BY <1>5 DEF Room, S, m, a

-----------------------------------------------------------------------------
\* The buffer

\* The types of the counters, in the form the lemmas above take.
LEMMA CounterTypes ==
  ASSUME TypeOK
  PROVE  nread \in Counters /\ nwrite \in Counters
  BY DEF TypeOK, Counters

\* Bytes that fit go in: the buffer keeps its type, and nwrite moves ahead by
\* their number.
LEMMA PutBytesFits ==
  ASSUME TypeOK, Ahead(nwrite, nread) <= PIPESIZE,
         NEW s \in Seq(Bytes), Len(s) <= Room, PutBytes(s)
  PROVE  /\ data' \in [0 .. PIPESIZE - 1 -> Bytes]
         /\ nwrite' \in Counters
         /\ Ahead(nwrite', nread) = Ahead(nwrite, nread) + Len(s)
<1>1. nread \in Counters /\ nwrite \in Counters
  BY CounterTypes
<1>2. ASSUME NEW i \in 0 .. PIPESIZE - 1
      PROVE  LET k == (i - nwrite) % PIPESIZE
             IN (IF k < Len(s) THEN s[k + 1] ELSE data[i]) \in Bytes
  <2>1. PICK k : k = (i - nwrite) % PIPESIZE
    OBVIOUS
  <2>2. k \in 0 .. PIPESIZE - 1
    <3>1. i - nwrite \in Int
      BY <1>1, Sizes DEF Counters
    <3>2. (i - nwrite) % PIPESIZE \in 0 .. PIPESIZE - 1
      BY <3>1, Sizes, DivMod, Zenon
    <3> QED
      BY <2>1, <3>2
  <2>3. k < Len(s) => s[k + 1] \in Bytes
    BY <2>2, Sizes
  <2>4. data[i] \in Bytes
    BY DEF TypeOK
  <2> QED
    BY <2>1, <2>3, <2>4
<1>3. data' \in [0 .. PIPESIZE - 1 -> Bytes]
  BY <1>2 DEF PutBytes
<1>4. Len(s) \in Nat /\ Ahead(nwrite, nread) + Len(s) <= PIPESIZE
  <2>1. Room = PIPESIZE - Ahead(nwrite, nread)
    BY <1>1, RoomIs
  <2>2. Ahead(nwrite, nread) \in Counters
    BY <1>1, AheadRange
  <2> QED
    BY <2>1, <2>2, Sizes DEF Counters
<1>5. nwrite' = (nwrite + Len(s)) % UINT
  BY DEF PutBytes
<1> QED
  BY <1>1, <1>3, <1>4, <1>5, PutAhead

\* What pipewrite() puts in before it finds the buffer full fills it.
LEMMA FillsTheRoom ==
  ASSUME TypeOK, Ahead(nwrite, nread) <= PIPESIZE,
         NEW s \in Seq(Bytes), Len(s) > Room
  PROVE  /\ Room \in Nat /\ Room = PIPESIZE - Ahead(nwrite, nread)
         /\ SubSeq(s, 1, Room) \in Seq(Bytes)
         /\ Len(SubSeq(s, 1, Room)) = Room
         /\ SubSeq(s, Room + 1, Len(s)) \in Seq(Bytes)
<1>1. Room = PIPESIZE - Ahead(nwrite, nread)
  BY CounterTypes, RoomIs
<1>2. Ahead(nwrite, nread) \in Counters
  BY CounterTypes, AheadRange
<1>3. Room \in Nat
  BY <1>1, <1>2, Sizes DEF Counters
<1> QED
  BY <1>1, <1>3

-----------------------------------------------------------------------------
\* IndInv is inductive

\* A new pipe satisfies the invariant.
LEMMA InitIndInv == Init => IndInv
<1> SUFFICES ASSUME Init PROVE IndInv
  OBVIOUS
<1>1. TypeOK
  BY Sizes, PipeConstants DEF Init, TypeOK, PCs
<1>2. LockInv
  BY PipeConstants DEF Init, LockInv
<1>3. EndsInv
  BY DEF Init, EndsInv
<1>4. QueueInv
  BY Sizes DEF Init, QueueInv, SleepersHaveReason, Ahead
<1> QED
  BY <1>1, <1>2, <1>3, <1>4 DEF IndInv

\* Every step keeps the types.
LEMMA StepTypeOK ==
  ASSUME IndInv, Next
  PROVE  TypeOK'
<1>ty. TypeOK /\ Ahead(nwrite, nread) <= PIPESIZE
  BY DEF IndInv, QueueInv
<1>ct. nread \in Counters /\ nwrite \in Counters
  BY <1>ty, CounterTypes
<1> USE DEF TypeOK, PCs
<1>1. ASSUME NEW p \in Procs, CallWrite(p) PROVE TypeOK'
  BY <1>ty, <1>1, PipeConstants DEF CallWrite, pipe
<1>2. ASSUME NEW p \in Procs, WriteAll(p) PROVE TypeOK'
  <2>1. addr[p] \in Seq(Bytes) /\ Len(addr[p]) <= Room /\ PutBytes(addr[p])
    BY <1>ty, <1>2 DEF WriteAll
  <2>2. data' \in [0 .. PIPESIZE - 1 -> Bytes] /\ nwrite' \in 0 .. UINT - 1
    BY <1>ty, <2>1, PutBytesFits DEF Counters
  <2> QED
    BY <1>ty, <1>2, <2>2 DEF WriteAll, WriteWakes, WakeReaders, Wakeup, Awake
<1>3. ASSUME NEW p \in Procs, WriteFails(p) \/ WriteFull(p) PROVE TypeOK'
  <2>1. addr[p] \in Seq(Bytes) /\ Len(addr[p]) > Room /\ PutBytes(SubSeq(addr[p], 1, Room))
    BY <1>ty, <1>3 DEF WriteFails, WriteFull
  <2>2. /\ SubSeq(addr[p], 1, Room) \in Seq(Bytes) /\ Len(SubSeq(addr[p], 1, Room)) <= Room
        /\ SubSeq(addr[p], Room + 1, Len(addr[p])) \in Seq(Bytes)
    BY <1>ty, <2>1, FillsTheRoom
  <2>3. data' \in [0 .. PIPESIZE - 1 -> Bytes] /\ nwrite' \in 0 .. UINT - 1
    BY <1>ty, <2>1, <2>2, PutBytesFits DEF Counters
  <2>4. CASE WriteFails(p)
    BY <1>ty, <2>3, <2>4 DEF WriteFails
  <2>5. CASE WriteFull(p)
    <3>1. addr' \in [Procs -> Seq(Bytes)]
      BY <1>ty, <2>2, <2>5 DEF WriteFull
    <3> QED
      BY <1>ty, <2>3, <2>5, <3>1 DEF WriteFull, WakeReaders, Wakeup, Awake
  <2> QED
    BY <1>3, <2>4, <2>5
<1>4. ASSUME NEW p \in Procs, WriteSleeps(p) \/ ReadSleeps(p) PROVE TypeOK'
  BY <1>ty, <1>4 DEF WriteSleeps, ReadSleeps, Sleep, pipe
<1>5. ASSUME NEW p \in Procs, CallRead(p) \/ ReadKilled(p) \/ ReadEmpty(p) PROVE TypeOK'
  BY <1>ty, <1>5 DEF CallRead, ReadKilled, ReadEmpty, pipe
<1>6. ASSUME NEW p \in Procs, ReadSome(p) PROVE TypeOK'
  <2>1. PICK n \in 1 .. MaxCount :
          /\ handed' = [i \in 1 .. Min({n, Used}) |-> data[(nread + i - 1) % PIPESIZE]]
          /\ nread' = (nread + Min({n, Used})) % UINT
    BY <1>6 DEF ReadSome
  <2>2. Used = Ahead(nwrite, nread) /\ Used \in Counters
    BY <1>ct, UsedIs, AheadRange DEF Used
  <2>3. PICK k \in 0 .. PIPESIZE : k = Min({n, Used}) /\ k <= Used
    <3>1. Used \in Int /\ 0 <= Used /\ Used <= PIPESIZE /\ n \in Int /\ 1 <= n
      BY <1>ty, <2>2, Sizes, PipeConstants DEF Counters
    <3>2. n <= Used => Min({n, Used}) = n
      BY <3>1, MinIs
    <3>3. Used <= n => Min({n, Used}) = Used
      BY <3>1, MinIs
    <3> QED
      BY <3>1, <3>2, <3>3, Sizes
  <2>4. nread' \in 0 .. UINT - 1
    <3>1. (nread + k) % UINT \in Counters
      BY <1>ct, <2>2, <2>3, GetAhead
    <3> QED
      BY <2>1, <2>3, <3>1 DEF Counters
  <2>5. handed' \in [1 .. k -> Bytes]
    <3>1. ASSUME NEW i \in 1 .. k PROVE data[(nread + i - 1) % PIPESIZE] \in Bytes
      <4>1. nread + i - 1 \in Int
        BY <1>ct DEF Counters
      <4>2. (nread + i - 1) % PIPESIZE \in 0 .. PIPESIZE - 1
        BY <4>1, Sizes, DivMod, Zenon
      <4> QED
        BY <1>ty, <4>2
    <3> QED
      BY <2>1, <2>3, <3>1
  <2>6. handed' \in UNION {[1 .. m -> Bytes] : m \in 0 .. PIPESIZE}
    BY <2>3, <2>5
  <2> QED
    BY <1>ty, <1>6, <2>4, <2>6 DEF ReadSome, WakeWriters, Wakeup, Awake
<1>7. ASSUME NEW p \in Procs, NEW e \in {"r", "w"}, Close(p, e) PROVE TypeOK'
  BY <1>ty, <1>7 DEF Close, pipe
<1>8. ASSUME NEW p \in Procs, PipeCloseWrite(p) \/ PipeCloseRead(p) PROVE TypeOK'
  <2>1. freed' \in {0, 1}
    BY <1>8 DEF IndInv, EndsInv, PipeCloseWrite, PipeCloseRead, Frees
  <2> QED
    BY <1>ty, <1>8, <2>1 DEF PipeCloseWrite, PipeCloseRead, CloseWakes, WakeReaders, WakeWriters,
                             Wakeup, Awake
<1>9. ASSUME NEW p \in Procs, Kill(p) \/ Exit(p) PROVE TypeOK'
  BY <1>ty, <1>9 DEF Kill, Exit, Awake, pipe
<1>10. CASE UNCHANGED vars
  BY <1>ty, <1>10 DEF vars
<1> QED
  BY <1>1, <1>2, <1>3, <1>4, <1>5, <1>6, <1>7, <1>8, <1>9, <1>10 DEF Next, Call, KernelStep

\* Every step keeps the lock with who is on the way into a sleep.
LEMMA StepLockInv ==
  ASSUME IndInv, Next
  PROVE  LockInv'
<1>ty. TypeOK /\ LockInv
  BY DEF IndInv
<1> USE PipeConstants DEF TypeOK, LockInv
<1>1. ASSUME NEW p \in Procs, Call(p) PROVE LockInv'
  BY <1>ty, <1>1 DEF Call, CallWrite, CallRead
<1>2. ASSUME NEW p \in Procs, WriteAll(p) \/ WriteFails(p) \/ WriteFull(p) PROVE LockInv'
  <2>1. CASE WriteAll(p) \/ WriteFails(p)
    BY <1>ty, <2>1 DEF WriteAll, WriteFails, WriteWakes, WakeReaders, Wakeup, Awake
  <2>2. CASE WriteFull(p)
    BY <1>ty, <2>2 DEF WriteFull, WakeReaders, Wakeup, Awake
  <2> QED
    BY <1>2, <2>1, <2>2
<1>3. ASSUME NEW p \in Procs, WriteSleeps(p) \/ ReadSleeps(p) PROVE LockInv'
  BY <1>ty, <1>3 DEF WriteSleeps, ReadSleeps, Sleep
<1>4. ASSUME NEW p \in Procs, ReadSome(p) \/ ReadKilled(p) \/ ReadEmpty(p) PROVE LockInv'
  BY <1>ty, <1>4 DEF ReadSome, ReadKilled, ReadEmpty, WakeWriters, Wakeup, Awake
<1>5. ASSUME NEW p \in Procs, NEW e \in {"r", "w"}, Close(p, e) PROVE LockInv'
  BY <1>ty, <1>5 DEF Close
<1>6. ASSUME NEW p \in Procs, PipeCloseWrite(p) \/ PipeCloseRead(p) PROVE LockInv'
  BY <1>ty, <1>6 DEF PipeCloseWrite, PipeCloseRead, CloseWakes, WakeReaders, WakeWriters,
                     Wakeup, Awake
<1>7. ASSUME NEW p \in Procs, Kill(p) \/ Exit(p) PROVE LockInv'
  BY <1>ty, <1>7 DEF Kill, Exit, Awake
<1>8. CASE UNCHANGED vars
  BY <1>ty, <1>8 DEF vars
<1> QED
  BY <1>1, <1>2, <1>3, <1>4, <1>5, <1>6, <1>7, <1>8 DEF Next, KernelStep

\* Every step keeps the ends and who has to close them in step with the
\* flags of the pipe.
LEMMA StepEndsInv ==
  ASSUME IndInv, Next
  PROVE  EndsInv'
<1>ty. TypeOK /\ LockInv /\ EndsInv
  BY DEF IndInv
<1> USE DEF TypeOK, EndsInv
<1>1. ASSUME NEW p \in Procs, Call(p) PROVE EndsInv'
  BY <1>ty, <1>1 DEF Call, CallWrite, CallRead, pipe
<1>2. ASSUME NEW p \in Procs, WriteAll(p) \/ WriteFails(p) \/ WriteFull(p) PROVE EndsInv'
  <2>1. CASE WriteAll(p)
    BY <1>ty, <2>1 DEF WriteAll, WriteWakes, WakeReaders, Wakeup, Awake
  <2>2. CASE WriteFails(p)
    BY <1>ty, <2>2 DEF WriteFails
  <2>3. CASE WriteFull(p)
    BY <1>ty, <2>3 DEF WriteFull, WakeReaders, Wakeup, Awake
  <2> QED
    BY <1>2, <2>1, <2>2, <2>3
<1>3. ASSUME NEW p \in Procs, WriteSleeps(p) \/ ReadSleeps(p) PROVE EndsInv'
  <2>1. CASE WriteSleeps(p)
    BY <1>ty, <2>1 DEF WriteSleeps, Sleep, pipe
  <2>2. CASE ReadSleeps(p)
    BY <1>ty, <2>2 DEF ReadSleeps, Sleep, pipe
  <2> QED
    BY <1>3, <2>1, <2>2
<1>4. ASSUME NEW p \in Procs, ReadSome(p) \/ ReadKilled(p) \/ ReadEmpty(p) PROVE EndsInv'
  BY <1>ty, <1>4 DEF ReadSome, ReadKilled, ReadEmpty, WakeWriters, Wakeup, Awake, pipe
<1>5. ASSUME NEW p \in Procs, NEW e \in {"r", "w"}, Close(p, e) PROVE EndsInv'
  <2>1. CASE e = "r"
    BY <1>ty, <1>5, <2>1 DEF Close, Last, pipe
  <2>2. CASE e = "w"
    BY <1>ty, <1>5, <2>2 DEF Close, Last, pipe
  <2> QED
    BY <2>1, <2>2
<1>6. ASSUME NEW p \in Procs, PipeCloseWrite(p) PROVE EndsInv'
  BY <1>ty, <1>6 DEF PipeCloseWrite, CloseWakes, WakeReaders, Wakeup, Awake, Frees
<1>7. ASSUME NEW p \in Procs, PipeCloseRead(p) PROVE EndsInv'
  BY <1>ty, <1>7 DEF PipeCloseRead, WakeWriters, Wakeup, Awake, Frees
<1>8. ASSUME NEW p \in Procs, Kill(p) \/ Exit(p) PROVE EndsInv'
  <2>1. CASE Kill(p)
    BY <1>ty, <2>1 DEF Kill, Awake, pipe
  <2>2. CASE Exit(p)
    BY <1>ty, <2>2 DEF Exit, pipe
  <2> QED
    BY <1>8, <2>1, <2>2
<1>9. CASE UNCHANGED vars
  BY <1>ty, <1>9 DEF vars
<1> QED
  BY <1>1, <1>2, <1>3, <1>4, <1>5, <1>6, <1>7, <1>8, <1>9 DEF Next, KernelStep

\* Every step keeps the bytes within the buffer and each sleeper its reason.
LEMMA StepQueueInv ==
  ASSUME IndInv, Next
  PROVE  QueueInv'
<1>ty. TypeOK /\ LockInv /\ EndsInv /\ QueueInv
  BY DEF IndInv
<1>ct. nread \in Counters /\ nwrite \in Counters /\ Ahead(nwrite, nread) \in Counters
       /\ Ahead(nwrite, nread) <= PIPESIZE
  BY <1>ty, CounterTypes, AheadRange DEF QueueInv
<1>em. (Empty <=> Ahead(nwrite, nread) = 0) /\ (IsFull(nwrite, nread) <=> Ahead(nwrite, nread) = PIPESIZE)
  BY <1>ct, AheadRange, FullIs DEF Empty
<1>free. ASSUME lock = NoProc
         PROVE  \A o \in Procs : pc[o] \notin {"write_sleeps", "read_sleeps"}
  BY <1>ty, <1>free, PipeConstants DEF LockInv
<1> DEFINE R(o) ==
      /\ pc[o] \in {"write_sleeps", "write_asleep"} => IsFull(nwrite, nread) /\ readopen = 1
      /\ pc[o] = "read_asleep" => writeopen = 1 /\ (Empty \/ \E x \in Procs \ {o} : killed[x] = 1)
      /\ pc[o] = "read_sleeps" => Empty /\ writeopen = 1
<1>r. \A o \in Procs : R(o)
  BY <1>ty DEF QueueInv, SleepersHaveReason
<1>q. ASSUME Ahead(nwrite', nread') <= PIPESIZE, \A o \in Procs : R(o)'
      PROVE  QueueInv'
  BY <1>q DEF QueueInv, SleepersHaveReason
<1>same. ASSUME UNCHANGED pipe, \A o \in Procs : killed[o] = 1 => killed'[o] = 1,
                \A o \in Procs : pc'[o] # pc[o] => R(o)'
         PROVE  QueueInv'
  <2>1. \A o \in Procs : R(o)'
    <3>1. TAKE o \in Procs
    <3>2. CASE pc'[o] = pc[o]
      BY <1>r, <1>same, <3>2 DEF pipe, IsFull, Empty
    <3> QED
      BY <1>same, <3>2
  <2> QED
    BY <1>q, <1>same, <1>ct, <2>1 DEF pipe
<1>1. ASSUME NEW p \in Procs, Call(p) PROVE QueueInv'
  BY <1>ty, <1>1, <1>same DEF Call, CallWrite, CallRead, TypeOK
<1>2. ASSUME NEW p \in Procs, WriteAll(p) PROVE QueueInv'
  <2>1. addr[p] \in Seq(Bytes) /\ Len(addr[p]) \in Nat
    BY <1>ty DEF TypeOK
  <2>2. Ahead(nwrite', nread) = Ahead(nwrite, nread) + Len(addr[p]) /\ nwrite' \in Counters
    BY <1>ty, <1>ct, <1>2, <2>1, PutBytesFits DEF WriteAll
  <2>3. Room = PIPESIZE - Ahead(nwrite, nread)
    BY <1>ct, RoomIs
  <2>4. Ahead(nwrite', nread) <= PIPESIZE /\ nread' = nread
    BY <1>2, <1>ct, <2>1, <2>2, <2>3, Sizes DEF WriteAll, Counters
  <2>5. IsFull(nwrite, nread) => IsFull(nwrite', nread')
    BY <1>em, <1>ct, <2>1, <2>2, <2>4, FullIs, Sizes DEF Counters
  <2>6. \A o \in Procs : R(o)'
    BY <1>ty, <1>2, <1>r, <1>free, <2>5 DEF WriteAll, WriteWakes, WakeReaders, Wakeup, Awake, TypeOK
  <2> QED
    BY <1>q, <2>4, <2>6
<1>3. ASSUME NEW p \in Procs, WriteFails(p) \/ WriteFull(p) PROVE QueueInv'
  <2> DEFINE s == SubSeq(addr[p], 1, Room)
  <2>1. addr[p] \in Seq(Bytes) /\ Len(addr[p]) > Room /\ PutBytes(s) /\ nread' = nread
    BY <1>ty, <1>3 DEF WriteFails, WriteFull, TypeOK
  <2>2. s \in Seq(Bytes) /\ Len(s) = Room /\ Room \in Nat /\ Room = PIPESIZE - Ahead(nwrite, nread)
    BY <1>ty, <1>ct, <2>1, FillsTheRoom
  <2> HIDE DEF s
  <2>3. Ahead(nwrite', nread) = Ahead(nwrite, nread) + Len(s) /\ nwrite' \in Counters
    BY <1>ty, <1>ct, <2>1, <2>2, PutBytesFits
  <2>4. Ahead(nwrite', nread') = PIPESIZE
    BY <2>1, <2>2, <2>3, <1>ct, Sizes DEF Counters
  <2>5. IsFull(nwrite', nread') /\ Ahead(nwrite', nread') <= PIPESIZE
    BY <2>1, <2>3, <2>4, <1>ct, FullIs, Sizes
  <2>6. CASE WriteFails(p)
    <3>1. \A o \in Procs : pc[o] = "read_asleep" => readopen = 1
      BY <1>ty DEF EndsInv
    <3>2. \A o \in Procs : R(o)'
      BY <1>ty, <1>r, <1>free, <2>5, <2>6, <3>1 DEF WriteFails, TypeOK
    <3> QED
      BY <1>q, <2>5, <3>2
  <2>7. CASE WriteFull(p)
    <3>1. \A o \in Procs : R(o)'
      BY <1>ty, <1>r, <1>free, <2>5, <2>7 DEF WriteFull, WakeReaders, Wakeup, Awake, TypeOK
    <3> QED
      BY <1>q, <2>5, <3>1
  <2> QED
    BY <1>3, <2>6, <2>7
<1>4. ASSUME NEW p \in Procs, WriteSleeps(p) \/ ReadSleeps(p) PROVE QueueInv'
  <2>1. UNCHANGED pipe /\ UNCHANGED killed /\ \A o \in Procs : pc'[o] # pc[o] => o = p
    BY <1>ty, <1>4 DEF WriteSleeps, ReadSleeps, Sleep, TypeOK
  <2>2. R(p)'
    BY <1>ty, <1>r, <1>4, <2>1 DEF WriteSleeps, ReadSleeps, Sleep, TypeOK, pipe, IsFull, Empty
  <2> QED
    BY <1>same, <2>1, <2>2
<1>5. ASSUME NEW p \in Procs, ReadKilled(p) \/ ReadEmpty(p) PROVE QueueInv'
  <2>1. UNCHANGED pipe /\ UNCHANGED killed /\ \A o \in Procs : pc'[o] # pc[o] => o = p
    BY <1>ty, <1>5 DEF ReadKilled, ReadEmpty, TypeOK
  <2>2. R(p)'
    BY <1>ty, <1>5, <2>1 DEF ReadKilled, ReadEmpty, TypeOK, pipe, Empty
  <2> QED
    BY <1>same, <2>1, <2>2
<1>6. ASSUME NEW p \in Procs, ReadSome(p) PROVE QueueInv'
  <2>1. PICK n \in 1 .. MaxCount : nread' = (nread + Min({n, Used})) % UINT
    BY <1>6 DEF ReadSome
  <2>2. Used = Ahead(nwrite, nread)
    BY <1>ct, UsedIs DEF Used
  <2>3. PICK k \in Nat : k = Min({n, Used}) /\ k <= Used
    <3>1. Used \in Int /\ 0 <= Used /\ n \in Int /\ 1 <= n
      BY <1>ct, <2>2, Sizes, PipeConstants DEF Counters
    <3>2. n <= Used => Min({n, Used}) = n
      BY <3>1, MinIs
    <3>3. Used <= n => Min({n, Used}) = Used
      BY <3>1, MinIs
    <3> QED
      BY <3>1, <3>2, <3>3
  <2>4. Ahead(nwrite, (nread + k) % UINT) = Ahead(nwrite, nread) - k
    BY <1>ct, <2>2, <2>3, GetAhead
  <2>5. nread' = (nread + k) % UINT /\ nwrite' = nwrite
    BY <1>6, <2>1, <2>3 DEF ReadSome
  <2>6. Ahead(nwrite', nread') <= PIPESIZE
    BY <1>ct, <2>3, <2>4, <2>5, Sizes DEF Counters
  <2>7. \A o \in Procs : R(o)'
    <3>1. \A o \in Procs : pc'[o] = "read_asleep" => \E x \in Procs \ {o} : killed'[x] = 1
      BY <1>ty, <1>r, <1>6 DEF ReadSome, WakeWriters, Wakeup, Awake, TypeOK
    <3> QED
      BY <1>ty, <1>r, <1>6, <1>free, <3>1 DEF ReadSome, WakeWriters, Wakeup, Awake, TypeOK
  <2> QED
    BY <1>q, <2>6, <2>7
<1>7. ASSUME NEW p \in Procs, NEW e \in {"r", "w"}, Close(p, e) PROVE QueueInv'
  BY <1>ty, <1>7, <1>same DEF Close, TypeOK
<1>8. ASSUME NEW p \in Procs, PipeCloseWrite(p) PROVE QueueInv'
  <2>1. \A o \in Procs : R(o)'
    BY <1>ty, <1>r, <1>8, <1>free DEF PipeCloseWrite, CloseWakes, WakeReaders, Wakeup, Awake, TypeOK, IsFull, Empty
  <2> QED
    BY <1>q, <1>ct, <1>8, <2>1 DEF PipeCloseWrite
<1>9. ASSUME NEW p \in Procs, PipeCloseRead(p) PROVE QueueInv'
  <2>1. \A o \in Procs : R(o)'
    BY <1>ty, <1>r, <1>9, <1>free DEF PipeCloseRead, WakeWriters, Wakeup, Awake, TypeOK, IsFull, Empty
  <2> QED
    BY <1>q, <1>ct, <1>9, <2>1 DEF PipeCloseRead
<1>10. ASSUME NEW p \in Procs, Kill(p) \/ Exit(p) PROVE QueueInv'
  <2>1. UNCHANGED pipe /\ \A o \in Procs : killed[o] = 1 => killed'[o] = 1
    BY <1>ty, <1>10 DEF Kill, Exit, TypeOK
  <2>2. \A o \in Procs : pc'[o] # pc[o] => R(o)'
    BY <1>ty, <1>10 DEF Kill, Exit, Awake, TypeOK
  <2> QED
    BY <1>same, <2>1, <2>2
<1>11. CASE UNCHANGED vars
  BY <1>same, <1>11 DEF vars, pipe
<1> QED
  BY <1>1, <1>2, <1>3, <1>4, <1>5, <1>6, <1>7, <1>8, <1>9, <1>10, <1>11 DEF Next, KernelStep

\* The invariant is inductive.
LEMMA StepIndInv == IndInv /\ [Next]_vars => IndInv'
<1> SUFFICES ASSUME IndInv, [Next]_vars PROVE IndInv'
  OBVIOUS
<1>1. CASE Next
  BY <1>1, StepTypeOK, StepLockInv, StepEndsInv, StepQueueInv DEF IndInv
<1>2. CASE UNCHANGED vars
  BY <1>2 DEF vars, IndInv, TypeOK, LockInv, EndsInv, QueueInv, SleepersHaveReason, IsFull, Empty
<1> QED
  BY <1>1, <1>2

\* The invariant holds in every state of a pipe.
THEOREM Invariance == Spec => []IndInv
  BY InitIndInv, StepIndInv, PTL DEF Spec

\* Every variable keeps its type; in particular the page of the pipe is freed
\* at most once (pipeclose() of pipe.c).
THEOREM TypeCorrect == Spec => []TypeOK
<1>1. IndInv => TypeOK
  BY DEF IndInv
<1> QED
  BY <1>1, Invariance, PTL

\* pipeclose() frees the page only after the last use of the pipe by anybody.
THEOREM NoUseAfterFree == Spec => []FreedIsUnused
<1>1. IndInv => FreedIsUnused
  <2> SUFFICES ASSUME IndInv, freed > 0, NEW p \in Procs
               PROVE  ends[p] = {} /\ pc[p] \in {"user", "gone"}
    BY DEF FreedIsUnused
  <2>1. readopen = 0 /\ writeopen = 0
    BY DEF IndInv, EndsInv
  <2>2. "r" \notin ends[p] /\ "w" \notin ends[p]
    BY <2>1 DEF IndInv, EndsInv
  <2>3. ends[p] \subseteq {"r", "w"}
    BY DEF IndInv, TypeOK
  <2> QED
    BY <2>1, <2>2, <2>3 DEF IndInv, TypeOK, EndsInv, PCs
<1> QED
  BY <1>1, Invariance, PTL

\* No reader or writer sleeps in pipewrite() or piperead() without a reason,
\* however writes, reads, closes and kills interleave.
THEOREM NoSleeperForgotten == Spec => []SleepersHaveReason
<1>1. IndInv => SleepersHaveReason
  BY DEF IndInv, QueueInv
<1> QED
  BY <1>1, Invariance, PTL

-----------------------------------------------------------------------------
\* The ring buffer implements Fifo

\* The place of byte i counted from nread.
Slot(r, i) == (r + i - 1) % PIPESIZE

\* The bytes in the pipe, as the refinement has them.
Ring == [i \in 1 .. Used |-> data[Slot(nread, i)]]

\* A place of the ring is an index of the array.
LEMMA SlotRange ==
  ASSUME NEW r \in Counters, NEW i \in Nat
  PROVE  Slot(r, i) \in 0 .. PIPESIZE - 1
<1>1. r + i - 1 \in Int
  BY DEF Counters
<1> QED
  BY <1>1, Sizes, DivMod, Zenon DEF Slot

\* The counters wrap at a multiple of the size, so indices stay in step.
LEMMA UintIsMultiple == \E c \in Int : UINT = PIPESIZE * c
<1>1. UINT \in Int /\ UINT % PIPESIZE = 0
  BY PipeConstants
<1>2. PICK c \in Int : c = UINT \div PIPESIZE
  BY <1>1, Sizes, DivMod
<1>3. UINT = PIPESIZE * c + (UINT % PIPESIZE)
  BY <1>1, <1>2, Sizes, DivMod
<1>4. UINT = PIPESIZE * c
  BY <1>1, <1>3, Sizes
<1> QED
  BY <1>4

\* Counting modulo UINT does not disturb places modulo PIPESIZE, for UINT is a
\* multiple of it.
LEMMA SlotWraps ==
  ASSUME NEW r \in Counters, NEW k \in 0 .. UINT, NEW i \in Nat
  PROVE  Slot((r + k) % UINT, i) = Slot(r, k + i)
<1>1. PICK c \in Int : UINT = PIPESIZE * c
  BY UintIsMultiple
<1>2. PICK x \in Int : x = (r + k) % UINT /\ (x = r + k \/ x = r + k - UINT)
  <2>1. r + k \in Int /\ r + k - UINT \in Int
    BY Sizes DEF Counters
  <2>2. (r + k) % UINT = IF r + k < UINT THEN r + k ELSE r + k - UINT
    BY Wrap
  <2>3. CASE r + k < UINT
    BY <2>1, <2>2, <2>3, Zenon
  <2>4. CASE ~(r + k < UINT)
    BY <2>1, <2>2, <2>4, Zenon
  <2> QED
    BY <2>3, <2>4
<1>3. PICK y \in Int : y = r + (k + i) - 1
  BY DEF Counters
<1>4. CASE x = r + k
  BY <1>2, <1>3, <1>4, Sizes DEF Slot, Counters
<1>5. CASE x = r + k - UINT
  <2>1. x + i - 1 = y + PIPESIZE * (0 - c) /\ 0 - c \in Int
    BY <1>1, <1>3, <1>5, Sizes DEF Counters
  <2>2. (y + PIPESIZE * (0 - c)) % PIPESIZE = y % PIPESIZE
    BY <2>1, Sizes, ModPlus
  <2> QED
    BY <1>2, <1>3, <2>1, <2>2, Sizes DEF Slot, Counters
<1> QED
  BY <1>2, <1>4, <1>5

\* A byte that is in the pipe is out of the way of the bytes that go in: its
\* place is PIPESIZE - Used + i - 1 steps after nwrite.
LEMMA SlotBehind ==
  ASSUME NEW w \in Counters, NEW r \in Counters, Ahead(w, r) <= PIPESIZE,
         NEW i \in 1 .. Ahead(w, r)
  PROVE  (Slot(r, i) - w) % PIPESIZE = PIPESIZE - Ahead(w, r) + i - 1
<1>1. PICK c \in Int : UINT = PIPESIZE * c
  BY UintIsMultiple
<1>2. PICK a \in Nat : a = Ahead(w, r)
  BY AheadRange DEF Counters
<1>3. PICK k \in 0 .. PIPESIZE - 1 : k = PIPESIZE - a + i - 1
  BY <1>2, Sizes
<1>4. PICK j \in 0 .. PIPESIZE - 1, q \in Int : j = Slot(r, i) /\ r + i - 1 = PIPESIZE * q + j
  <2>1. PICK y \in Int : y = r + i - 1
    BY <1>2 DEF Counters
  <2>2. y % PIPESIZE \in 0 .. PIPESIZE - 1 /\ y \div PIPESIZE \in Int
        /\ y = PIPESIZE * (y \div PIPESIZE) + (y % PIPESIZE)
    BY Sizes, DivMod
  <2>3. Slot(r, i) = y % PIPESIZE
    BY <1>2, <2>1, Sizes DEF Slot, Counters
  <2> QED
    BY <2>1, <2>2, <2>3
<1>5. PICK m \in Int : j - w = PIPESIZE * m + k
  <2>1. CASE r <= w
    <3>1. j - w = PIPESIZE * (0 - 1 - q) + k /\ 0 - 1 - q \in Int
      BY <1>2, <1>3, <1>4, <2>1, Sizes DEF Ahead, Counters
    <3> QED
      BY <3>1
  <2>2. CASE ~(r <= w)
    <3>1. j - w = PIPESIZE * (c - 1 - q) + k /\ c - 1 - q \in Int
      BY <1>1, <1>2, <1>3, <1>4, <2>2, Sizes DEF Ahead, Counters
    <3> QED
      BY <3>1
  <2> QED
    BY <2>1, <2>2
<1>6. PICK z \in Int : z = j - w
  BY <1>4 DEF Counters
<1>7. z % PIPESIZE = k
  BY <1>5, <1>6, Sizes, ModUnique
<1> QED
  BY <1>2, <1>3, <1>4, <1>6, <1>7, Sizes DEF Counters

\* A put leaves the bytes in the pipe where they are.
LEMMA PutKeeps ==
  ASSUME TypeOK, Ahead(nwrite, nread) <= PIPESIZE,
         NEW s \in Seq(Bytes), Len(s) <= Room, PutBytes(s),
         NEW i \in 1 .. Ahead(nwrite, nread)
  PROVE  data'[Slot(nread, i)] = data[Slot(nread, i)]
<1>1. nread \in Counters /\ nwrite \in Counters /\ Ahead(nwrite, nread) \in Counters
  BY CounterTypes, AheadRange
<1>2. Slot(nread, i) \in 0 .. PIPESIZE - 1
  BY <1>1, SlotRange DEF Counters
<1>3. PICK k : k = (Slot(nread, i) - nwrite) % PIPESIZE
  OBVIOUS
<1>4. k = PIPESIZE - Ahead(nwrite, nread) + i - 1
  BY <1>1, <1>3, SlotBehind
<1>5. ~(k < Len(s))
  BY <1>1, <1>4, RoomIs, Sizes DEF Counters
<1> QED
  BY <1>2, <1>3, <1>5 DEF PutBytes

\* The pipe is a sequence of Used bytes.
LEMMA RingIs ==
  ASSUME TypeOK
  PROVE  /\ Used = Ahead(nwrite, nread) /\ Used \in Nat
         /\ Ring \in Seq(Bytes) /\ Len(Ring) = Used
         /\ \A i \in 1 .. Used : Ring[i] = data[Slot(nread, i)]
<1>1. nread \in Counters /\ nwrite \in Counters
  BY CounterTypes
<1>2. Used = Ahead(nwrite, nread) /\ Used \in Nat
  <2>1. Used = Ahead(nwrite, nread)
    BY <1>1, UsedIs DEF Used
  <2>2. Ahead(nwrite, nread) \in Counters
    BY <1>1, AheadRange
  <2> QED
    BY <2>1, <2>2, Sizes DEF Counters
<1>3. \A i \in 1 .. Used : data[Slot(nread, i)] \in Bytes
  BY <1>1, <1>2, SlotRange DEF TypeOK
<1> QED
  BY <1>2, <1>3 DEF Ring

\* What makes a sequence the concatenation of two others.
LEMMA IsConcat ==
  ASSUME NEW S, NEW a \in Seq(S), NEW b \in Seq(S), NEW c \in Seq(S), Len(c) = Len(a) + Len(b),
         \A i \in 1 .. Len(a) : a[i] = c[i], \A i \in 1 .. Len(b) : b[i] = c[Len(a) + i]
  PROVE  c = a \o b
<1>1. a \o b \in Seq(S) /\ Len(a \o b) = Len(c)
  OBVIOUS
<1>2. ASSUME NEW i \in 1 .. Len(c) PROVE (a \o b)[i] = c[i]
  <2>1. CASE i <= Len(a)
    BY <2>1
  <2>2. CASE i > Len(a)
    <3>1. i - Len(a) \in 1 .. Len(b) /\ (a \o b)[i] = b[i - Len(a)]
      BY <2>2
    <3> QED
      BY <3>1
  <2> QED
    BY <2>1, <2>2
<1> QED
  BY <1>1, <1>2

\* What RingIs says of this state it says of the next.
LEMMA RingIsNext == (TypeOK => /\ Used = Ahead(nwrite, nread) /\ Used \in Nat
                               /\ Ring \in Seq(Bytes) /\ Len(Ring) = Used
                               /\ \A i \in 1 .. Used : Ring[i] = data[Slot(nread, i)])'
  BY RingIs, PTL

\* A section of pipewrite() appends to the pipe, or leaves it as it is when
\* it has put in nothing.
LEMMA PutRefines ==
  ASSUME IndInv, TypeOK', NEW s \in Seq(Bytes), Len(s) <= Room, PutBytes(s),
         UNCHANGED <<nread, writeopen, handed>>, writeopen = 1
  PROVE  [Queue!FifoNext]_Queue!fifovars
<1>ty. TypeOK /\ Ahead(nwrite, nread) <= PIPESIZE
  BY DEF IndInv, QueueInv
<1>1. /\ Used = Ahead(nwrite, nread) /\ Used \in Nat
      /\ Ring \in Seq(Bytes) /\ Len(Ring) = Used
      /\ \A i \in 1 .. Used : Ring[i] = data[Slot(nread, i)]
  BY <1>ty, RingIs
<1>2. /\ Used' = Ahead(nwrite', nread) /\ Used' \in Nat
      /\ Ring' \in Seq(Bytes) /\ Len(Ring') = Used'
      /\ \A i \in 1 .. Used' : Ring'[i] = data'[Slot(nread, i)]
  BY RingIsNext DEF Slot
<1>3. Used' = Used + Len(s) /\ Len(s) \in Nat
  BY <1>ty, <1>1, <1>2, PutBytesFits
<1>4. Used' <= PIPESIZE
  <2>1. Room = PIPESIZE - Used
    BY <1>ty, <1>1, RoomIs, CounterTypes
  <2> QED
    BY <1>1, <1>3, <2>1, Sizes
<1>5. \A i \in 1 .. Used : Ring'[i] = Ring[i]
  <2> TAKE i \in 1 .. Used
  <2>1. data'[Slot(nread, i)] = data[Slot(nread, i)]
    BY <1>ty, <1>1, PutKeeps
  <2>2. i \in 1 .. Used'
    BY <1>1, <1>3
  <2> QED
    BY <1>1, <1>2, <2>1, <2>2
<1>6. CASE Len(s) = 0
  <2>1. Ring' = Ring
    BY <1>1, <1>2, <1>3, <1>5, <1>6
  <2> QED
    BY <2>1 DEF Queue!fifovars, Ring, Slot
<1>7. CASE Len(s) # 0
  <2>1. Len(Ring) < Len(Ring') /\ Len(Ring') <= PIPESIZE
    BY <1>1, <1>2, <1>3, <1>4, <1>7
  <2>2. SubSeq(Ring', 1, Len(Ring)) = Ring
    BY <1>1, <1>2, <1>3, <1>5
  <2>3. Queue!Put
    BY <2>1, <2>2 DEF Queue!Put, Ring, Slot
  <2> QED
    BY <2>3 DEF Queue!FifoNext
<1> QED
  BY <1>6, <1>7

\* A section of piperead() that copies bytes takes them from the front; one
\* that copies none has found the end of the stream.
LEMMA GetRefines ==
  ASSUME IndInv, TypeOK', NEW p \in Procs, ReadSome(p)
  PROVE  Queue!FifoNext
<1>ty. TypeOK /\ Ahead(nwrite, nread) <= PIPESIZE
  BY DEF IndInv, QueueInv
<1>ct. nread \in Counters /\ nwrite \in Counters
  BY <1>ty, CounterTypes
<1>0. UNCHANGED <<data, nwrite, writeopen>>
  BY DEF ReadSome
<1>1. /\ Used = Ahead(nwrite, nread) /\ Used \in Nat
      /\ Ring \in Seq(Bytes) /\ Len(Ring) = Used
      /\ \A i \in 1 .. Used : Ring[i] = data[Slot(nread, i)]
  BY <1>ty, RingIs
<1>2. /\ Used' = Ahead(nwrite', nread') /\ Used' \in Nat
      /\ Ring' \in Seq(Bytes) /\ Len(Ring') = Used'
      /\ \A i \in 1 .. Used' : Ring'[i] = data'[Slot(nread', i)]
  BY RingIsNext DEF Slot
<1>3. PICK n \in 1 .. MaxCount :
        /\ handed' = [i \in 1 .. Min({n, Used}) |-> data[Slot(nread, i)]]
        /\ nread' = (nread + Min({n, Used})) % UINT
  BY DEF ReadSome, Slot
<1>4. PICK k \in Nat : k = Min({n, Used}) /\ k <= Used /\ (k = 0 => Used = 0)
  <2>1. Used \in Int /\ 0 <= Used /\ n \in Int /\ 1 <= n
    BY <1>1, PipeConstants
  <2>2. n <= Used => Min({n, Used}) = n
    BY <2>1, MinIs
  <2>3. Used <= n => Min({n, Used}) = Used
    BY <2>1, MinIs
  <2> QED
    BY <2>1, <2>2, <2>3
<1>5. Used' = Used - k
  BY <1>ct, <1>0, <1>1, <1>2, <1>3, <1>4, GetAhead
<1>6. \A i \in 1 .. Used' : Ring'[i] = data[Slot(nread, k + i)]
  <2> TAKE i \in 1 .. Used'
  <2>1. k \in 0 .. UINT /\ i \in Nat
    BY <1>ct, <1>1, <1>4, AheadRange, Sizes DEF Counters
  <2>2. Slot(nread', i) = Slot(nread, k + i)
    BY <1>ct, <1>3, <1>4, <2>1, SlotWraps
  <2> QED
    BY <1>0, <1>2, <2>2
<1>7. CASE k = 0
  <2>1. Used = 0 /\ nread = nwrite
    BY <1>1, <1>4, <1>7, <1>ct, AheadRange
  <2>2. writeopen = 0
    BY <2>1, <1>ty DEF ReadSome, Empty, TypeOK
  <2>3. Ring = <<>> /\ Ring' = <<>> /\ handed' = <<>>
    <3>1. Used' = 0
      BY <1>5, <1>7, <2>1
    <3>2. Ring = <<>>
      BY <1>1, <2>1
    <3>3. Ring' = <<>>
      BY <1>2, <3>1
    <3>4. handed' = [i \in 1 .. 0 |-> data[Slot(nread, i)]]
      BY <1>3, <1>4, <1>7
    <3>5. handed' = <<>>
      BY <3>4
    <3> QED
      BY <3>2, <3>3, <3>5
  <2>4. Queue!EndOfStream
    BY <1>0, <2>2, <2>3 DEF Queue!EndOfStream, Ring, Slot
  <2> QED
    BY <2>4 DEF Queue!FifoNext
<1>8. CASE k # 0
  <2>1. handed' = [i \in 1 .. k |-> data[Slot(nread, i)]]
    BY <1>3, <1>4
  <2>2. ASSUME NEW i \in 1 .. k PROVE data[Slot(nread, i)] = Ring[i]
    BY <1>1, <1>4
  <2>3. handed' = [i \in 1 .. k |-> Ring[i]]
    BY <2>1, <2>2
  <2>4. handed' \in Seq(Bytes) /\ Len(handed') = k /\ handed' # <<>>
    <3>1. \A i \in 1 .. k : Ring[i] \in Bytes
      BY <1>1, <1>4
    <3>2. handed' \in [1 .. k -> Bytes]
      BY <2>3, <3>1
    <3> QED
      BY <1>8, <3>2
  <2>5. ASSUME NEW i \in 1 .. Used' PROVE Ring'[i] = Ring[k + i]
    <3>1. k + i \in 1 .. Used
      BY <1>1, <1>2, <1>4, <1>5
    <3> QED
      BY <1>1, <1>6, <3>1
  <2>6. Ring = handed' \o Ring'
    <3>1. Len(Ring) = Len(handed') + Len(Ring')
      BY <1>1, <1>2, <1>5, <2>4
    <3>2. \A i \in 1 .. Len(handed') : handed'[i] = Ring[i]
      BY <2>3, <2>4
    <3>3. \A i \in 1 .. Len(Ring') : Ring'[i] = Ring[Len(handed') + i]
      BY <1>2, <2>4, <2>5
    <3> QED
      BY <1>1, <1>2, <2>4, <3>1, <3>2, <3>3, IsConcat
  <2>7. Queue!Get /\ handed' # <<>>
    BY <1>0, <2>4, <2>6 DEF Queue!Get, Ring, Slot
  <2> QED
    BY <2>7 DEF Queue!FifoNext
<1> QED
  BY <1>7, <1>8

\* The steps that touch neither the buffer nor the counters nor the write end.
LEMMA SameRing ==
  ASSUME UNCHANGED <<data, nread, nwrite, writeopen, handed>>
  PROVE  UNCHANGED Queue!fifovars
  BY DEF Queue!fifovars, Used

\* Every step of the pipe is a step of the queue, or leaves it as it is.
LEMMA StepRefines ==
  ASSUME IndInv, IndInv', Next
  PROVE  [Queue!FifoNext]_Queue!fifovars
<1>ty. TypeOK /\ TypeOK' /\ Ahead(nwrite, nread) <= PIPESIZE
  BY DEF IndInv, QueueInv
<1>1. ASSUME NEW p \in Procs, Call(p) \/ WriteSleeps(p) \/ ReadSleeps(p) \/ ReadKilled(p) \/ ReadEmpty(p)
      PROVE  [Queue!FifoNext]_Queue!fifovars
  BY <1>1, SameRing DEF Call, CallWrite, CallRead, WriteSleeps, ReadSleeps, Sleep, ReadKilled, ReadEmpty, pipe
<1>2. ASSUME NEW p \in Procs, Kill(p) \/ Exit(p) \/ PipeCloseRead(p) PROVE [Queue!FifoNext]_Queue!fifovars
  BY <1>2, SameRing DEF Kill, Exit, PipeCloseRead, pipe
<1>3. ASSUME NEW p \in Procs, NEW e \in {"r", "w"}, Close(p, e) PROVE [Queue!FifoNext]_Queue!fifovars
  BY <1>3, SameRing DEF Close, pipe
<1>open. ASSUME NEW p \in Procs, pc[p] = "write" PROVE writeopen = 1
  BY <1>open DEF IndInv, EndsInv
<1>4. ASSUME NEW p \in Procs, WriteAll(p) PROVE [Queue!FifoNext]_Queue!fifovars
  <2>1. addr[p] \in Seq(Bytes)
    BY <1>ty DEF TypeOK
  <2>2. /\ Len(addr[p]) <= Room /\ PutBytes(addr[p]) /\ pc[p] = "write"
        /\ UNCHANGED <<nread, writeopen, handed>>
    BY <1>4 DEF WriteAll
  <2> QED
    BY <1>ty, <1>open, <2>1, <2>2, PutRefines
<1>5. ASSUME NEW p \in Procs, WriteFails(p) \/ WriteFull(p) PROVE [Queue!FifoNext]_Queue!fifovars
  <2>1. /\ addr[p] \in Seq(Bytes) /\ Len(addr[p]) > Room /\ PutBytes(SubSeq(addr[p], 1, Room))
        /\ pc[p] = "write" /\ UNCHANGED <<nread, writeopen, handed>>
    BY <1>ty, <1>5 DEF WriteFails, WriteFull, TypeOK
  <2>2. SubSeq(addr[p], 1, Room) \in Seq(Bytes) /\ Len(SubSeq(addr[p], 1, Room)) <= Room
    BY <1>ty, <2>1, FillsTheRoom
  <2> QED
    BY <1>ty, <1>open, <2>1, <2>2, PutRefines
<1>6. ASSUME NEW p \in Procs, ReadSome(p) PROVE [Queue!FifoNext]_Queue!fifovars
  BY <1>ty, <1>6, GetRefines
<1>7. ASSUME NEW p \in Procs, PipeCloseWrite(p) PROVE [Queue!FifoNext]_Queue!fifovars
  <2>1. Queue!CloseWrite
    BY <1>7 DEF PipeCloseWrite, Queue!CloseWrite, Used
  <2> QED
    BY <2>1 DEF Queue!FifoNext
<1>8. CASE UNCHANGED vars
  BY <1>8, SameRing DEF vars
<1> QED
  BY <1>1, <1>2, <1>3, <1>4, <1>5, <1>6, <1>7, <1>8 DEF Next, KernelStep

\* pipe.c implements a bounded queue of bytes: they come out in the order they
\* went in, each once, whatever the counters wrap at, and a reader gets none
\* only when the last writer is gone and the pipe is empty.
THEOREM PipeIsFifo == Spec => IsFifo
<1>1. Init => Queue!FifoInit
  <2> SUFFICES ASSUME Init PROVE Queue!FifoInit
    OBVIOUS
  <2>1. TypeOK /\ nread = 0 /\ nwrite = 0
    BY InitIndInv DEF IndInv, Init
  <2>2. Used = 0
    BY <2>1, RingIs, CounterTypes, AheadRange
  <2>3. Ring = <<>>
    BY <2>2 DEF Ring
  <2> QED
    BY <2>3 DEF Init, Queue!FifoInit, Ring, Slot
<1>2. IndInv /\ IndInv' /\ [Next]_vars => [Queue!FifoNext]_Queue!fifovars
  <2>1. UNCHANGED vars => UNCHANGED Queue!fifovars
    BY SameRing DEF vars
  <2> QED
    BY <2>1, StepRefines
<1> QED
  BY <1>1, <1>2, Invariance, PTL DEF Spec, IsFifo, Queue!FifoSpec
=============================================================================
