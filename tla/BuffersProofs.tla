--------------------------- MODULE BuffersProofs ---------------------------
(***************************************************************************)
(* Proofs about Buffers for every set of processes, every number of        *)
(* buffers and blocks and every size of the log: reference counts, sleep   *)
(* locks and the queue of the disk driver are right, and, where the disk   *)
(* reports no read error, the cache implements BlockStore.                 *)
(***************************************************************************)
EXTENDS Buffers, Facts

-----------------------------------------------------------------------------
\* The list of buffers

\* Every buffer has a place in the list.
LEMMA PlaceIs ==
  ASSUME TypeOK, NEW b \in Bufs
  PROVE  Place(b) \in Bufs /\ lru[Place(b)] = b
<1>1. lru \in [Bufs -> Bufs] /\ \E i \in Bufs : lru[i] = b
  BY DEF TypeOK
<1>2. DOMAIN lru = Bufs
  BY <1>1
<1>3. \E i \in DOMAIN lru : lru[i] = b
  BY <1>1, <1>2
<1> QED
  BY <1>2, <1>3, Zenon DEF Place

\* bget() finds the least recently used one when one is unused.
LEMMA RecycleIsUnused ==
  ASSUME TypeOK, Unused # {}
  PROVE  Recycle \in Unused
<1> DEFINE T == {NBUF - Place(b) : b \in Unused}
<1>1. \A b \in Unused : Place(b) \in 1 .. NBUF
  BY PlaceIs DEF Unused, Bufs
<1>2. T \in SUBSET Nat /\ T # {}
  BY <1>1, BuffersAssumption
<1>3. PICK x \in T : \A y \in T : x <= y
  BY <1>2, LeastNat
<1>4. PICK b \in Unused : x = NBUF - Place(b)
  BY <1>3
<1>5. \A c \in Unused : Place(c) <= Place(b)
  BY <1>1, <1>3, <1>4, BuffersAssumption
<1> QED
  BY <1>5, Zenon DEF Recycle

\* The list keeps all its buffers when one goes to the front.
LEMMA MoveToFrontIs ==
  ASSUME TypeOK, NEW b \in Bufs
  PROVE  /\ MoveToFront(b) \in [Bufs -> Bufs]
         /\ \A c \in Bufs : \E i \in Bufs : MoveToFront(b)[i] = c
<1>1. lru \in [Bufs -> Bufs] /\ NBUF \in Nat \ {0}
  BY BuffersAssumption DEF TypeOK
<1>2. \A c \in Bufs : Place(c) \in Bufs /\ lru[Place(c)] = c
  BY PlaceIs
<1>3. MoveToFront(b) \in [Bufs -> Bufs]
  <2>1. \A i \in Bufs : i # 1 => i - 1 \in Bufs
    BY <1>1 DEF Bufs
  <2>2. \A i \in Bufs : (IF i = 1 THEN b ELSE IF i <= Place(b) THEN lru[i - 1] ELSE lru[i]) \in Bufs
    BY <1>1, <2>1
  <2> QED
    BY <2>2 DEF MoveToFront
<1>4. ASSUME NEW c \in Bufs PROVE \E i \in Bufs : MoveToFront(b)[i] = c
  <2> DEFINE i == Place(c)
             m == Place(b)
  <2>1. i \in 1 .. NBUF /\ m \in 1 .. NBUF /\ lru[i] = c /\ lru[m] = b
    BY <1>2 DEF Bufs
  <2> HIDE DEF i
  <2>2. CASE c = b
    BY <2>2, <1>1 DEF MoveToFront, Bufs
  <2>3. CASE c # b /\ i < m
    <3>1. i + 1 \in Bufs /\ i + 1 <= m /\ i + 1 # 1 /\ (i + 1) - 1 = i
      BY <2>1, <2>3, <1>1 DEF Bufs
    <3>2. MoveToFront(b)[i + 1] = lru[(i + 1) - 1]
      BY <3>1 DEF MoveToFront
    <3> QED
      BY <3>1, <3>2, <2>1
  <2>4. CASE c # b /\ m < i
    <3>1. i \in Bufs /\ i # 1 /\ ~(i <= m)
      BY <2>1, <2>4 DEF Bufs
    <3>2. MoveToFront(b)[i] = lru[i]
      BY <3>1 DEF MoveToFront
    <3> QED
      BY <3>1, <3>2, <2>1
  <2> QED
    BY <2>1, <2>2, <2>3, <2>4
<1> QED
  BY <1>3, <1>4

-----------------------------------------------------------------------------
\* The queue of the driver

\* No repetitions in s.
Distinct(s) == \A i, j \in DOMAIN s : s[i] = s[j] => i = j

\* A request at the end of the queue.
LEMMA QueueAppend ==
  ASSUME NEW s \in Seq(Bufs), NEW b \in Bufs, b \notin Range(s), Distinct(s)
  PROVE  /\ Append(s, b) \in Seq(Bufs) /\ Append(s, b) # <<>>
         /\ Range(Append(s, b)) = Range(s) \cup {b}
         /\ Distinct(Append(s, b))
         /\ Head(Append(s, b)) = IF s = <<>> THEN b ELSE Head(s)
<1> DEFINE t == Append(s, b)
<1>1. t \in Seq(Bufs) /\ Len(t) = Len(s) + 1 /\ Len(s) \in Nat /\ t # <<>>
  OBVIOUS
<1>2. \A i \in 1 .. Len(s) : t[i] = s[i]
  OBVIOUS
<1>3. t[Len(s) + 1] = b
  OBVIOUS
<1>4. DOMAIN s = 1 .. Len(s) /\ DOMAIN t = 1 .. Len(s) + 1
  BY <1>1
<1>5. Head(t) = IF s = <<>> THEN b ELSE Head(s)
  <2>1. Head(t) = t[1] /\ (s # <<>> => Head(s) = s[1] /\ 1 \in 1 .. Len(s)) /\ (s = <<>> => Len(s) = 0)
    BY <1>1
  <2> QED
    BY <2>1, <1>2, <1>3
<1> HIDE DEF t
<1>6. Range(t) = Range(s) \cup {b}
  BY <1>1, <1>2, <1>3, <1>4 DEF Range
<1>7. Distinct(t)
  BY <1>1, <1>2, <1>3, <1>4 DEF Range, Distinct
<1> QED
  BY <1>1, <1>5, <1>6, <1>7 DEF t

\* The first request leaves the queue.
LEMMA QueueTail ==
  ASSUME NEW s \in Seq(Bufs), s # <<>>, Distinct(s)
  PROVE  /\ Head(s) \in Bufs /\ Head(s) \in Range(s)
         /\ Tail(s) \in Seq(Bufs)
         /\ Range(Tail(s)) = Range(s) \ {Head(s)}
         /\ Distinct(Tail(s))
         /\ Tail(s) # <<>> => Head(Tail(s)) \in Range(Tail(s))
<1> DEFINE t == Tail(s)
           n == Len(s)
<1>1. /\ t \in Seq(Bufs) /\ n \in Nat \ {0} /\ Len(t) = n - 1
      /\ Head(s) = s[1] /\ Head(s) \in Bufs
  OBVIOUS
<1>2. \A i \in 1 .. n - 1 : t[i] = s[i + 1]
  OBVIOUS
<1>3. DOMAIN s = 1 .. n /\ DOMAIN t = 1 .. n - 1
  BY <1>1
<1>4. t # <<>> => Head(t) = t[1] /\ 1 \in DOMAIN t
  BY <1>1, <1>3
<1> HIDE DEF t, n
<1>5. Range(t) = Range(s) \ {Head(s)}
  <2>1. ASSUME NEW x \in Range(t) PROVE x \in Range(s) \ {Head(s)}
    <3>1. PICK i \in 1 .. n - 1 : x = s[i + 1]
      BY <1>2, <1>3 DEF Range
    <3>2. i + 1 \in 1 .. n /\ i + 1 # 1 /\ 1 \in 1 .. n
      BY <1>1
    <3> QED
      BY <3>1, <3>2, <1>1, <1>3 DEF Range, Distinct
  <2>2. ASSUME NEW x \in Range(s) \ {Head(s)} PROVE x \in Range(t)
    <3>1. PICK i \in 1 .. n : x = s[i]
      BY <1>3 DEF Range
    <3>2. i - 1 \in 1 .. n - 1 /\ (i - 1) + 1 = i
      BY <3>1, <1>1
    <3> QED
      BY <3>1, <3>2, <1>2, <1>3 DEF Range
  <2> QED
    BY <2>1, <2>2
<1>6. Distinct(t)
  <2> SUFFICES ASSUME NEW i \in 1 .. n - 1, NEW j \in 1 .. n - 1, t[i] = t[j] PROVE i = j
    BY <1>3 DEF Distinct
  <2>1. i + 1 \in 1 .. n /\ j + 1 \in 1 .. n /\ s[i + 1] = s[j + 1]
    BY <1>1, <1>2
  <2>2. i + 1 = j + 1
    BY <2>1, <1>3 DEF Distinct
  <2> QED
    BY <2>2
<1>7. Head(s) \in Range(s) /\ (t # <<>> => Head(t) \in Range(t))
  BY <1>1, <1>3, <1>4 DEF Range
<1> QED
  BY <1>1, <1>5, <1>6, <1>7 DEF t

-----------------------------------------------------------------------------
\* Who refers to a buffer

\* One more, and one less.
LEMMA CountOne ==
  ASSUME NEW S \in SUBSET Procs, NEW p \in Procs
  PROVE  /\ IsFiniteSet(S) /\ Cardinality(S) \in Nat
         /\ p \notin S => Cardinality(S \cup {p}) = Cardinality(S) + 1
         /\ p \in S => Cardinality(S \ {p}) = Cardinality(S) - 1
<1>1. IsFiniteSet(S)
  BY BuffersAssumption, FS_Subset
<1> QED
  BY <1>1, FS_CardinalityType, FS_AddElement, FS_RemoveElement

\* No more buffers than before.
LEMMA CountLess ==
  ASSUME NEW T \in SUBSET Bufs, NEW S \in SUBSET T
  PROVE  /\ IsFiniteSet(T) /\ IsFiniteSet(S)
         /\ Cardinality(S) \in Nat /\ Cardinality(T) \in Nat
         /\ Cardinality(S) <= Cardinality(T)
<1>1. IsFiniteSet(Bufs)
  BY FS_Interval, BuffersAssumption DEF Bufs
<1>2. IsFiniteSet(T)
  BY <1>1, FS_Subset
<1> QED
  BY <1>2, FS_Subset, FS_CardinalityType

\* The count of a buffer is 0 when nobody refers to it, and then nobody has
\* its lock and the driver has no request for it.
LEMMA Unreferred ==
  ASSUME TypeOK, RefcntCounts, LockInv, QueueInv, NEW b \in Bufs, buf[b].refcnt = 0
  PROVE  /\ \A p \in Procs : b \notin Refers(p)
         /\ buf[b].locked = NoProc
         /\ b \notin Range(idequeue)
<1>1. ASSUME NEW p \in Procs, b \in Refers(p) PROVE FALSE
  <2> DEFINE S == {q \in Procs : b \in Refers(q)}
  <2>1. S \in SUBSET Procs /\ p \in S /\ Cardinality(S) = 0
    BY <1>1 DEF RefcntCounts
  <2>2. IsFiniteSet(S)
    BY <2>1, CountOne
  <2> QED
    BY <2>1, <2>2, FS_EmptySet
<1>2. buf[b].locked = NoProc
  <2> SUFFICES ASSUME buf[b].locked # NoProc PROVE FALSE
    OBVIOUS
  <2>1. buf[b].locked \in Procs
    BY DEF TypeOK
  <2>2. b \in Refers(buf[b].locked)
    BY <2>1 DEF LockInv, Refers, Calling, Driving
  <2> QED
    BY <1>1, <2>1, <2>2
<1>3. b \notin Range(idequeue)
  BY <1>1 DEF QueueInv, Refers, Calling
<1> QED
  BY <1>1, <1>2, <1>3

\* A request is one of the process that holds the lock of its buffer.
LEMMA Queued ==
  ASSUME TypeOK, LockInv, QueueInv, NEW b \in Range(idequeue)
  PROVE  /\ b \in Bufs /\ buf[b].locked \in Procs /\ buf[b].blockno \in Blocks
         /\ proc[buf[b].locked].pc = "iowait" /\ proc[buf[b].locked].b = b
         /\ ~InSync(b)
<1>1. PICK p \in Procs : proc[p].pc = "iowait" /\ proc[p].b = b
  BY DEF QueueInv
<1>2. b \in Bufs /\ buf[b].blockno \in 0 .. NBLOCKS
  BY <1>1 DEF TypeOK
<1>3. buf[b].locked = p
  BY <1>1 DEF LockInv, Driving
<1>4. b \in Refers(p)
  BY <1>1 DEF Refers, Calling
<1>5. buf[b].blockno # 0
  BY <1>4 DEF LockInv
<1>6. ~InSync(b)
  BY DEF QueueInv, QueueMatches
<1> QED
  BY <1>1, <1>2, <1>3, <1>5, <1>6, BuffersAssumption DEF Blocks

\* The counts stay right when nobody's references change.
LEMMA SameReferences ==
  ASSUME RefcntCounts, \A p \in Procs : Refers(p)' = Refers(p),
         \A b \in Bufs : buf'[b].refcnt = buf[b].refcnt
  PROVE  RefcntCounts'
<1>1. ASSUME NEW b \in Bufs
      PROVE  {p \in Procs : b \in Refers(p)'} = {p \in Procs : b \in Refers(p)}
  OBVIOUS
<1> QED
  BY <1>1 DEF RefcntCounts

\* The transaction covers the dirty buffers when no buffer is added to them.
LEMMA SameLogged ==
  ASSUME LogInv, lh' = lh, Logged' \subseteq Logged,
         \A b \in Logged' : buf'[b].blockno = buf[b].blockno
  PROVE  LogInv'
BY Zenon DEF LogInv

-----------------------------------------------------------------------------
\* The invariant, step by step

\* The initial state satisfies the invariant.
LEMMA InitIndInv == Init => IndInv
<1> SUFFICES ASSUME Init PROVE IndInv
  OBVIOUS
<1> DEFINE v0 == CHOOSE v \in Values : TRUE
<1>1. v0 \in Values
  BY BuffersAssumption
<1> HIDE DEF v0
<1>2. TypeOK
  <2>1. \A b \in Bufs : \E i \in Bufs : lru[i] = b
    <3> SUFFICES ASSUME NEW b \in Bufs PROVE \E i \in Bufs : lru[i] = b
      OBVIOUS
    <3>1. NBUF + 1 - b \in Bufs /\ NBUF + 1 - (NBUF + 1 - b) = b
      BY BuffersAssumption DEF Bufs
    <3>2. lru[NBUF + 1 - b] = NBUF + 1 - (NBUF + 1 - b)
      BY <3>1 DEF Init
    <3> QED
      BY <3>1, <3>2
  <2>2. lru \in [Bufs -> Bufs]
    BY BuffersAssumption DEF Init, Bufs
  <2>3. idequeue \in Seq(Bufs) /\ disk \in [Blocks -> Values] /\ lh \subseteq Blocks
    BY <1>1 DEF Init, v0
  <2>4. ide \in [busy : BOOLEAN, write : BOOLEAN, block : Blocks, data : Values,
                 irq : Nat, strays : 0 .. MaxStray]
    BY <1>1, BuffersAssumption DEF Init, v0, Blocks
  <2>5. buf \in [Bufs -> [blockno : 0 .. NBLOCKS, valid : BOOLEAN, dirty : BOOLEAN,
                          refcnt : Nat, locked : Procs \cup {NoProc}, data : Values]]
    BY <1>1, BuffersAssumption DEF Init, v0, Bufs
  <2>6. proc \in [Procs -> [pc : PCs, b : Bufs, asleep : BOOLEAN, has : SUBSET Bufs]]
    BY BuffersAssumption DEF Init, PCs, Bufs
  <2> QED
    BY <2>1, <2>2, <2>3, <2>4, <2>5, <2>6 DEF TypeOK
<1>3. /\ \A b \in Bufs : /\ buf[b].blockno = 0 /\ buf[b].valid = FALSE /\ buf[b].dirty = FALSE
                         /\ buf[b].refcnt = 0 /\ buf[b].locked = NoProc
      /\ \A p \in Procs : proc[p].pc = "caller" /\ proc[p].asleep = FALSE /\ proc[p].has = {}
      /\ idequeue = <<>> /\ ide.busy = FALSE /\ ide.irq = 0
  BY DEF Init
<1>4. CacheInv
  BY <1>3 DEF CacheInv
<1>5. LockInv
  BY <1>3, BuffersAssumption DEF LockInv, Driving, Refers, Calling
<1>6. RefcntCounts
  <2>1. \A b \in Bufs : {p \in Procs : b \in Refers(p)} = {}
    BY <1>3 DEF Refers, Calling
  <2> QED
    BY <2>1, <1>3, FS_EmptySet DEF RefcntCounts
<1>7. QueueInv
  <2>1. Range(idequeue) = {} /\ DOMAIN idequeue = {}
    BY <1>3 DEF Range
  <2> QED
    BY <2>1, <1>3 DEF QueueInv, QueueMatches
<1>8. SleepersHaveReason
  BY <1>3 DEF SleepersHaveReason
<1>9. ControllerInv
  BY <1>3 DEF ControllerInv
<1>10. LogInv
  <2>1. Logged = {} /\ lh = {}
    BY <1>3 DEF Logged, Init
  <2> QED
    BY <2>1, FS_EmptySet, BuffersAssumption DEF LogInv
<1> QED
  BY <1>2, <1>4, <1>5, <1>6, <1>7, <1>8, <1>9, <1>10 DEF IndInv

\* The types of the fields.
BufType ==
  [Bufs -> [blockno : 0 .. NBLOCKS, valid : BOOLEAN, dirty : BOOLEAN, refcnt : Nat,
            locked : Procs \cup {NoProc}, data : Values]]

IdeType ==
  [busy : BOOLEAN, write : BOOLEAN, block : Blocks, data : Values, irq : Nat, strays : 0 .. MaxStray]

ProcType == [Procs -> [pc : PCs, b : Bufs, asleep : BOOLEAN, has : SUBSET Bufs]]

\* What a type-correct state has in the fields of buffers and processes.
LEMMA Fields ==
  ASSUME TypeOK
  PROVE  /\ buf \in BufType /\ proc \in ProcType
         /\ \A b \in Bufs :
              /\ buf[b].blockno \in 0 .. NBLOCKS /\ buf[b].valid \in BOOLEAN /\ buf[b].dirty \in BOOLEAN
              /\ buf[b].refcnt \in Nat /\ buf[b].locked \in Procs \cup {NoProc} /\ buf[b].data \in Values
         /\ \A p \in Procs :
              /\ proc[p].pc \in PCs /\ proc[p].b \in Bufs /\ proc[p].asleep \in BOOLEAN
              /\ proc[p].has \in SUBSET Bufs
<1>1. buf \in BufType /\ proc \in ProcType
  BY DEF TypeOK, BufType, ProcType
<1>2. \A b \in Bufs :
        /\ buf[b].blockno \in 0 .. NBLOCKS /\ buf[b].valid \in BOOLEAN /\ buf[b].dirty \in BOOLEAN
        /\ buf[b].refcnt \in Nat /\ buf[b].locked \in Procs \cup {NoProc} /\ buf[b].data \in Values
  BY <1>1 DEF BufType
<1>3. \A p \in Procs :
        /\ proc[p].pc \in PCs /\ proc[p].b \in Bufs /\ proc[p].asleep \in BOOLEAN
        /\ proc[p].has \in SUBSET Bufs
  BY <1>1 DEF ProcType
<1> QED
  BY <1>1, <1>2, <1>3

\* Where a process goes, and what it has when it is back in its caller.
LEMMA GotoIs ==
  ASSUME proc \in ProcType, NEW p \in Procs, NEW pc \in PCs, NEW b \in Bufs
  PROVE  /\ Goto(p, pc, b) \in ProcType
         /\ \A q \in Procs :
              /\ Goto(p, pc, b)[q].pc = (IF q = p THEN pc ELSE proc[q].pc)
              /\ Goto(p, pc, b)[q].b = (IF q = p THEN b ELSE proc[q].b)
              /\ Goto(p, pc, b)[q].asleep = proc[q].asleep /\ Goto(p, pc, b)[q].has = proc[q].has
  BY DEF ProcType, Goto

\* bread() or bget() returns b to its caller.
LEMMA ReturnsIs ==
  ASSUME proc \in ProcType, NEW p \in Procs, NEW b \in Bufs
  PROVE  /\ Returns(p, b) \in ProcType
         /\ \A q \in Procs \ {p} :
              /\ Returns(p, b)[q].pc = proc[q].pc /\ Returns(p, b)[q].b = proc[q].b
              /\ Returns(p, b)[q].asleep = proc[q].asleep /\ Returns(p, b)[q].has = proc[q].has
         /\ Returns(p, b)[p].pc = "caller" /\ Returns(p, b)[p].asleep = proc[p].asleep
         /\ Returns(p, b)[p].has = proc[p].has \cup {b}
<1> DEFINE G == Goto(p, "caller", 1)
<1>1. 1 \in Bufs /\ "caller" \in PCs
  BY BuffersAssumption DEF Bufs, PCs
<1>2. /\ G \in ProcType
      /\ \A q \in Procs :
           /\ G[q].pc = (IF q = p THEN "caller" ELSE proc[q].pc)
           /\ G[q].b = (IF q = p THEN 1 ELSE proc[q].b)
           /\ G[q].asleep = proc[q].asleep /\ G[q].has = proc[q].has
  BY <1>1, GotoIs
<1>3. Returns(p, b) = [G EXCEPT ![p].has = @ \cup {b}]
  BY DEF Returns
<1> HIDE DEF G
<1>4. proc[p].has \cup {b} \in SUBSET Bufs
  BY DEF ProcType
<1> QED
  BY <1>2, <1>3, <1>4 DEF ProcType

\* Those who are woken, and only they, do not sleep.
LEMMA WokenIs ==
  ASSUME proc \in ProcType, NEW pc, NEW b
  PROVE  /\ Woken(pc, b) \in ProcType
         /\ \A q \in Procs :
              /\ Woken(pc, b)[q].pc = proc[q].pc /\ Woken(pc, b)[q].b = proc[q].b
              /\ Woken(pc, b)[q].has = proc[q].has
              /\ Woken(pc, b)[q].asleep => proc[q].asleep /\ ~(proc[q].pc = pc /\ proc[q].b = b)
  BY DEF ProcType, Woken

\* The command that idestart() gives to the controller.
LEMMA IdestartIs ==
  ASSUME buf \in BufType, NEW i \in IdeType, NEW b \in Bufs, buf[b].blockno \in Blocks
  PROVE  /\ Idestart(i, b) \in IdeType
         /\ Idestart(i, b).busy = TRUE /\ Idestart(i, b).write = buf[b].dirty
         /\ Idestart(i, b).block = buf[b].blockno
         /\ buf[b].dirty => Idestart(i, b).data = buf[b].data
         /\ Idestart(i, b).irq = i.irq /\ Idestart(i, b).strays = i.strays
  BY DEF BufType, IdeType, Idestart

\* The first request of the driver is a request.
LEMMA FirstQueued ==
  ASSUME TypeOK, QueueInv, idequeue # <<>>
  PROVE  Head(idequeue) \in Range(idequeue) /\ Head(idequeue) \in Bufs
  BY QueueTail DEF QueueInv, QueueMatches, Distinct, TypeOK

\* bget(): the process refers to one more buffer, which it waits to lock.
LEMMA BgetInv ==
  ASSUME IndInv, NEW p \in Procs, NEW k \in Blocks, Bget(p, k)
  PROVE  IndInv'
<1>0. /\ TypeOK /\ CacheInv /\ LockInv /\ RefcntCounts /\ QueueInv /\ SleepersHaveReason
      /\ ControllerInv /\ LogInv
  BY DEF IndInv
<1>f. /\ buf \in BufType /\ proc \in ProcType
      /\ \A b \in Bufs :
           /\ buf[b].blockno \in 0 .. NBLOCKS /\ buf[b].valid \in BOOLEAN /\ buf[b].dirty \in BOOLEAN
           /\ buf[b].refcnt \in Nat /\ buf[b].locked \in Procs \cup {NoProc}
      /\ \A q \in Procs : proc[q].b \in Bufs /\ proc[q].has \in SUBSET Bufs
  BY <1>0, Fields
<1>1. /\ proc[p].pc = "caller" /\ k \in 0 .. NBLOCKS /\ k # 0
      /\ \A b \in proc[p].has : buf[b].blockno < k
      /\ lru' = lru /\ idequeue' = idequeue /\ disk' = disk /\ lh' = lh /\ ide' = ide
  BY DEF Bget, MayGet, Blocks
<1>2. PICK b \in Bufs :
        /\ proc' = Goto(p, "acquiresleep", b)
        /\ \/ b \in Cached(k) /\ buf' = Hit(b)
           \/ Cached(k) = {} /\ b \in Unused /\ buf' = Recycled(b, k)
  <2>1. CASE \E b \in Cached(k) : buf' = Hit(b) /\ proc' = Goto(p, "acquiresleep", b)
    BY <2>1 DEF Cached
  <2>2. CASE /\ Cached(k) = {} /\ Unused # {} /\ buf' = Recycled(Recycle, k)
             /\ proc' = Goto(p, "acquiresleep", Recycle)
    <3>1. Recycle \in Unused
      BY <2>2, <1>0, RecycleIsUnused
    <3> QED
      BY <2>2, <3>1 DEF Unused
  <2> QED
    BY <2>1, <2>2 DEF Bget
<1>3. /\ proc' \in ProcType
      /\ \A q \in Procs :
           /\ proc'[q].pc = (IF q = p THEN "acquiresleep" ELSE proc[q].pc)
           /\ proc'[q].b = (IF q = p THEN b ELSE proc[q].b)
           /\ proc'[q].asleep = proc[q].asleep /\ proc'[q].has = proc[q].has
  BY <1>2, <1>f DEF ProcType, Goto, PCs
<1>4. /\ buf' \in BufType
      /\ \A c \in Bufs :
           /\ buf'[c].locked = buf[c].locked /\ buf'[c].data = buf[c].data
           /\ buf'[c].refcnt = IF c = b THEN buf[c].refcnt + 1 ELSE buf[c].refcnt
           /\ c # b => buf'[c].blockno = buf[c].blockno /\ buf'[c].valid = buf[c].valid
                       /\ buf'[c].dirty = buf[c].dirty
      /\ \/ /\ buf[b].blockno = k
            /\ buf'[b].blockno = buf[b].blockno /\ buf'[b].valid = buf[b].valid
            /\ buf'[b].dirty = buf[b].dirty
         \/ /\ \A c \in Bufs : buf[c].blockno # k
            /\ buf[b].refcnt = 0
            /\ buf'[b].blockno = k /\ buf'[b].valid = FALSE /\ buf'[b].dirty = FALSE
  <2>1. CASE b \in Cached(k) /\ buf' = Hit(b)
    BY <2>1, <1>f DEF Hit, Cached, BufType
  <2>2. CASE Cached(k) = {} /\ b \in Unused /\ buf' = Recycled(b, k)
    <3>1. buf[b].refcnt = 0 /\ \A c \in Bufs : buf[c].blockno # k
      BY <2>2 DEF Unused, Cached
    <3> QED
      BY <2>2, <3>1, <1>1, <1>f DEF Recycled, BufType
  <2> QED
    BY <2>1, <2>2, <1>2
<1>5. buf[b].blockno = k \/ /\ \A q \in Procs : b \notin Refers(q)
                            /\ buf[b].locked = NoProc /\ b \notin Range(idequeue)
  BY <1>4, <1>0, Unreferred
<1>6. b \notin proc[p].has /\ b \notin Refers(p)
  BY <1>1, <1>5, <1>f DEF Refers, Calling
<1>7. TypeOK'
  BY <1>0, <1>1, <1>3, <1>4 DEF TypeOK, BufType, ProcType
<1>8. CacheInv'
  BY <1>0, <1>1, <1>4 DEF CacheInv
<1>9. /\ Refers(p)' = Refers(p) \cup {b}
      /\ \A q \in Procs \ {p} : Refers(q)' = Refers(q)
  BY <1>1, <1>3 DEF Refers, Calling
<1>10. LockInv'
  BY <1>0, <1>1, <1>3, <1>4, <1>5, <1>6, <1>9, <1>f DEF LockInv, Driving, Refers, Calling
<1>11. RefcntCounts'
  <2> SUFFICES ASSUME NEW c \in Bufs
               PROVE  buf'[c].refcnt = Cardinality({q \in Procs : c \in Refers(q)'})
    BY DEF RefcntCounts
  <2> DEFINE S == {q \in Procs : c \in Refers(q)}
  <2>2. buf[c].refcnt = Cardinality(S) /\ S \in SUBSET Procs
    BY <1>0 DEF RefcntCounts
  <2>3. CASE c # b
    <3>1. {q \in Procs : c \in Refers(q)'} = S
      BY <1>9, <2>3
    <3> QED
      BY <3>1, <2>2, <2>3, <1>4
  <2>4. CASE c = b
    <3>1. {q \in Procs : c \in Refers(q)'} = S \cup {p} /\ p \notin S
      BY <1>9, <2>4, <1>6
    <3>2. Cardinality(S \cup {p}) = Cardinality(S) + 1
      BY <3>1, <2>2, CountOne
    <3> QED
      BY <3>1, <3>2, <2>2, <2>4, <1>4
  <2> QED
    BY <2>3, <2>4
<1>12. QueueInv'
  BY <1>0, <1>1, <1>3, <1>4, <1>5, <1>f DEF QueueInv, QueueMatches, InSync, Refers, Calling
<1>13. SleepersHaveReason'
  BY <1>0, <1>1, <1>3, <1>4, <1>5, <1>f DEF SleepersHaveReason, LockInv, InSync, Refers, Calling
<1>14. ControllerInv'
  <2>1. idequeue # <<>> => Head(idequeue) \in Range(idequeue) /\ Head(idequeue) \in Bufs
    BY <1>0, FirstQueued
  <2>2. idequeue # <<>> =>
          LET h == Head(idequeue) IN
          buf'[h].blockno = buf[h].blockno /\ buf'[h].dirty = buf[h].dirty /\ buf'[h].data = buf[h].data
    BY <2>1, <1>4, <1>5
  <2> QED
    BY <1>0, <1>1, <2>2 DEF ControllerInv
<1>15. LogInv'
  <2>1. Logged' \subseteq Logged /\ \A c \in Logged' : buf'[c].blockno = buf[c].blockno
    BY <1>1, <1>3, <1>4 DEF Logged, Driving
  <2> QED
    BY <2>1, <1>0, <1>1, SameLogged
<1> QED
  BY <1>7, <1>8, <1>10, <1>11, <1>12, <1>13, <1>14, <1>15 DEF IndInv

\* acquiresleep(): the process takes the lock when it is free, and then has
\* the buffer or asks the driver for its data; otherwise it sleeps.
LEMMA AcquiresleepInv ==
  ASSUME IndInv, NEW p \in Procs, Acquiresleep(p)
  PROVE  IndInv'
<1>0. /\ TypeOK /\ CacheInv /\ LockInv /\ RefcntCounts /\ QueueInv /\ SleepersHaveReason
      /\ ControllerInv /\ LogInv
  BY DEF IndInv
<1>f. /\ buf \in BufType /\ proc \in ProcType
      /\ \A b \in Bufs :
           /\ buf[b].blockno \in 0 .. NBLOCKS /\ buf[b].valid \in BOOLEAN /\ buf[b].dirty \in BOOLEAN
           /\ buf[b].refcnt \in Nat /\ buf[b].locked \in Procs \cup {NoProc}
      /\ \A q \in Procs : proc[q].b \in Bufs /\ proc[q].has \in SUBSET Bufs
  BY <1>0, Fields
<1> DEFINE b == proc[p].b
<1>1. /\ proc[p].pc = "acquiresleep" /\ proc[p].asleep = FALSE /\ b \in Bufs
      /\ lru' = lru /\ idequeue' = idequeue /\ disk' = disk /\ lh' = lh /\ ide' = ide
  BY <1>f, <1>0, Fields DEF Acquiresleep
<1>2. \/ /\ buf[b].locked = NoProc /\ buf[b].valid
         /\ buf' = [buf EXCEPT ![b].locked = p] /\ proc' = Returns(p, b)
      \/ /\ buf[b].locked = NoProc /\ ~buf[b].valid
         /\ buf' = [buf EXCEPT ![b].locked = p] /\ proc' = Goto(p, "iderw", b)
      \/ /\ buf[b].locked # NoProc
         /\ buf' = buf /\ proc' = [proc EXCEPT ![p].asleep = TRUE]
  BY DEF Acquiresleep, LockFree
<1>3. b \notin proc[p].has /\ b \in Refers(p) /\ buf[b].blockno # 0 /\ p # NoProc
  BY <1>0, <1>1, BuffersAssumption DEF LockInv, Refers, Calling
<1>4. buf[b].locked = NoProc => b \notin Range(idequeue)
  BY <1>0, Queued, BuffersAssumption
<1> HIDE DEF b
<1>5. 1 \in Bufs
  BY BuffersAssumption DEF Bufs
<1>6. /\ buf' \in BufType
      /\ \A c \in Bufs :
           /\ buf'[c].blockno = buf[c].blockno /\ buf'[c].valid = buf[c].valid
           /\ buf'[c].dirty = buf[c].dirty /\ buf'[c].data = buf[c].data
           /\ buf'[c].refcnt = buf[c].refcnt
           /\ buf'[c].locked = IF c = b /\ buf[b].locked = NoProc THEN p ELSE buf[c].locked
  BY <1>1, <1>2, <1>f DEF BufType
<1>7. /\ proc' \in ProcType
      /\ \A q \in Procs \ {p} :
           /\ proc'[q].pc = proc[q].pc /\ proc'[q].b = proc[q].b
           /\ proc'[q].asleep = proc[q].asleep /\ proc'[q].has = proc[q].has
      /\ \/ /\ buf[b].locked = NoProc /\ buf[b].valid
            /\ proc'[p].pc = "caller" /\ ~proc'[p].asleep /\ proc'[p].has = proc[p].has \cup {b}
         \/ /\ buf[b].locked = NoProc /\ ~buf[b].valid /\ proc'[p].b = b
            /\ proc'[p].pc = "iderw" /\ ~proc'[p].asleep /\ proc'[p].has = proc[p].has
         \/ /\ buf[b].locked # NoProc /\ proc'[p].b = b
            /\ proc'[p].pc = proc[p].pc /\ proc'[p].asleep /\ proc'[p].has = proc[p].has
  <2>1. CASE buf[b].locked = NoProc /\ buf[b].valid /\ proc' = Returns(p, b)
    BY <2>1, <1>1, <1>f, ReturnsIs
  <2>2. CASE buf[b].locked = NoProc /\ ~buf[b].valid /\ proc' = Goto(p, "iderw", b)
    BY <2>2, <1>1, <1>5, <1>f DEF ProcType, Goto, PCs
  <2>3. CASE buf[b].locked # NoProc /\ proc' = [proc EXCEPT ![p].asleep = TRUE]
    BY <2>3, <1>1, <1>5, <1>f DEF ProcType, b
  <2> QED
    BY <1>2, <2>1, <2>2, <2>3
<1>8. TypeOK'
  BY <1>0, <1>1, <1>6, <1>7 DEF TypeOK, BufType, ProcType
<1>9. CacheInv'
  BY <1>0, <1>6 DEF CacheInv
<1>10. \A q \in Procs : Refers(q)' = Refers(q)
  BY <1>1, <1>7 DEF Refers, Calling, b
<1>11. RefcntCounts'
  BY <1>0, <1>6, <1>10, SameReferences
<1>12. LockInv'
  <2>1. ASSUME NEW q \in Procs
        PROVE  /\ \A c \in proc'[q].has : buf'[c].locked = q /\ buf'[c].valid
               /\ Driving(q)' => buf'[proc'[q].b].locked = q
               /\ proc'[q].pc \in {"acquiresleep", "brelse"} => proc'[q].b \notin proc'[q].has
               /\ \A c \in Refers(q) : buf'[c].blockno # 0
               /\ proc'[q].asleep => proc'[q].pc \in {"acquiresleep", "iowait"}
    <3>1. Refers(q) \subseteq Bufs
      BY <1>f DEF Refers, Calling
    <3>2. CASE q = p
      BY <1>0, <1>1, <1>3, <1>6, <1>7, <1>f, <3>1, <3>2 DEF LockInv, Driving
    <3>3. CASE q # p
      <4>1. \A c \in Bufs : buf[c].locked = q => buf'[c].locked = q
        BY <1>6, BuffersAssumption
      <4>2. /\ proc'[q].pc = proc[q].pc /\ proc'[q].b = proc[q].b
            /\ proc'[q].asleep = proc[q].asleep /\ proc'[q].has = proc[q].has
        BY <1>7, <3>3
      <4> QED
        BY <1>0, <1>6, <1>f, <3>1, <4>1, <4>2 DEF LockInv, Driving
    <3> QED
      BY <3>2, <3>3
  <2>2. ASSUME NEW c \in Bufs, NEW q \in Procs, buf'[c].locked = q
        PROVE  c \in proc'[q].has \/ (Driving(q)' /\ proc'[q].b = c)
    BY <1>0, <1>1, <1>3, <1>6, <1>7, <1>f, <2>2 DEF LockInv, Driving
  <2> QED
    BY <1>10, <2>1, <2>2 DEF LockInv
<1>13. QueueInv'
  <2>1. \A c \in Bufs : InSync(c)' <=> InSync(c)
    BY <1>6 DEF InSync
  <2>2. \A c \in Range(idequeue) : c \in Bufs
    BY <1>0, Queued
  <2>3. ~buf[b].valid => ~InSync(b)
    BY DEF InSync
  <2>4. \A q \in Procs : proc'[q].pc = "iowait" <=> proc[q].pc = "iowait"
    BY <1>1, <1>7
  <2>5. \A q \in Procs : proc[q].pc = "iowait" => proc'[q].b = proc[q].b
    BY <1>1, <1>7
  <2>6. \A c \in Range(idequeue) : \E q \in Procs : proc'[q].pc = "iowait" /\ proc'[q].b = c
    BY <1>0, <2>4, <2>5 DEF QueueInv
  <2>7. ASSUME NEW q \in Procs, proc'[q].pc \in {"iderw", "iowait"}
        PROVE  /\ buf'[proc'[q].b].locked = q
               /\ proc'[q].pc = "iowait" => (proc'[q].b \in Range(idequeue) <=> ~InSync(proc'[q].b))
               /\ proc'[q].pc = "iderw" => ~InSync(proc'[q].b)
    <3>1. CASE q = p
      BY <1>1, <1>6, <1>7, <2>3, <2>7, <3>1
    <3>2. CASE q # p
      <4>1. \A c \in Bufs : buf[c].locked = q => buf'[c].locked = q
        BY <1>6, BuffersAssumption
      <4>2. proc'[q].pc = proc[q].pc /\ proc'[q].b = proc[q].b
        BY <1>7, <3>2
      <4> QED
        BY <1>0, <1>f, <2>7, <4>1, <4>2 DEF QueueInv, QueueMatches
    <3> QED
      BY <3>1, <3>2
  <2> QED
    BY <1>0, <1>1, <1>7, <2>1, <2>2, <2>6, <2>7, <1>f DEF QueueInv, QueueMatches
<1>14. SleepersHaveReason'
  BY <1>0, <1>1, <1>3, <1>6, <1>7, <1>f DEF SleepersHaveReason, InSync
<1>15. ControllerInv'
  <2>1. idequeue # <<>> => Head(idequeue) \in Bufs
    BY <1>0, FirstQueued
  <2> QED
    BY <1>0, <1>1, <1>6, <2>1 DEF ControllerInv
<1>16. LogInv'
  <2>1. Logged' \subseteq Logged /\ \A c \in Logged' : buf'[c].blockno = buf[c].blockno
    BY <1>1, <1>6, <1>7 DEF Logged, Driving
  <2> QED
    BY <2>1, <1>0, <1>1, SameLogged
<1> QED
  BY <1>8, <1>9, <1>11, <1>12, <1>13, <1>14, <1>15, <1>16 DEF IndInv

\* A process changes a block of a buffer it has: one more dirty buffer, if
\* the log has room for it.
LEMMA LogWriteInv ==
  ASSUME IndInv, NEW p \in Procs, NEW b \in Bufs, NEW v \in Values, LogWrite(p, b, v)
  PROVE  IndInv'
<1>0. /\ TypeOK /\ CacheInv /\ LockInv /\ RefcntCounts /\ QueueInv /\ SleepersHaveReason
      /\ ControllerInv /\ LogInv
  BY DEF IndInv
<1>f. /\ buf \in BufType /\ proc \in ProcType
      /\ \A c \in Bufs :
           /\ buf[c].blockno \in 0 .. NBLOCKS /\ buf[c].valid \in BOOLEAN /\ buf[c].dirty \in BOOLEAN
           /\ buf[c].refcnt \in Nat /\ buf[c].locked \in Procs \cup {NoProc}
      /\ \A q \in Procs : proc[q].b \in Bufs /\ proc[q].has \in SUBSET Bufs
  BY <1>0, Fields
<1>1. /\ proc[p].pc = "caller" /\ b \in proc[p].has
      /\ Cardinality(lh) < LOGSIZE /\ lh' = lh \cup {buf[b].blockno}
      /\ lru' = lru /\ idequeue' = idequeue /\ disk' = disk /\ ide' = ide /\ proc' = proc
  BY DEF LogWrite, Logging
<1>2. buf[b].locked = p /\ buf[b].valid /\ b \notin Range(idequeue)
      /\ \A q \in Procs : ~(Driving(q) /\ proc[q].b = b)
  <2>1. buf[b].locked = p /\ buf[b].valid /\ \A q \in Procs : ~(Driving(q) /\ proc[q].b = b)
    BY <1>0, <1>1 DEF LockInv, Driving
  <2> QED
    BY <2>1, <1>0, <1>1, Queued
<1>3. /\ buf' \in BufType
      /\ \A c \in Bufs :
           /\ buf'[c].blockno = buf[c].blockno /\ buf'[c].valid = buf[c].valid
           /\ c # b => buf'[c].dirty = buf[c].dirty
           /\ c # b => buf'[c].data = buf[c].data
           /\ buf'[c].refcnt = buf[c].refcnt /\ buf'[c].locked = buf[c].locked
      /\ buf'[b].dirty = TRUE
  BY <1>f DEF BufType, LogWrite
<1>b. buf[b].blockno \in Blocks
  <2>1. buf[b].blockno # 0 /\ buf[b].blockno \in 0 .. NBLOCKS
    BY <1>0, <1>1, <1>f DEF LockInv, Refers, Calling
  <2> QED
    BY <2>1, BuffersAssumption DEF Blocks
<1>4. TypeOK'
  BY <1>0, <1>1, <1>3, <1>b DEF TypeOK, BufType
<1>5. CacheInv'
  BY <1>0, <1>2, <1>3 DEF CacheInv
<1>6. \A q \in Procs : Refers(q)' = Refers(q)
  BY <1>1 DEF Refers, Calling
<1>7. RefcntCounts'
  BY <1>0, <1>3, <1>6, SameReferences
<1>8. LockInv'
  <2>1. \A q \in Procs : Refers(q) \subseteq Bufs
    BY <1>f DEF Refers, Calling
  <2>2. \A q \in Procs : Driving(q)' = Driving(q)
    BY <1>1 DEF Driving
  <2> QED
    BY <1>0, <1>1, <1>3, <1>6, <1>f, <2>1, <2>2 DEF LockInv
<1>9. QueueInv'
  <2>1. \A q \in Procs : proc[q].pc \in {"iderw", "iowait"} => proc[q].b # b
    BY <1>2 DEF Driving
  <2> QED
    BY <1>0, <1>1, <1>2, <1>3, <1>f, <2>1 DEF QueueInv, QueueMatches, InSync
<1>10. SleepersHaveReason'
  BY <1>0, <1>1, <1>3, <1>f DEF SleepersHaveReason, InSync
<1>11. ControllerInv'
  <2>1. idequeue # <<>> => Head(idequeue) \in Bufs /\ Head(idequeue) # b
    BY <1>0, <1>2, FirstQueued
  <2> QED
    BY <1>0, <1>1, <1>3, <2>1 DEF ControllerInv
<1>12. LogInv'
  <2>1. /\ IsFiniteSet(lh) /\ Cardinality(lh) \in Nat /\ lh' = lh \cup {buf[b].blockno}
        /\ Cardinality(lh) < LOGSIZE
        /\ \A c \in Logged : buf[c].blockno \in lh
    BY <1>0, <1>1, FS_CardinalityType DEF LogInv
  <2>2. /\ IsFiniteSet(lh \cup {buf[b].blockno})
        /\ \/ Cardinality(lh \cup {buf[b].blockno}) = Cardinality(lh)
           \/ Cardinality(lh \cup {buf[b].blockno}) = Cardinality(lh) + 1
    BY <2>1, FS_AddElement
  <2>3. IsFiniteSet(lh') /\ Cardinality(lh') <= LOGSIZE
    BY <2>1, <2>2, BuffersAssumption
  <2>4. \A c \in Logged' : buf'[c].blockno = buf[c].blockno /\ (c = b \/ c \in Logged)
    BY <1>1, <1>3 DEF Logged, Driving
  <2> QED
    BY <2>1, <2>3, <2>4 DEF LogInv
<1> QED
  BY <1>4, <1>5, <1>7, <1>8, <1>9, <1>10, <1>11, <1>12 DEF IndInv

\* bwrite(): the buffer is dirty, and its process on the way to the driver.
LEMMA BwriteInv ==
  ASSUME IndInv, NEW p \in Procs, NEW b \in Bufs, Bwrite(p, b)
  PROVE  IndInv'
<1>0. /\ TypeOK /\ CacheInv /\ LockInv /\ RefcntCounts /\ QueueInv /\ SleepersHaveReason
      /\ ControllerInv /\ LogInv
  BY DEF IndInv
<1>f. /\ buf \in BufType /\ proc \in ProcType
      /\ \A c \in Bufs :
           /\ buf[c].blockno \in 0 .. NBLOCKS /\ buf[c].valid \in BOOLEAN /\ buf[c].dirty \in BOOLEAN
           /\ buf[c].refcnt \in Nat /\ buf[c].locked \in Procs \cup {NoProc}
      /\ \A q \in Procs : proc[q].b \in Bufs /\ proc[q].has \in SUBSET Bufs
  BY <1>0, Fields
<1>1. /\ proc[p].pc = "caller" /\ b \in proc[p].has
      /\ lru' = lru /\ idequeue' = idequeue /\ disk' = disk /\ lh' = lh /\ ide' = ide
  BY DEF Bwrite
<1>2. /\ buf[b].locked = p /\ buf[b].valid /\ b \notin Range(idequeue)
      /\ \A q \in Procs : ~(Driving(q) /\ proc[q].b = b)
      /\ ~proc[p].asleep
  <2>1. buf[b].locked = p /\ buf[b].valid /\ \A q \in Procs : ~(Driving(q) /\ proc[q].b = b)
    BY <1>0, <1>1 DEF LockInv, Driving
  <2>2. ~proc[p].asleep
    BY <1>0, <1>1 DEF LockInv
  <2> QED
    BY <2>1, <2>2, <1>0, <1>1, Queued
<1>3. /\ buf' \in BufType
      /\ \A c \in Bufs :
           /\ buf'[c].blockno = buf[c].blockno /\ buf'[c].valid = buf[c].valid
           /\ c # b => buf'[c].dirty = buf[c].dirty
           /\ buf'[c].data = buf[c].data
           /\ buf'[c].refcnt = buf[c].refcnt /\ buf'[c].locked = buf[c].locked
      /\ buf'[b].dirty = TRUE
  BY <1>f DEF BufType, Bwrite
<1>4. /\ proc' \in ProcType
      /\ \A q \in Procs :
           /\ proc'[q].pc = (IF q = p THEN "iderw" ELSE proc[q].pc)
           /\ proc'[q].b = (IF q = p THEN b ELSE proc[q].b)
           /\ proc'[q].asleep = proc[q].asleep /\ proc'[q].has = proc[q].has
  BY <1>f DEF ProcType, Goto, PCs, Bwrite
<1>5. TypeOK'
  BY <1>0, <1>1, <1>3, <1>4 DEF TypeOK, BufType, ProcType
<1>6. CacheInv'
  BY <1>0, <1>2, <1>3 DEF CacheInv
<1>7. \A q \in Procs : Refers(q)' = Refers(q)
  BY <1>1, <1>4 DEF Refers, Calling
<1>8. RefcntCounts'
  BY <1>0, <1>3, <1>7, SameReferences
<1>9. LockInv'
  <2>1. ASSUME NEW q \in Procs
        PROVE  /\ \A c \in proc'[q].has : buf'[c].locked = q /\ buf'[c].valid
               /\ Driving(q)' => buf'[proc'[q].b].locked = q
               /\ proc'[q].pc \in {"acquiresleep", "brelse"} => proc'[q].b \notin proc'[q].has
               /\ \A c \in Refers(q) : buf'[c].blockno # 0
               /\ proc'[q].asleep => proc'[q].pc \in {"acquiresleep", "iowait"}
    <3>1. Refers(q) \subseteq Bufs
      BY <1>f DEF Refers, Calling
    <3> QED
      BY <1>0, <1>1, <1>2, <1>3, <1>4, <1>f, <3>1 DEF LockInv, Driving
  <2>2. ASSUME NEW c \in Bufs, NEW q \in Procs, buf'[c].locked = q
        PROVE  c \in proc'[q].has \/ (Driving(q)' /\ proc'[q].b = c)
    BY <1>0, <1>1, <1>3, <1>4, <1>f, <2>2 DEF LockInv, Driving
  <2> QED
    BY <1>7, <2>1, <2>2 DEF LockInv
<1>10. QueueInv'
  <2>1. \A q \in Procs : proc[q].pc \in {"iderw", "iowait"} => proc[q].b # b
    BY <1>2 DEF Driving
  <2> QED
    BY <1>0, <1>1, <1>2, <1>3, <1>4, <1>f, <2>1 DEF QueueInv, QueueMatches, InSync
<1>11. SleepersHaveReason'
  BY <1>0, <1>1, <1>2, <1>3, <1>4, <1>f DEF SleepersHaveReason, InSync
<1>12. ControllerInv'
  <2>1. idequeue # <<>> => Head(idequeue) \in Bufs /\ Head(idequeue) # b
    BY <1>0, <1>2, FirstQueued
  <2> QED
    BY <1>0, <1>1, <1>3, <2>1 DEF ControllerInv
<1>13. LogInv'
  <2>1. Logged' \subseteq Logged /\ \A c \in Logged' : buf'[c].blockno = buf[c].blockno
    BY <1>1, <1>3, <1>4 DEF Logged, Driving
  <2> QED
    BY <2>1, <1>0, <1>1, SameLogged
<1> QED
  BY <1>5, <1>6, <1>8, <1>9, <1>10, <1>11, <1>12, <1>13 DEF IndInv

\* brelse() gives the lock back and wakes those who wait for it.
LEMMA BrelseInv ==
  ASSUME IndInv, NEW p \in Procs, NEW b \in Bufs, Brelse(p, b)
  PROVE  IndInv'
<1>0. /\ TypeOK /\ CacheInv /\ LockInv /\ RefcntCounts /\ QueueInv /\ SleepersHaveReason
      /\ ControllerInv /\ LogInv
  BY DEF IndInv
<1>f. /\ buf \in BufType /\ proc \in ProcType
      /\ \A c \in Bufs :
           /\ buf[c].blockno \in 0 .. NBLOCKS /\ buf[c].valid \in BOOLEAN /\ buf[c].dirty \in BOOLEAN
           /\ buf[c].refcnt \in Nat /\ buf[c].locked \in Procs \cup {NoProc}
      /\ \A q \in Procs : proc[q].b \in Bufs /\ proc[q].has \in SUBSET Bufs
  BY <1>0, Fields
<1>1. /\ proc[p].pc = "caller" /\ b \in proc[p].has
      /\ lru' = lru /\ idequeue' = idequeue /\ disk' = disk /\ lh' = lh /\ ide' = ide
  BY DEF Brelse
<1>2. /\ buf[b].locked = p /\ buf[b].valid /\ b \notin Range(idequeue)
      /\ ~proc[p].asleep /\ p # NoProc
  <2>1. buf[b].locked = p /\ buf[b].valid /\ ~proc[p].asleep
    BY <1>0, <1>1 DEF LockInv
  <2> QED
    BY <2>1, <1>0, <1>1, Queued, BuffersAssumption
<1>3. /\ buf' \in BufType
      /\ \A c \in Bufs :
           /\ buf'[c].blockno = buf[c].blockno /\ buf'[c].valid = buf[c].valid
           /\ buf'[c].dirty = buf[c].dirty /\ buf'[c].data = buf[c].data
           /\ buf'[c].refcnt = buf[c].refcnt
           /\ buf'[c].locked = IF c = b THEN NoProc ELSE buf[c].locked
  BY <1>f DEF BufType, Brelse
<1>4. /\ proc' \in ProcType
      /\ \A q \in Procs \ {p} :
           /\ proc'[q].pc = proc[q].pc /\ proc'[q].b = proc[q].b /\ proc'[q].has = proc[q].has
           /\ proc'[q].asleep => proc[q].asleep /\ ~(proc[q].pc = "acquiresleep" /\ proc[q].b = b)
      /\ proc'[p].pc = "brelse" /\ proc'[p].b = b /\ proc'[p].has = proc[p].has \ {b}
      /\ ~proc'[p].asleep
  <2> DEFINE W == Woken("acquiresleep", b)
  <2>1. /\ W \in ProcType
        /\ \A q \in Procs :
             /\ W[q].pc = proc[q].pc /\ W[q].b = proc[q].b /\ W[q].has = proc[q].has
             /\ W[q].asleep => proc[q].asleep /\ ~(proc[q].pc = "acquiresleep" /\ proc[q].b = b)
    BY <1>f, WokenIs
  <2>2. proc' = [W EXCEPT ![p].pc = "brelse", ![p].b = b, ![p].has = @ \ {b}]
    BY DEF Brelse
  <2> HIDE DEF W
  <2>3. "brelse" \in PCs /\ proc[p].has \ {b} \in SUBSET Bufs
    BY <1>f DEF PCs
  <2>4. proc' \in ProcType
    <3> DEFINE h == W[p].has \ {b}
               r == [W[p] EXCEPT !.pc = "brelse", !.b = b, !.has = h]
    <3>0. h \in SUBSET Bufs
      BY <2>1, <2>3
    <3>3. proc' = [W EXCEPT ![p].pc = "brelse", ![p].b = b, ![p].has = h]
      BY <2>2
    <3> HIDE DEF h
    <3>1. W[p] \in [pc : PCs, b : Bufs, asleep : BOOLEAN, has : SUBSET Bufs]
      BY <2>1 DEF ProcType
    <3>2. r \in [pc : PCs, b : Bufs, asleep : BOOLEAN, has : SUBSET Bufs]
      BY <2>3, <3>0, <3>1
    <3>4. proc' = [W EXCEPT ![p] = r]
      BY <2>1, <3>3 DEF ProcType
    <3> HIDE DEF r
    <3> QED
      BY <2>1, <3>2, <3>4 DEF ProcType
  <2>5. \A q \in Procs \ {p} : proc'[q] = W[q]
    BY <2>1, <2>2 DEF ProcType
  <2>6. proc'[p].pc = "brelse" /\ proc'[p].b = b /\ proc'[p].has = W[p].has \ {b}
        /\ proc'[p].asleep = W[p].asleep
    BY <2>1, <2>2 DEF ProcType
  <2> QED
    BY <1>2, <2>1, <2>4, <2>5, <2>6
<1>5. TypeOK'
  <2>1. buf' \in BufType /\ proc' \in ProcType
    BY <1>3, <1>4
  <2> QED
    BY <1>0, <1>1, <2>1 DEF TypeOK, BufType, ProcType
<1>6. CacheInv'
  BY <1>0, <1>3 DEF CacheInv
<1>7. \A q \in Procs : Refers(q)' = Refers(q)
  BY <1>1, <1>4 DEF Refers, Calling
<1>8. RefcntCounts'
  BY <1>0, <1>3, <1>7, SameReferences
<1>9. LockInv'
  <2>1. ASSUME NEW q \in Procs
        PROVE  /\ \A c \in proc'[q].has : buf'[c].locked = q /\ buf'[c].valid
               /\ Driving(q)' => buf'[proc'[q].b].locked = q
               /\ proc'[q].pc \in {"acquiresleep", "brelse"} => proc'[q].b \notin proc'[q].has
               /\ \A c \in Refers(q) : buf'[c].blockno # 0
               /\ proc'[q].asleep => proc'[q].pc \in {"acquiresleep", "iowait"}
    <3>1. Refers(q) \subseteq Bufs
      BY <1>f DEF Refers, Calling
    <3>2. CASE q = p
      BY <1>0, <1>1, <1>2, <1>3, <1>4, <1>f, <3>1, <3>2 DEF LockInv, Driving
    <3>3. CASE q # p
      <4>1. \A c \in Bufs : buf[c].locked = q => buf'[c].locked = q
        BY <1>2, <1>3, <3>3
      <4>2. /\ proc'[q].pc = proc[q].pc /\ proc'[q].b = proc[q].b
            /\ proc'[q].has = proc[q].has /\ (proc'[q].asleep => proc[q].asleep)
        BY <1>4, <3>3
      <4> QED
        BY <1>0, <1>3, <1>f, <3>1, <4>1, <4>2 DEF LockInv, Driving
    <3> QED
      BY <3>2, <3>3
  <2>2. ASSUME NEW c \in Bufs, NEW q \in Procs, buf'[c].locked = q
        PROVE  c \in proc'[q].has \/ (Driving(q)' /\ proc'[q].b = c)
    <3>1. c # b /\ buf[c].locked = q
      BY <1>3, <2>2, BuffersAssumption
    <3>2. c \in proc[q].has \/ (Driving(q) /\ proc[q].b = c)
      BY <1>0, <3>1 DEF LockInv
    <3> QED
      BY <1>1, <1>4, <3>1, <3>2 DEF Driving
  <2> QED
    BY <1>7, <2>1, <2>2 DEF LockInv
<1>s. \A c \in Bufs : InSync(c)' <=> InSync(c)
  BY <1>3 DEF InSync
<1>d. \A q \in Procs : proc'[q].pc \in {"iderw", "iowait"} =>
        q # p /\ proc[q].pc = proc'[q].pc /\ proc'[q].b = proc[q].b /\ proc[q].b \in Bufs /\ proc[q].b # b
  BY <1>0, <1>2, <1>4, <1>f DEF LockInv, Driving
<1>10. QueueInv'
  <2>1. Range(idequeue) \subseteq Bufs
    BY <1>0, Queued
  <2>2. \A c \in Range(idequeue) : \E q \in Procs : proc'[q].pc = "iowait" /\ proc'[q].b = c
    BY <1>0, <1>1, <1>4 DEF QueueInv
  <2>3. QueueMatches'
    BY <1>0, <1>1, <1>3, <1>s, <1>d, <2>1 DEF QueueInv, QueueMatches
  <2> QED
    BY <1>0, <1>1, <1>s, <1>d, <2>2, <2>3 DEF QueueInv
<1>11. SleepersHaveReason'
  <2> SUFFICES ASSUME NEW q \in Procs, proc'[q].asleep
               PROVE  IF proc'[q].pc = "acquiresleep" THEN buf'[proc'[q].b].locked # NoProc
                      ELSE ~InSync(proc[q].b)'
    BY DEF SleepersHaveReason
  <2>1. /\ q # p /\ proc[q].asleep /\ proc'[q].pc = proc[q].pc /\ proc'[q].b = proc[q].b
        /\ proc[q].b \in Bufs /\ (proc[q].pc = "acquiresleep" => proc[q].b # b)
    BY <1>2, <1>4, <1>f
  <2>2. IF proc[q].pc = "acquiresleep" THEN buf[proc[q].b].locked # NoProc ELSE ~InSync(proc[q].b)
    BY <1>0, <2>1 DEF SleepersHaveReason
  <2> QED
    BY <1>3, <1>s, <2>1, <2>2 DEF InSync
<1>12. ControllerInv'
  <2>1. idequeue # <<>> => Head(idequeue) \in Bufs
    BY <1>0, FirstQueued
  <2> QED
    BY <1>0, <1>1, <1>3, <2>1 DEF ControllerInv
<1>13. LogInv'
  <2>1. Logged' \subseteq Logged /\ \A c \in Logged' : buf'[c].blockno = buf[c].blockno
    BY <1>1, <1>3, <1>4 DEF Logged, Driving
  <2> QED
    BY <2>1, <1>0, <1>1, SameLogged
<1> QED
  BY <1>5, <1>6, <1>8, <1>9, <1>10, <1>11, <1>12, <1>13 DEF IndInv

\* brelse() counts the reference off.
LEMMA BrelseCountInv ==
  ASSUME IndInv, NEW p \in Procs, BrelseCount(p)
  PROVE  IndInv'
<1>0. /\ TypeOK /\ CacheInv /\ LockInv /\ RefcntCounts /\ QueueInv /\ SleepersHaveReason
      /\ ControllerInv /\ LogInv
  BY DEF IndInv
<1>f. /\ buf \in BufType /\ proc \in ProcType
      /\ \A b \in Bufs :
           /\ buf[b].blockno \in 0 .. NBLOCKS /\ buf[b].valid \in BOOLEAN /\ buf[b].dirty \in BOOLEAN
           /\ buf[b].refcnt \in Nat /\ buf[b].locked \in Procs \cup {NoProc}
      /\ \A q \in Procs : proc[q].b \in Bufs /\ proc[q].has \in SUBSET Bufs
  BY <1>0, Fields
<1> DEFINE b == proc[p].b
<1>1. /\ proc[p].pc = "brelse" /\ b \in Bufs /\ 1 \in Bufs
      /\ idequeue' = idequeue /\ disk' = disk /\ lh' = lh /\ ide' = ide
  BY <1>f, BuffersAssumption DEF BrelseCount, Bufs
<1>2. b \in Refers(p) /\ b \notin proc[p].has /\ ~proc[p].asleep
  BY <1>0, <1>1 DEF Refers, Calling, LockInv
<1>3. buf' = Uncounted(b) /\ proc' = Goto(p, "caller", 1)
  BY DEF BrelseCount
<1>4. lru' \in [Bufs -> Bufs] /\ \A c \in Bufs : \E i \in Bufs : lru'[i] = c
  <2>1. lru' = MoveToFront(b) \/ lru' = lru
    BY DEF BrelseCount
  <2>2. CASE lru' = MoveToFront(b)
    BY <2>2, <1>0, <1>1, MoveToFrontIs
  <2>3. CASE lru' = lru
    BY <2>3, <1>0 DEF TypeOK
  <2> QED
    BY <2>1, <2>2, <2>3
<1> HIDE DEF b
<1>5. buf[b].refcnt # 0
  BY <1>0, <1>1, <1>2, Unreferred
<1>6. /\ buf' \in BufType
      /\ \A c \in Bufs :
           /\ buf'[c].blockno = buf[c].blockno /\ buf'[c].valid = buf[c].valid
           /\ buf'[c].dirty = buf[c].dirty /\ buf'[c].data = buf[c].data
           /\ buf'[c].locked = buf[c].locked
           /\ buf'[c].refcnt = IF c = b THEN buf[c].refcnt - 1 ELSE buf[c].refcnt
  <2>1. buf[b].refcnt - 1 \in Nat
    BY <1>1, <1>5, <1>f
  <2> QED
    BY <1>1, <1>3, <1>f, <2>1 DEF BufType, Uncounted
<1>7. /\ proc' \in ProcType
      /\ \A q \in Procs :
           /\ proc'[q].pc = (IF q = p THEN "caller" ELSE proc[q].pc)
           /\ proc'[q].b = (IF q = p THEN 1 ELSE proc[q].b)
           /\ proc'[q].asleep = proc[q].asleep /\ proc'[q].has = proc[q].has
  <2>1. "caller" \in PCs /\ 1 \in Bufs
    BY BuffersAssumption DEF PCs, Bufs
  <2> QED
    BY <1>1, <1>3, <1>f, <2>1, GotoIs
<1>8. TypeOK'
  BY <1>0, <1>1, <1>4, <1>6, <1>7 DEF TypeOK, BufType, ProcType
<1>9. CacheInv'
  BY <1>0, <1>6 DEF CacheInv
<1>10. /\ Refers(p)' = Refers(p) \ {b}
       /\ \A q \in Procs \ {p} : Refers(q)' = Refers(q)
  BY <1>1, <1>2, <1>7 DEF Refers, Calling, b
<1>11. LockInv'
  <2>1. ASSUME NEW q \in Procs
        PROVE  /\ \A c \in proc'[q].has : buf'[c].locked = q /\ buf'[c].valid
               /\ Driving(q)' => buf'[proc'[q].b].locked = q
               /\ proc'[q].pc \in {"acquiresleep", "brelse"} => proc'[q].b \notin proc'[q].has
               /\ \A c \in Refers(q)' : buf'[c].blockno # 0
               /\ proc'[q].asleep => proc'[q].pc \in {"acquiresleep", "iowait"}
    <3>1. Refers(q) \subseteq Bufs /\ Refers(q)' \subseteq Refers(q)
      BY <1>10, <1>f DEF Refers, Calling
    <3> QED
      BY <1>0, <1>1, <1>2, <1>6, <1>7, <1>f, <3>1 DEF LockInv, Driving
  <2>2. ASSUME NEW c \in Bufs, NEW q \in Procs, buf'[c].locked = q
        PROVE  c \in proc'[q].has \/ (Driving(q)' /\ proc'[q].b = c)
    BY <1>0, <1>1, <1>6, <1>7, <1>f, <2>2 DEF LockInv, Driving
  <2> QED
    BY <2>1, <2>2 DEF LockInv
<1>12. RefcntCounts'
  <2> SUFFICES ASSUME NEW c \in Bufs
               PROVE  buf'[c].refcnt = Cardinality({q \in Procs : c \in Refers(q)'})
    BY DEF RefcntCounts
  <2> DEFINE S == {q \in Procs : c \in Refers(q)}
  <2>2. buf[c].refcnt = Cardinality(S) /\ S \in SUBSET Procs
    BY <1>0 DEF RefcntCounts
  <2>3. CASE c # b
    <3>1. {q \in Procs : c \in Refers(q)'} = S
      BY <1>10, <2>3
    <3> QED
      BY <3>1, <2>2, <2>3, <1>6
  <2>4. CASE c = b
    <3>1. {q \in Procs : c \in Refers(q)'} = S \ {p} /\ p \in S
      BY <1>2, <1>10, <2>4
    <3>2. Cardinality(S \ {p}) = Cardinality(S) - 1
      BY <3>1, <2>2, CountOne
    <3> QED
      BY <3>1, <3>2, <2>2, <2>4, <1>6
  <2> QED
    BY <2>3, <2>4
<1>13. QueueInv'
  BY <1>0, <1>1, <1>6, <1>7, <1>f DEF QueueInv, QueueMatches, InSync
<1>14. SleepersHaveReason'
  BY <1>0, <1>1, <1>2, <1>6, <1>7, <1>f DEF SleepersHaveReason, InSync
<1>15. ControllerInv'
  <2>1. idequeue # <<>> => Head(idequeue) \in Bufs
    BY <1>0, FirstQueued
  <2> QED
    BY <1>0, <1>1, <1>6, <2>1 DEF ControllerInv
<1>16. LogInv'
  <2>1. Logged' \subseteq Logged /\ \A c \in Logged' : buf'[c].blockno = buf[c].blockno
    BY <1>1, <1>6, <1>7 DEF Logged, Driving
  <2> QED
    BY <2>1, <1>0, <1>1, SameLogged
<1> QED
  BY <1>8, <1>9, <1>11, <1>12, <1>13, <1>14, <1>15, <1>16 DEF IndInv

\* iderw(): the request is queued, and started when it is the only one.
LEMMA IderwInv ==
  ASSUME IndInv, NEW p \in Procs, Iderw(p)
  PROVE  IndInv'
<1>0. /\ TypeOK /\ CacheInv /\ LockInv /\ RefcntCounts /\ QueueInv /\ SleepersHaveReason
      /\ ControllerInv /\ LogInv
  BY DEF IndInv
<1>f. /\ buf \in BufType /\ proc \in ProcType
      /\ \A b \in Bufs :
           /\ buf[b].blockno \in 0 .. NBLOCKS /\ buf[b].valid \in BOOLEAN /\ buf[b].dirty \in BOOLEAN
           /\ buf[b].refcnt \in Nat /\ buf[b].locked \in Procs \cup {NoProc}
      /\ \A q \in Procs : proc[q].b \in Bufs /\ proc[q].has \in SUBSET Bufs
  BY <1>0, Fields
<1> DEFINE b == proc[p].b
<1>1. /\ proc[p].pc = "iderw" /\ b \in Bufs
      /\ buf' = buf /\ lru' = lru /\ disk' = disk /\ lh' = lh /\ idequeue' = Append(idequeue, b)
  BY <1>f DEF Iderw
<1>2. /\ buf[b].locked = p /\ ~InSync(b) /\ buf[b].blockno \in Blocks
      /\ b \notin Range(idequeue)
  <2>1. buf[b].locked = p /\ ~InSync(b) /\ b \in Refers(p)
    BY <1>0, <1>1 DEF QueueInv, LockInv, Driving, Refers, Calling
  <2>2. buf[b].blockno # 0
    BY <2>1, <1>0 DEF LockInv
  <2>3. b \notin Range(idequeue)
    BY <2>1, <1>0, <1>1, Queued
  <2> QED
    BY <2>1, <2>2, <2>3, <1>1, <1>f DEF Blocks
<1>3. IF idequeue = <<>> THEN ~ide.busy /\ ide' = Idestart(ide, b) ELSE ide' = ide
  BY DEF Iderw
<1>4. /\ idequeue \in Seq(Bufs) /\ Distinct(idequeue) /\ ide \in IdeType
  BY <1>0 DEF QueueInv, QueueMatches, Distinct, TypeOK, IdeType
<1> HIDE DEF b
<1>5. /\ idequeue' \in Seq(Bufs) /\ idequeue' # <<>>
      /\ Range(idequeue') = Range(idequeue) \cup {b} /\ Distinct(idequeue')
      /\ Head(idequeue') = IF idequeue = <<>> THEN b ELSE Head(idequeue)
  BY <1>1, <1>2, <1>4, QueueAppend
<1>6. /\ proc' \in ProcType
      /\ \A q \in Procs :
           /\ proc'[q].pc = (IF q = p THEN "iowait" ELSE proc[q].pc)
           /\ proc'[q].b = proc[q].b /\ proc'[q].has = proc[q].has
           /\ q # p => proc'[q].asleep = proc[q].asleep
  BY <1>f DEF ProcType, PCs, Iderw
<1>7. /\ ide' \in IdeType
      /\ idequeue # <<>> => ide' = ide
      /\ idequeue = <<>> =>
           /\ ide'.busy = TRUE /\ ide'.write = buf[b].dirty /\ ide'.block = buf[b].blockno
           /\ buf[b].dirty => ide'.data = buf[b].data
           /\ ide'.irq = ide.irq /\ ide'.strays = ide.strays /\ ide.busy = FALSE
  <2>1. CASE idequeue = <<>>
    <3>1. ide.busy = FALSE
      BY <1>3, <1>4, <2>1 DEF IdeType
    <3> QED
      <4>1. ide' = Idestart(ide, b)
        BY <1>3, <2>1
      <4> QED
        BY <3>1, <4>1, <1>f, <1>1, <1>2, <1>4, <2>1, IdestartIs, Zenon
  <2>2. CASE idequeue # <<>>
    BY <1>3, <1>4, <2>2
  <2> QED
    BY <2>1, <2>2
<1>8. TypeOK'
  BY <1>0, <1>1, <1>5, <1>6, <1>7 DEF TypeOK, ProcType, IdeType
<1>9. CacheInv'
  BY <1>0, <1>1 DEF CacheInv
<1>10. \A q \in Procs : Refers(q)' = Refers(q)
  BY <1>1, <1>6 DEF Refers, Calling
<1>11. RefcntCounts'
  BY <1>0, <1>1, <1>10, SameReferences
<1>12. LockInv'
  BY <1>0, <1>1, <1>6, <1>10, <1>f DEF LockInv, Driving
<1>13. QueueInv'
  <2>1. \A c : InSync(c)' <=> InSync(c)
    BY <1>1 DEF InSync
  <2>2. \A c \in Range(idequeue) \cup {b} : ~InSync(c)
    BY <1>0, <1>2 DEF QueueInv, QueueMatches
  <2>3. \A c \in Range(idequeue) \cup {b} : \E q \in Procs : proc'[q].pc = "iowait" /\ proc'[q].b = c
    BY <1>0, <1>1, <1>6 DEF QueueInv, b
  <2>4. ASSUME NEW q \in Procs, proc'[q].pc \in {"iderw", "iowait"}
        PROVE  /\ buf[proc'[q].b].locked = q
               /\ proc'[q].pc = "iowait" =>
                    (proc'[q].b \in Range(idequeue) \cup {b} <=> ~InSync(proc'[q].b))
               /\ proc'[q].pc = "iderw" => ~InSync(proc'[q].b)
    BY <1>0, <1>1, <1>2, <1>6, <2>4 DEF QueueInv, QueueMatches, b
  <2>5. QueueMatches'
    BY <1>1, <1>5, <2>1, <2>2, <2>4 DEF QueueMatches, Distinct
  <2> QED
    BY <1>5, <2>1, <2>3, <2>4, <2>5 DEF QueueInv
<1>14. SleepersHaveReason'
  <2>1. \A c : InSync(c)' <=> InSync(c)
    BY <1>1 DEF InSync
  <2> QED
    BY <1>0, <1>1, <1>2, <1>6, <1>f, <2>1 DEF SleepersHaveReason, b
<1>15. ControllerInv'
  <2>1. CASE idequeue = <<>>
    BY <1>0, <1>1, <1>5, <1>7, <2>1 DEF ControllerInv
  <2>2. CASE idequeue # <<>>
    BY <1>0, <1>1, <1>5, <1>7, <2>2 DEF ControllerInv
  <2> QED
    BY <2>1, <2>2
<1>16. LogInv'
  <2>1. Logged' \subseteq Logged /\ \A c \in Logged' : buf'[c].blockno = buf[c].blockno
    BY <1>1, <1>6 DEF Logged, Driving
  <2> QED
    BY <2>1, <1>0, <1>1, SameLogged
<1> QED
  BY <1>8, <1>9, <1>11, <1>12, <1>13, <1>14, <1>15, <1>16 DEF IndInv

\* A process that is woken in iderw() leaves it when its request is served.
LEMMA IderwWokenInv ==
  ASSUME IndInv, NEW p \in Procs, IderwWoken(p)
  PROVE  IndInv'
<1>0. /\ TypeOK /\ CacheInv /\ LockInv /\ RefcntCounts /\ QueueInv /\ SleepersHaveReason
      /\ ControllerInv /\ LogInv
  BY DEF IndInv
<1>f. /\ buf \in BufType /\ proc \in ProcType
      /\ \A b \in Bufs :
           /\ buf[b].blockno \in 0 .. NBLOCKS /\ buf[b].valid \in BOOLEAN /\ buf[b].dirty \in BOOLEAN
           /\ buf[b].refcnt \in Nat /\ buf[b].locked \in Procs \cup {NoProc}
      /\ \A q \in Procs : proc[q].b \in Bufs /\ proc[q].has \in SUBSET Bufs
  BY <1>0, Fields
<1> DEFINE b == proc[p].b
<1>1. /\ proc[p].pc = "iowait" /\ ~proc[p].asleep /\ b \in Bufs
      /\ buf' = buf /\ lru' = lru /\ idequeue' = idequeue /\ disk' = disk /\ lh' = lh /\ ide' = ide
  BY <1>f DEF IderwWoken
<1>2. \/ InSync(b) /\ proc' = Returns(p, b)
      \/ ~InSync(b) /\ proc' = [proc EXCEPT ![p].asleep = TRUE]
  BY DEF IderwWoken, Synced, InSync
<1>3. buf[b].locked = p /\ (b \in Range(idequeue) <=> ~InSync(b)) /\ b \in Refers(p)
  BY <1>0, <1>1 DEF QueueInv, QueueMatches, Refers, Calling
<1> HIDE DEF b
<1>4. /\ proc' \in ProcType
      /\ \A q \in Procs \ {p} :
           /\ proc'[q].pc = proc[q].pc /\ proc'[q].b = proc[q].b
           /\ proc'[q].asleep = proc[q].asleep /\ proc'[q].has = proc[q].has
      /\ \/ /\ InSync(b) /\ proc'[p].pc = "caller" /\ ~proc'[p].asleep
            /\ proc'[p].has = proc[p].has \cup {b}
         \/ /\ ~InSync(b) /\ proc'[p].pc = "iowait" /\ proc'[p].b = b
            /\ proc'[p].has = proc[p].has
  <2>1. CASE InSync(b) /\ proc' = Returns(p, b)
    BY <2>1, <1>1, <1>f, ReturnsIs
  <2>2. CASE ~InSync(b) /\ proc' = [proc EXCEPT ![p].asleep = TRUE]
    BY <2>2, <1>1, <1>f DEF ProcType, b
  <2> QED
    BY <1>2, <2>1, <2>2
<1>s. \A c : InSync(c)' <=> InSync(c)
  BY <1>1 DEF InSync
<1>5. TypeOK'
  <2>1. proc' \in ProcType
    BY <1>4
  <2> QED
    BY <1>0, <1>1, <2>1 DEF TypeOK, ProcType
<1>6. CacheInv'
  BY <1>0, <1>1 DEF CacheInv
<1>7. \A q \in Procs : Refers(q)' = Refers(q)
  <2>1. Refers(p)' = Refers(p)
    BY <1>1, <1>4 DEF Refers, Calling, b
  <2>2. \A q \in Procs \ {p} : Refers(q)' = Refers(q)
    BY <1>4 DEF Refers, Calling
  <2> QED
    BY <2>1, <2>2
<1>8. RefcntCounts'
  BY <1>0, <1>1, <1>7, SameReferences
<1>9. LockInv'
  <2>1. ASSUME NEW q \in Procs
        PROVE  /\ \A c \in proc'[q].has : buf[c].locked = q /\ buf[c].valid
               /\ Driving(q)' => buf[proc'[q].b].locked = q
               /\ proc'[q].pc \in {"acquiresleep", "brelse"} => proc'[q].b \notin proc'[q].has
               /\ proc'[q].asleep => proc'[q].pc \in {"acquiresleep", "iowait"}
    <3>1. CASE q = p
      <4>1. InSync(b) => buf[b].valid
        BY DEF InSync
      <4>2. \A c \in proc[p].has : buf[c].locked = p /\ buf[c].valid
        BY <1>0 DEF LockInv
      <4> QED
        BY <1>3, <1>4, <3>1, <4>1, <4>2 DEF Driving
    <3>2. CASE q # p
      BY <1>0, <1>4, <3>2 DEF LockInv, Driving
    <3> QED
      BY <3>1, <3>2
  <2>2. ASSUME NEW c \in Bufs, NEW q \in Procs, buf[c].locked = q
        PROVE  c \in proc'[q].has \/ (Driving(q)' /\ proc'[q].b = c)
    <3>1. c \in proc[q].has \/ (Driving(q) /\ proc[q].b = c)
      BY <1>0, <2>2 DEF LockInv
    <3> QED
      BY <1>1, <1>4, <3>1 DEF Driving, b
  <2>3. \A q \in Procs : \A c \in Refers(q) : buf[c].blockno # 0
    BY <1>0 DEF LockInv
  <2> QED
    BY <1>1, <1>7, <2>1, <2>2, <2>3 DEF LockInv
<1>10. QueueInv'
  <2>1. \A c \in Range(idequeue) : \E q \in Procs : proc'[q].pc = "iowait" /\ proc'[q].b = c
    <3> SUFFICES ASSUME NEW c \in Range(idequeue)
                 PROVE  \E q \in Procs : proc'[q].pc = "iowait" /\ proc'[q].b = c
      OBVIOUS
    <3>1. PICK q \in Procs : proc[q].pc = "iowait" /\ proc[q].b = c
      BY <1>0 DEF QueueInv
    <3> QED
      BY <1>3, <1>4, <3>1 DEF b
  <2>2. \A q \in Procs : proc'[q].pc \in {"iderw", "iowait"} =>
          proc[q].pc = proc'[q].pc /\ proc'[q].b = proc[q].b
    BY <1>1, <1>4 DEF b
  <2>3. QueueMatches'
    BY <1>0, <1>1, <1>s, <2>2 DEF QueueInv, QueueMatches
  <2> QED
    BY <1>0, <1>1, <1>s, <2>1, <2>2, <2>3 DEF QueueInv
<1>11. SleepersHaveReason'
  BY <1>0, <1>1, <1>4, <1>s DEF SleepersHaveReason
<1>12. ControllerInv'
  BY <1>0, <1>1 DEF ControllerInv
<1>13. LogInv'
  <2>1. Logged' \subseteq Logged /\ \A c \in Logged' : buf'[c].blockno = buf[c].blockno
    BY <1>1, <1>4 DEF Logged, Driving, InSync, b
  <2> QED
    BY <2>1, <1>0, <1>1, SameLogged
<1> QED
  BY <1>5, <1>6, <1>8, <1>9, <1>10, <1>11, <1>12, <1>13 DEF IndInv

\* kill() only wakes.
LEMMA KillInv ==
  ASSUME IndInv, NEW p \in Procs, Kill(p)
  PROVE  IndInv'
<1>0. /\ TypeOK /\ CacheInv /\ LockInv /\ RefcntCounts /\ QueueInv /\ SleepersHaveReason
      /\ ControllerInv /\ LogInv
  BY DEF IndInv
<1>f. /\ buf \in BufType /\ proc \in ProcType
      /\ \A b \in Bufs :
           /\ buf[b].blockno \in 0 .. NBLOCKS /\ buf[b].valid \in BOOLEAN /\ buf[b].dirty \in BOOLEAN
           /\ buf[b].refcnt \in Nat /\ buf[b].locked \in Procs \cup {NoProc}
      /\ \A q \in Procs : proc[q].b \in Bufs /\ proc[q].has \in SUBSET Bufs
  BY <1>0, Fields
<1>1. /\ buf' = buf /\ lru' = lru /\ idequeue' = idequeue /\ disk' = disk /\ lh' = lh /\ ide' = ide
  BY DEF Kill
<1>2. /\ proc' \in ProcType
      /\ \A q \in Procs :
           /\ proc'[q].pc = proc[q].pc /\ proc'[q].b = proc[q].b /\ proc'[q].has = proc[q].has
           /\ proc'[q].asleep => proc[q].asleep
  BY <1>f DEF ProcType, Kill
<1>3. \A c : InSync(c)' <=> InSync(c)
  BY <1>1 DEF InSync
<1>4. \A q \in Procs : Refers(q)' = Refers(q) /\ (Driving(q)' <=> Driving(q))
  BY <1>2 DEF Refers, Calling, Driving
<1>5. TypeOK'
  <2>1. proc' \in ProcType
    BY <1>2
  <2> QED
    BY <1>0, <1>1, <2>1 DEF TypeOK, ProcType
<1>6. CacheInv' /\ RefcntCounts' /\ ControllerInv'
  BY <1>0, <1>1, <1>4, SameReferences DEF CacheInv, ControllerInv
<1>7. LockInv'
  BY <1>0, <1>1, <1>2, <1>4 DEF LockInv
<1>8. QueueInv'
  BY <1>0, <1>1, <1>2, <1>3 DEF QueueInv, QueueMatches
<1>9. SleepersHaveReason'
  BY <1>0, <1>1, <1>2, <1>3 DEF SleepersHaveReason
<1>10. LogInv'
  <2>1. Logged' \subseteq Logged /\ \A c \in Logged' : buf'[c].blockno = buf[c].blockno
    BY <1>1, <1>2, <1>4 DEF Logged
  <2> QED
    BY <2>1, <1>0, <1>1, SameLogged
<1> QED
  BY <1>5, <1>6, <1>7, <1>8, <1>9, <1>10 DEF IndInv

\* A panic of bget() or log_write() stops a process in its caller, which keeps
\* the buffers it has.
LEMMA PanicInv ==
  ASSUME IndInv, NEW p \in Procs,
         (\E k \in Blocks : BgetPanics(p, k)) \/ (\E b \in Bufs : LogWritePanics(p, b))
  PROVE  IndInv'
<1>0. /\ TypeOK /\ CacheInv /\ LockInv /\ RefcntCounts /\ QueueInv /\ SleepersHaveReason
      /\ ControllerInv /\ LogInv /\ proc \in ProcType
  BY Fields DEF IndInv
<1>1. /\ buf' = buf /\ lru' = lru /\ idequeue' = idequeue /\ disk' = disk /\ lh' = lh /\ ide' = ide
      /\ proc[p].pc = "caller"
      /\ proc' = Goto(p, "nobuffers", 1) \/ proc' = Goto(p, "toobig", 1)
  BY DEF BgetPanics, LogWritePanics, MayGet, Logging
<1>2. /\ proc' \in ProcType
      /\ \A q \in Procs :
           /\ proc'[q].asleep = proc[q].asleep /\ proc'[q].has = proc[q].has
           /\ q # p => proc'[q].pc = proc[q].pc /\ proc'[q].b = proc[q].b
      /\ proc'[p].pc = "nobuffers" \/ proc'[p].pc = "toobig"
  <2>1. "nobuffers" \in PCs /\ "toobig" \in PCs /\ 1 \in Bufs
    BY BuffersAssumption DEF PCs, Bufs
  <2>2. CASE proc' = Goto(p, "nobuffers", 1)
    BY <1>0, <2>1, <2>2, GotoIs
  <2>3. CASE proc' = Goto(p, "toobig", 1)
    BY <1>0, <2>1, <2>3, GotoIs
  <2> QED
    BY <1>1, <2>2, <2>3
<1>3. ~proc[p].asleep
  BY <1>0, <1>1 DEF LockInv
<1>c. /\ \A q \in Procs \ {p} : proc'[q].pc = proc[q].pc /\ proc'[q].b = proc[q].b
      /\ ~Calling(p) /\ ~Calling(p)' /\ ~Driving(p) /\ ~Driving(p)'
      /\ ~(proc'[p].pc \in {"acquiresleep", "brelse", "iderw", "iowait"})
  BY <1>1, <1>2 DEF Calling, Driving
<1>4. \A q \in Procs : Refers(q)' = Refers(q) /\ (Driving(q)' <=> Driving(q))
  <2>1. Refers(p)' = Refers(p)
    BY <1>2, <1>c DEF Refers
  <2>2. \A q \in Procs \ {p} : Refers(q)' = Refers(q) /\ (Driving(q)' <=> Driving(q))
    BY <1>2, <1>c DEF Refers, Calling, Driving
  <2> QED
    BY <2>1, <2>2, <1>c
<1>5. TypeOK'
  BY <1>0, <1>1, <1>2 DEF TypeOK, ProcType
<1>6. CacheInv' /\ RefcntCounts' /\ ControllerInv'
  BY <1>0, <1>1, <1>4, SameReferences DEF CacheInv, ControllerInv
<1>7. LockInv'
  <2>1. \A q \in Procs : Driving(q)' => proc'[q].b = proc[q].b
    BY <1>c
  <2>2. \A q \in Procs : proc'[q].pc \in {"acquiresleep", "brelse"} =>
          proc'[q].pc = proc[q].pc /\ proc'[q].b = proc[q].b
    BY <1>c
  <2>3. \A q \in Procs : proc'[q].asleep => proc'[q].pc = proc[q].pc
    BY <1>2, <1>3, <1>c
  <2> QED
    BY <1>0, <1>1, <1>2, <1>4, <2>1, <2>2, <2>3 DEF LockInv
<1>8. QueueInv'
  <2>1. \A q \in Procs : proc'[q].pc \in {"iderw", "iowait"} <=> proc[q].pc \in {"iderw", "iowait"}
    BY <1>4 DEF Driving
  <2>2. \A q \in Procs : proc[q].pc \in {"iderw", "iowait"} =>
          proc'[q].pc = proc[q].pc /\ proc'[q].b = proc[q].b
    BY <1>1, <1>c
  <2>3. \A c : InSync(c)' <=> InSync(c)
    BY <1>1 DEF InSync
  <2> QED
    BY <1>0, <1>1, <2>1, <2>2, <2>3 DEF QueueInv, QueueMatches
<1>9. SleepersHaveReason'
  <2>1. \A q \in Procs : proc'[q].asleep =>
          proc[q].asleep /\ proc'[q].pc = proc[q].pc /\ proc'[q].b = proc[q].b
    BY <1>2, <1>3, <1>c
  <2> QED
    BY <1>0, <1>1, <2>1 DEF SleepersHaveReason, InSync
<1>10. LogInv'
  <2>1. Logged' \subseteq Logged /\ \A c \in Logged' : buf'[c].blockno = buf[c].blockno
    <3>1. \A q \in Procs : Driving(q) => proc'[q].b = proc[q].b
      BY <1>c
    <3> QED
      BY <1>1, <1>4, <3>1 DEF Logged
  <2> QED
    BY <2>1, <1>0, <1>1, SameLogged
<1> QED
  BY <1>5, <1>6, <1>7, <1>8, <1>9, <1>10 DEF IndInv

\* commit() forgets the transaction when its blocks are all installed.
LEMMA CommitEndsInv ==
  ASSUME IndInv, CommitEnds
  PROVE  IndInv'
<1>1. /\ TypeOK /\ CacheInv /\ LockInv /\ RefcntCounts /\ QueueInv /\ SleepersHaveReason
      /\ ControllerInv /\ LogInv
  BY DEF IndInv
<1>2. /\ buf' = buf /\ lru' = lru /\ idequeue' = idequeue /\ disk' = disk /\ ide' = ide /\ proc' = proc
      /\ lh' = {} /\ \A b \in Bufs : buf[b].blockno \in lh => ~buf[b].dirty
  BY DEF CommitEnds
<1>3. TypeOK'
  BY <1>1, <1>2 DEF TypeOK
<1>4. CacheInv' /\ SleepersHaveReason' /\ ControllerInv'
  BY <1>1, <1>2 DEF CacheInv, SleepersHaveReason, ControllerInv, InSync
<1>5. \A q \in Procs : Refers(q)' = Refers(q) /\ (Driving(q)' <=> Driving(q))
  BY <1>2 DEF Refers, Calling, Driving
<1>6. LockInv'
  BY <1>1, <1>2, <1>5 DEF LockInv
<1>7. RefcntCounts'
  BY <1>1, <1>2, <1>5, SameReferences
<1>8. QueueInv'
  BY <1>1, <1>2 DEF QueueInv, QueueMatches, InSync
<1>9. LogInv'
  <2>1. Logged = {}
    BY <1>1, <1>2 DEF LogInv, Logged
  <2>2. Logged' = {}
    BY <2>1, <1>2, <1>5 DEF Logged
  <2> QED
    BY <2>2, <1>2, FS_EmptySet, BuffersAssumption DEF LogInv
<1> QED
  BY <1>3, <1>4, <1>6, <1>7, <1>8, <1>9 DEF IndInv

\* What a step of the disk leaves as it was.
LEMMA OnlyDisk ==
  ASSUME IndInv, UNCHANGED <<buf, lru, idequeue, lh, proc>>,
         disk' \in [Blocks -> Values], ide' \in IdeType, ControllerInv'
  PROVE  IndInv'
<1>1. /\ TypeOK /\ CacheInv /\ LockInv /\ RefcntCounts /\ QueueInv /\ SleepersHaveReason /\ LogInv
      /\ buf' = buf /\ lru' = lru /\ idequeue' = idequeue /\ lh' = lh /\ proc' = proc
  BY DEF IndInv
<1>2. TypeOK'
  BY <1>1 DEF TypeOK, IdeType
<1>3. CacheInv' /\ SleepersHaveReason'
  BY <1>1 DEF CacheInv, SleepersHaveReason, InSync
<1>4. \A q \in Procs : Refers(q)' = Refers(q) /\ (Driving(q)' <=> Driving(q))
  BY <1>1 DEF Refers, Calling, Driving
<1>5. LockInv'
  BY <1>1, <1>4 DEF LockInv
<1>6. RefcntCounts'
  BY <1>1, <1>4, SameReferences
<1>7. QueueInv'
  BY <1>1 DEF QueueInv, QueueMatches, InSync
<1>8. Logged' \subseteq Logged /\ \A b \in Logged' : buf'[b].blockno = buf[b].blockno
  BY <1>1, <1>4 DEF Logged
<1>9. LogInv'
  BY <1>1, <1>8, SameLogged
<1> QED
  BY <1>2, <1>3, <1>5, <1>6, <1>7, <1>9 DEF IndInv

\* The disk finishes its command.
LEMMA DiskDoneInv ==
  ASSUME IndInv, DiskDone
  PROVE  IndInv'
<1>0. /\ TypeOK /\ CacheInv /\ LockInv /\ RefcntCounts /\ QueueInv /\ SleepersHaveReason
      /\ ControllerInv /\ LogInv
  BY DEF IndInv
<1>f. /\ buf \in BufType /\ proc \in ProcType
      /\ \A b \in Bufs :
           /\ buf[b].blockno \in 0 .. NBLOCKS /\ buf[b].valid \in BOOLEAN /\ buf[b].dirty \in BOOLEAN
           /\ buf[b].refcnt \in Nat /\ buf[b].locked \in Procs \cup {NoProc}
      /\ \A q \in Procs : proc[q].b \in Bufs /\ proc[q].has \in SUBSET Bufs
  BY <1>0, Fields
<1>1. buf' = buf /\ lru' = lru /\ idequeue' = idequeue /\ lh' = lh /\ proc' = proc /\ ide.busy
  BY DEF DiskDone
<1>2. ide \in IdeType /\ disk \in [Blocks -> Values]
  BY <1>0 DEF TypeOK, IdeType
<1>3. PICK n \in {ide.irq, ide.irq + 1} \ {0} :
        ide' = [ide EXCEPT !.busy = FALSE, !.write = FALSE, !.block = 1, !.irq = n,
                           !.data = IF ide.write THEN @ ELSE disk[ide.block]]
  BY DEF DiskDone
<1>4. n \in Nat /\ 1 \in Blocks /\ ide.block \in Blocks
  BY <1>2, <1>3, BuffersAssumption DEF IdeType, Blocks
<1>5. /\ ide' \in IdeType /\ ide'.busy = FALSE /\ ide'.irq = n /\ ide'.strays = ide.strays
      /\ ide'.data = IF ide.write THEN ide.data ELSE disk[ide.block]
  BY <1>2, <1>3, <1>4 DEF IdeType
<1>6. disk' = IF ide.write THEN [disk EXCEPT ![ide.block] = ide.data] ELSE disk
  BY DEF DiskDone
<1>7. disk' \in [Blocks -> Values]
  BY <1>2, <1>6 DEF IdeType
<1>8. ControllerInv'
  <2>1. ASSUME idequeue # <<>>
        PROVE  LET b == buf[Head(idequeue)] IN
               (IF b.dirty THEN b.data ELSE ide'.data) = disk'[b.blockno]
    <3>1. Head(idequeue) \in Range(idequeue)
      BY <1>0, <2>1, FirstQueued
    <3> DEFINE b == buf[Head(idequeue)]
    <3>2. b.blockno \in Blocks /\ b.dirty \in BOOLEAN
      BY <1>0, <1>f, <3>1, Queued
    <3>3. ide.block = b.blockno /\ ide.write = b.dirty /\ (b.dirty => ide.data = b.data)
      BY <1>0, <1>1, <2>1 DEF ControllerInv
    <3> HIDE DEF b
    <3>4. (IF b.dirty THEN b.data ELSE ide'.data) = disk'[b.blockno]
      BY <1>2, <1>5, <1>6, <3>2, <3>3
    <3> QED
      BY <3>4 DEF b
  <2>2. ide.strays = 0 => idequeue # <<>> /\ ide.irq = 0
    BY <1>0, <1>1 DEF ControllerInv
  <2>3. ide.strays = 0 => n = 1
    BY <2>2, <1>3
  <2> QED
    BY <1>1, <1>5, <2>1, <2>2, <2>3 DEF ControllerInv
<1> QED
  BY <1>1, <1>5, <1>7, <1>8, OnlyDisk

\* An interrupt of no command, and one that finds the queue empty.
LEMMA StrayInterruptInv ==
  ASSUME IndInv, StrayInterrupt \/ IdeintrNothing
  PROVE  IndInv'
<1>1. TypeOK /\ ControllerInv
  BY DEF IndInv
<1>2. ide \in IdeType /\ disk \in [Blocks -> Values]
  BY <1>1 DEF TypeOK, IdeType
<1>3. buf' = buf /\ lru' = lru /\ idequeue' = idequeue /\ lh' = lh /\ proc' = proc /\ disk' = disk
  BY DEF StrayInterrupt, IdeintrNothing
<1>4. /\ ide' \in IdeType
      /\ ide'.busy = ide.busy /\ ide'.write = ide.write /\ ide'.block = ide.block
      /\ ide'.data = ide.data
      /\ \/ ide'.strays # 0
         \/ ide'.strays = ide.strays /\ idequeue = <<>> /\ ide.irq > 0
  <2>1. CASE StrayInterrupt
    <3>1. ide.irq + 1 \in Nat /\ ide.strays + 1 \in 0 .. MaxStray /\ ide.strays + 1 # 0
      BY <2>1, <1>2, BuffersAssumption DEF StrayInterrupt, IdeType
    <3> QED
      BY <2>1, <1>2, <3>1 DEF StrayInterrupt, IdeType
  <2>2. CASE IdeintrNothing
    <3>1. ide.irq - 1 \in Nat /\ ide.irq > 0 /\ idequeue = <<>>
      BY <2>2, <1>2 DEF IdeintrNothing, IdeType
    <3> QED
      BY <2>2, <1>2, <3>1 DEF IdeintrNothing, IdeType
  <2> QED
    BY <2>1, <2>2
<1>5. ControllerInv'
  BY <1>1, <1>3, <1>4 DEF ControllerInv
<1> QED
  BY <1>2, <1>3, <1>4, <1>5, OnlyDisk

\* ideintr(): the first request is served, and the next one started.
LEMMA IdeintrInv ==
  ASSUME IndInv, Ideintr
  PROVE  IndInv'
<1>0. /\ TypeOK /\ CacheInv /\ LockInv /\ RefcntCounts /\ QueueInv /\ SleepersHaveReason
      /\ ControllerInv /\ LogInv
  BY DEF IndInv
<1>f. /\ buf \in BufType /\ proc \in ProcType
      /\ \A b \in Bufs :
           /\ buf[b].blockno \in 0 .. NBLOCKS /\ buf[b].valid \in BOOLEAN /\ buf[b].dirty \in BOOLEAN
           /\ buf[b].refcnt \in Nat /\ buf[b].locked \in Procs \cup {NoProc}
      /\ \A q \in Procs : proc[q].b \in Bufs /\ proc[q].has \in SUBSET Bufs
  BY <1>0, Fields
<1> DEFINE b == Head(idequeue)
           rest == Tail(idequeue)
<1>1. /\ idequeue # <<>> /\ ide.irq > 0 /\ (buf[b].dirty \/ ~ide.busy)
      /\ idequeue' = rest /\ lru' = lru /\ disk' = disk /\ lh' = lh /\ proc' = Woken("iowait", b)
  BY DEF Ideintr, DiskReady
<1>2. PICK error \in {FALSE, ReadFails} :
        buf' = [buf EXCEPT ![b].data = IF buf[b].dirty \/ error THEN @ ELSE ide.data,
                           ![b].valid = TRUE, ![b].dirty = FALSE]
  BY DEF Ideintr
<1>3. IF rest = <<>> THEN ide' = Taken(ide) ELSE ~ide.busy /\ ide' = Idestart(Taken(ide), Head(rest))
  BY DEF Ideintr, StartNext
<1>4. /\ idequeue \in Seq(Bufs) /\ Distinct(idequeue) /\ ide \in IdeType
  BY <1>0 DEF QueueInv, QueueMatches, Distinct, TypeOK, IdeType
<1>5. /\ b \in Bufs /\ b \in Range(idequeue) /\ rest \in Seq(Bufs)
      /\ Range(rest) = Range(idequeue) \ {b} /\ Distinct(rest)
      /\ rest # <<>> => Head(rest) \in Range(rest)
  BY <1>1, <1>4, QueueTail
<1>6. /\ buf[b].locked \in Procs /\ buf[b].blockno # 0 /\ ~InSync(b)
      /\ proc[buf[b].locked].pc = "iowait" /\ proc[buf[b].locked].b = b
  BY <1>0, <1>5, Queued DEF Blocks
<1>7. ControllerInv
  BY <1>0
<1>c. IF ide.busy THEN ide.write = buf[b].dirty ELSE TRUE
  BY <1>1, <1>7 DEF ControllerInv
<1>t. ide.strays = 0 => ide.irq = IF ide.busy THEN 0 ELSE 1
  BY <1>1, <1>7 DEF ControllerInv
<1> HIDE DEF b, rest
<1>8. /\ buf' \in BufType
      /\ \A c \in Bufs :
           /\ buf'[c].blockno = buf[c].blockno /\ buf'[c].refcnt = buf[c].refcnt
           /\ buf'[c].locked = buf[c].locked
           /\ c # b => buf'[c].valid = buf[c].valid /\ buf'[c].dirty = buf[c].dirty
                       /\ buf'[c].data = buf[c].data
      /\ buf'[b].valid = TRUE /\ buf'[b].dirty = FALSE
  <2>1. PICK d \in Values : buf' = [buf EXCEPT ![b].data = d, ![b].valid = TRUE, ![b].dirty = FALSE]
    <3> DEFINE d == IF buf[b].dirty \/ error THEN buf[b].data ELSE ide.data
    <3>1. d \in Values
      BY <1>4, <1>5, <1>f DEF IdeType, BufType
    <3>2. buf' = [buf EXCEPT ![b].data = d, ![b].valid = TRUE, ![b].dirty = FALSE]
      BY <1>2
    <3> QED
      BY <3>1, <3>2
  <2>2. buf' \in BufType
    <3> DEFINE r == [buf[b] EXCEPT !.data = d, !.valid = TRUE, !.dirty = FALSE]
               R == [blockno : 0 .. NBLOCKS, valid : BOOLEAN, dirty : BOOLEAN, refcnt : Nat,
                     locked : Procs \cup {NoProc}, data : Values]
    <3>1. buf[b] \in R
      BY <1>5, <1>f DEF BufType
    <3>2. r \in R
      BY <3>1
    <3>3. buf' = [buf EXCEPT ![b] = r]
      BY <2>1, <1>5, <1>f DEF BufType
    <3> HIDE DEF r
    <3> QED
      BY <3>2, <3>3, <1>5, <1>f DEF BufType
  <2>3. \A c \in Bufs \ {b} : buf'[c] = buf[c]
    BY <2>1, <1>f DEF BufType
  <2>4. /\ buf'[b].blockno = buf[b].blockno /\ buf'[b].refcnt = buf[b].refcnt
        /\ buf'[b].locked = buf[b].locked /\ buf'[b].valid = TRUE /\ buf'[b].dirty = FALSE
    BY <2>1, <1>5, <1>f DEF BufType
  <2> QED
    BY <2>2, <2>3, <2>4
<1>9. /\ proc' \in ProcType
      /\ \A q \in Procs :
           /\ proc'[q].pc = proc[q].pc /\ proc'[q].b = proc[q].b /\ proc'[q].has = proc[q].has
           /\ proc'[q].asleep => proc[q].asleep /\ ~(proc[q].pc = "iowait" /\ proc[q].b = b)
  BY <1>1, <1>f, WokenIs
<1>10. /\ Taken(ide) \in IdeType /\ Taken(ide).busy = ide.busy /\ Taken(ide).write = ide.write
       /\ Taken(ide).irq = ide.irq - 1 /\ Taken(ide).strays = ide.strays
  <2>1. ide.irq - 1 \in Nat
    BY <1>1, <1>4 DEF IdeType
  <2> QED
    BY <1>4, <2>1 DEF IdeType, Taken
<1>11. ASSUME rest # <<>>
       PROVE  LET h == Head(rest) IN
              /\ h \in Bufs /\ h # b /\ buf[h].blockno \in Blocks
  <2>1. Head(rest) \in Range(idequeue) /\ Head(rest) # b
    BY <1>5, <1>11
  <2> QED
    BY <1>0, <2>1, Queued
<1>12. /\ ide' \in IdeType /\ ide'.irq = ide.irq - 1 /\ ide'.strays = ide.strays
       /\ rest = <<>> => ide'.busy = ide.busy /\ ide'.write = ide.write
       /\ rest # <<>> => LET h == Head(rest) IN
            /\ ide'.busy = TRUE /\ ide.busy = FALSE
            /\ ide'.write = buf[h].dirty /\ ide'.block = buf[h].blockno
            /\ buf[h].dirty => ide'.data = buf[h].data
  <2>1. CASE rest = <<>>
    BY <1>3, <1>10, <2>1
  <2>2. CASE rest # <<>>
    <3> DEFINE h == Head(rest)
    <3>1. h \in Bufs /\ buf[h].blockno \in Blocks /\ buf \in BufType
      BY <1>f, <1>11, <2>2
    <3>2. ide' = Idestart(Taken(ide), h)
      BY <1>3, <2>2
    <3>3. ide.busy = FALSE
      BY <1>3, <1>4, <2>2 DEF IdeType
    <3> HIDE DEF h
    <3>4. /\ ide' \in IdeType /\ ide'.irq = Taken(ide).irq /\ ide'.strays = Taken(ide).strays
          /\ ide'.busy = TRUE /\ ide'.write = buf[h].dirty /\ ide'.block = buf[h].blockno
          /\ buf[h].dirty => ide'.data = buf[h].data
      BY <1>10, <3>1, <3>2, IdestartIs, Zenon
    <3> QED
      BY <1>10, <2>2, <3>3, <3>4 DEF h
  <2> QED
    BY <2>1, <2>2
<1>13. TypeOK'
  <2>1. buf' \in BufType /\ proc' \in ProcType /\ ide' \in IdeType /\ idequeue' \in Seq(Bufs)
    BY <1>1, <1>5, <1>8, <1>9, <1>12
  <2> QED
    BY <1>0, <1>1, <2>1 DEF TypeOK, BufType, ProcType, IdeType
<1>14. CacheInv'
  BY <1>0, <1>5, <1>6, <1>8 DEF CacheInv
<1>15. \A q \in Procs : Refers(q)' = Refers(q) /\ (Driving(q)' <=> Driving(q)) /\ Refers(q) \subseteq Bufs
  BY <1>9, <1>f DEF Refers, Calling, Driving
<1>16. RefcntCounts'
  BY <1>0, <1>8, <1>15, SameReferences
<1>17. LockInv'
  BY <1>0, <1>8, <1>9, <1>15, <1>f DEF LockInv
<1>18. \A c \in Bufs \ {b} : InSync(c)' <=> InSync(c)
  BY <1>5, <1>8 DEF InSync
<1>19. QueueInv'
  <2>1. Range(idequeue) \subseteq Bufs
    BY <1>0, Queued
  <2>2. ASSUME NEW q \in Procs, proc[q].pc \in {"iderw", "iowait"}
        PROVE  /\ buf'[proc[q].b].locked = q
               /\ proc[q].pc = "iowait" => (proc[q].b \in Range(rest) <=> ~InSync(proc[q].b)')
               /\ proc[q].pc = "iderw" => ~InSync(proc[q].b)'
    <3>1. /\ buf[proc[q].b].locked = q /\ proc[q].b \in Bufs
          /\ proc[q].pc = "iowait" => (proc[q].b \in Range(idequeue) <=> ~InSync(proc[q].b))
          /\ proc[q].pc = "iderw" => ~InSync(proc[q].b)
      BY <1>0, <1>f, <2>2 DEF QueueInv, QueueMatches
    <3>2. proc[q].pc = "iderw" => proc[q].b # b
      BY <1>6, <3>1
    <3> QED
      BY <1>5, <1>8, <1>9, <1>18, <3>1, <3>2 DEF InSync
  <2>3. \A c \in Range(rest) : ~InSync(c)'
    BY <1>0, <1>5, <1>18, <2>1 DEF QueueInv, QueueMatches
  <2>4. \A c \in Range(rest) : \E q \in Procs : proc'[q].pc = "iowait" /\ proc'[q].b = c
    BY <1>0, <1>5, <1>9 DEF QueueInv
  <2>5. QueueMatches'
    BY <1>1, <1>5, <1>9, <2>2, <2>3 DEF QueueMatches, Distinct, InSync
  <2> QED
    BY <1>1, <1>9, <2>2, <2>4, <2>5 DEF QueueInv, InSync
<1>20. SleepersHaveReason'
  <2> SUFFICES ASSUME NEW q \in Procs, proc'[q].asleep
               PROVE  IF proc'[q].pc = "acquiresleep" THEN buf'[proc'[q].b].locked # NoProc
                      ELSE ~InSync(proc[q].b)'
    BY DEF SleepersHaveReason
  <2>1. /\ proc[q].asleep /\ proc'[q].pc = proc[q].pc /\ proc'[q].b = proc[q].b
        /\ proc[q].b \in Bufs /\ (proc[q].pc = "iowait" => proc[q].b # b)
    BY <1>9, <1>f
  <2>2. /\ IF proc[q].pc = "acquiresleep" THEN buf[proc[q].b].locked # NoProc ELSE ~InSync(proc[q].b)
        /\ proc[q].pc \in {"acquiresleep", "iowait"}
    BY <1>0, <2>1 DEF SleepersHaveReason, LockInv
  <2> QED
    BY <1>8, <1>18, <2>1, <2>2 DEF InSync
<1>21. ControllerInv'
  <2>1. CASE rest = <<>>
    <3>1. ide'.busy => ide'.write
      BY <1>1, <1>c, <1>12, <2>1
    <3>2. ide'.strays = 0 => ~ide'.busy /\ ide'.irq = 0
      BY <1>1, <1>4, <1>t, <1>12, <2>1 DEF IdeType
    <3> QED
      BY <1>1, <2>1, <3>1, <3>2 DEF ControllerInv
  <2>2. CASE rest # <<>>
    <3>1. ide'.strays = 0 => ide'.irq = 0
      BY <1>1, <1>4, <1>t, <1>12, <2>2 DEF IdeType
    <3>2. LET h == buf'[Head(rest)] IN
          ide'.block = h.blockno /\ ide'.write = h.dirty /\ (h.dirty => ide'.data = h.data)
      BY <1>8, <1>11, <1>12, <2>2
    <3> QED
      BY <1>1, <1>12, <2>2, <3>1, <3>2 DEF ControllerInv
  <2> QED
    BY <2>1, <2>2
<1>22. LogInv'
  <2>1. Logged' \subseteq Logged /\ \A c \in Logged' : buf'[c].blockno = buf[c].blockno
    BY <1>8, <1>9, <1>15 DEF Logged
  <2> QED
    BY <2>1, <1>0, <1>1, SameLogged
<1> QED
  BY <1>13, <1>14, <1>16, <1>17, <1>19, <1>20, <1>21, <1>22 DEF IndInv

-----------------------------------------------------------------------------
\* What the invariant gives

\* Every step of the cache, the driver and the disk keeps the invariant.
THEOREM Invariance == Spec => []IndInv
<1>1. Init => IndInv
  BY InitIndInv
<1>2. IndInv /\ [Next]_vars => IndInv'
  <2> SUFFICES ASSUME IndInv, [Next]_vars PROVE IndInv'
    OBVIOUS
  <2>1. CASE UNCHANGED vars
    <3>1. UNCHANGED <<buf, lru, idequeue, lh, proc>> /\ disk' = disk /\ ide' = ide
      BY <2>1 DEF vars
    <3>2. disk' \in [Blocks -> Values] /\ ide' \in IdeType /\ ControllerInv'
      BY <3>1 DEF IndInv, TypeOK, IdeType, ControllerInv
    <3> QED
      BY <3>1, <3>2, OnlyDisk
  <2>2. ASSUME NEW p \in Procs, \E k \in Blocks : Bget(p, k) \/ BgetPanics(p, k) PROVE IndInv'
    BY <2>2, BgetInv, PanicInv
  <2>3. ASSUME NEW p \in Procs,
               Acquiresleep(p) \/ Iderw(p) \/ IderwWoken(p) \/ BrelseCount(p) \/ Kill(p)
        PROVE  IndInv'
    BY <2>3, AcquiresleepInv, IderwInv, IderwWokenInv, BrelseCountInv, KillInv
  <2>4. ASSUME NEW p \in Procs, NEW b \in Bufs,
               \/ Bwrite(p, b) \/ Brelse(p, b) \/ LogWritePanics(p, b)
               \/ \E v \in Values : LogWrite(p, b, v)
        PROVE  IndInv'
    BY <2>4, BwriteInv, BrelseInv, LogWriteInv, PanicInv
  <2>5. CASE CommitEnds \/ DiskDone \/ StrayInterrupt \/ IdeintrNothing \/ Ideintr
    BY <2>5, CommitEndsInv, DiskDoneInv, StrayInterruptInv, IdeintrInv
  <2>6. CASE Panicked
    BY <2>1, <2>6 DEF Panicked
  <2> QED
    BY <2>1, <2>2, <2>3, <2>4, <2>5, <2>6 DEF Next
<1> QED
  BY <1>1, <1>2, PTL DEF Spec

\* The cache stays well-typed; in particular no buffer ever drops out of the
\* list, and no count goes below 0.
THEOREM TypeCorrect == Spec => []TypeOK
<1>1. IndInv => TypeOK
  BY DEF IndInv
<1> QED
  BY <1>1, Invariance, PTL

\* refcnt of every buffer is the number of processes that have it or wait for
\* it: bget() never recycles a buffer that is in use.
THEOREM CountsAreReferences == Spec => []RefcntCounts
<1>1. IndInv => RefcntCounts
  BY DEF IndInv
<1> QED
  BY <1>1, Invariance, PTL

\* The driver's queue holds the requests of the processes that wait in iderw(),
\* each once, with the buffer's lock held and something left to do.
THEOREM QueueIsWaiters == Spec => []QueueMatches
<1>1. IndInv => QueueMatches
  BY DEF IndInv, QueueInv
<1> QED
  BY <1>1, Invariance, PTL

\* No wakeup of a sleep lock or of the driver is lost.
THEOREM NoSleeperForgotten == Spec => []SleepersHaveReason
<1>1. IndInv => SleepersHaveReason
  BY DEF IndInv
<1> QED
  BY <1>1, Invariance, PTL

\* Dirty buffers that no process drives to the disk are of different blocks of
\* the transaction.
LEMMA LoggedAreBlocks ==
  ASSUME IndInv
  PROVE  /\ Logged \in SUBSET Bufs /\ IsFiniteSet(Logged) /\ Cardinality(Logged) \in Nat
         /\ Cardinality(lh) \in Nat /\ Cardinality(Logged) <= Cardinality(lh)
<1>1. CacheInv /\ LogInv
  BY DEF IndInv
<1>2. Logged \in SUBSET Bufs /\ IsFiniteSet(Logged) /\ Cardinality(Logged) \in Nat
  BY CountLess DEF Logged
<1>3. IsFiniteSet(lh) /\ Cardinality(lh) \in Nat
  BY <1>1, FS_CardinalityType DEF LogInv
<1> DEFINE f == [b \in Logged |-> buf[b].blockno]
<1>4. f \in [Logged -> lh]
  BY <1>1 DEF LogInv
<1>5. \A a, b \in Logged : f[a] = f[b] => a = b
  <2>1. \A b \in Logged : b \in Bufs /\ buf[b].blockno # 0
    BY <1>1 DEF Logged, CacheInv
  <2> QED
    BY <1>1, <2>1 DEF CacheInv
<1>6. f \in Injection(Logged, lh)
  BY <1>4, <1>5, Zenon DEF Injection, IsInjective
<1> QED
  BY <1>2, <1>3, <1>6, FS_Injection

\* When bget() can recycle nothing, the log and the processes use every buffer.
LEMMA FullCache ==
  ASSUME IndInv, Unused = {}
  PROVE  /\ Used \in SUBSET Bufs /\ IsFiniteSet(Used) /\ Cardinality(Used) \in Nat
         /\ NBUF <= Cardinality(lh) + Cardinality(Used)
<1>1. TypeOK /\ LockInv /\ RefcntCounts /\ LogInv /\ \A b \in Bufs : buf[b].refcnt \in Nat
  BY Fields DEF IndInv
<1>2. \A p \in Procs : Refers(p) \subseteq Bufs
  BY <1>1, Fields DEF Refers
<1>3. Used \in SUBSET Bufs
  BY <1>2 DEF Used
<1>4. ASSUME NEW b \in Bufs PROVE b \in Logged \cup Used
  <2>1. CASE buf[b].dirty
    BY <2>1 DEF Logged, Driving, Used, Refers, Calling
  <2>2. CASE ~buf[b].dirty
    <3>1. buf[b].refcnt # 0
      BY <2>2 DEF Unused
    <3>2. {p \in Procs : b \in Refers(p)} # {}
      BY <1>1, <3>1, FS_EmptySet DEF RefcntCounts
    <3> QED
      BY <3>2 DEF Used
  <2> QED
    BY <2>1, <2>2
<1>5. Cardinality(Logged \cup Used) = NBUF
  <2>1. Logged \in SUBSET Bufs
    BY DEF Logged
  <2>2. Cardinality(Bufs) = NBUF
    BY FS_Interval, BuffersAssumption DEF Bufs
  <2>3. Logged \cup Used = Bufs
    BY <1>3, <1>4, <2>1
  <2> QED
    BY <2>2, <2>3
<1>6. IsFiniteSet(Used) /\ Cardinality(Used) \in Nat
  BY <1>3, CountLess
<1>7. NBUF <= Cardinality(Logged) + Cardinality(Used)
  <2>1. IsFiniteSet(Logged) /\ Cardinality(Logged) \in Nat
    BY LoggedAreBlocks
  <2>2. /\ Cardinality(Logged \cup Used) =
              Cardinality(Logged) + Cardinality(Used) - Cardinality(Logged \cap Used)
        /\ Cardinality(Logged \cap Used) \in Nat
    BY <1>6, <2>1, FS_Union, FS_Intersection, FS_CardinalityType
  <2> QED
    BY <1>5, <1>6, <2>1, <2>2
<1> QED
  BY <1>3, <1>6, <1>7, LoggedAreBlocks, BuffersAssumption

\* Nobody comes to the panic of bget() but with a cache in use.
LEMMA OnlyBgetPanics ==
  ASSUME IndInv, [Next]_vars, NEW p \in Procs, proc[p].pc # "nobuffers", proc'[p].pc = "nobuffers"
  PROVE  Unused = {} /\ proc[p].pc = "caller" /\ Cardinality(proc[p].has) < MaxHold
<1>1. proc \in ProcType /\ TypeOK
  BY Fields DEF IndInv
<1>2. 1 \in Bufs /\ \A q \in Procs : proc[q].b \in Bufs
  BY <1>1, Fields, BuffersAssumption DEF Bufs
<1>3. ASSUME NEW q \in Procs, NEW pc \in PCs, NEW b \in Bufs, proc' = Goto(q, pc, b)
      PROVE  pc = "nobuffers"
  BY <1>1, <1>3, GotoIs
<1>4. ASSUME NEW q \in Procs, NEW b \in Bufs, proc' = Returns(q, b) PROVE FALSE
  BY <1>1, <1>4, ReturnsIs
<1>5. proc' # proc
  OBVIOUS
<1>6. ASSUME NEW q \in Procs, NEW x, proc' = [proc EXCEPT ![q].asleep = x] PROVE FALSE
  BY <1>1, <1>6 DEF ProcType
<1>7. /\ "caller" \in PCs /\ "acquiresleep" \in PCs /\ "iderw" \in PCs
      /\ "toobig" \in PCs
  BY DEF PCs
<1>8. ASSUME NEW q \in Procs, NEW k \in Blocks, Bget(q, k) PROVE FALSE
  <2>1. PICK b \in Bufs : proc' = Goto(q, "acquiresleep", b)
    BY <1>1, <1>8, RecycleIsUnused DEF Bget, Cached, Unused
  <2> QED
    BY <1>3, <1>7, <2>1
<1>9. ASSUME NEW q \in Procs, Acquiresleep(q) \/ IderwWoken(q) \/ BrelseCount(q) \/ Kill(q) PROVE FALSE
  <2>1. \/ proc' = Returns(q, proc[q].b) \/ proc' = Goto(q, "iderw", proc[q].b)
        \/ proc' = Goto(q, "caller", 1)
        \/ \E x \in BOOLEAN : proc' = [proc EXCEPT ![q].asleep = x]
    BY <1>9 DEF Acquiresleep, IderwWoken, BrelseCount, Kill
  <2> QED
    BY <1>2, <1>3, <1>4, <1>6, <1>7, <2>1
<1>10. ASSUME NEW q \in Procs, Iderw(q) PROVE FALSE
  BY <1>1, <1>10 DEF Iderw, ProcType
<1>11. ASSUME NEW q \in Procs, NEW b \in Bufs, Bwrite(q, b) \/ LogWritePanics(q, b) PROVE FALSE
  BY <1>2, <1>3, <1>7, <1>11 DEF Bwrite, LogWritePanics
<1>12. ASSUME NEW q \in Procs, NEW b \in Bufs, Brelse(q, b) PROVE FALSE
  <2>1. /\ Woken("acquiresleep", b) \in ProcType
        /\ \A r \in Procs : Woken("acquiresleep", b)[r].pc = proc[r].pc
    BY <1>1, WokenIs
  <2>2. proc' = [Woken("acquiresleep", b) EXCEPT ![q].pc = "brelse", ![q].b = b, ![q].has = @ \ {b}]
    BY <1>12 DEF Brelse
  <2> QED
    BY <2>1, <2>2 DEF ProcType
<1>13. CASE Ideintr
  <2>1. proc' = Woken("iowait", Head(idequeue))
    BY <1>13 DEF Ideintr
  <2> QED
    BY <1>1, <2>1, WokenIs
<1>14. CASE \/ CommitEnds \/ DiskDone \/ StrayInterrupt \/ IdeintrNothing \/ Panicked \/ UNCHANGED vars
            \/ \E q \in Procs : \E b \in Bufs : \E v \in Values : LogWrite(q, b, v)
  BY <1>5, <1>14 DEF CommitEnds, DiskDone, StrayInterrupt, IdeintrNothing, Panicked, LogWrite, vars
<1>15. ASSUME NEW q \in Procs, NEW k \in Blocks, BgetPanics(q, k)
       PROVE  Unused = {} /\ proc[p].pc = "caller" /\ Cardinality(proc[p].has) < MaxHold
  <2>1. /\ Unused = {} /\ proc[q].pc = "caller" /\ Cardinality(proc[q].has) < MaxHold
        /\ proc' = Goto(q, "nobuffers", 1)
    BY <1>15 DEF BgetPanics, MayGet
  <2>2. q = p
    BY <1>1, <1>2, <2>1, GotoIs DEF PCs
  <2> QED
    BY <2>1, <2>2
<1> QED
  BY <1>8, <1>9, <1>10, <1>11, <1>12, <1>13, <1>14, <1>15 DEF Next

\* bget() panics only when the transaction and the buffers that processes have
\* or wait for are as many as the cache: no buffer is lost to a count or a mark
\* that was not taken back.
THEOREM FullIsUse == Spec => PanicsOnlyWhenFull
<1>1. IndInv /\ [Next]_vars =>
        [\A p \in Procs : proc[p].pc # "nobuffers" /\ proc'[p].pc = "nobuffers" =>
           NBUF <= Cardinality(lh) + Cardinality(Used)]_vars
  BY OnlyBgetPanics, FullCache
<1> QED
  BY <1>1, Invariance, PTL DEF Spec, PanicsOnlyWhenFull

\* What a process refers to grows only when it calls bget().
LEMMA RefersSteps ==
  ASSUME IndInv, [Next]_vars, NEW q \in Procs
  PROVE  \/ Refers(q)' \subseteq Refers(q)
         \/ /\ Cardinality(proc[q].has) < MaxHold
            /\ \E b \in Bufs : Refers(q)' \subseteq proc[q].has \cup {b}
<1>1. /\ proc \in ProcType /\ TypeOK /\ LockInv /\ 1 \in Bufs
      /\ \A p \in Procs : proc[p].b \in Bufs
      /\ "caller" \in PCs /\ "acquiresleep" \in PCs /\ "iderw" \in PCs
      /\ "nobuffers" \in PCs /\ "toobig" \in PCs
  BY Fields, BuffersAssumption DEF IndInv, Bufs, PCs
<1>2. ASSUME proc'[q].has = proc[q].has, proc'[q].pc = proc[q].pc, proc'[q].b = proc[q].b
      PROVE  Refers(q)' \subseteq Refers(q)
  BY <1>2 DEF Refers, Calling
<1>3. ASSUME NEW p \in Procs, NEW k \in Blocks, Bget(p, k)
      PROVE  \/ Refers(q)' \subseteq Refers(q)
             \/ /\ Cardinality(proc[q].has) < MaxHold
                /\ \E b \in Bufs : Refers(q)' \subseteq proc[q].has \cup {b}
  <2>1. PICK b \in Bufs : proc' = Goto(p, "acquiresleep", b)
    BY <1>1, <1>3, RecycleIsUnused DEF Bget, Cached, Unused
  <2>2. /\ proc'[q].has = proc[q].has
        /\ q # p => proc'[q].pc = proc[q].pc /\ proc'[q].b = proc[q].b
        /\ q = p => proc'[q].b = b
    BY <1>1, <2>1, GotoIs
  <2>3. CASE q # p
    BY <1>2, <2>2, <2>3
  <2>4. CASE q = p
    BY <1>3, <2>2, <2>4 DEF Bget, MayGet, Refers
  <2> QED
    BY <2>3, <2>4
<1>4. ASSUME NEW p \in Procs, NEW b \in Refers(p) \cap Bufs, NEW pc \in PCs, proc' = Goto(p, pc, b)
      PROVE  Refers(q)' \subseteq Refers(q)
  <2>1. /\ proc'[q].has = proc[q].has
        /\ q # p => proc'[q].pc = proc[q].pc /\ proc'[q].b = proc[q].b
        /\ q = p => proc'[q].b = b
    BY <1>1, <1>4, GotoIs
  <2>2. CASE q # p
    BY <1>2, <2>1, <2>2
  <2>3. CASE q = p
    BY <1>4, <2>1, <2>3 DEF Refers
  <2> QED
    BY <2>2, <2>3
<1>5. ASSUME NEW p \in Procs, NEW pc \in PCs, pc \in {"caller", "nobuffers", "toobig"},
             proc' = Goto(p, pc, 1)
      PROVE  Refers(q)' \subseteq Refers(q)
  <2>1. /\ proc'[q].has = proc[q].has
        /\ q # p => proc'[q].pc = proc[q].pc /\ proc'[q].b = proc[q].b
        /\ q = p => proc'[q].pc = pc
    BY <1>1, <1>5, GotoIs
  <2>2. CASE q # p
    BY <1>2, <2>1, <2>2
  <2>3. CASE q = p
    BY <1>5, <2>1, <2>3 DEF Refers, Calling
  <2> QED
    BY <2>2, <2>3
<1>6. ASSUME NEW p \in Procs, NEW b \in Refers(p) \cap Bufs, proc' = Returns(p, b)
      PROVE  Refers(q)' \subseteq Refers(q)
  <2>1. /\ q # p => /\ proc'[q].has = proc[q].has
                    /\ proc'[q].pc = proc[q].pc /\ proc'[q].b = proc[q].b
        /\ q = p => proc'[q].pc = "caller" /\ proc'[q].has = proc[q].has \cup {b}
    BY <1>1, <1>6, ReturnsIs
  <2>2. CASE q # p
    BY <1>2, <2>1, <2>2
  <2>3. CASE q = p
    BY <1>6, <2>1, <2>3 DEF Refers, Calling
  <2> QED
    BY <2>2, <2>3
<1>7. ASSUME NEW p \in Procs, NEW x \in BOOLEAN, proc' = [proc EXCEPT ![p].asleep = x]
      PROVE  Refers(q)' \subseteq Refers(q)
  <2>1. proc'[q].has = proc[q].has /\ proc'[q].pc = proc[q].pc /\ proc'[q].b = proc[q].b
    BY <1>1, <1>7 DEF ProcType
  <2> QED
    BY <1>2, <2>1
<1>8. ASSUME NEW p \in Procs, Acquiresleep(p) \/ IderwWoken(p) \/ BrelseCount(p) \/ Kill(p)
      PROVE  Refers(q)' \subseteq Refers(q)
  <2>1. \/ proc' = Goto(p, "caller", 1)
        \/ /\ proc' = Returns(p, proc[p].b) \/ proc' = Goto(p, "iderw", proc[p].b)
           /\ proc[p].pc \in {"acquiresleep", "iowait"}
        \/ \E x \in BOOLEAN : proc' = [proc EXCEPT ![p].asleep = x]
    BY <1>8 DEF Acquiresleep, IderwWoken, BrelseCount, Kill
  <2>2. proc[p].pc \in {"acquiresleep", "iowait"} => proc[p].b \in Refers(p) \cap Bufs
    BY <1>1 DEF Refers, Calling
  <2>3. CASE proc' = Goto(p, "caller", 1)
    BY <1>1, <1>5, <2>3
  <2>4. CASE proc' = Returns(p, proc[p].b) /\ proc[p].pc \in {"acquiresleep", "iowait"}
    BY <1>6, <2>2, <2>4
  <2>5. CASE proc' = Goto(p, "iderw", proc[p].b) /\ proc[p].pc \in {"acquiresleep", "iowait"}
    BY <1>1, <1>4, <2>2, <2>5
  <2> QED
    BY <1>7, <2>1, <2>3, <2>4, <2>5
<1>9. ASSUME NEW p \in Procs, Iderw(p) PROVE Refers(q)' \subseteq Refers(q)
  <2>1. proc' = [proc EXCEPT ![p].pc = "iowait", ![p].asleep = TRUE] /\ proc[p].pc = "iderw"
    BY <1>9 DEF Iderw
  <2>2. /\ proc'[q].has = proc[q].has /\ proc'[q].b = proc[q].b
        /\ proc'[q].pc = proc[q].pc \/ proc[q].pc = "iderw"
    BY <1>1, <2>1 DEF ProcType
  <2> QED
    BY <2>2 DEF Refers, Calling
<1>10. ASSUME NEW p \in Procs, NEW b \in Bufs, Bwrite(p, b) \/ LogWritePanics(p, b)
       PROVE  Refers(q)' \subseteq Refers(q)
  <2>1. CASE Bwrite(p, b)
    <3>1. b \in Refers(p) \cap Bufs /\ proc' = Goto(p, "iderw", b)
      BY <2>1 DEF Bwrite, Refers
    <3> QED
      BY <1>1, <1>4, <3>1
  <2>2. CASE LogWritePanics(p, b)
    <3>1. proc' = Goto(p, "toobig", 1)
      BY <2>2 DEF LogWritePanics
    <3> QED
      BY <1>1, <1>5, <3>1
  <2> QED
    BY <1>10, <2>1, <2>2
<1>11. ASSUME NEW p \in Procs, NEW b \in Bufs, Brelse(p, b) PROVE Refers(q)' \subseteq Refers(q)
  <2>1. /\ Woken("acquiresleep", b) \in ProcType
        /\ \A r \in Procs : LET w == Woken("acquiresleep", b)[r] IN
             w.pc = proc[r].pc /\ w.b = proc[r].b /\ w.has = proc[r].has
    BY <1>1, WokenIs
  <2>2. /\ b \in proc[p].has
        /\ proc' = [Woken("acquiresleep", b) EXCEPT ![p].pc = "brelse", ![p].b = b, ![p].has = @ \ {b}]
    BY <1>11 DEF Brelse
  <2>3. /\ q # p => /\ proc'[q].has = proc[q].has
                    /\ proc'[q].pc = proc[q].pc /\ proc'[q].b = proc[q].b
        /\ q = p => proc'[q].b = b /\ proc'[q].has = proc[q].has \ {b}
    BY <2>1, <2>2 DEF ProcType
  <2>4. CASE q # p
    BY <1>2, <2>3, <2>4
  <2>5. CASE q = p
    BY <2>2, <2>3, <2>5 DEF Refers
  <2> QED
    BY <2>4, <2>5
<1>12. CASE Ideintr
  <2>1. proc' = Woken("iowait", Head(idequeue))
    BY <1>12 DEF Ideintr
  <2>2. proc'[q].has = proc[q].has /\ proc'[q].pc = proc[q].pc /\ proc'[q].b = proc[q].b
    BY <1>1, <2>1, WokenIs
  <2> QED
    BY <1>2, <2>2
<1>13. CASE \/ CommitEnds \/ DiskDone \/ StrayInterrupt \/ IdeintrNothing \/ Panicked \/ UNCHANGED vars
            \/ \E p \in Procs : \E b \in Bufs : \E v \in Values : LogWrite(p, b, v)
  <2>1. proc' = proc
    BY <1>13 DEF CommitEnds, DiskDone, StrayInterrupt, IdeintrNothing, Panicked, LogWrite, vars
  <2> QED
    BY <1>2, <2>1
<1>14. ASSUME NEW p \in Procs, NEW k \in Blocks, BgetPanics(p, k) PROVE Refers(q)' \subseteq Refers(q)
  <2>1. proc' = Goto(p, "nobuffers", 1)
    BY <1>14 DEF BgetPanics
  <2> QED
    BY <1>1, <1>5, <2>1
<1> QED
  BY <1>3, <1>8, <1>9, <1>10, <1>11, <1>12, <1>13, <1>14 DEF Next

\* A process refers to at most MaxHold buffers.
HoldInv == \A p \in Procs : Cardinality(Refers(p)) <= MaxHold

\* Every step keeps to MaxHold buffers of a process.
LEMMA HoldStep == IndInv /\ HoldInv /\ [Next]_vars => HoldInv'
<1> SUFFICES ASSUME IndInv, HoldInv, [Next]_vars, NEW q \in Procs
             PROVE  Cardinality(Refers(q)') <= MaxHold
  BY DEF HoldInv
<1>1. Refers(q) \in SUBSET Bufs /\ proc[q].has \in SUBSET Bufs
  BY Fields DEF IndInv, Refers
<1>2. IsFiniteSet(Refers(q)) /\ IsFiniteSet(proc[q].has)
  BY <1>1, CountLess
<1>3. CASE Refers(q)' \subseteq Refers(q)
  BY <1>1, <1>3, CountLess, BuffersAssumption DEF HoldInv
<1>4. ASSUME Cardinality(proc[q].has) < MaxHold, NEW b \in Bufs,
             Refers(q)' \subseteq proc[q].has \cup {b}
      PROVE  Cardinality(Refers(q)') <= MaxHold
  <2>1. proc[q].has \cup {b} \in SUBSET Bufs
    BY <1>1
  <2>2. /\ Cardinality(Refers(q)') <= Cardinality(proc[q].has \cup {b})
        /\ Cardinality(Refers(q)') \in Nat /\ Cardinality(proc[q].has \cup {b}) \in Nat
    BY <2>1, <1>4, CountLess
  <2>3. \/ Cardinality(proc[q].has \cup {b}) = Cardinality(proc[q].has)
        \/ Cardinality(proc[q].has \cup {b}) = Cardinality(proc[q].has) + 1
    BY <1>2, FS_AddElement
  <2>4. Cardinality(proc[q].has) \in Nat
    BY <1>2, FS_CardinalityType
  <2> QED
    BY <2>2, <2>3, <2>4, <1>4, BuffersAssumption
<1> QED
  BY <1>3, <1>4, RefersSteps

\* So the processes of a set refer to at most MaxHold times as many buffers.
LEMMA HeldBy ==
  ASSUME IndInv, HoldInv, NEW S \in SUBSET Procs
  PROVE  LET U == UNION {Refers(p) : p \in S} IN
         /\ U \in SUBSET Bufs /\ IsFiniteSet(U) /\ Cardinality(U) \in Nat
         /\ Cardinality(S) \in Nat /\ Cardinality(U) <= Cardinality(S) * MaxHold
<1> DEFINE U(T) == UNION {Refers(p) : p \in T}
           P == {T \in SUBSET S : Cardinality(U(T)) <= Cardinality(T) * MaxHold}
<1>1. \A p \in Procs : Refers(p) \in SUBSET Bufs
  BY Fields DEF IndInv, Refers
<1>2. \A T \in SUBSET S : U(T) \in SUBSET Bufs
  BY <1>1
<1>3. IsFiniteSet(S)
  BY BuffersAssumption, FS_Subset
<1>4. \A T \in SUBSET S : IsFiniteSet(T) /\ Cardinality(T) \in Nat
  BY <1>3, FS_Subset, FS_CardinalityType
<1>5. {} \in P
  <2>1. U({}) = {}
    OBVIOUS
  <2>2. Cardinality({}) = 0
    BY FS_EmptySet
  <2>3. Cardinality(U({})) = 0
    BY <2>1, <2>2
  <2>4. Cardinality(U({})) <= Cardinality({}) * MaxHold
    BY <2>2, <2>3, BuffersAssumption
  <2> QED
    BY <2>4
<1>6. ASSUME NEW T \in P, NEW q \in S \ T PROVE T \cup {q} \in P
  <2> DEFINE A == U(T)
             B == Refers(q)
             c == Cardinality(A)
             d == Cardinality(B)
             n == Cardinality(T)
  <2>1. U(T \cup {q}) = A \cup B
    OBVIOUS
  <2>2. A \in SUBSET Bufs /\ B \in SUBSET Bufs /\ T \in SUBSET S /\ q \in Procs
    BY <1>1, <1>2
  <2>3. IsFiniteSet(A) /\ IsFiniteSet(B) /\ IsFiniteSet(A \cap B)
    BY <2>2, CountLess, FS_Intersection
  <2>4. Cardinality(A \cup B) = c + d - Cardinality(A \cap B)
    BY <2>3, FS_Union
  <2>5. c \in Nat /\ d \in Nat /\ Cardinality(A \cap B) \in Nat
    BY <2>3, FS_CardinalityType
  <2>6. d <= MaxHold
    BY <2>2 DEF HoldInv
  <2>7. c <= n * MaxHold /\ n \in Nat
    BY <1>4
  <2>8. Cardinality(T \cup {q}) = n + 1
    BY <1>4, <2>2, FS_AddElement
  <2> HIDE DEF c, d, n
  <2>9. n * MaxHold + MaxHold = (n + 1) * MaxHold
    BY <2>7, BuffersAssumption
  <2>10. n * MaxHold \in Int
    BY <2>7, BuffersAssumption
  <2>11. Cardinality(A \cup B) <= (n + 1) * MaxHold
    BY <2>4, <2>5, <2>6, <2>7, <2>9, <2>10, BuffersAssumption
  <2> QED
    BY <2>1, <2>2, <2>8, <2>11
<1>7. S \in P
  BY <1>3, <1>5, <1>6, SubsetInduction
<1>8. U(S) \in SUBSET Bufs
  BY <1>2
<1>9. IsFiniteSet(U(S)) /\ Cardinality(U(S)) \in Nat
  BY <1>8, CountLess
<1> QED
  BY <1>4, <1>7, <1>8, <1>9

\* No process is in the panic of bget().
NeverFull == \A p \in Procs : proc[p].pc # "nobuffers"

\* How large the cache must be: with the blocks of the largest transaction and
\* all that the processes may have at once, bget() never panics.
THEOREM CacheSuffices ==
  ASSUME NBUF >= LOGSIZE + Cardinality(Procs) * MaxHold
  PROVE  Spec => []NeverFull
<1>1. Init => HoldInv /\ NeverFull
  <2> SUFFICES ASSUME Init, NEW p \in Procs
               PROVE  Cardinality(Refers(p)) <= MaxHold /\ proc[p].pc # "nobuffers"
    BY DEF HoldInv, NeverFull
  <2>1. proc[p].pc = "caller" /\ proc[p].has = {}
    BY DEF Init
  <2>2. Refers(p) = {}
    BY <2>1 DEF Refers, Calling
  <2> QED
    BY <2>1, <2>2, FS_EmptySet, BuffersAssumption
<1>2. IndInv /\ HoldInv /\ NeverFull /\ [Next]_vars => NeverFull'
  <2> SUFFICES ASSUME IndInv, HoldInv, NeverFull, [Next]_vars, NEW p \in Procs,
                      proc'[p].pc = "nobuffers"
               PROVE  FALSE
    BY DEF NeverFull
  <2> DEFINE R == Procs \ {p}
             U == UNION {Refers(q) : q \in R}
             n == Cardinality(Procs)
  <2>1. Unused = {} /\ proc[p].pc = "caller" /\ Cardinality(proc[p].has) < MaxHold
    BY OnlyBgetPanics DEF NeverFull
  <2>2. Cardinality(Refers(p)) < MaxHold
    BY <2>1 DEF Refers, Calling
  <2>3. /\ U \in SUBSET Bufs /\ IsFiniteSet(U) /\ Cardinality(U) \in Nat
        /\ Cardinality(U) <= Cardinality(R) * MaxHold
    <3>1. R \in SUBSET Procs
      OBVIOUS
    <3> QED
      BY <3>1, HeldBy
  <2>4. n \in Nat /\ Cardinality(R) = n - 1 /\ n # 0 /\ Cardinality(R) \in Nat
    <3>1. Procs \in SUBSET Procs /\ R \in SUBSET Procs
      OBVIOUS
    <3>2. n \in Nat /\ Cardinality(R) = n - 1 /\ Cardinality(R) \in Nat
      BY <3>1, CountOne
    <3> QED
      BY <3>2
  <2>5. Used = U \cup Refers(p)
    BY DEF Used
  <2>6. Refers(p) \in SUBSET Bufs
    BY Fields DEF IndInv, Refers
  <2>7. IsFiniteSet(Refers(p)) /\ Cardinality(Refers(p)) \in Nat
    BY <2>6, CountLess
  <2>8. /\ Cardinality(U \cup Refers(p)) =
             Cardinality(U) + Cardinality(Refers(p)) - Cardinality(U \cap Refers(p))
        /\ Cardinality(U \cap Refers(p)) \in Nat
    BY <2>3, <2>7, FS_Union, FS_Intersection, FS_CardinalityType
  <2>9. NBUF <= Cardinality(lh) + Cardinality(U \cup Refers(p))
    BY <2>1, <2>5, FullCache
  <2>10. Cardinality(lh) <= LOGSIZE /\ Cardinality(lh) \in Nat
    BY FS_CardinalityType DEF IndInv, LogInv
  <2> HIDE DEF U, n, R
  <2>11. (n - 1) * MaxHold + MaxHold = n * MaxHold /\ n * MaxHold \in Int /\ (n - 1) * MaxHold \in Int
    BY <2>4, BuffersAssumption
  <2>12. NBUF >= LOGSIZE + n * MaxHold
    BY DEF n
  <2>13. Cardinality(U) <= (n - 1) * MaxHold
    BY <2>3, <2>4
  <2> QED
    BY <2>2, <2>3, <2>7, <2>8, <2>9, <2>10, <2>11, <2>12, <2>13, BuffersAssumption
<1> QED
  BY <1>1, <1>2, HoldStep, Invariance, PTL DEF Spec

-----------------------------------------------------------------------------
\* The data, when the disk reports no errors of reads

\* What a step may leave as it was: what the buffers cache, and the disk.
SameData ==
  /\ \A c \in Bufs : /\ buf'[c].blockno = buf[c].blockno /\ buf'[c].valid = buf[c].valid
                     /\ buf'[c].dirty = buf[c].dirty /\ buf'[c].data = buf[c].data
  /\ disk' = disk /\ ide' = ide

\* Most steps only lock, count and wait.
LEMMA Quiet ==
  ASSUME TypeOK, NEW p \in Procs, NEW b \in Bufs,
         Acquiresleep(p) \/ Brelse(p, b) \/ BrelseCount(p) \/ IderwWoken(p) \/ Kill(p)
  PROVE  SameData
<1>1. buf \in BufType
  BY Fields
<1>2. CASE Acquiresleep(p)
  BY <1>1, <1>2 DEF Acquiresleep, BufType, SameData
<1>3. CASE Brelse(p, b)
  BY <1>1, <1>3 DEF Brelse, BufType, SameData
<1>4. CASE BrelseCount(p)
  BY <1>1, <1>4 DEF BrelseCount, Uncounted, BufType, SameData
<1>5. CASE IderwWoken(p) \/ Kill(p)
  BY <1>5 DEF IderwWoken, Kill, SameData
<1> QED
  BY <1>2, <1>3, <1>4, <1>5

\* Panics and the end of a commit touch neither the buffers nor the disk, and
\* everybody keeps what it has.
Aside ==
  \/ CommitEnds \/ Panicked
  \/ \E p \in Procs : (\E k \in Blocks : BgetPanics(p, k)) \/ \E b \in Bufs : LogWritePanics(p, b)

\* None of these steps changes a block or who has it.
LEMMA AsideIs ==
  ASSUME TypeOK, Aside
  PROVE  SameData /\ buf' = buf /\ \A q \in Procs : proc'[q].has = proc[q].has
<1>1. CASE CommitEnds \/ Panicked
  BY <1>1 DEF CommitEnds, Panicked, vars, SameData
<1>2. ASSUME NEW p \in Procs,
             (\E k \in Blocks : BgetPanics(p, k)) \/ \E b \in Bufs : LogWritePanics(p, b)
      PROVE  SameData /\ buf' = buf /\ \A q \in Procs : proc'[q].has = proc[q].has
  <2>1. /\ buf' = buf /\ disk' = disk /\ ide' = ide
        /\ proc' = Goto(p, "nobuffers", 1) \/ proc' = Goto(p, "toobig", 1)
    BY <1>2 DEF BgetPanics, LogWritePanics
  <2>2. proc \in ProcType /\ 1 \in Bufs /\ "nobuffers" \in PCs /\ "toobig" \in PCs
    BY Fields, BuffersAssumption DEF Bufs, PCs
  <2>3. \A q \in Procs : proc'[q].has = proc[q].has
    BY <2>1, <2>2, GotoIs
  <2> QED
    BY <2>1, <2>3 DEF SameData
<1> QED
  BY <1>1, <1>2 DEF Aside

\* bget() finds the block or takes a buffer that nobody refers to and that
\* holds nothing the disk does not have.
LEMMA BgetIs ==
  ASSUME IndInv, NEW p \in Procs, NEW k \in Blocks, Bget(p, k)
  PROVE  \/ SameData
         \/ /\ disk' = disk /\ ide' = ide
            /\ \E b \in Bufs :
                 /\ \A c \in Bufs \ {b} : buf'[c] = buf[c]
                 /\ buf[b].dirty = FALSE /\ buf'[b].dirty = FALSE /\ buf'[b].valid = FALSE
                 /\ \A q \in Procs : b \notin Refers(q)
<1>1. TypeOK /\ RefcntCounts /\ LockInv /\ QueueInv /\ buf \in BufType
  BY Fields DEF IndInv
<1>2. disk' = disk /\ ide' = ide
  BY DEF Bget
<1>3. CASE \E b \in Cached(k) : buf' = Hit(b)
  BY <1>1, <1>2, <1>3 DEF BufType, Hit, SameData
<1>4. CASE Unused # {} /\ buf' = Recycled(Recycle, k)
  <2>1. PICK b \in Unused : buf' = Recycled(b, k)
    BY <1>1, <1>4, RecycleIsUnused
  <2>2. b \in Bufs /\ buf[b].refcnt = 0 /\ buf[b].dirty = FALSE
    BY <1>1, <2>1 DEF Unused, BufType
  <2>3. \A q \in Procs : b \notin Refers(q)
    BY <1>1, <2>2, Unreferred
  <2>4. /\ \A c \in Bufs \ {b} : buf'[c] = buf[c]
        /\ buf'[b].dirty = FALSE /\ buf'[b].valid = FALSE
    BY <1>1, <2>1, <2>2 DEF BufType, Recycled
  <2> QED
    BY <1>2, <2>2, <2>3, <2>4
<1> QED
  BY <1>3, <1>4 DEF Bget

\* A process makes a buffer dirty that it has, with the data or with v.
LEMMA DirtyIs ==
  ASSUME IndInv, NEW p \in Procs, NEW b \in Bufs, NEW v \in Values, LogWrite(p, b, v) \/ Bwrite(p, b)
  PROVE  /\ disk' = disk /\ ide' = ide /\ b \in proc[p].has /\ buf[b].valid = TRUE
         /\ \A c \in Bufs \ {b} : buf'[c] = buf[c]
         /\ buf'[b].blockno = buf[b].blockno /\ buf'[b].valid = TRUE /\ buf'[b].dirty = TRUE
         /\ LogWrite(p, b, v) => buf'[b].data = v
         /\ Bwrite(p, b) => buf'[b].data = buf[b].data
<1>1. LockInv /\ buf \in BufType
  BY Fields DEF IndInv
<1>2. disk' = disk /\ ide' = ide /\ b \in proc[p].has
  BY DEF LogWrite, Logging, Bwrite
<1>3. buf[b].valid = TRUE
  BY <1>1, <1>2 DEF LockInv, BufType
<1>4. CASE LogWrite(p, b, v)
  <2>1. buf' = [buf EXCEPT ![b].data = v, ![b].dirty = TRUE] /\ ~Bwrite(p, b)
    <3>1. proc' = proc /\ proc[p].pc = "caller" /\ proc \in ProcType
      BY <1>4, Fields DEF LogWrite, Logging, IndInv
    <3>2. Bwrite(p, b) => proc'[p].pc = "iderw"
      BY <3>1 DEF Bwrite, Goto, ProcType
    <3> QED
      BY <1>4, <3>1, <3>2 DEF LogWrite
  <2> QED
    BY <1>1, <1>2, <1>3, <2>1 DEF BufType
<1>5. CASE Bwrite(p, b)
  <2>1. buf' = [buf EXCEPT ![b].dirty = TRUE] /\ ~LogWrite(p, b, v)
    <3>1. proc' = Goto(p, "iderw", b) /\ proc[p].pc = "caller" /\ proc \in ProcType
      BY <1>5, Fields DEF Bwrite, IndInv
    <3>2. proc'[p].pc = "iderw"
      BY <3>1 DEF Goto, ProcType
    <3> QED
      BY <1>5, <3>1, <3>2 DEF LogWrite, Bwrite
  <2> QED
    BY <1>1, <1>2, <1>3, <2>1 DEF BufType
<1> QED
  BY <1>4, <1>5

\* Only a dirty buffer changes what is stored of its block, to its data.
LEMMA StoredSteps ==
  ASSUME IndInv, NEW k \in Blocks,
         (\E p \in Procs : Iderw(p)) \/ DiskDone \/ StrayInterrupt \/ IdeintrNothing \/ Ideintr
  PROVE  \/ Stored(k)' = Stored(k)
         \/ \E b \in Bufs : buf[b].blockno = k /\ buf[b].dirty /\ Stored(k)' = buf[b].data
                            /\ buf'[b] = buf[b]
<1>1. /\ TypeOK /\ LockInv /\ QueueInv /\ ControllerInv
      /\ ide \in IdeType /\ disk \in [Blocks -> Values] /\ buf \in BufType
      /\ \A b \in Bufs : buf[b].dirty \in BOOLEAN
  BY Fields DEF IndInv, TypeOK, IdeType
<1>2. CASE \E p \in Procs : Iderw(p)
  <2>1. PICK p \in Procs : Iderw(p)
    BY <1>2
  <2>2. /\ proc[p].b \in Bufs /\ buf' = buf /\ disk' = disk
        /\ \/ ide' = ide
           \/ ~ide.busy /\ ide' = Idestart(ide, proc[p].b)
    BY <1>1, <2>1, Fields DEF Iderw
  <2>3. CASE ide' = ide
    BY <2>2, <2>3 DEF Stored
  <2>4. CASE ~ide.busy /\ ide' = Idestart(ide, proc[p].b)
    <3> DEFINE b == proc[p].b
    <3>1. /\ ide'.write = buf[b].dirty /\ ide'.block = buf[b].blockno
          /\ buf[b].dirty => ide'.data = buf[b].data
      BY <1>1, <2>4 DEF Idestart, IdeType
    <3> QED
      BY <2>2, <2>4, <3>1 DEF Stored
  <2> QED
    BY <2>2, <2>3, <2>4
<1>3. CASE DiskDone
  <2>1. /\ ide.busy /\ ide'.busy = FALSE
        /\ disk' = IF ide.write THEN [disk EXCEPT ![ide.block] = ide.data] ELSE disk
    BY <1>1, <1>3 DEF DiskDone, IdeType
  <2>2. ide.block \in Blocks
    BY <1>1 DEF IdeType
  <2> QED
    BY <1>1, <2>1, <2>2 DEF Stored
<1>4. CASE StrayInterrupt \/ IdeintrNothing
  <2>1. /\ disk' = disk /\ ide'.busy = ide.busy /\ ide'.write = ide.write
        /\ ide'.block = ide.block /\ ide'.data = ide.data
    BY <1>1, <1>4 DEF StrayInterrupt, IdeintrNothing, IdeType
  <2> QED
    BY <2>1 DEF Stored
<1>5. CASE Ideintr
  <2> DEFINE rest == Tail(idequeue)
  <2>1. /\ idequeue # <<>> /\ disk' = disk
        /\ IF rest = <<>> THEN ide' = Taken(ide)
           ELSE ~ide.busy /\ ide' = Idestart(Taken(ide), Head(rest))
    BY <1>5 DEF Ideintr, StartNext
  <2>2. CASE rest = <<>>
    <3>1. /\ ide'.busy = ide.busy /\ ide'.write = ide.write
          /\ ide'.block = ide.block /\ ide'.data = ide.data
      BY <1>1, <2>1, <2>2 DEF Taken, IdeType
    <3> QED
      BY <2>1, <3>1 DEF Stored
  <2>3. CASE rest # <<>>
    <3> DEFINE h == Head(rest)
    <3>1. h \in Bufs /\ h # Head(idequeue) /\ Head(idequeue) \in Bufs
      <4>1. idequeue \in Seq(Bufs) /\ Distinct(idequeue)
        BY <1>1 DEF QueueInv, QueueMatches, Distinct, TypeOK
      <4>2. h \in Range(idequeue) \ {Head(idequeue)} /\ Head(idequeue) \in Bufs
        BY <4>1, <2>1, <2>3, QueueTail
      <4> QED
        BY <1>1, <4>2, Queued
    <3>2. buf'[h] = buf[h]
      BY <1>1, <1>5, <3>1 DEF Ideintr, BufType
    <3>3. /\ ide'.write = buf[h].dirty /\ ide'.block = buf[h].blockno
          /\ buf[h].dirty => ide'.data = buf[h].data
      BY <1>1, <2>1, <2>3 DEF Idestart, Taken, IdeType
    <3> HIDE DEF h
    <3> QED
      BY <2>1, <2>3, <3>1, <3>2, <3>3 DEF Stored
  <2> QED
    BY <2>2, <2>3
<1> QED
  BY <1>2, <1>3, <1>4, <1>5

\* ideintr(): the buffer that is served holds what is stored.
LEMMA IdeintrIs ==
  ASSUME ReadFails = FALSE, IndInv, Ideintr
  PROVE  LET b == Head(idequeue) IN
         /\ b \in Bufs /\ buf[b].blockno \in Blocks
         /\ \A c \in Bufs \ {b} : buf'[c] = buf[c]
         /\ buf'[b].blockno = buf[b].blockno /\ buf'[b].valid = TRUE /\ buf'[b].dirty = FALSE
         /\ buf'[b].data = Stored(buf[b].blockno)
         /\ buf[b].dirty => buf'[b].data = buf[b].data
<1>1. /\ TypeOK /\ LockInv /\ QueueInv /\ ControllerInv /\ buf \in BufType /\ ide \in IdeType
  BY Fields DEF IndInv, TypeOK, IdeType
<1> DEFINE b == Head(idequeue)
<1>2. /\ idequeue # <<>> /\ (buf[b].dirty \/ ~ide.busy)
      /\ buf' = [buf EXCEPT ![b].data = IF buf[b].dirty THEN @ ELSE ide.data,
                            ![b].valid = TRUE, ![b].dirty = FALSE]
  BY DEF Ideintr, DiskReady
<1>3. b \in Bufs /\ buf[b].blockno \in Blocks /\ buf[b].dirty \in BOOLEAN
  BY <1>1, <1>2, FirstQueued, Queued, Fields
<1>4. IF ide.busy
      THEN ide.block = buf[b].blockno /\ ide.write = buf[b].dirty /\ (buf[b].dirty => ide.data = buf[b].data)
      ELSE (IF buf[b].dirty THEN buf[b].data ELSE ide.data) = disk[buf[b].blockno]
  BY <1>1, <1>2 DEF ControllerInv
<1> HIDE DEF b
<1>5. /\ \A c \in Bufs \ {b} : buf'[c] = buf[c]
      /\ buf'[b].blockno = buf[b].blockno /\ buf'[b].valid = TRUE /\ buf'[b].dirty = FALSE
      /\ buf'[b].data = IF buf[b].dirty THEN buf[b].data ELSE ide.data
  BY <1>1, <1>2, <1>3 DEF BufType
<1>6. buf'[b].data = Stored(buf[b].blockno)
  BY <1>2, <1>3, <1>4, <1>5 DEF Stored
<1> QED
  BY <1>3, <1>5, <1>6 DEF b


\* A buffer in step with the disk stays so, or is on its way to it again.
LEMMA DataStep ==
  ASSUME ReadFails = FALSE, IndInv, DataInv, [Next]_vars
  PROVE  DataInv'
<1>1. /\ CacheInv /\ buf \in BufType
      /\ \A b \in Bufs : InSync(b) => buf[b].data = Stored(buf[b].blockno)
      /\ \A b \in Bufs : InSync(b) => buf[b].blockno \in Blocks /\ ~buf[b].dirty
  <2>1. TypeOK /\ CacheInv
    BY DEF IndInv
  <2>2. buf \in BufType /\ \A b \in Bufs : buf[b].blockno \in 0 .. NBLOCKS
    BY <2>1, Fields
  <2>3. \A b \in Bufs : InSync(b) => buf[b].blockno \in Blocks /\ ~buf[b].dirty
    BY <2>1, <2>2, BuffersAssumption DEF CacheInv, InSync, Blocks
  <2> QED
    BY <2>1, <2>2, <2>3 DEF DataInv
<1>2. ASSUME SameData PROVE DataInv'
  <2>1. \A k : Stored(k)' = Stored(k)
    BY <1>2 DEF SameData, Stored
  <2> QED
    BY <1>1, <1>2, <2>1 DEF SameData, DataInv, InSync
<1>3. ASSUME NEW p \in Procs, NEW k \in Blocks, Bget(p, k) PROVE DataInv'
  <2>1. SameData \/ /\ disk' = disk /\ ide' = ide
                    /\ \E b \in Bufs : /\ \A c \in Bufs \ {b} : buf'[c] = buf[c]
                                       /\ buf'[b].valid = FALSE
    BY <1>3, BgetIs
  <2>2. ASSUME disk' = disk, ide' = ide, NEW b \in Bufs,
               \A c \in Bufs \ {b} : buf'[c] = buf[c], buf'[b].valid = FALSE
        PROVE  DataInv'
    <3>1. \A j : Stored(j)' = Stored(j)
      BY <2>2 DEF Stored
    <3> QED
      BY <1>1, <2>2, <3>1 DEF DataInv, InSync
  <2> QED
    BY <1>2, <2>1, <2>2
<1>4. ASSUME NEW p \in Procs, NEW b \in Bufs, NEW v \in Values, LogWrite(p, b, v) \/ Bwrite(p, b)
      PROVE  DataInv'
  <2>1. /\ disk' = disk /\ ide' = ide /\ buf'[b].dirty = TRUE
        /\ \A c \in Bufs \ {b} : buf'[c] = buf[c]
    BY <1>4, DirtyIs
  <2>2. \A j : Stored(j)' = Stored(j)
    BY <2>1 DEF Stored
  <2> QED
    BY <1>1, <2>1, <2>2 DEF DataInv, InSync
<1>5. ASSUME NEW c \in Bufs, InSync(c), buf'[c] = buf[c],
             (\E p \in Procs : Iderw(p)) \/ DiskDone \/ StrayInterrupt \/ IdeintrNothing \/ Ideintr
      PROVE  buf'[c].data = Stored(buf[c].blockno)'
  <2> DEFINE k == buf[c].blockno
  <2>1. k \in Blocks /\ k # 0 /\ ~buf[c].dirty
    BY <1>1, <1>5 DEF Blocks
  <2>2. PICK j \in Blocks : j = k
    BY <2>1
  <2>3. \/ Stored(j)' = Stored(j)
        \/ \E b \in Bufs : buf[b].blockno = j /\ buf[b].dirty
    BY <1>5, StoredSteps
  <2>4. \A b \in Bufs : buf[b].blockno = j => b = c
    BY <1>1, <2>1, <2>2 DEF CacheInv
  <2>5. Stored(j)' = Stored(j)
    BY <2>1, <2>3, <2>4
  <2>6. Stored(buf[c].blockno)' = Stored(j)'
    BY <1>5, <2>2 DEF Stored
  <2> QED
    BY <1>1, <1>5, <2>2, <2>5, <2>6
<1>6. ASSUME (\E p \in Procs : Iderw(p)) \/ DiskDone \/ StrayInterrupt \/ IdeintrNothing
      PROVE  DataInv'
  <2>1. buf' = buf
    BY <1>6 DEF Iderw, DiskDone, StrayInterrupt, IdeintrNothing
  <2> QED
    BY <1>5, <1>6, <2>1 DEF DataInv, InSync
<1>7. CASE Ideintr
  <2>1. PICK h \in Bufs :
          /\ \A c \in Bufs \ {h} : buf'[c] = buf[c]
          /\ buf[h].blockno \in Blocks /\ buf'[h].blockno = buf[h].blockno
          /\ buf'[h].data = Stored(buf[h].blockno) /\ (buf[h].dirty => buf'[h].data = buf[h].data)
          /\ buf'[h].dirty = FALSE
    BY <1>7, IdeintrIs
  <2>2. PICK j \in Blocks : j = buf[h].blockno
    BY <2>1
  <2>3. Stored(j)' = buf'[h].data
    <3>1. \/ Stored(j)' = Stored(j)
          \/ \E b \in Bufs : buf[b].blockno = j /\ buf[b].dirty /\ Stored(j)' = buf[b].data
      BY <1>7, StoredSteps
    <3>2. \A b \in Bufs : buf[b].blockno = j => b = h
      BY <1>1, <2>2 DEF CacheInv, Blocks
    <3> QED
      BY <2>1, <2>2, <3>1, <3>2
  <2> SUFFICES ASSUME NEW c \in Bufs, InSync(c)'
               PROVE  buf'[c].data = Stored(buf[c].blockno)'
    BY DEF DataInv
  <2>4. CASE c = h
    BY <2>1, <2>2, <2>3, <2>4 DEF Stored
  <2>5. CASE c # h
    <3>1. buf'[c] = buf[c] /\ InSync(c)
      BY <2>1, <2>5 DEF InSync
    <3> QED
      BY <1>5, <1>7, <3>1
  <2> QED
    BY <2>4, <2>5
<1>8. CASE UNCHANGED vars
  BY <1>2, <1>8 DEF vars, SameData
<1>9. ASSUME NEW p \in Procs,
             Acquiresleep(p) \/ BrelseCount(p) \/ IderwWoken(p) \/ Kill(p) \/ \E b \in Bufs : Brelse(p, b)
      PROVE  DataInv'
  <2>1. TypeOK /\ 1 \in Bufs
    BY BuffersAssumption DEF IndInv, Bufs
  <2>2. SameData
    BY <1>9, <2>1, Quiet
  <2> QED
    BY <1>2, <2>2
<1>10. Values # {}
  BY BuffersAssumption
<1>11. CASE Aside
  BY <1>2, <1>11, AsideIs DEF IndInv
<1> QED
  BY <1>3, <1>4, <1>6, <1>7, <1>8, <1>9, <1>10, <1>11 DEF Next, Aside

\* A buffer in step with the disk holds what the disk has or is being given.
THEOREM CleanIsStored ==
  ASSUME ReadFails = FALSE
  PROVE  Spec => []DataInv
<1>1. Init => DataInv
  BY DEF Init, DataInv, InSync
<1>2. IndInv /\ DataInv /\ [Next]_vars => DataInv'
  BY DataStep
<1> QED
  BY <1>1, <1>2, Invariance, PTL DEF Spec

\* Without stray interrupts the disk has it: who waits for bwrite() may rely
\* on the order of the blocks on the disk.
THEOREM CleanIsWritten ==
  ASSUME ReadFails = FALSE
  PROVE  Spec => []CleanIsOnDisk
<1>1. IndInv /\ DataInv => CleanIsOnDisk
  <2> SUFFICES ASSUME IndInv, DataInv, ide.strays = 0, NEW b \in Bufs, InSync(b)
               PROVE  disk[buf[b].blockno] = buf[b].data
    BY DEF CleanIsOnDisk
  <2>1. TypeOK /\ CacheInv /\ LockInv /\ QueueInv /\ ControllerInv
    BY DEF IndInv
  <2>2. buf[b].data = Stored(buf[b].blockno) /\ buf[b].blockno # 0 /\ ~buf[b].dirty
    BY <2>1 DEF DataInv, InSync, CacheInv
  <2>3. ASSUME ide.busy, ide.write, ide.block = buf[b].blockno PROVE FALSE
    <3> DEFINE h == Head(idequeue)
    <3>1. idequeue # <<>>
      BY <2>1, <2>3 DEF ControllerInv
    <3>2. ide.block = buf[h].blockno /\ ide.write = buf[h].dirty
      BY <2>1, <2>3, <3>1 DEF ControllerInv
    <3>3. h \in Bufs
      BY <2>1, <3>1, FirstQueued
    <3>4. h = b
      BY <2>1, <2>2, <2>3, <3>2, <3>3 DEF CacheInv
    <3> QED
      BY <2>2, <2>3, <3>2, <3>4
  <2> QED
    BY <2>2, <2>3 DEF Stored
<1> QED
  BY <1>1, Invariance, CleanIsStored, PTL


-----------------------------------------------------------------------------
\* The cache implements BlockStore

\* What a block holds: the data of its dirty buffer, or else what is stored.
ContentFacts ==
  /\ \A b \in Bufs : buf[b].dirty => Content(buf[b].blockno) = buf[b].data
  /\ \A k \in Blocks : (\A b \in Bufs : buf[b].blockno = k => ~buf[b].dirty) => Content(k) = Stored(k)
  /\ \A k \in Blocks : Content(k) \in Values

\* The block contents of the refinement are what ContentFacts says.
LEMMA ContentIs == IndInv /\ DataInv => ContentFacts
<1> SUFFICES ASSUME IndInv, DataInv PROVE ContentFacts
  OBVIOUS
<1>1. /\ CacheInv /\ disk \in [Blocks -> Values] /\ ide \in IdeType
      /\ \A b \in Bufs : buf[b].data \in Values
  BY Fields DEF IndInv, TypeOK, IdeType
<1>2. ASSUME NEW b \in Bufs, buf[b].valid PROVE Content(buf[b].blockno) = buf[b].data
  <2> DEFINE k == buf[b].blockno
  <2>1. Buffered(k) = {b}
    BY <1>1, <1>2 DEF Buffered, CacheInv
  <2>2. Content(k) = buf[CHOOSE c \in {b} : TRUE].data
    BY <2>1 DEF Content
  <2>3. (CHOOSE c \in {b} : TRUE) = b
    OBVIOUS
  <2> QED
    BY <2>2, <2>3
<1>3. ASSUME NEW k \in Blocks, \A b \in Bufs : buf[b].blockno = k => ~buf[b].valid
      PROVE  Content(k) = Stored(k)
  BY <1>3 DEF Content, Stored, Buffered
<1>4. ASSUME NEW k \in Blocks, NEW b \in Bufs, buf[b].blockno = k, buf[b].valid,
             \A c \in Bufs : buf[c].blockno = k => ~buf[c].dirty
      PROVE  Content(k) = Stored(k)
  BY <1>2, <1>4 DEF DataInv, InSync
<1>5. \A b \in Bufs : buf[b].dirty => buf[b].valid
  BY <1>1 DEF CacheInv
<1>6. \A k \in Blocks : Stored(k) \in Values
  BY <1>1 DEF Stored, IdeType
<1>7. \A k \in Blocks : Content(k) \in Values
  BY <1>1, <1>2, <1>3, <1>6
<1> QED
  BY <1>2, <1>3, <1>4, <1>5, <1>7 DEF ContentFacts

\* Who uses a block: the one process that has its buffer.
HolderFacts ==
  /\ \A p \in Procs : \A b \in proc[p].has : Holder(buf[b].blockno) = p
  /\ \A k \in Blocks : (\A p \in Procs : \A b \in proc[p].has : buf[b].blockno # k) => Holder(k) = NoProc

\* The holders of the refinement are what HolderFacts says.
LEMMA HolderIs == IndInv => HolderFacts
<1> SUFFICES ASSUME IndInv PROVE HolderFacts
  OBVIOUS
<1>1. TypeOK /\ CacheInv /\ LockInv /\ \A p \in Procs : proc[p].has \in SUBSET Bufs
  BY Fields DEF IndInv
<1>2. ASSUME NEW p \in Procs, NEW b \in proc[p].has PROVE Holder(buf[b].blockno) = p
  <2> DEFINE k == buf[b].blockno
  <2>1. b \in Bufs /\ buf[b].locked = p /\ buf[b].valid /\ buf[b].blockno # 0
    BY <1>1 DEF LockInv, CacheInv
  <2>2. ASSUME NEW q \in Procs, NEW c \in proc[q].has, buf[c].blockno = k PROVE q = p
    <3>1. c = b
      BY <1>1, <2>1, <2>2 DEF CacheInv
    <3> QED
      BY <1>1, <2>1, <3>1 DEF LockInv
  <2>3. (CHOOSE q \in Procs : \E c \in proc[q].has : buf[c].blockno = k) = p
    BY <2>2
  <2> QED
    BY <2>3 DEF Holder
<1>3. ASSUME NEW k \in Blocks, \A p \in Procs : \A b \in proc[p].has : buf[b].blockno # k
      PROVE  Holder(k) = NoProc
  BY <1>3 DEF Holder
<1> QED
  BY <1>2, <1>3 DEF HolderFacts

\* A step that changes no data keeps the content of every block.
LEMMA SameContent ==
  ASSUME ContentFacts, ContentFacts', NEW k \in Blocks,
         \A b \in Bufs : /\ buf'[b].dirty \in BOOLEAN /\ buf[b].dirty \in BOOLEAN
                         /\ buf'[b].blockno = buf[b].blockno \/ (~buf[b].dirty /\ ~buf'[b].dirty),
         \/ \E b \in Bufs : /\ buf[b].blockno = k /\ buf[b].dirty
                            /\ \/ buf'[b].dirty /\ buf'[b].data = buf[b].data
                               \/ Stored(k)' = buf[b].data
                                  /\ \A c \in Bufs : buf'[c].blockno = k => ~buf'[c].dirty
         \/ /\ \A b \in Bufs : buf[b].blockno = k => ~buf[b].dirty
            /\ \/ \E b \in Bufs : /\ buf'[b].blockno = k /\ buf'[b].dirty
                                  /\ buf'[b].data = Stored(k)
               \/ /\ \A b \in Bufs : buf'[b].blockno = k => ~buf'[b].dirty
                  /\ Stored(k)' = Stored(k)
  PROVE  Content(k)' = Content(k)
<1>1. /\ \A b \in Bufs : buf[b].blockno = k /\ buf[b].dirty => Content(k) = buf[b].data
      /\ (\A b \in Bufs : buf[b].blockno = k => ~buf[b].dirty) => Content(k) = Stored(k)
  BY DEF ContentFacts
<1>2. /\ \A b \in Bufs : buf'[b].blockno = k /\ buf'[b].dirty => Content(k)' = buf'[b].data
      /\ (\A b \in Bufs : buf'[b].blockno = k => ~buf'[b].dirty) => Content(k)' = Stored(k)'
  <2>1. ASSUME NEW b \in Bufs, buf'[b].blockno = k, buf'[b].dirty PROVE Content(k)' = buf'[b].data
    <3>1. Content(buf[b].blockno)' = buf'[b].data
      BY <2>1 DEF ContentFacts
    <3>2. Content(buf[b].blockno)' = Content(k)'
      BY <2>1 DEF Content, Buffered
    <3> QED
      BY <3>1, <3>2
  <2> QED
    BY <2>1 DEF ContentFacts
<1> QED
  BY <1>1, <1>2


\* Only LogWrite changes what a block holds.
Silent ==
  \/ UNCHANGED vars \/ Aside
  \/ \E p \in Procs : \/ \E k \in Blocks : Bget(p, k)
                      \/ Acquiresleep(p) \/ Iderw(p) \/ IderwWoken(p) \/ BrelseCount(p) \/ Kill(p)
                      \/ \E b \in Bufs : Bwrite(p, b) \/ Brelse(p, b)
  \/ DiskDone \/ StrayInterrupt \/ IdeintrNothing \/ Ideintr

\* A silent step changes no block: cached or evicted, queued or on the disk,
\* it holds what it held.
LEMMA ContentStep ==
  ASSUME ReadFails = FALSE, IndInv, IndInv', DataInv, ContentFacts, ContentFacts', Silent,
         NEW k \in Blocks
  PROVE  Content(k)' = Content(k)
<1>1. /\ TypeOK /\ CacheInv
      /\ \A b \in Bufs : buf'[b].dirty \in BOOLEAN /\ buf[b].dirty \in BOOLEAN
      /\ k # 0
  <2>1. TypeOK /\ CacheInv /\ \A b \in Bufs : buf[b].dirty \in BOOLEAN
    BY Fields DEF IndInv
  <2>2. buf' \in BufType
    BY DEF IndInv, TypeOK, BufType
  <2> QED
    BY <2>1, <2>2 DEF BufType, Blocks
<1>2. \A b, c \in Bufs : buf[b].blockno = k /\ buf[c].blockno = k => b = c
  BY <1>1 DEF CacheInv
<1>3. ASSUME SameData PROVE Content(k)' = Content(k)
  <2>1. Stored(k)' = Stored(k)
    BY <1>3 DEF SameData, Stored
  <2>2. \A b \in Bufs : /\ buf'[b].blockno = buf[b].blockno /\ buf'[b].dirty = buf[b].dirty
                        /\ buf'[b].data = buf[b].data
    BY <1>3 DEF SameData
  <2>3. CASE \E b \in Bufs : buf[b].blockno = k /\ buf[b].dirty
    BY <1>1, <2>2, <2>3, SameContent
  <2>4. CASE \A b \in Bufs : buf[b].blockno = k => ~buf[b].dirty
    BY <1>1, <2>1, <2>2, <2>4, SameContent
  <2> QED
    BY <2>3, <2>4
<1>4. ASSUME NEW p \in Procs, NEW j \in Blocks, Bget(p, j) PROVE Content(k)' = Content(k)
  <2>1. SameData \/ /\ disk' = disk /\ ide' = ide
                    /\ \E b \in Bufs :
                         /\ \A c \in Bufs \ {b} : buf'[c] = buf[c]
                         /\ buf[b].dirty = FALSE /\ buf'[b].dirty = FALSE
    BY <1>4, BgetIs
  <2>2. ASSUME disk' = disk, ide' = ide, NEW b \in Bufs,
               \A c \in Bufs \ {b} : buf'[c] = buf[c], buf[b].dirty = FALSE, buf'[b].dirty = FALSE
        PROVE  Content(k)' = Content(k)
    <3>1. Stored(k)' = Stored(k)
      BY <2>2 DEF Stored
    <3>2. \A c \in Bufs : /\ buf'[c].blockno = buf[c].blockno \/ (~buf[c].dirty /\ ~buf'[c].dirty)
                          /\ buf[c].dirty => buf'[c] = buf[c]
                          /\ ~buf[c].dirty => ~buf'[c].dirty
      BY <2>2
    <3>3. CASE \E c \in Bufs : buf[c].blockno = k /\ buf[c].dirty
      BY <1>1, <3>2, <3>3, SameContent
    <3>4. CASE \A c \in Bufs : buf[c].blockno = k => ~buf[c].dirty
      <4>1. \A c \in Bufs : buf'[c].blockno = k => ~buf'[c].dirty
        BY <3>2, <3>4
      <4> QED
        BY <1>1, <3>1, <3>2, <3>4, <4>1, SameContent
    <3> QED
      BY <3>3, <3>4
  <2> QED
    BY <1>3, <2>1, <2>2
<1>5. ASSUME NEW p \in Procs, NEW b \in Bufs, Bwrite(p, b) PROVE Content(k)' = Content(k)
  <2>1. PICK v : v \in Values
    BY BuffersAssumption
  <2>2. /\ disk' = disk /\ ide' = ide /\ buf[b].valid = TRUE
        /\ \A c \in Bufs \ {b} : buf'[c] = buf[c]
        /\ buf'[b].blockno = buf[b].blockno /\ buf'[b].dirty = TRUE /\ buf'[b].data = buf[b].data
    BY <1>5, <2>1, DirtyIs
  <2>3. Stored(k)' = Stored(k) /\ \A c \in Bufs : buf'[c].blockno = buf[c].blockno
    BY <2>2 DEF Stored
  <2>4. CASE \E c \in Bufs : buf[c].blockno = k /\ buf[c].dirty
    <3>1. PICK c \in Bufs : buf[c].blockno = k /\ buf[c].dirty
      BY <2>4
    <3>2. buf'[c].dirty /\ buf'[c].data = buf[c].data
      BY <2>2, <3>1
    <3> QED
      BY <1>1, <2>3, <3>1, <3>2, SameContent
  <2>5. CASE \A c \in Bufs : buf[c].blockno = k => ~buf[c].dirty
    <3>1. CASE buf[b].blockno = k
      <4>1. buf'[b].data = Stored(k)
        BY <2>2, <2>5, <3>1 DEF DataInv, InSync
      <4> QED
        BY <1>1, <2>2, <2>3, <2>5, <3>1, <4>1, SameContent
    <3>2. CASE buf[b].blockno # k
      <4>1. \A c \in Bufs : buf'[c].blockno = k => ~buf'[c].dirty
        BY <2>2, <2>5, <3>2
      <4> QED
        BY <1>1, <2>3, <2>5, <4>1, SameContent
    <3> QED
      BY <3>1, <3>2
  <2> QED
    BY <2>4, <2>5
<1>6. ASSUME (\E p \in Procs : Iderw(p)) \/ DiskDone \/ StrayInterrupt \/ IdeintrNothing
      PROVE  Content(k)' = Content(k)
  <2>1. buf' = buf
    BY <1>6 DEF Iderw, DiskDone, StrayInterrupt, IdeintrNothing
  <2>2. CASE \E c \in Bufs : buf[c].blockno = k /\ buf[c].dirty
    BY <1>1, <2>1, <2>2, SameContent
  <2>3. CASE \A c \in Bufs : buf[c].blockno = k => ~buf[c].dirty
    <3>1. Stored(k)' = Stored(k)
      BY <1>6, <2>3, StoredSteps
    <3> QED
      BY <1>1, <2>1, <2>3, <3>1, SameContent
  <2> QED
    BY <2>2, <2>3
<1>7. CASE Ideintr
  <2>1. PICK h \in Bufs :
          /\ \A c \in Bufs \ {h} : buf'[c] = buf[c]
          /\ buf'[h].blockno = buf[h].blockno
          /\ buf'[h].data = Stored(buf[h].blockno) /\ (buf[h].dirty => buf'[h].data = buf[h].data)
          /\ buf'[h].dirty = FALSE
    BY <1>7, IdeintrIs
  <2>2. /\ \A c \in Bufs : buf'[c].blockno = buf[c].blockno
        /\ \A c \in Bufs : buf'[c].dirty => c # h /\ buf'[c] = buf[c] /\ buf[c].dirty
    BY <2>1
  <2>3. \/ Stored(k)' = Stored(k)
        \/ \E b \in Bufs : buf[b].blockno = k /\ buf[b].dirty /\ Stored(k)' = buf[b].data
    BY <1>7, StoredSteps
  <2>4. CASE \E c \in Bufs : buf[c].blockno = k /\ buf[c].dirty
    <3>1. PICK c \in Bufs : buf[c].blockno = k /\ buf[c].dirty
      BY <2>4
    <3>2. CASE c # h
      BY <1>1, <2>1, <2>2, <3>1, <3>2, SameContent
    <3>3. CASE c = h
      <4>1. \A d \in Bufs : buf'[d].blockno = k => ~buf'[d].dirty
        BY <1>2, <2>1, <2>2, <3>1, <3>3
      <4>2. Stored(k)' = buf[c].data
        BY <1>2, <2>1, <2>3, <3>1, <3>3
      <4> QED
        BY <1>1, <2>2, <3>1, <4>1, <4>2, SameContent
    <3> QED
      BY <3>2, <3>3
  <2>5. CASE \A c \in Bufs : buf[c].blockno = k => ~buf[c].dirty
    <3>1. Stored(k)' = Stored(k) /\ \A c \in Bufs : buf'[c].blockno = k => ~buf'[c].dirty
      BY <2>2, <2>3, <2>5
    <3> QED
      BY <1>1, <2>2, <2>5, <3>1, SameContent
  <2> QED
    BY <2>4, <2>5
<1>8. CASE UNCHANGED vars
  BY <1>3, <1>8 DEF vars, SameData
<1>9. ASSUME NEW p \in Procs,
             Acquiresleep(p) \/ BrelseCount(p) \/ IderwWoken(p) \/ Kill(p) \/ \E b \in Bufs : Brelse(p, b)
      PROVE  Content(k)' = Content(k)
  <2>1. 1 \in Bufs
    BY BuffersAssumption DEF Bufs
  <2>2. SameData
    BY <1>1, <1>9, <2>1, Quiet
  <2> QED
    BY <1>3, <2>2
<1>10. CASE Aside
  BY <1>1, <1>3, <1>10, AsideIs
<1> QED
  BY <1>4, <1>5, <1>6, <1>7, <1>8, <1>9, <1>10 DEF Silent

\* log_write() changes the block of its buffer and no other.
LEMMA LogWriteContent ==
  ASSUME IndInv, IndInv', ContentFacts, ContentFacts', NEW p \in Procs, NEW b \in Bufs, NEW v \in Values,
         LogWrite(p, b, v), NEW k \in Blocks
  PROVE  Content(k)' = IF k = buf[b].blockno THEN v ELSE Content(k)
<1>1. /\ disk' = disk /\ ide' = ide
      /\ \A c \in Bufs \ {b} : buf'[c] = buf[c]
      /\ buf'[b].blockno = buf[b].blockno /\ buf'[b].dirty = TRUE /\ buf'[b].data = v
  BY DirtyIs
<1>2. \A c \in Bufs : buf'[c].dirty \in BOOLEAN /\ buf[c].dirty \in BOOLEAN
  <2>1. TypeOK /\ \A c \in Bufs : buf[c].dirty \in BOOLEAN
    BY Fields DEF IndInv
  <2>2. buf' \in BufType
    BY DEF IndInv, TypeOK, BufType
  <2> QED
    BY <2>1, <2>2 DEF BufType
<1>3. CASE k = buf[b].blockno
  <2>1. Content(buf[b].blockno)' = buf'[b].data
    BY <1>1 DEF ContentFacts
  <2>2. Content(buf[b].blockno)' = Content(k)'
    BY <1>1, <1>3 DEF Content, Buffered
  <2> QED
    BY <1>1, <1>3, <2>1, <2>2
<1>4. CASE k # buf[b].blockno
  <2>1. Stored(k)' = Stored(k) /\ \A c \in Bufs : buf'[c].blockno = buf[c].blockno
    BY <1>1 DEF Stored
  <2>2. CASE \E c \in Bufs : buf[c].blockno = k /\ buf[c].dirty
    <3>1. PICK c \in Bufs : buf[c].blockno = k /\ buf[c].dirty
      BY <2>2
    <3>2. buf'[c] = buf[c]
      BY <1>1, <1>4, <3>1
    <3>3. Content(k)' = Content(k)
      BY <1>2, <2>1, <3>1, <3>2, SameContent
    <3> QED
      BY <1>4, <3>3
  <2>3. CASE \A c \in Bufs : buf[c].blockno = k => ~buf[c].dirty
    <3>1. \A c \in Bufs : buf'[c].blockno = k => ~buf'[c].dirty
      BY <1>1, <1>4, <2>3
    <3>2. Content(k)' = Content(k)
      BY <1>2, <2>1, <2>3, <3>1, SameContent
    <3> QED
      BY <1>4, <3>2
  <2> QED
    BY <2>2, <2>3
<1> QED
  BY <1>3, <1>4


\* The same processes use block k.
LEMMA SameHolder ==
  ASSUME HolderFacts, HolderFacts', NEW k \in Blocks,
         \A p \in Procs : (\E b \in proc'[p].has : buf'[b].blockno = k) <=>
                          (\E b \in proc[p].has : buf[b].blockno = k)
  PROVE  Holder(k)' = Holder(k)
<1>1. /\ \A p \in Procs : (\E b \in proc[p].has : buf[b].blockno = k) => Holder(k) = p
      /\ (\A p \in Procs : ~\E b \in proc[p].has : buf[b].blockno = k) => Holder(k) = NoProc
  BY DEF HolderFacts
<1>2. /\ \A p \in Procs : (\E b \in proc'[p].has : buf'[b].blockno = k) => Holder(k)' = p
      /\ (\A p \in Procs : ~\E b \in proc'[p].has : buf'[b].blockno = k) => Holder(k)' = NoProc
  <2>1. ASSUME NEW p \in Procs, NEW b \in proc'[p].has, buf'[b].blockno = k PROVE Holder(k)' = p
    <3>1. PICK c : c = b
      OBVIOUS
    <3>2. Holder(buf[c].blockno)' = p
      BY <2>1, <3>1 DEF HolderFacts
    <3>3. Holder(buf[c].blockno)' = Holder(k)'
      BY <2>1, <3>1 DEF Holder
    <3> QED
      BY <3>2, <3>3
  <2> QED
    BY <2>1 DEF HolderFacts
<1> QED
  BY <1>1, <1>2

\* What a process has changes when it gets a locked buffer and when it gives
\* the lock back.
LEMMA HasSteps ==
  ASSUME IndInv, [Next]_vars
  PROVE  \/ \A q \in Procs : proc'[q].has = proc[q].has
         \/ \E p \in Procs : \E b \in Bufs :
              /\ \A q \in Procs \ {p} : proc'[q].has = proc[q].has
              /\ SameData /\ Silent /\ buf[b].blockno # 0
              /\ \/ /\ proc'[p].has = proc[p].has \cup {b} /\ b \notin proc[p].has
                    /\ \A q \in Procs : b \notin proc[q].has
                 \/ proc'[p].has = proc[p].has \ {b} /\ b \in proc[p].has
<1>1. /\ TypeOK /\ LockInv /\ QueueInv /\ CacheInv /\ proc \in ProcType
      /\ \A q \in Procs : proc[q].b \in Bufs /\ proc[q].has \in SUBSET Bufs
      /\ NoProc \notin Procs /\ 1 \in Bufs
  BY Fields, BuffersAssumption DEF IndInv, Bufs
<1>2. ASSUME NEW p \in Procs, Acquiresleep(p) \/ IderwWoken(p), proc' = Returns(p, proc[p].b),
             proc[p].b \notin proc[p].has,
             buf[proc[p].b].locked \in {p, NoProc}, proc[p].pc \in {"acquiresleep", "iowait"}
      PROVE  \E b \in Bufs :
               /\ \A q \in Procs \ {p} : proc'[q].has = proc[q].has
               /\ SameData /\ Silent /\ buf[b].blockno # 0
               /\ proc'[p].has = proc[p].has \cup {b} /\ b \notin proc[p].has
               /\ \A q \in Procs : b \notin proc[q].has
  <2>1. PICK b \in Bufs : b = proc[p].b
    BY <1>1
  <2>2. /\ \A q \in Procs \ {p} : proc'[q].has = proc[q].has
        /\ proc'[p].has = proc[p].has \cup {b}
    BY <1>1, <1>2, <2>1, ReturnsIs
  <2>3. SameData
    BY <1>1, <1>2, Quiet
  <2>4. buf[b].blockno # 0
    BY <1>1, <1>2, <2>1 DEF LockInv, Refers, Calling
  <2>5. \A q \in Procs : b \notin proc[q].has
    BY <1>1, <1>2, <2>1 DEF LockInv
  <2>6. Silent
    BY <1>2 DEF Silent
  <2> QED
    BY <1>2, <2>1, <2>2, <2>3, <2>4, <2>5, <2>6
<1>3. ASSUME NEW p \in Procs, Acquiresleep(p), proc' # Returns(p, proc[p].b)
      PROVE  \A q \in Procs : proc'[q].has = proc[q].has
  BY <1>1, <1>3 DEF Acquiresleep, Goto, ProcType
<1>4. ASSUME NEW p \in Procs, IderwWoken(p),
             proc' # Returns(p, proc[p].b) \/ proc[p].b \in proc[p].has
      PROVE  \A q \in Procs : proc'[q].has = proc[q].has
  <2>1. CASE proc' = Returns(p, proc[p].b)
    <3>1. proc[p].has \cup {proc[p].b} = proc[p].has
      BY <1>4, <2>1
    <3>2. \A q \in Procs \ {p} : proc'[q].has = proc[q].has
      BY <1>1, <2>1, ReturnsIs
    <3>3. proc'[p].has = proc[p].has \cup {proc[p].b}
      BY <1>1, <2>1, ReturnsIs
    <3>4. proc'[p].has = proc[p].has
      BY <3>1, <3>3, Zenon
    <3> QED
      BY <3>2, <3>4
  <2>2. CASE proc' = [proc EXCEPT ![p].asleep = TRUE]
    BY <1>1, <2>2 DEF ProcType
  <2> QED
    BY <1>4, <2>1, <2>2 DEF IderwWoken
<1>5. ASSUME NEW p \in Procs, Acquiresleep(p), proc' = Returns(p, proc[p].b)
      PROVE  /\ proc[p].b \notin proc[p].has /\ proc[p].pc = "acquiresleep"
             /\ buf[proc[p].b].locked \in {p, NoProc}
  <2>1. proc[p].pc = "acquiresleep"
    BY <1>5 DEF Acquiresleep
  <2>2. proc[p].b \notin proc[p].has
    BY <1>1, <2>1 DEF LockInv
  <2>3. Returns(p, proc[p].b)[p].pc = "caller"
    BY <1>1, ReturnsIs
  <2>4. buf[proc[p].b].locked = NoProc
    <3> SUFFICES ASSUME buf[proc[p].b].locked # NoProc PROVE FALSE
      OBVIOUS
    <3>1. proc' = [proc EXCEPT ![p].asleep = TRUE]
      BY <1>5 DEF Acquiresleep, LockFree
    <3>2. proc'[p].pc = "acquiresleep"
      BY <1>1, <2>1, <3>1 DEF ProcType
    <3> QED
      BY <1>5, <2>3, <3>2
  <2> QED
    BY <2>1, <2>2, <2>4
<1>6. ASSUME NEW p \in Procs, IderwWoken(p)
      PROVE  proc[p].pc = "iowait" /\ buf[proc[p].b].locked \in {p, NoProc}
  <2>1. proc[p].pc = "iowait"
    BY <1>6 DEF IderwWoken
  <2> QED
    BY <1>1, <2>1 DEF QueueInv, QueueMatches
<1>7. ASSUME NEW p \in Procs, NEW b \in Bufs, Brelse(p, b)
      PROVE  /\ \A q \in Procs \ {p} : proc'[q].has = proc[q].has
             /\ SameData /\ Silent /\ buf[b].blockno # 0
             /\ proc'[p].has = proc[p].has \ {b} /\ b \in proc[p].has
  <2> DEFINE W == Woken("acquiresleep", b)
  <2>1. W \in ProcType /\ \A q \in Procs : W[q].has = proc[q].has
    BY <1>1, WokenIs
  <2>2. proc' = [W EXCEPT ![p].pc = "brelse", ![p].b = b, ![p].has = @ \ {b}] /\ b \in proc[p].has
    BY <1>7 DEF Brelse
  <2> HIDE DEF W
  <2>3. /\ \A q \in Procs \ {p} : proc'[q].has = proc[q].has
        /\ proc'[p].has = proc[p].has \ {b}
    BY <2>1, <2>2 DEF ProcType
  <2>4. SameData /\ Silent
    BY <1>1, <1>7, Quiet DEF Silent
  <2>5. buf[b].blockno # 0
    BY <1>1, <2>2 DEF LockInv, Refers, Calling
  <2> QED
    BY <2>2, <2>3, <2>4, <2>5
<1>8. ASSUME NEW p \in Procs,
             (\E k \in Blocks : Bget(p, k)) \/ Iderw(p) \/ BrelseCount(p) \/ Kill(p)
             \/ (\E b \in Bufs : Bwrite(p, b) \/ \E v \in Values : LogWrite(p, b, v))
      PROVE  \A q \in Procs : proc'[q].has = proc[q].has
  <2>1. CASE \E k \in Blocks : Bget(p, k)
    BY <1>1, <2>1 DEF Bget, Goto, ProcType
  <2>2. CASE Iderw(p) \/ BrelseCount(p) \/ Kill(p)
    BY <1>1, <2>2 DEF Iderw, BrelseCount, Kill, Goto, ProcType
  <2>3. CASE \E b \in Bufs : Bwrite(p, b) \/ \E v \in Values : LogWrite(p, b, v)
    <3>1. proc' = proc \/ \E b \in Bufs : proc' = Goto(p, "iderw", b)
      BY <2>3 DEF Bwrite, LogWrite
    <3> QED
      BY <1>1, <3>1, GotoIs DEF PCs
  <2> QED
    BY <1>8, <2>1, <2>2, <2>3
<1>9. CASE DiskDone \/ StrayInterrupt \/ IdeintrNothing \/ UNCHANGED vars
  BY <1>9 DEF DiskDone, StrayInterrupt, IdeintrNothing, vars
<1>10. CASE Ideintr
  <2>1. proc' = Woken("iowait", Head(idequeue))
    BY <1>10 DEF Ideintr
  <2> QED
    BY <1>1, <2>1, WokenIs
<1>11. ASSUME NEW p \in Procs, Acquiresleep(p) \/ IderwWoken(p)
       PROVE  \/ \A q \in Procs : proc'[q].has = proc[q].has
              \/ \E b \in Bufs :
                   /\ \A q \in Procs \ {p} : proc'[q].has = proc[q].has
                   /\ SameData /\ Silent /\ buf[b].blockno # 0
                   /\ proc'[p].has = proc[p].has \cup {b} /\ b \notin proc[p].has
                   /\ \A q \in Procs : b \notin proc[q].has
  BY <1>2, <1>3, <1>4, <1>5, <1>6, <1>11
<1>12. CASE Aside
  BY <1>1, <1>12, AsideIs
<1> QED
  BY <1>7, <1>8, <1>9, <1>10, <1>11, <1>12 DEF Next, Aside

\* The buffers that processes have keep their blocks.
LEMMA SameBlocks ==
  ASSUME ReadFails = FALSE, IndInv, [Next]_vars, NEW p \in Procs, NEW b \in proc[p].has
  PROVE  buf'[b].blockno = buf[b].blockno
<1>1. /\ TypeOK /\ b \in Bufs /\ b \in Refers(p) /\ 1 \in Bufs
  BY Fields, BuffersAssumption DEF IndInv, Refers, Calling, Bufs
<1>2. ASSUME SameData PROVE buf'[b].blockno = buf[b].blockno
  BY <1>1, <1>2 DEF SameData
<1>3. ASSUME NEW q \in Procs, NEW k \in Blocks, Bget(q, k) PROVE buf'[b].blockno = buf[b].blockno
  <2>1. \/ SameData
        \/ \E a \in Bufs : (\A c \in Bufs \ {a} : buf'[c] = buf[c]) /\ a # b
    BY <1>1, <1>3, BgetIs
  <2> QED
    BY <1>1, <1>2, <2>1
<1>4. ASSUME NEW q \in Procs, NEW a \in Bufs, Bwrite(q, a) \/ \E v \in Values : LogWrite(q, a, v)
      PROVE  buf'[b].blockno = buf[b].blockno
  <2>1. PICK v \in Values : Bwrite(q, a) \/ LogWrite(q, a, v)
    BY <1>4, BuffersAssumption
  <2>2. (\A c \in Bufs \ {a} : buf'[c] = buf[c]) /\ buf'[a].blockno = buf[a].blockno
    BY <2>1, DirtyIs
  <2> QED
    BY <1>1, <2>2
<1>5. CASE Ideintr
  <2>1. LET a == Head(idequeue) IN
        (\A c \in Bufs \ {a} : buf'[c] = buf[c]) /\ buf'[a].blockno = buf[a].blockno
    BY <1>5, IdeintrIs
  <2> QED
    BY <1>1, <2>1
<1>6. CASE (\E q \in Procs : Iderw(q)) \/ DiskDone \/ StrayInterrupt \/ IdeintrNothing \/ UNCHANGED vars
  BY <1>6 DEF Iderw, DiskDone, StrayInterrupt, IdeintrNothing, vars
<1>7. ASSUME NEW q \in Procs,
             Acquiresleep(q) \/ BrelseCount(q) \/ IderwWoken(q) \/ Kill(q) \/ \E a \in Bufs : Brelse(q, a)
      PROVE  buf'[b].blockno = buf[b].blockno
  <2>1. SameData
    BY <1>1, <1>7, Quiet
  <2> QED
    BY <1>2, <2>1
<1>8. CASE Aside
  BY <1>1, <1>8, AsideIs
<1> QED
  BY <1>3, <1>4, <1>5, <1>6, <1>7, <1>8 DEF Next, Aside


\* Every step of the cache is one of the store or changes nothing of it.
LEMMA StepRefines ==
  ASSUME ReadFails = FALSE, IndInv, IndInv', DataInv, ContentFacts, ContentFacts',
         HolderFacts, HolderFacts', [Next]_vars
  PROVE  [Store!Next]_(Store!svars)
<1> DEFINE C == [k \in Blocks |-> Content(k)]
           H == [k \in Blocks |-> Holder(k)]
<1>1. \A p \in Procs : \A b \in proc[p].has : b \in Bufs /\ buf'[b].blockno = buf[b].blockno
  BY SameBlocks, Fields DEF IndInv
<1>2. ASSUME \A q \in Procs : proc'[q].has = proc[q].has PROVE H' = H
  <2>1. ASSUME NEW k \in Blocks PROVE Holder(k)' = Holder(k)
    BY <1>1, <1>2, <2>1, SameHolder
  <2> QED
    BY <2>1
<1>3. ASSUME Silent PROVE C' = C
  <2>1. ASSUME NEW k \in Blocks PROVE Content(k)' = Content(k)
    BY <1>3, ContentStep
  <2> QED
    BY <2>1
<1>4. ASSUME NEW p \in Procs, NEW b \in Bufs, NEW v \in Values, LogWrite(p, b, v)
      PROVE  Store!Put(p, buf[b].blockno, v) /\ buf[b].blockno \in Blocks
  <2>1. b \in proc[p].has /\ \A q \in Procs : proc'[q].has = proc[q].has
    BY <1>4 DEF LogWrite, Logging
  <2>2. buf[b].blockno \in Blocks
    <3>1. TypeOK /\ LockInv
      BY DEF IndInv
    <3>2. buf[b].blockno \in 0 .. NBLOCKS /\ buf[b].blockno # 0
      BY <2>1, <3>1, Fields DEF LockInv, Refers, Calling
    <3> QED
      BY <3>2, BuffersAssumption DEF Blocks
  <2>3. Holder(buf[b].blockno) = p
    BY <2>1 DEF HolderFacts
  <2>4. ASSUME NEW k \in Blocks PROVE Content(k)' = IF k = buf[b].blockno THEN v ELSE Content(k)
    BY <1>4, LogWriteContent
  <2>5. C' = [C EXCEPT ![buf[b].blockno] = v]
    BY <2>4
  <2>6. H' = H /\ H[buf[b].blockno] = p
    BY <1>2, <2>1, <2>2, <2>3
  <2> QED
    BY <2>2, <2>5, <2>6 DEF Store!Put
<1>5. ASSUME NEW p \in Procs, NEW b \in Bufs, SameData, Silent, buf[b].blockno # 0,
             \A q \in Procs \ {p} : proc'[q].has = proc[q].has,
             \/ /\ proc'[p].has = proc[p].has \cup {b} /\ b \notin proc[p].has
                /\ \A q \in Procs : b \notin proc[q].has
             \/ proc'[p].has = proc[p].has \ {b} /\ b \in proc[p].has
      PROVE  \E k \in Blocks : Store!Get(p, k) \/ Store!Release(p, k)
  <2> DEFINE k == buf[b].blockno
  <2>1. /\ TypeOK /\ CacheInv /\ LockInv /\ \A q \in Procs : proc[q].has \in SUBSET Bufs
        /\ buf[b].blockno \in 0 .. NBLOCKS
    BY Fields DEF IndInv
  <2>2. k \in Blocks /\ \A c \in Bufs : buf[c].blockno = k => c = b
    BY <1>5, <2>1, BuffersAssumption DEF CacheInv, Blocks
  <2>3. \A c \in Bufs : buf'[c].blockno = buf[c].blockno
    BY <1>5 DEF SameData
  <2>4. C' = C
    BY <1>3, <1>5
  <2>5. PICK j \in Blocks : j = k
    BY <2>2
  <2>6. ASSUME NEW i \in Blocks, i # j PROVE Holder(i)' = Holder(i)
    <3>1. \A q \in Procs : (\E c \in proc'[q].has : buf'[c].blockno = i) <=>
                           (\E c \in proc[q].has : buf[c].blockno = i)
      BY <1>5, <2>1, <2>2, <2>3, <2>5, <2>6
    <3> QED
      BY <3>1, SameHolder
  <2>7. CASE /\ proc'[p].has = proc[p].has \cup {b}
             /\ \A q \in Procs : b \notin proc[q].has
    <3>1. Holder(j) = NoProc
      BY <2>1, <2>2, <2>5, <2>7 DEF HolderFacts
    <3>2. Holder(buf[b].blockno)' = p
      BY <2>7 DEF HolderFacts
    <3>3. Holder(buf[b].blockno)' = Holder(j)'
      BY <2>3, <2>5 DEF Holder
    <3>4. H' = [H EXCEPT ![j] = p] /\ H[j] = NoProc
      BY <2>6, <3>1, <3>2, <3>3
    <3> QED
      BY <2>4, <3>4 DEF Store!Get
  <2>8. CASE proc'[p].has = proc[p].has \ {b} /\ b \in proc[p].has
    <3>1. Holder(j) = p
      BY <2>5, <2>8 DEF HolderFacts
    <3>2. \A q \in Procs \ {p} : b \notin proc[q].has
      BY <2>1, <2>8 DEF LockInv
    <3>3. \A q \in Procs : \A c \in proc'[q].has : buf'[c].blockno # j
      BY <1>5, <2>1, <2>2, <2>3, <2>5, <2>8, <3>2
    <3>4. Holder(j)' = NoProc
      BY <3>3 DEF HolderFacts
    <3>5. H' = [H EXCEPT ![j] = NoProc] /\ H[j] = p
      BY <2>6, <3>1, <3>4
    <3> QED
      BY <2>4, <3>5 DEF Store!Release
  <2> QED
    BY <1>5, <2>7, <2>8
<1>6. Silent \/ \E p \in Procs : \E b \in Bufs : \E v \in Values : LogWrite(p, b, v)
  BY DEF Next, Silent, Aside
<1>7. CASE \E p \in Procs : \E b \in Bufs : \E v \in Values : LogWrite(p, b, v)
  BY <1>4, <1>7 DEF Store!Next
<1>8. CASE Silent
  <2>1. CASE \A q \in Procs : proc'[q].has = proc[q].has
    <3>1. C' = C /\ H' = H
      BY <1>2, <1>3, <1>8, <2>1
    <3> QED
      BY <3>1 DEF Store!svars
  <2>2. CASE ~\A q \in Procs : proc'[q].has = proc[q].has
    <3>1. \E p \in Procs : \E k \in Blocks : Store!Get(p, k) \/ Store!Release(p, k)
      BY <1>5, <2>2, HasSteps
    <3> QED
      BY <3>1 DEF Store!Next
  <2> QED
    BY <2>1, <2>2
<1> QED
  BY <1>6, <1>7, <1>8

\* When the disk reports no errors, the cache, the sleep locks and the driver
\* together implement the store of blocks: bread() returns what was last put
\* into the block, and one process at a time uses it.
THEOREM CacheIsBlockStore ==
  ASSUME ReadFails = FALSE
  PROVE  Spec => IsBlockStore
<1>1. Init => Store!Init
  <2> SUFFICES ASSUME Init PROVE Store!Init
    OBVIOUS
  <2>1. IndInv /\ DataInv
    BY InitIndInv DEF Init, DataInv, InSync
  <2>2. ContentFacts /\ HolderFacts
    BY <2>1, ContentIs, HolderIs
  <2>3. \A p \in Procs : proc[p].has = {}
    BY DEF Init
  <2>4. \A k \in Blocks : Content(k) \in Values /\ Holder(k) = NoProc
    BY <2>2, <2>3 DEF ContentFacts, HolderFacts
  <2> QED
    BY <2>4 DEF Store!Init
<1>2. IndInv /\ DataInv => ContentFacts /\ HolderFacts
  BY ContentIs, HolderIs
<1>3. IndInv /\ IndInv' /\ DataInv /\ ContentFacts /\ ContentFacts' /\ HolderFacts /\ HolderFacts'
      /\ [Next]_vars => [Store!Next]_(Store!svars)
  BY StepRefines
<1>4. Spec => Store!Init /\ [][Store!Next]_(Store!svars)
  BY <1>1, <1>2, <1>3, Invariance, CleanIsStored, PTL DEF Spec
<1> QED
  BY <1>4 DEF IsBlockStore, Store!Spec
=============================================================================
