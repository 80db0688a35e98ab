--------------------------- MODULE UserMemProofs ---------------------------
(***************************************************************************)
(* Theorems about UserMem: no physical page is lost or shared, the stack   *)
(* count of a process that has called exec() is right, the memory of a     *)
(* process changes by its own stores only, and its fork() copies it whole. *)
(***************************************************************************)
EXTENDS UserMem, Facts, SequenceTheorems

USE UserMemConstants

-----------------------------------------------------------------------------
\* Address spaces

\* An address space has a directory and maps some pages to frames.
LEMMA SpaceIs ==
  ASSUME NEW s \in Spaces
  PROVE  /\ s.dir \in 0 .. NFRAMES
         /\ DOMAIN s.pg \subseteq Pages
         /\ s.pg = [i \in DOMAIN s.pg |-> s.pg[i]]
         /\ s = [dir |-> s.dir, pg |-> s.pg]
         /\ \A i \in DOMAIN s.pg : s.pg[i] \in Frames
<1>1. s.dir \in 0 .. NFRAMES /\ s.pg \in UNION {[D -> Frames] : D \in SUBSET Pages} /\ s = [dir |-> s.dir, pg |-> s.pg]
  BY DEF Spaces
<1>2. PICK D \in SUBSET Pages : s.pg \in [D -> Frames]
  BY <1>1
<1> QED
  BY <1>1, <1>2

\* A directory and a map of pages to frames make an address space.
LEMMA SpaceFrom ==
  ASSUME NEW d \in 0 .. NFRAMES, NEW D \in SUBSET Pages, NEW g \in [D -> Frames]
  PROVE  [dir |-> d, pg |-> g] \in Spaces
  BY DEF Spaces

\* The slots of the empty address space.
LEMMA NoSpaceIs ==
  /\ NoSpace \in Spaces
  /\ NoSpace.dir = 0
  /\ DOMAIN NoSpace.pg = {}
  /\ \A i \in Places : Slot(NoSpace, i) = 0
<1>1. <<>> \in [{} -> Frames] /\ DOMAIN <<>> = {}
  BY DEF Frames
<1>2. NoSpace \in Spaces
  BY <1>1, SpaceFrom, 0 \in 0 .. NFRAMES, {} \in SUBSET Pages DEF NoSpace
<1> QED
  BY <1>1, <1>2 DEF NoSpace, Slot

\* The address space with a directory only.
LEMMA FreshIs ==
  ASSUME NEW f \in Frames
  PROVE  LET s == [NoSpace EXCEPT !.dir = f] IN
           /\ s \in Spaces
           /\ s.dir = f
           /\ DOMAIN s.pg = {}
           /\ \A i \in Places : Slot(s, i) = IF i = -1 THEN f ELSE 0
<1> DEFINE s == [NoSpace EXCEPT !.dir = f]
<1>1. s = [dir |-> f, pg |-> <<>>]
  BY DEF NoSpace
<1>2. <<>> \in [{} -> Frames] /\ DOMAIN <<>> = {}
  BY DEF Frames
<1>3. s \in Spaces
  <2>1. f \in 0 .. NFRAMES /\ {} \in SUBSET Pages
    BY DEF Frames
  <2>2. [dir |-> f, pg |-> <<>>] \in Spaces
    BY <1>2, <2>1, SpaceFrom
  <2> QED
    BY <1>1, <2>2
<1> QED
  BY <1>1, <1>2, <1>3 DEF Slot

\* mappages() changes one slot.
LEMMA MappedIs ==
  ASSUME NEW s \in Spaces, NEW i \in Pages, NEW f \in Frames
  PROVE  LET t == Mapped(s, i, f) IN
           /\ t \in Spaces
           /\ t.dir = s.dir
           /\ DOMAIN t.pg = DOMAIN s.pg \cup {i}
           /\ t.pg[i] = f
           /\ \A j \in DOMAIN s.pg : j # i => t.pg[j] = s.pg[j]
           /\ \A j \in Places : Slot(t, j) = IF j = i THEN f ELSE Slot(s, j)
<1> DEFINE g == [j \in DOMAIN s.pg \cup {i} |-> IF j = i THEN f ELSE s.pg[j]]
<1>1. Mapped(s, i, f) = [dir |-> s.dir, pg |-> g]
  <2>1. s = [dir |-> s.dir, pg |-> s.pg]
    BY SpaceIs
  <2>2. Mapped(s, i, f) = [s EXCEPT !.pg = g]
    BY DEF Mapped
  <2> HIDE DEF g
  <2> QED
    BY <2>1, <2>2
<1>2. g \in [DOMAIN s.pg \cup {i} -> Frames]
  BY SpaceIs
<1>3. DOMAIN s.pg \cup {i} \in SUBSET Pages /\ s.dir \in 0 .. NFRAMES
  BY SpaceIs
<1>4. Mapped(s, i, f) \in Spaces
  BY <1>1, <1>2, <1>3, SpaceFrom
<1>5. i # -1
  BY DEF Pages
<1>6. \A j \in Places : Slot([dir |-> s.dir, pg |-> g], j) = IF j = i THEN f ELSE Slot(s, j)
  BY <1>5 DEF Slot
<1>7. DOMAIN g = DOMAIN s.pg \cup {i} /\ g[i] = f /\ \A j \in DOMAIN s.pg : j # i => g[j] = s.pg[j]
  OBVIOUS
<1> HIDE DEF g
<1> QED
  BY <1>1, <1>4, <1>6, <1>7

\* deallocuvm() empties the slots of S.
LEMMA UnmappedIs ==
  ASSUME NEW s \in Spaces, NEW S \in SUBSET Pages
  PROVE  LET t == Unmapped(s, S) IN
           /\ t \in Spaces
           /\ t.dir = s.dir
           /\ DOMAIN t.pg = DOMAIN s.pg \ S
           /\ \A j \in DOMAIN s.pg \ S : t.pg[j] = s.pg[j]
           /\ \A j \in Places : Slot(t, j) = IF j \in S THEN 0 ELSE Slot(s, j)
<1> DEFINE g == [j \in DOMAIN s.pg \ S |-> s.pg[j]]
<1>1. Unmapped(s, S) = [dir |-> s.dir, pg |-> g]
  <2>1. s = [dir |-> s.dir, pg |-> s.pg]
    BY SpaceIs
  <2>2. Unmapped(s, S) = [s EXCEPT !.pg = g]
    BY DEF Unmapped
  <2> HIDE DEF g
  <2> QED
    BY <2>1, <2>2
<1>2. g \in [DOMAIN s.pg \ S -> Frames]
  BY SpaceIs
<1>3. DOMAIN s.pg \ S \in SUBSET Pages /\ s.dir \in 0 .. NFRAMES
  BY SpaceIs
<1>4. Unmapped(s, S) \in Spaces
  BY <1>1, <1>2, <1>3, SpaceFrom
<1>5. -1 \notin S
  BY DEF Pages
<1>6. \A j \in Places : Slot([dir |-> s.dir, pg |-> g], j) = IF j \in S THEN 0 ELSE Slot(s, j)
  BY <1>5 DEF Slot
<1> QED
  BY <1>1, <1>4, <1>6

\* freevm() frees what the slots hold.
LEMMA FreevmIs ==
  ASSUME NEW s \in Spaces
  PROVE  /\ Freevm(s) \subseteq Frames
         /\ \A i \in Places : Slot(s, i) # 0 => Slot(s, i) \in Freevm(s)
         /\ \A f \in Freevm(s) : \E i \in Places : Slot(s, i) = f
<1>1. /\ s.dir \in 0 .. NFRAMES
      /\ DOMAIN s.pg \subseteq Pages
      /\ \A i \in DOMAIN s.pg : s.pg[i] \in Frames
  BY SpaceIs
<1>2. Freevm(s) \subseteq Frames
  BY <1>1 DEF Freevm, Frames
<1>3. \A i \in Places : Slot(s, i) # 0 => Slot(s, i) \in Freevm(s)
  BY <1>1 DEF Freevm, Slot
<1>4. ASSUME NEW f \in Freevm(s) PROVE \E i \in Places : Slot(s, i) = f
  <2>1. CASE f = s.dir
    <3>1. -1 \in Places /\ Slot(s, -1) = f
      BY <2>1 DEF Places, Slot
    <3> QED
      BY <3>1
  <2>2. CASE f # s.dir
    <3>1. PICK i \in DOMAIN s.pg : f = s.pg[i]
      BY <2>2, <1>4 DEF Freevm
    <3>2. i \in Places /\ i # -1
      BY <1>1 DEF Pages, Places
    <3>3. Slot(s, i) = f
      BY <3>1, <3>2 DEF Slot
    <3> QED
      BY <3>2, <3>3
  <2> QED
    BY <2>1, <2>2
<1> QED
  BY <1>2, <1>3, <1>4

\* The slots hold frames or nothing.
LEMMA SlotType ==
  ASSUME NEW s \in Spaces, NEW i \in Places
  PROVE  /\ Slot(s, i) \in 0 .. NFRAMES
         /\ i \in DOMAIN s.pg => Slot(s, i) = s.pg[i] /\ Slot(s, i) # 0
<1>1. s.dir \in 0 .. NFRAMES /\ DOMAIN s.pg \subseteq Pages /\ \A j \in DOMAIN s.pg : s.pg[j] \in Frames
  BY SpaceIs
<1>2. i \in DOMAIN s.pg => i # -1 /\ s.pg[i] \in 0 .. NFRAMES /\ s.pg[i] # 0
  BY <1>1 DEF Pages, Frames
<1> QED
  BY <1>1, <1>2 DEF Slot

-----------------------------------------------------------------------------
\* Who owns a physical page

\* What At says of the variables.
LEMMA AtIs ==
  ASSUME NEW p \in Procs, NEW i \in Places
  PROVE  /\ At("kstack", p, i) = IF i = -1 THEN kstack[p] ELSE 0
         /\ At("pgdir", p, i) = Slot(pgdir[p], i)
         /\ At("new", p, i) = Slot(new[p], i)
  BY DEF At

\* Where a mapped page is.
LEMMA MappedAt ==
  ASSUME NEW p \in Procs, NEW i \in Places
  PROVE  /\ pgdir[p] \in Spaces /\ i \in DOMAIN pgdir[p].pg => At("pgdir", p, i) = pgdir[p].pg[i] /\ At("pgdir", p, i) # 0
         /\ new[p] \in Spaces /\ i \in DOMAIN new[p].pg => At("new", p, i) = new[p].pg[i] /\ At("new", p, i) # 0
<1>1. pgdir[p] \in Spaces /\ i \in DOMAIN pgdir[p].pg => At("pgdir", p, i) = pgdir[p].pg[i] /\ At("pgdir", p, i) # 0
  <2>1. At("pgdir", p, i) = Slot(pgdir[p], i)
    BY AtIs
  <2> QED
    BY <2>1, SlotType
<1>2. new[p] \in Spaces /\ i \in DOMAIN new[p].pg => At("new", p, i) = new[p].pg[i] /\ At("new", p, i) # 0
  <2>1. At("new", p, i) = Slot(new[p], i)
    BY AtIs
  <2> QED
    BY <2>1, SlotType
<1> QED
  BY <1>1, <1>2

\* Two places hold different pages.
LEMMA OneOwner ==
  ASSUME Owned, NEW k \in Kinds, NEW l \in Kinds, NEW p \in Procs, NEW q \in Procs,
         NEW i \in Places, NEW j \in Places, At(k, p, i) # 0, k # l \/ p # q \/ i # j
  PROVE  At(k, p, i) # At(l, q, j)
  BY DEF Owned

\* A step that moves no page keeps every owner.
LEMMA OwnedSame ==
  ASSUME Owned, free' = free,
         \A k \in Kinds, p \in Procs, i \in Places : At(k, p, i)' = At(k, p, i)
  PROVE  Owned'
  BY DEF Owned, Frames

\* kalloc() of f for one empty place.
Allocated(K, P, I, f) ==
  /\ f \in free
  /\ free' = free \ {f}
  /\ At(K, P, I) = 0
  /\ At(K, P, I)' = f
  /\ \A k \in Kinds, p \in Procs, i \in Places :
       k # K \/ p # P \/ i # I => At(k, p, i)' = At(k, p, i)

\* Then the page has one owner, and the others have theirs.
LEMMA OwnedAlloc ==
  ASSUME Owned, free \subseteq Frames,
         NEW K \in Kinds, NEW P \in Procs, NEW I \in Places, NEW f, Allocated(K, P, I, f)
  PROVE  Owned'
<1>m. /\ f \in free
      /\ free' = free \ {f}
      /\ At(K, P, I) = 0
      /\ At(K, P, I)' = f
      /\ \A k \in Kinds, p \in Procs, i \in Places :
           k # K \/ p # P \/ i # I => At(k, p, i)' = At(k, p, i)
  BY DEF Allocated
<1>0. f # 0
  BY <1>m DEF Frames
<1>1. \A k \in Kinds, p \in Procs, i \in Places : At(k, p, i) # f
  BY <1>m, <1>0 DEF Owned
<1>2. \A k, l \in Kinds, p, q \in Procs, i, j \in Places :
        At(k, p, i)' # 0 /\ At(k, p, i)' = At(l, q, j)' => k = l /\ p = q /\ i = j
  BY <1>m, <1>1 DEF Owned
<1>3. \A k \in Kinds, p \in Procs, i \in Places : At(k, p, i)' # 0 => At(k, p, i)' \in Frames \ free'
  BY <1>m, <1>1 DEF Owned
<1>4. ASSUME NEW g \in Frames \ free'
      PROVE  \E k \in Kinds, p \in Procs, i \in Places : At(k, p, i)' = g
  <2>1. CASE g = f
    BY <1>m, <2>1
  <2>2. CASE g # f
    <3>1. PICK k \in Kinds, p \in Procs, i \in Places : At(k, p, i) = g
      BY <1>m, <2>2 DEF Owned
    <3>2. g # 0
      BY DEF Frames
    <3> QED
      BY <1>m, <3>1, <3>2
  <2> QED
    BY <2>1, <2>2
<1> QED
  BY <1>2, <1>3, <1>4 DEF Owned, Frames

\* kfree() of the pages S, each taken from its place.
Freed(S) ==
  /\ free' = free \cup S
  /\ \A k \in Kinds, p \in Procs, i \in Places :
       At(k, p, i)' = At(k, p, i) \/ (At(k, p, i)' = 0 /\ At(k, p, i) \in S \cup {0})
  /\ \A f \in S : \E k \in Kinds, p \in Procs, i \in Places : At(k, p, i) = f /\ At(k, p, i)' = 0

\* Then they have no owner, and the others have theirs.
LEMMA OwnedFree ==
  ASSUME Owned, NEW S \in SUBSET Frames, Freed(S)
  PROVE  Owned'
<1>m. /\ free' = free \cup S
      /\ \A k \in Kinds, p \in Procs, i \in Places :
           At(k, p, i)' = At(k, p, i) \/ (At(k, p, i)' = 0 /\ At(k, p, i) \in S \cup {0})
      /\ \A f \in S : \E k \in Kinds, p \in Procs, i \in Places : At(k, p, i) = f /\ At(k, p, i)' = 0
  BY DEF Freed
<1>1. ASSUME NEW k \in Kinds, NEW p \in Procs, NEW i \in Places, At(k, p, i)' # 0
      PROVE  At(k, p, i)' = At(k, p, i) /\ At(k, p, i) \notin S
  <2>1. At(k, p, i)' = At(k, p, i)
    BY <1>m, <1>1
  <2>2. ASSUME At(k, p, i) \in S PROVE FALSE
    <3>1. PICK l \in Kinds, q \in Procs, j \in Places : At(l, q, j) = At(k, p, i) /\ At(l, q, j)' = 0
      BY <1>m, <2>2
    <3>2. l = k /\ q = p /\ j = i
      BY <3>1, <2>1, <1>1 DEF Owned
    <3> QED
      BY <3>1, <3>2, <1>1
  <2> QED
    BY <2>1, <2>2
<1>2. \A k, l \in Kinds, p, q \in Procs, i, j \in Places :
        At(k, p, i)' # 0 /\ At(k, p, i)' = At(l, q, j)' => k = l /\ p = q /\ i = j
  BY <1>1 DEF Owned
<1>3. ASSUME NEW k \in Kinds, NEW p \in Procs, NEW i \in Places, At(k, p, i)' # 0
      PROVE  At(k, p, i)' \in Frames \ free'
  <2>1. At(k, p, i)' = At(k, p, i) /\ At(k, p, i) \notin S
    BY <1>1, <1>3
  <2>2. At(k, p, i) \in Frames \ free
    BY <2>1, <1>3 DEF Owned
  <2> QED
    BY <1>m, <2>1, <2>2
<1>4. ASSUME NEW g \in Frames \ free'
      PROVE  \E k \in Kinds, p \in Procs, i \in Places : At(k, p, i)' = g
  <2>1. PICK k \in Kinds, p \in Procs, i \in Places : At(k, p, i) = g
    BY <1>m DEF Owned
  <2>2. g # 0 /\ g \notin S
    BY <1>m DEF Frames
  <2> QED
    BY <1>m, <2>1, <2>2
<1> QED
  BY <1>2, <1>3, <1>4 DEF Owned, Frames

\* The address space p was building becomes that of c, whose old one, the
\* pages S, is freed.
Moved(p, c, S) ==
  /\ free' = free \cup S
  /\ \A i \in Places : At("pgdir", c, i)' = At("new", p, i) /\ At("new", p, i)' = 0
  /\ \A k \in Kinds, q \in Procs, i \in Places :
       (k = "pgdir" => q # c) /\ (k = "new" => q # p) => At(k, q, i)' = At(k, q, i)
  /\ \A i \in Places : At("pgdir", c, i) # 0 => At("pgdir", c, i) \in S
  /\ \A f \in S : \E i \in Places : At("pgdir", c, i) = f

\* Then every page keeps or gets one owner.
LEMMA OwnedMove ==
  ASSUME Owned, NEW S \in SUBSET Frames, NEW p \in Procs, NEW c \in Procs, Moved(p, c, S)
  PROVE  Owned'
<1>m. /\ free' = free \cup S
      /\ \A i \in Places : At("pgdir", c, i)' = At("new", p, i) /\ At("new", p, i)' = 0
      /\ \A k \in Kinds, q \in Procs, i \in Places :
           (k = "pgdir" => q # c) /\ (k = "new" => q # p) => At(k, q, i)' = At(k, q, i)
      /\ \A i \in Places : At("pgdir", c, i) # 0 => At("pgdir", c, i) \in S
      /\ \A f \in S : \E i \in Places : At("pgdir", c, i) = f
  BY DEF Moved
<1>0. "pgdir" \in Kinds /\ "new" \in Kinds /\ "pgdir" # "new"
  BY DEF Kinds
<1>1. ASSUME NEW k \in Kinds, NEW q \in Procs, NEW i \in Places, At(k, q, i)' # 0
      PROVE  \/ k = "pgdir" /\ q = c /\ At(k, q, i)' = At("new", p, i)
             \/ ~(k = "pgdir" /\ q = c) /\ ~(k = "new" /\ q = p) /\ At(k, q, i)' = At(k, q, i)
  BY <1>m, <1>0, <1>1
<1>2. ASSUME NEW k \in Kinds, NEW q \in Procs, NEW i \in Places, ~(k = "pgdir" /\ q = c), At(k, q, i) # 0
      PROVE  At(k, q, i) \notin S
  BY <1>m, <1>0, <1>2 DEF Owned
<1>3. ASSUME NEW k \in Kinds, NEW l \in Kinds, NEW q \in Procs, NEW r \in Procs, NEW i \in Places, NEW j \in Places,
             At(k, q, i)' # 0, At(k, q, i)' = At(l, r, j)'
      PROVE  k = l /\ q = r /\ i = j
  <2>1. At(l, r, j)' # 0
    BY <1>m, <1>3
  <2>2. CASE k = "pgdir" /\ q = c /\ At(k, q, i)' = At("new", p, i)
    BY <1>m, <2>1, <2>2, <1>0, <1>1, <1>3 DEF Owned
  <2>3. CASE ~(k = "pgdir" /\ q = c) /\ ~(k = "new" /\ q = p) /\ At(k, q, i)' = At(k, q, i)
    BY <1>m, <2>1, <2>3, <1>0, <1>1, <1>3 DEF Owned
  <2> QED
    BY <1>m, <2>2, <2>3, <1>1, <1>3
<1>4. ASSUME NEW k \in Kinds, NEW q \in Procs, NEW i \in Places, At(k, q, i)' # 0
      PROVE  At(k, q, i)' \in Frames \ free'
  <2>1. CASE k = "pgdir" /\ q = c /\ At(k, q, i)' = At("new", p, i)
    <3>1. At("new", p, i) \notin S
      BY <1>0, <1>2, <1>4, <2>1
    <3>2. At("new", p, i) \in Frames \ free
      BY <1>0, <1>4, <2>1 DEF Owned
    <3> QED
      BY <1>m, <2>1, <3>1, <3>2
  <2>2. CASE ~(k = "pgdir" /\ q = c) /\ At(k, q, i)' = At(k, q, i)
    BY <1>m, <2>2, <1>0, <1>2, <1>4 DEF Owned
  <2> QED
    BY <1>m, <2>1, <2>2, <1>1, <1>4
<1>5. ASSUME NEW g \in Frames \ free'
      PROVE  \E k \in Kinds, q \in Procs, i \in Places : At(k, q, i)' = g
  <2>1. PICK k \in Kinds, q \in Procs, i \in Places : At(k, q, i) = g
    BY <1>m DEF Owned
  <2>2. g # 0 /\ g \notin S
    BY <1>m DEF Frames
  <2>3. ~(k = "pgdir" /\ q = c)
    BY <1>m, <2>1, <2>2
  <2>4. CASE k = "new" /\ q = p
    BY <1>m, <2>1, <2>4, <1>0
  <2>5. CASE ~(k = "new" /\ q = p)
    BY <1>m, <2>1, <2>3, <2>5
  <2> QED
    BY <1>m, <2>4, <2>5
<1> QED
  BY <1>3, <1>4, <1>5 DEF Owned, Frames

-----------------------------------------------------------------------------
\* The invariant, process by process

\* The parts of TodoInv, CopyInv and KeptInv that are about one process.
TodoOK(p) ==
  /\ pc[p] = "exec" =>
       \E n \in 1 .. MaxSize : Loaded(p, n) \/ \E h \in 0 .. n : Loading(p, h, n)
  /\ pc[p] = "grow" => \E to \in 1 .. MaxSize : \E h \in sz[p] .. to - 1 : Growing(p, h, to)

CopyOK(p) ==
  pc[p] = "fork_copy" =>
    \A i \in DOMAIN new[p].pg : i \in DOMAIN pgdir[p].pg /\ mem[new[p].pg[i]] = mem[pgdir[p].pg[i]]

StackOK(p) ==
  life[p] = "live" /\ execed[p] = 1 =>
    /\ stack_psize[p] \in 1 .. MaxStack
    /\ pc[p] # "grow" => Layout(p, sz[p])
    /\ pc[p] = "grow" => \E to \in 1 .. MaxSize : \E h \in sz[p] .. to - 1 : Growing(p, h, to) /\ Layout(p, h)

ComingOK(p) ==
  pc[p] = "fork_copy" /\ execed[p] = 1 =>
    \A i \in DOMAIN pgdir[p].pg : i \in DOMAIN new[p].pg \/ \E n \in 1 .. Len(todo[p]) : todo[p][n] = i

ProcOK(p) == TodoOK(p) /\ CopyOK(p) /\ (MinSize # 0 => StackOK(p) /\ ComingOK(p))

\* IndInv is about the pages, the slots and each process.
LEMMA IndInvIs == IndInv <=> TypeOK /\ Owned /\ LifeInv /\ \A p \in Procs : ProcOK(p)
  BY DEF IndInv, TodoInv, CopyInv, KeptInv, StackInv, ComingInv, ProcOK, TodoOK, CopyOK, StackOK, ComingOK

\* The step leaves slot q alone.
Same(q) ==
  /\ life'[q] = life[q] /\ kstack'[q] = kstack[q] /\ pgdir'[q] = pgdir[q] /\ sz'[q] = sz[q]
  /\ stack_psize'[q] = stack_psize[q] /\ pc'[q] = pc[q] /\ child'[q] = child[q]
  /\ new'[q] = new[q] /\ todo'[q] = todo[q] /\ execed'[q] = execed[q]

\* Only pages that are free before or after the step change.
OthersMem == \A g \in Frames : mem'[g] = mem[g] \/ g \in free \/ g \in free'

\* What the pages of q hold is what they held.
DataKept(q) ==
  /\ \A i \in DOMAIN pgdir[q].pg : mem'[pgdir[q].pg[i]] = mem[pgdir[q].pg[i]]
  /\ \A i \in DOMAIN new[q].pg : mem'[new[q].pg[i]] = mem[new[q].pg[i]]

\* A process keeps its pages but those above its new size.
PgKept(q) ==
  MinSize # 0 /\ life[q] = "live" /\ life'[q] = "live" /\ pgdir'[q].dir = pgdir[q].dir =>
    \A i \in DOMAIN pgdir[q].pg :
      \/ i \in DOMAIN pgdir'[q].pg /\ pgdir'[q].pg[i] = pgdir[q].pg[i]
      \/ i >= sz'[q] /\ i < MaxSize

\* The places of a slot left alone hold what they held.
LEMMA AtSame ==
  ASSUME NEW q \in Procs, kstack'[q] = kstack[q], pgdir'[q] = pgdir[q], new'[q] = new[q]
  PROVE  \A k \in Kinds, i \in Places : At(k, q, i)' = At(k, q, i)
  BY DEF At, Slot, Kinds

\* A page a process holds before and after the step is free at neither time.
LEMMA HeldIsKept ==
  ASSUME TypeOK, Owned, Owned', OthersMem, NEW q \in Procs,
         pgdir'[q] = pgdir[q], new'[q] = new[q]
  PROVE  DataKept(q)
<1>0. pgdir[q] \in Spaces /\ new[q] \in Spaces
  BY DEF TypeOK
<1>1. DOMAIN pgdir[q].pg \subseteq Places /\ DOMAIN new[q].pg \subseteq Places
  <2>1. DOMAIN pgdir[q].pg \subseteq Pages /\ DOMAIN new[q].pg \subseteq Pages
    BY <1>0, SpaceIs
  <2>2. Pages \subseteq Places
    BY DEF Pages, Places
  <2> QED
    BY <2>1, <2>2
<1>2. /\ "pgdir" \in Kinds /\ "new" \in Kinds
  BY DEF Kinds
<1>3. ASSUME NEW i \in Places, Slot(pgdir[q], i) # 0 PROVE mem'[Slot(pgdir[q], i)] = mem[Slot(pgdir[q], i)]
  <2>1. At("pgdir", q, i) = Slot(pgdir[q], i) /\ At("pgdir", q, i)' = Slot(pgdir[q], i)
    BY DEF At, Slot
  <2>2. Slot(pgdir[q], i) \in Frames \ free
    <3>1. At("pgdir", q, i) # 0 => At("pgdir", q, i) \in Frames \ free
      BY <1>2 DEF Owned
    <3> QED
      BY <2>1, <1>3, <3>1
  <2>3. Slot(pgdir[q], i) \in Frames \ free'
    <3>1. At("pgdir", q, i)' # 0 => At("pgdir", q, i)' \in Frames \ free'
      BY <1>2 DEF Owned, Frames
    <3> QED
      BY <2>1, <1>3, <3>1
  <2> QED
    BY <2>2, <2>3 DEF OthersMem
<1>4. ASSUME NEW i \in Places, Slot(new[q], i) # 0 PROVE mem'[Slot(new[q], i)] = mem[Slot(new[q], i)]
  <2>1. At("new", q, i) = Slot(new[q], i) /\ At("new", q, i)' = Slot(new[q], i)
    BY DEF At, Slot
  <2>2. Slot(new[q], i) \in Frames \ free
    <3>1. At("new", q, i) # 0 => At("new", q, i) \in Frames \ free
      BY <1>2 DEF Owned
    <3> QED
      BY <2>1, <1>4, <3>1
  <2>3. Slot(new[q], i) \in Frames \ free'
    <3>1. At("new", q, i)' # 0 => At("new", q, i)' \in Frames \ free'
      BY <1>2 DEF Owned, Frames
    <3> QED
      BY <2>1, <1>4, <3>1
  <2> QED
    BY <2>2, <2>3 DEF OthersMem
<1>5. \A i \in DOMAIN pgdir[q].pg : Slot(pgdir[q], i) = pgdir[q].pg[i] /\ Slot(pgdir[q], i) # 0
  BY <1>0, <1>1, SlotType
<1>6. \A i \in DOMAIN new[q].pg : Slot(new[q], i) = new[q].pg[i] /\ Slot(new[q], i) # 0
  BY <1>0, <1>1, SlotType
<1>7. \A i \in DOMAIN pgdir[q].pg : mem'[pgdir[q].pg[i]] = mem[pgdir[q].pg[i]]
  BY <1>1, <1>3, <1>5
<1>8. \A i \in DOMAIN new[q].pg : mem'[new[q].pg[i]] = mem[new[q].pg[i]]
  BY <1>1, <1>4, <1>6
<1> QED
  BY <1>7, <1>8 DEF DataKept

\* A process the step leaves alone stays as it should be.
LEMMA SameKeeps ==
  ASSUME NEW q \in Procs, Same(q), DataKept(q), ProcOK(q)
  PROVE  ProcOK(q)' /\ PgKept(q)
<1>1. TodoOK(q)'
  <2>1. \A n \in 1 .. MaxSize : Loaded(q, n)' <=> Loaded(q, n)
    BY DEF Same, Loaded
  <2>2. \A n \in 1 .. MaxSize : \A h \in 0 .. n : Loading(q, h, n)' <=> Loading(q, h, n)
    BY DEF Same, Loading
  <2>3. \A to \in 1 .. MaxSize : \A h \in sz[q] .. to - 1 : Growing(q, h, to)' <=> Growing(q, h, to)
    BY DEF Same, Growing
  <2>4. pc'[q] = pc[q] /\ sz'[q] = sz[q] /\ TodoOK(q)
    BY DEF Same, ProcOK
  <2>5. pc'[q] = "exec" =>
          \E n \in 1 .. MaxSize : Loaded(q, n)' \/ \E h \in 0 .. n : Loading(q, h, n)'
    BY <2>1, <2>2, <2>4 DEF TodoOK
  <2>6. pc'[q] = "grow" => \E to \in 1 .. MaxSize : \E h \in sz'[q] .. to - 1 : Growing(q, h, to)'
    BY <2>3, <2>4 DEF TodoOK
  <2> QED
    BY <2>5, <2>6 DEF TodoOK
<1>2. CopyOK(q)'
  <2>1. ASSUME pc'[q] = "fork_copy", NEW i \in DOMAIN new[q].pg
        PROVE  i \in DOMAIN pgdir[q].pg /\ mem'[new[q].pg[i]] = mem'[pgdir[q].pg[i]]
    <3>1. i \in DOMAIN pgdir[q].pg /\ mem[new[q].pg[i]] = mem[pgdir[q].pg[i]]
      BY <2>1 DEF Same, ProcOK, CopyOK
    <3> QED
      BY <3>1 DEF DataKept
  <2> QED
    BY <2>1 DEF Same, CopyOK
<1>3. MinSize # 0 => StackOK(q)'
  BY DEF Same, ProcOK, StackOK, Layout, Growing
<1>4. MinSize # 0 => ComingOK(q)'
  BY DEF Same, ProcOK, ComingOK
<1>5. PgKept(q)
  BY DEF Same, PgKept
<1> QED
  BY <1>1, <1>2, <1>3, <1>4, <1>5 DEF ProcOK

\* A slot whose process is in no call and has not called exec(), or is not
\* alive, has nothing to answer for.
LEMMA IdleKeeps ==
  ASSUME NEW q \in Procs, pc'[q] = "user", life'[q] # "live" \/ execed'[q] # 1
  PROVE  ProcOK(q)'
  BY DEF ProcOK, TodoOK, CopyOK, StackOK, ComingOK

\* A process that enters or leaves a call and keeps its address space.
LEMMA QuietKeeps ==
  ASSUME NEW q \in Procs, ProcOK(q), pc[q] # "grow", pc'[q] \in {"user", "fork_kvm"},
         life'[q] = life[q], execed'[q] = execed[q], pgdir'[q] = pgdir[q], sz'[q] = sz[q],
         stack_psize'[q] = stack_psize[q]
  PROVE  ProcOK(q)' /\ PgKept(q)
<1>1. TodoOK(q)' /\ CopyOK(q)' /\ ComingOK(q)'
  BY DEF TodoOK, CopyOK, ComingOK
<1>2. MinSize # 0 => StackOK(q)'
  BY DEF ProcOK, StackOK, Layout
<1>3. PgKept(q)
  BY DEF PgKept
<1> QED
  BY <1>1, <1>2, <1>3 DEF ProcOK

\* The parts of LifeInv that are about one slot.
LifeOK(p) ==
  /\ life[p] = "free" <=> kstack[p] = 0
  /\ life[p] \in {"free", "embryo"} => pgdir[p] = NoSpace
  /\ life[p] \in {"live", "zombie"} => pgdir[p].dir # 0
  /\ pc[p] # "user" => life[p] = "live"
  /\ pc[p] \in {"fork_copy", "exec"} => new[p].dir # 0
  /\ pc[p] \notin {"fork_copy", "exec"} => new[p] = NoSpace

ForkOK(p) ==
  /\ pc[p] \in {"fork_kvm", "fork_copy"} => child[p] \in Procs /\ life[child[p]] = "embryo"
  /\ pc[p] \notin {"fork_kvm", "fork_copy"} => child[p] = 0

OneParent == \A p, q \in Procs : child[p] = child[q] /\ child[p] # 0 => p = q

\* LifeInv is about each slot and the parents of embryos.
LEMMA LifeInvIs == LifeInv <=> OneParent /\ \A p \in Procs : LifeOK(p) /\ ForkOK(p)
  BY DEF LifeInv, LifeOK, ForkOK, OneParent

\* A step of p that touches no other slot but its child's keeps LifeInv when
\* it does so for both.
LEMMA LifeCombine ==
  ASSUME LifeInv, NEW p \in Procs, NEW c \in Procs, c = p \/ c = child[p], life[p] # "embryo",
         \A q \in Procs \ {p, c} : Same(q),
         LifeOK(p)', LifeOK(c)', ForkOK(p)', ForkOK(c)',
         child'[p] \in {0, child[p]}, c # p => child'[c] = child[c]
  PROVE  LifeInv'
<1>0. OneParent /\ \A q \in Procs : LifeOK(q) /\ ForkOK(q)
  BY LifeInvIs
<1>1. ASSUME NEW q \in Procs PROVE LifeOK(q)' /\ ForkOK(q)'
  <2>1. CASE q \in {p, c}
    BY <2>1
  <2>2. CASE q \notin {p, c}
    <3>1. Same(q) /\ LifeOK(q) /\ ForkOK(q)
      BY <1>0, <2>2
    <3>2. LifeOK(q)'
      BY <3>1 DEF Same, LifeOK
    <3>3. child'[q] = child[q] /\ pc'[q] = pc[q]
      BY <3>1 DEF Same
    <3>4. ASSUME pc[q] \in {"fork_kvm", "fork_copy"} PROVE life'[child[q]] = "embryo"
      <4>1. child[q] \in Procs /\ life[child[q]] = "embryo"
        BY <3>1, <3>4 DEF ForkOK
      <4>2. child[q] # p /\ child[q] # 0
        BY <4>1
      <4>3. child[q] # c
        BY <1>0, <2>2, <4>2 DEF OneParent
      <4>4. Same(child[q])
        BY <4>1, <4>2, <4>3
      <4> QED
        BY <4>1, <4>4 DEF Same
    <3>5. ForkOK(q)'
      BY <3>1, <3>3, <3>4 DEF ForkOK
    <3> QED
      BY <3>2, <3>5
  <2> QED
    BY <2>1, <2>2
<1>2. \A q \in Procs : child'[q] \in {0, child[q]}
  BY DEF Same
<1>3. OneParent'
  BY <1>0, <1>2 DEF OneParent
<1> QED
  BY <1>1, <1>3 DEF LifeInv, LifeOK, ForkOK, OneParent

\* A step of p that touches no other slot but c is good when it is for both.
LEMMA Combine ==
  ASSUME IndInv, TypeOK', Owned', LifeInv', OthersMem, NEW p \in Procs, NEW c \in Procs,
         \A q \in Procs \ {p, c} : Same(q),
         ProcOK(p)' /\ PgKept(p), ProcOK(c)' /\ PgKept(c)
  PROVE  IndInv' /\ OthersMem /\ \A q \in Procs : PgKept(q)
<1>0. TypeOK /\ Owned /\ \A q \in Procs : ProcOK(q)
  BY IndInvIs
<1>1. ASSUME NEW q \in Procs PROVE ProcOK(q)' /\ PgKept(q)
  <2>1. CASE q \in {p, c}
    BY <2>1
  <2>2. CASE q \notin {p, c}
    <3>1. Same(q)
      BY <2>2
    <3>2. DataKept(q)
      BY <1>0, <3>1, HeldIsKept DEF Same
    <3> QED
      BY <1>0, <3>1, <3>2, SameKeeps
  <2> QED
    BY <2>1, <2>2
<1>2. \A q \in Procs : ProcOK(q)'
  BY <1>1
<1>3. TodoInv' /\ CopyInv'
  BY <1>2 DEF TodoInv, CopyInv, ProcOK, TodoOK, CopyOK
<1>4. KeptInv'
  BY <1>2 DEF KeptInv, StackInv, ComingInv, ProcOK, StackOK, ComingOK
<1> QED
  BY <1>1, <1>3, <1>4 DEF IndInv

-----------------------------------------------------------------------------
\* fork()

\* kalloc() hands out a free page.
LEMMA KallocIs ==
  ASSUME TypeOK, NEW f, Kalloc(f)
  PROVE  f \in free /\ f \in Frames /\ f \in 0 .. NFRAMES /\ f # 0
  BY DEF TypeOK, Kalloc, Frames

\* kfree() changes only the pages it frees.
LEMMA KfreeIs ==
  ASSUME TypeOK, NEW S \in SUBSET Frames, Kfree(S)
  PROVE  /\ free' = free \cup S
         /\ free' \subseteq Frames
         /\ mem' \in [Frames -> {Zeros, Junk, Data}]
         /\ OthersMem
  BY DEF TypeOK, Kfree, OthersMem

\* The end of a call.
LEMMA LeaveIs ==
  ASSUME TypeOK, NEW p \in Procs, Leave(p)
  PROVE  /\ pc' \in [Procs -> PCs]
         /\ child' \in [Procs -> Procs \cup {0}]
         /\ new' \in [Procs -> Spaces]
         /\ todo' \in [Procs -> Seq(Int)]
         /\ pc'[p] = "user" /\ child'[p] = 0 /\ new'[p] = NoSpace
         /\ \A q \in Procs \ {p} : pc'[q] = pc[q] /\ child'[q] = child[q] /\ new'[q] = new[q] /\ todo'[q] = todo[q]
<1>1. pc' \in [Procs -> PCs] /\ pc'[p] = "user" /\ \A q \in Procs \ {p} : pc'[q] = pc[q]
  BY DEF TypeOK, Leave, PCs
<1>2. child' \in [Procs -> Procs \cup {0}] /\ child'[p] = 0 /\ \A q \in Procs \ {p} : child'[q] = child[q]
  BY DEF TypeOK, Leave
<1>3. new' \in [Procs -> Spaces] /\ new'[p] = NoSpace /\ \A q \in Procs \ {p} : new'[q] = new[q]
  BY NoSpaceIs DEF TypeOK, Leave
<1>4. todo' \in [Procs -> Seq(Int)] /\ \A q \in Procs \ {p} : todo'[q] = todo[q]
  BY DEF TypeOK, Leave
<1> QED
  BY <1>1, <1>2, <1>3, <1>4

\* allocproc() takes an unused slot and a page for its kernel stack.
LEMMA ForkBeginKeeps ==
  ASSUME IndInv, NEW p \in Procs, ForkBegin(p)
  PROVE  IndInv' /\ OthersMem /\ \A q \in Procs : PgKept(q)
<1>0. TypeOK /\ Owned /\ LifeInv /\ \A q \in Procs : ProcOK(q)
  BY IndInvIs
<1>1. PICK np \in Procs, f \in Frames :
        /\ life[np] = "free"
        /\ Kalloc(f)
        /\ free' = free \ {f}
        /\ kstack' = [kstack EXCEPT ![np] = f]
        /\ life' = [life EXCEPT ![np] = "embryo"]
        /\ child' = [child EXCEPT ![p] = np]
  BY DEF ForkBegin
<1>2. life[p] = "live" /\ pc[p] = "user" /\ pc' = [pc EXCEPT ![p] = "fork_kvm"]
  BY DEF ForkBegin, Running
<1>3. /\ mem' = mem /\ pgdir' = pgdir /\ sz' = sz /\ stack_psize' = stack_psize /\ new' = new /\ todo' = todo
      /\ execed' = execed /\ panicked' = panicked
  BY DEF ForkBegin
<1>4. f \in free /\ f \in 0 .. NFRAMES /\ f # 0
  BY <1>0, <1>1, KallocIs
<1>5. TypeOK'
  BY <1>0, <1>1, <1>2, <1>3, <1>4 DEF TypeOK, PCs
<1>e. /\ kstack'[np] = f /\ life'[np] = "embryo" /\ child'[p] = np /\ pc'[p] = "fork_kvm" /\ np # p
      /\ \A q \in Procs \ {np} : kstack'[q] = kstack[q] /\ life'[q] = life[q]
      /\ \A q \in Procs \ {p} : child'[q] = child[q] /\ pc'[q] = pc[q]
  BY <1>0, <1>1, <1>2 DEF TypeOK
<1>6. kstack[np] = 0 /\ pgdir[np] = NoSpace /\ new[np] = NoSpace /\ pc[np] = "user" /\ child[np] = 0
  BY <1>0, <1>1 DEF LifeInv
<1>7. Owned'
  <2>1. "kstack" \in Kinds /\ -1 \in Places
    BY DEF Kinds, Places
  <2>2. At("kstack", np, -1) = 0 /\ At("kstack", np, -1)' = f
    BY <1>e, <1>6 DEF At
  <2>3. ASSUME NEW k \in Kinds, NEW q \in Procs, NEW i \in Places, k # "kstack" \/ q # np \/ i # -1
        PROVE  At(k, q, i)' = At(k, q, i)
    BY <1>3, <1>e, <2>3 DEF At, Slot, Kinds
  <2>6. Owned /\ free \subseteq Frames /\ f \in free /\ free' = free \ {f}
    BY <1>0, <1>1, <1>4 DEF TypeOK
  <2> QED
    <3>1. Allocated("kstack", np, -1, f)
      BY <2>2, <2>3, <2>6 DEF Allocated
    <3> QED
      BY <1>0, <1>1, <2>1, <2>6, <3>1, OwnedAlloc
<1>8. LifeInv'
  <2>1. \A q \in Procs : child[q] # np \/ np = 0
    BY <1>0, <1>1 DEF LifeInv
  <2>2. \A q, r \in Procs : child'[q] = child'[r] /\ child'[q] # 0 => q = r
    BY <1>0, <1>e, <2>1 DEF LifeInv
  <2>3. ASSUME NEW q \in Procs
        PROVE /\ life'[q] = "free" <=> kstack'[q] = 0
              /\ life'[q] \in {"free", "embryo"} => pgdir'[q] = NoSpace
              /\ life'[q] \in {"live", "zombie"} => pgdir'[q].dir # 0
              /\ pc'[q] # "user" => life'[q] = "live"
              /\ pc'[q] \in {"fork_copy", "exec"} => new'[q].dir # 0
              /\ pc'[q] \notin {"fork_copy", "exec"} => new'[q] = NoSpace
    BY <1>0, <1>1, <1>2, <1>3, <1>4, <1>e, <1>6 DEF LifeInv
  <2>4. ASSUME NEW q \in Procs
        PROVE /\ pc'[q] \in {"fork_kvm", "fork_copy"} => child'[q] \in Procs /\ life'[child'[q]] = "embryo"
              /\ pc'[q] \notin {"fork_kvm", "fork_copy"} => child'[q] = 0
    BY <1>0, <1>1, <1>2, <1>4, <1>e, <1>6 DEF LifeInv
  <2> QED
    BY <2>2, <2>3, <2>4 DEF LifeInv
<1>9. OthersMem
  BY <1>3 DEF OthersMem
<1>10. \A q \in Procs \ {p, np} : Same(q)
  BY <1>3, <1>e DEF Same
<1>11. ProcOK(p)' /\ PgKept(p)
  BY <1>0, <1>2, <1>3, <1>e, QuietKeeps
<1>12. ProcOK(np)' /\ PgKept(np)
  BY <1>1, <1>6, <1>e, IdleKeeps DEF PgKept
<1> QED
  BY <1>5, <1>7, <1>8, <1>9, <1>10, <1>11, <1>12, Combine

\* setupkvm() for a process that starts to build an address space.
LEMMA SetupkvmKeeps ==
  ASSUME IndInv, NEW p \in Procs, NEW then \in {"fork_copy", "exec"}, NEW pages \in Seq(Int),
         life[p] = "live",
         (pc[p] = "fork_kvm" /\ then = "fork_copy") \/ (pc[p] = "user" /\ then = "exec"),
         Setupkvm(p, then, pages)
  PROVE  /\ TypeOK' /\ Owned' /\ LifeInv' /\ OthersMem
         /\ \A q \in Procs \ {p} : Same(q)
         /\ PgKept(p)
         /\ pgdir' = pgdir /\ sz' = sz /\ stack_psize' = stack_psize /\ life' = life /\ execed' = execed
         /\ pc'[p] = then /\ todo'[p] = pages /\ DOMAIN new'[p].pg = {}
<1>0. TypeOK /\ Owned /\ LifeInv
  BY IndInvIs
<1>1. PICK f \in Frames :
        /\ Kalloc(f)
        /\ free' = free \ {f}
        /\ new' = [new EXCEPT ![p] = [NoSpace EXCEPT !.dir = f]]
  BY DEF Setupkvm
<1>2. pc' = [pc EXCEPT ![p] = then] /\ todo' = [todo EXCEPT ![p] = pages]
  BY DEF Setupkvm
<1>3. /\ mem' = mem /\ pgdir' = pgdir /\ sz' = sz /\ stack_psize' = stack_psize /\ kstack' = kstack /\ life' = life
      /\ execed' = execed /\ panicked' = panicked /\ child' = child
  BY DEF Setupkvm, proc
<1>4. f \in free /\ f \in Frames /\ f # 0
  BY <1>0, <1>1, KallocIs
<1> DEFINE s == [NoSpace EXCEPT !.dir = f]
<1>5. s \in Spaces /\ s.dir = f /\ DOMAIN s.pg = {} /\ \A i \in Places : Slot(s, i) = IF i = -1 THEN f ELSE 0
  BY <1>4, FreshIs
<1>6. new' = [new EXCEPT ![p] = s]
  BY <1>1
<1> HIDE DEF s
<1>7. new' \in [Procs -> Spaces] /\ new'[p] = s /\ \A q \in Procs \ {p} : new'[q] = new[q]
  BY <1>0, <1>5, <1>6 DEF TypeOK
<1>8. /\ pc' \in [Procs -> PCs] /\ pc'[p] = then /\ \A q \in Procs \ {p} : pc'[q] = pc[q]
      /\ todo' \in [Procs -> Seq(Int)] /\ todo'[p] = pages /\ \A q \in Procs \ {p} : todo'[q] = todo[q]
  BY <1>0, <1>2 DEF TypeOK, PCs
<1>9. TypeOK'
  BY <1>0, <1>1, <1>3, <1>7, <1>8 DEF TypeOK
<1>10. new[p] = NoSpace
  BY <1>0 DEF LifeInv
<1>11. Owned'
  <2>1. "new" \in Kinds /\ -1 \in Places
    BY DEF Kinds, Places
  <2>2. At("new", p, -1) = 0
    BY <1>10, <2>1, NoSpaceIs DEF At
  <2>3. At("new", p, -1)' = f
    BY <1>5, <1>7, <2>1 DEF At, Slot
  <2>4. ASSUME NEW k \in Kinds, NEW q \in Procs, NEW i \in Places, k # "new" \/ q # p \/ i # -1
        PROVE  At(k, q, i)' = At(k, q, i)
    <3>1. CASE q # p
      BY <1>3, <1>7, <3>1, AtSame
    <3>2. CASE q = p /\ k = "new"
      <4>1. At("new", p, i) = Slot(NoSpace, i) /\ At("new", p, i)' = Slot(s, i)
        BY <1>7, <1>10 DEF At, Slot
      <4> QED
        BY <2>4, <3>2, <4>1, <1>5, NoSpaceIs
    <3>3. CASE q = p /\ k # "new"
      BY <1>3, <3>3 DEF At, Slot, Kinds
    <3> QED
      BY <3>1, <3>2, <3>3
  <2>6. Owned /\ free \subseteq Frames /\ f \in free /\ free' = free \ {f}
    BY <1>0, <1>1, <1>4 DEF TypeOK
  <2> QED
    <3>1. Allocated("new", p, -1, f)
      BY <2>2, <2>3, <2>4, <2>6 DEF Allocated
    <3> QED
      BY <2>1, <2>6, <3>1, OwnedAlloc
<1>13. OthersMem
  BY <1>3 DEF OthersMem
<1>14. \A q \in Procs \ {p} : Same(q)
  BY <1>3, <1>7, <1>8 DEF Same
<1>12. LifeInv'
  <2>0. LifeOK(p) /\ ForkOK(p)
    BY <1>0, LifeInvIs
  <2>1. new'[p].dir # 0
    BY <1>4, <1>5, <1>7
  <2>2. LifeOK(p)'
    BY <1>3, <1>8, <2>0, <2>1 DEF LifeOK
  <2>3. ForkOK(p)'
    BY <1>3, <1>8, <2>0 DEF ForkOK
  <2> QED
    BY <1>0, <1>3, <1>14, <2>2, <2>3, LifeCombine
<1>15. PgKept(p)
  BY <1>3 DEF PgKept
<1> QED
  BY <1>3, <1>5, <1>7, <1>8, <1>9, <1>11, <1>12, <1>13, <1>14, <1>15

\* A turn of a loop that maps a page in the new address space.
LEMMA NextPageKeeps ==
  ASSUME IndInv, NEW p \in Procs, NEW v \in {Zeros, Junk, Data}, NEW i,
         pc[p] \in {"fork_copy", "exec"}, todo[p] # <<>>, Head(todo[p]) = i,
         i \in Pages, i \notin DOMAIN new[p].pg,
         NextPage(p, v)
  PROVE  /\ TypeOK' /\ Owned' /\ LifeInv' /\ OthersMem
         /\ \A q \in Procs \ {p} : Same(q)
         /\ PgKept(p)
         /\ pgdir' = pgdir /\ sz' = sz /\ stack_psize' = stack_psize /\ life' = life /\ execed' = execed /\ pc' = pc
         /\ todo'[p] = Tail(todo[p])
         /\ DOMAIN new'[p].pg = DOMAIN new[p].pg \cup {i}
         /\ \A j \in DOMAIN new[p].pg : new'[p].pg[j] = new[p].pg[j]
         /\ mem'[new'[p].pg[i]] = v
<1>0. TypeOK /\ Owned /\ LifeInv
  BY IndInvIs
<1>1. PICK f \in Frames :
        /\ Kalloc(f)
        /\ free' = free \ {f}
        /\ mem' = [mem EXCEPT ![f] = v]
        /\ new' = [new EXCEPT ![p] = Mapped(new[p], i, f)]
        /\ todo' = [todo EXCEPT ![p] = Tail(todo[p])]
  BY DEF NextPage
<1>3. /\ pgdir' = pgdir /\ sz' = sz /\ stack_psize' = stack_psize /\ kstack' = kstack /\ life' = life
      /\ execed' = execed /\ panicked' = panicked /\ child' = child /\ pc' = pc
  BY DEF NextPage, proc
<1>4. f \in free /\ f \in Frames /\ f # 0
  BY <1>0, <1>1, KallocIs
<1> DEFINE s == Mapped(new[p], i, f)
<1>5. /\ s \in Spaces
      /\ s.dir = new[p].dir
      /\ DOMAIN s.pg = DOMAIN new[p].pg \cup {i}
      /\ s.pg[i] = f
      /\ \A j \in DOMAIN new[p].pg : j # i => s.pg[j] = new[p].pg[j]
      /\ \A j \in Places : Slot(s, j) = IF j = i THEN f ELSE Slot(new[p], j)
  BY <1>0, <1>4, MappedIs DEF TypeOK
<1>6. new' = [new EXCEPT ![p] = s]
  BY <1>1
<1> HIDE DEF s
<1>7. new' \in [Procs -> Spaces] /\ new'[p] = s /\ \A q \in Procs \ {p} : new'[q] = new[q]
  BY <1>0, <1>5, <1>6 DEF TypeOK
<1>8. /\ todo' \in [Procs -> Seq(Int)] /\ todo'[p] = Tail(todo[p]) /\ \A q \in Procs \ {p} : todo'[q] = todo[q]
  <2>1. todo[p] \in Seq(Int) /\ todo[p] # <<>>
    BY <1>0 DEF TypeOK
  <2>2. Tail(todo[p]) \in Seq(Int)
    BY <2>1
  <2> QED
    BY <1>0, <1>1, <2>2 DEF TypeOK
<1>9. mem' \in [Frames -> {Zeros, Junk, Data}] /\ mem'[f] = v /\ \A g \in Frames \ {f} : mem'[g] = mem[g]
  BY <1>0, <1>1, <1>4 DEF TypeOK
<1>10. TypeOK'
  BY <1>0, <1>1, <1>3, <1>7, <1>8, <1>9 DEF TypeOK
<1>11. Owned'
  <2>1. "new" \in Kinds /\ i \in Places /\ i # -1
    BY DEF Kinds, Places, Pages
  <2>2. At("new", p, i) = 0
    BY <2>1 DEF At, Slot
  <2>3. \A j \in Places : At("new", p, j)' = Slot(s, j) /\ At("new", p, j) = Slot(new[p], j)
    BY <1>7 DEF At, Slot
  <2>4. ASSUME NEW k \in Kinds, NEW q \in Procs, NEW j \in Places, k # "new" \/ q # p \/ j # i
        PROVE  At(k, q, j)' = At(k, q, j)
    <3>1. CASE q # p
      BY <1>3, <1>7, <3>1, AtSame
    <3>2. CASE q = p /\ k = "new"
      BY <2>3, <2>4, <3>2, <1>5
    <3>3. CASE q = p /\ k # "new"
      BY <1>3, <3>3 DEF At, Slot, Kinds
    <3> QED
      BY <3>1, <3>2, <3>3
  <2>5. At("new", p, i)' = f
    BY <2>1, <2>3, <1>5
  <2>6. Owned /\ free \subseteq Frames /\ f \in free /\ free' = free \ {f}
    BY <1>0, <1>1, <1>4 DEF TypeOK
  <2> QED
    <3>1. Allocated("new", p, i, f)
      BY <2>2, <2>4, <2>5, <2>6 DEF Allocated
    <3> QED
      BY <2>1, <2>6, <3>1, OwnedAlloc
<1>13. OthersMem
  BY <1>4, <1>9 DEF OthersMem
<1>14. \A q \in Procs \ {p} : Same(q)
  BY <1>3, <1>7, <1>8 DEF Same
<1>12. LifeInv'
  <2>0. LifeOK(p) /\ ForkOK(p)
    BY <1>0, LifeInvIs
  <2>1. new'[p].dir = new[p].dir
    BY <1>5, <1>7
  <2>2. LifeOK(p)'
    BY <1>3, <2>0, <2>1 DEF LifeOK
  <2>3. ForkOK(p)'
    BY <1>3, <2>0 DEF ForkOK
  <2>4. life[p] = "live"
    BY <2>0 DEF LifeOK
  <2> QED
    BY <1>0, <1>3, <1>14, <2>2, <2>3, <2>4, LifeCombine
<1>15. PgKept(p)
  BY <1>3 DEF PgKept
<1>16. (\A j \in DOMAIN new[p].pg : new'[p].pg[j] = new[p].pg[j]) /\ mem'[new'[p].pg[i]] = v
  BY <1>5, <1>7, <1>9
<1> QED
  BY <1>3, <1>5, <1>7, <1>8, <1>10, <1>11, <1>12, <1>13, <1>14, <1>15, <1>16

\* The pages a copying or growing loop visits, in order.
LEMMA PageRangeIs ==
  ASSUME NEW l \in Int, NEW n \in Nat
  PROVE  LET r == PageRange(l, l + n) IN
           r \in Seq(Int) /\ Len(r) = n /\ \A i \in 1 .. n : r[i] = l + i - 1
<1>1. (l + n) - l = n
  OBVIOUS
<1>2. PageRange(l, l + n) = [i \in 1 .. n |-> l + i - 1]
  BY <1>1 DEF PageRange
<1> QED
  BY <1>2

\* A page in the same place before and after the step is free at neither
\* time, so it holds what it held.
LEMMA PlaceKept ==
  ASSUME Owned, Owned', OthersMem, NEW k \in Kinds, NEW q \in Procs, NEW i \in Places,
         At(k, q, i)' = At(k, q, i), At(k, q, i) # 0
  PROVE  mem'[At(k, q, i)] = mem[At(k, q, i)]
<1>1. At(k, q, i) \in Frames \ free
  BY DEF Owned
<1>2. At(k, q, i)' \in Frames \ free'
  BY DEF Owned, Frames
<1> QED
  BY <1>1, <1>2 DEF OthersMem

\* copyuvm() gets its directory, and every page of a process that has called
\* exec() is to come.
LEMMA ForkKvmKeeps ==
  ASSUME IndInv, NEW p \in Procs, ForkKvm(p)
  PROVE  IndInv' /\ OthersMem /\ \A q \in Procs : PgKept(q)
<1>0. TypeOK /\ ProcOK(p)
  BY IndInvIs
<1>1. life[p] = "live" /\ pc[p] = "fork_kvm" /\ Setupkvm(p, "fork_copy", PagesToCopy(p))
  BY DEF ForkKvm, Running
<1> DEFINE lo == PageRange(0, sz[p])
           hi == PageRange(TOP - stack_psize[p], TOP)
<1>2. sz[p] \in Nat /\ stack_psize[p] \in Nat
  BY <1>0 DEF TypeOK
<1>3. lo \in Seq(Int) /\ Len(lo) = sz[p] /\ \A n \in 1 .. sz[p] : lo[n] = n - 1
  BY <1>2 DEF PageRange
<1>4. hi \in Seq(Int) /\ Len(hi) = stack_psize[p] /\ \A n \in 1 .. stack_psize[p] : hi[n] = TOP - stack_psize[p] + n - 1
  <2>1. PICK l \in Int : l = TOP - stack_psize[p]
    BY <1>2
  <2>2. hi = PageRange(l, l + stack_psize[p])
    BY <1>2, <2>1
  <2> HIDE DEF hi
  <2> QED
    BY <1>2, <2>1, <2>2, PageRangeIs
<1> HIDE DEF lo, hi
<1>5. PagesToCopy(p) = lo \o hi
  BY DEF PagesToCopy, lo, hi
<1>6. /\ lo \o hi \in Seq(Int)
      /\ Len(lo \o hi) = sz[p] + stack_psize[p]
      /\ \A n \in 1 .. sz[p] : (lo \o hi)[n] = n - 1
      /\ \A n \in 1 .. stack_psize[p] : (lo \o hi)[sz[p] + n] = TOP - stack_psize[p] + n - 1
  <2>0. lo \in Seq(Int) /\ hi \in Seq(Int)
    BY <1>3, <1>4
  <2>1. lo \o hi \in Seq(Int) /\ Len(lo \o hi) = sz[p] + stack_psize[p]
    <3>1. lo \o hi \in Seq(Int) /\ Len(lo \o hi) = Len(lo) + Len(hi)
      BY <2>0, ConcatProperties
    <3> QED
      BY <1>3, <1>4, <3>1
  <2>2. \A n \in 1 .. sz[p] + stack_psize[p] : (lo \o hi)[n] = IF n <= sz[p] THEN lo[n] ELSE hi[n - sz[p]]
    <3>1. \A n \in 1 .. Len(lo) + Len(hi) : (lo \o hi)[n] = IF n <= Len(lo) THEN lo[n] ELSE hi[n - Len(lo)]
      BY <2>0, ConcatProperties
    <3>2. Len(lo) = sz[p] /\ Len(hi) = stack_psize[p]
      BY <1>3, <1>4
    <3> QED
      BY <3>1, <3>2
  <2>3. \A n \in 1 .. sz[p] : (lo \o hi)[n] = n - 1
    BY <1>2, <1>3, <2>2
  <2>4. ASSUME NEW n \in 1 .. stack_psize[p] PROVE (lo \o hi)[sz[p] + n] = TOP - stack_psize[p] + n - 1
    <3>1. PICK m \in 1 .. sz[p] + stack_psize[p] : m = sz[p] + n
      BY <1>2
    <3>2. ~(m <= sz[p]) /\ m - sz[p] = n
      BY <1>2, <3>1
    <3>3. (lo \o hi)[m] = hi[m - sz[p]]
      BY <2>2, <3>2
    <3> QED
      BY <1>4, <3>1, <3>2, <3>3
  <2> QED
    BY <2>1, <2>3, <2>4
<1>7. /\ TypeOK' /\ Owned' /\ LifeInv' /\ OthersMem
      /\ \A q \in Procs \ {p} : Same(q)
      /\ PgKept(p)
      /\ pgdir' = pgdir /\ sz' = sz /\ stack_psize' = stack_psize /\ life' = life /\ execed' = execed
      /\ pc'[p] = "fork_copy" /\ todo'[p] = lo \o hi /\ DOMAIN new'[p].pg = {}
  BY <1>1, <1>5, <1>6, SetupkvmKeeps
<1>8. TodoOK(p)' /\ CopyOK(p)'
  BY <1>7 DEF TodoOK, CopyOK
<1>9. MinSize # 0 => StackOK(p)'
  BY <1>0, <1>1, <1>7 DEF ProcOK, StackOK, Layout
<1>10. ASSUME MinSize # 0, execed[p] = 1, NEW i \in DOMAIN pgdir[p].pg
       PROVE  \E n \in 1 .. Len(todo'[p]) : todo'[p][n] = i
  <2>1. i \in (0 .. sz[p] - 1) \cup (TOP - stack_psize[p] .. TOP - 1)
    BY <1>0, <1>1, <1>10 DEF ProcOK, StackOK, Layout
  <2>2. CASE i \in 0 .. sz[p] - 1
    <3>1. i + 1 \in 1 .. sz[p] /\ i + 1 \in 1 .. sz[p] + stack_psize[p] /\ (i + 1) - 1 = i
      BY <1>2, <2>2
    <3>2. (lo \o hi)[i + 1] = i
      BY <1>6, <3>1
    <3> QED
      BY <1>6, <1>7, <3>1, <3>2
  <2>3. CASE i \in TOP - stack_psize[p] .. TOP - 1
    <3> DEFINE n == i - (TOP - stack_psize[p]) + 1
    <3>1. n \in 1 .. stack_psize[p] /\ sz[p] + n \in 1 .. sz[p] + stack_psize[p] /\ TOP - stack_psize[p] + n - 1 = i
      BY <1>2, <2>3
    <3>2. (lo \o hi)[sz[p] + n] = i
      BY <1>6, <3>1
    <3> HIDE DEF n
    <3> QED
      BY <1>6, <1>7, <3>1, <3>2
  <2> QED
    BY <2>1, <2>2, <2>3
<1>11. MinSize # 0 => ComingOK(p)'
  BY <1>7, <1>10 DEF ComingOK
<1>12. ProcOK(p)'
  BY <1>8, <1>9, <1>11 DEF ProcOK
<1> QED
  BY <1>7, <1>12, Combine

\* copyuvm() copies a page.
LEMMA ForkCopyKeeps ==
  ASSUME IndInv, NEW p \in Procs, ForkCopy(p)
  PROVE  IndInv' /\ OthersMem /\ \A q \in Procs : PgKept(q)
<1>0. TypeOK /\ Owned /\ ProcOK(p)
  BY IndInvIs
<1> DEFINE i == Head(todo[p])
           v == mem[pgdir[p].pg[i]]
<1>1. /\ life[p] = "live" /\ pc[p] = "fork_copy" /\ todo[p] # <<>>
      /\ i \in DOMAIN pgdir[p].pg /\ i \notin DOMAIN new[p].pg
      /\ NextPage(p, v)
  BY DEF ForkCopy, Running, CanCopy, CopyOf
<1>2. pgdir[p] \in Spaces /\ new[p] \in Spaces /\ todo[p] \in Seq(Int)
  BY <1>0 DEF TypeOK
<1>3. DOMAIN pgdir[p].pg \subseteq Pages /\ \A j \in DOMAIN pgdir[p].pg : pgdir[p].pg[j] \in Frames
  BY <1>2, SpaceIs
<1>4. v \in {Zeros, Junk, Data}
  BY <1>0, <1>1, <1>3 DEF TypeOK
<1>5. PICK x : x = i
  OBVIOUS
<1>6. PICK w : w = v
  OBVIOUS
<1>7. /\ TypeOK' /\ Owned' /\ LifeInv' /\ OthersMem
      /\ \A q \in Procs \ {p} : Same(q)
      /\ PgKept(p)
      /\ pgdir' = pgdir /\ sz' = sz /\ stack_psize' = stack_psize /\ life' = life /\ execed' = execed /\ pc' = pc
      /\ todo'[p] = Tail(todo[p])
      /\ DOMAIN new'[p].pg = DOMAIN new[p].pg \cup {x}
      /\ \A j \in DOMAIN new[p].pg : new'[p].pg[j] = new[p].pg[j]
      /\ mem'[new'[p].pg[x]] = w
  <2>1. /\ w \in {Zeros, Junk, Data} /\ Head(todo[p]) = x /\ x \in Pages /\ x \notin DOMAIN new[p].pg
        /\ NextPage(p, w) /\ pc[p] \in {"fork_copy", "exec"} /\ todo[p] # <<>>
    BY <1>1, <1>3, <1>4, <1>5, <1>6
  <2> HIDE DEF i, v
  <2> QED
    BY <2>1, NextPageKeeps
<1>8. TodoOK(p)'
  BY <1>1, <1>7 DEF TodoOK
<1>9. \A j \in DOMAIN pgdir[p].pg : mem'[pgdir[p].pg[j]] = mem[pgdir[p].pg[j]]
  <2> SUFFICES ASSUME NEW j \in DOMAIN pgdir[p].pg PROVE mem'[pgdir[p].pg[j]] = mem[pgdir[p].pg[j]]
    OBVIOUS
  <2>1. j \in Places /\ "pgdir" \in Kinds
    BY <1>3 DEF Pages, Places, Kinds
  <2>2. At("pgdir", p, j) = pgdir[p].pg[j] /\ At("pgdir", p, j) # 0
    BY <1>2, <2>1, MappedAt
  <2>3. At("pgdir", p, j)' = At("pgdir", p, j)
    BY <1>7 DEF At, Slot
  <2>4. Owned /\ Owned' /\ OthersMem
    BY <1>0, <1>7
  <2>5. mem'[At("pgdir", p, j)] = mem[At("pgdir", p, j)]
    BY <2>1, <2>2, <2>3, <2>4, PlaceKept
  <2> QED
    BY <2>2, <2>5
<1>10. \A j \in DOMAIN new[p].pg : mem'[new[p].pg[j]] = mem[new[p].pg[j]]
  <2> SUFFICES ASSUME NEW j \in DOMAIN new[p].pg PROVE mem'[new[p].pg[j]] = mem[new[p].pg[j]]
    OBVIOUS
  <2>1. j \in Pages
    BY <1>2, SpaceIs
  <2>2. j \in Places /\ j # -1 /\ "new" \in Kinds
    BY <2>1 DEF Pages, Places, Kinds
  <2>3. At("new", p, j) = new[p].pg[j] /\ At("new", p, j) # 0
    BY <1>2, <2>2, MappedAt
  <2>4. At("new", p, j)' = new'[p].pg[j]
    BY <1>7, <2>2 DEF At, Slot
  <2>5. At("new", p, j)' = At("new", p, j)
    BY <1>7, <2>3, <2>4
  <2>6. Owned /\ Owned' /\ OthersMem
    BY <1>0, <1>7
  <2>7. mem'[At("new", p, j)] = mem[At("new", p, j)]
    BY <2>2, <2>3, <2>5, <2>6, PlaceKept
  <2> QED
    BY <2>3, <2>7
<1>11. CopyOK(p)'
  <2> SUFFICES ASSUME NEW j \in DOMAIN new[p].pg \cup {x}
               PROVE  j \in DOMAIN pgdir[p].pg /\ mem'[new'[p].pg[j]] = mem'[pgdir[p].pg[j]]
    BY <1>7 DEF CopyOK
  <2>1. CASE j = x
    BY <1>1, <1>5, <1>6, <1>7, <1>9, <2>1
  <2>2. CASE j \in DOMAIN new[p].pg
    <3>1. j \in DOMAIN pgdir[p].pg /\ mem[new[p].pg[j]] = mem[pgdir[p].pg[j]]
      BY <1>0, <1>1, <2>2 DEF ProcOK, CopyOK
    <3> QED
      BY <1>7, <1>9, <1>10, <2>2, <3>1
  <2> QED
    BY <2>1, <2>2
<1>12. MinSize # 0 => StackOK(p)'
  BY <1>0, <1>1, <1>7 DEF ProcOK, StackOK, Layout
<1>13. MinSize # 0 => ComingOK(p)'
  <2> SUFFICES ASSUME MinSize # 0, execed[p] = 1, NEW j \in DOMAIN pgdir[p].pg
               PROVE  \/ j \in DOMAIN new[p].pg \cup {x}
                      \/ \E n \in 1 .. Len(Tail(todo[p])) : Tail(todo[p])[n] = j
    BY <1>7 DEF ComingOK
  <2>1. CASE j \notin DOMAIN new[p].pg
    <3>1. PICK n \in 1 .. Len(todo[p]) : todo[p][n] = j
      BY <1>0, <1>1, <2>1 DEF ProcOK, ComingOK
    <3>2. CASE n = 1
      BY <1>2, <1>5, <3>1, <3>2
    <3>3. CASE n # 1
      <4>1. n - 1 \in 1 .. Len(Tail(todo[p])) /\ Tail(todo[p])[n - 1] = todo[p][n]
        BY <1>1, <1>2, <3>3
      <4> QED
        BY <3>1, <4>1
    <3> QED
      BY <3>2, <3>3
  <2> QED
    BY <2>1
<1>14. ProcOK(p)'
  BY <1>8, <1>11, <1>12, <1>13 DEF ProcOK
<1> QED
  BY <1>7, <1>14, Combine

\* A step that changes neither memory nor processes, panic() for one.
LEMMA PanicKeeps ==
  ASSUME IndInv, panicked' \in {0, 1}, UNCHANGED <<free, mem, proc, pgdir, pc, child, new, todo>>
  PROVE  IndInv' /\ OthersMem /\ \A q \in Procs : PgKept(q)
<1>0. TypeOK /\ Owned /\ LifeInv /\ \A q \in Procs : ProcOK(q)
  BY IndInvIs
<1>1. /\ free' = free /\ mem' = mem /\ life' = life /\ kstack' = kstack /\ sz' = sz
      /\ stack_psize' = stack_psize /\ execed' = execed /\ pgdir' = pgdir /\ pc' = pc /\ child' = child
      /\ new' = new /\ todo' = todo
  BY DEF proc
<1>2. TypeOK'
  BY <1>0, <1>1 DEF TypeOK
<1>3. \A k \in Kinds, q \in Procs, i \in Places : At(k, q, i)' = At(k, q, i)
  BY <1>1, AtSame
<1>4. Owned'
  BY <1>0, <1>1, <1>3, OwnedSame
<1>5. LifeInv'
  BY <1>0, <1>1 DEF LifeInv
<1>6. \A q \in Procs : Same(q)
  BY <1>1 DEF Same
<1>7. OthersMem
  BY <1>1 DEF OthersMem
<1>8. 1 \in Procs
  OBVIOUS
<1>9. DataKept(1)
  BY <1>1 DEF DataKept
<1>10. ProcOK(1)' /\ PgKept(1)
  BY <1>0, <1>6, <1>8, <1>9, SameKeeps
<1> QED
  BY <1>2, <1>4, <1>5, <1>6, <1>7, <1>8, <1>10, Combine

\* fork() runs out of memory.
LEMMA ForkFailsKeeps ==
  ASSUME IndInv, NEW p \in Procs, ForkFails(p)
  PROVE  IndInv' /\ OthersMem /\ \A q \in Procs : PgKept(q)
<1>0. TypeOK /\ Owned /\ LifeInv /\ \A q \in Procs : ProcOK(q) /\ LifeOK(q) /\ ForkOK(q)
  BY IndInvIs, LifeInvIs
<1>1. /\ life[p] = "live" /\ pc[p] \in {"fork_kvm", "fork_copy"}
      /\ Kfree(Freevm(new[p]) \cup {kstack[child[p]]})
      /\ kstack' = [kstack EXCEPT ![child[p]] = 0]
      /\ life' = [life EXCEPT ![child[p]] = "free"]
      /\ Leave(p)
  BY DEF ForkFails, Running, FailFrees
<1>2. pgdir' = pgdir /\ sz' = sz /\ stack_psize' = stack_psize /\ execed' = execed /\ panicked' = panicked
  BY DEF ForkFails
<1>3. PICK c \in Procs : c = child[p] /\ life[c] = "embryo"
  BY <1>0, <1>1 DEF ForkOK
<1>4. c # p /\ pc[c] = "user" /\ new[c] = NoSpace /\ pgdir[c] = NoSpace /\ child[c] = 0 /\ kstack[c] # 0
  BY <1>0, <1>1, <1>3 DEF LifeOK, ForkOK
<1>5. new[p] \in Spaces /\ kstack[c] \in Frames
  BY <1>0, <1>4 DEF TypeOK, Frames
<1>6. PICK S \in SUBSET Frames : S = Freevm(new[p]) \cup {kstack[c]}
  BY <1>5, FreevmIs
<1>7. /\ free' = free \cup S /\ free' \subseteq Frames
      /\ mem' \in [Frames -> {Zeros, Junk, Data}]
      /\ OthersMem
  BY <1>0, <1>1, <1>3, <1>6, KfreeIs
<1>8. /\ pc' \in [Procs -> PCs]
      /\ child' \in [Procs -> Procs \cup {0}]
      /\ new' \in [Procs -> Spaces]
      /\ todo' \in [Procs -> Seq(Int)]
      /\ pc'[p] = "user" /\ child'[p] = 0 /\ new'[p] = NoSpace
      /\ \A q \in Procs \ {p} : pc'[q] = pc[q] /\ child'[q] = child[q] /\ new'[q] = new[q] /\ todo'[q] = todo[q]
  BY <1>0, <1>1, LeaveIs
<1>9. /\ kstack'[c] = 0 /\ life'[c] = "free"
      /\ \A q \in Procs \ {c} : kstack'[q] = kstack[q] /\ life'[q] = life[q]
  BY <1>0, <1>1, <1>3 DEF TypeOK
<1>10. TypeOK'
  <2>1. kstack' \in [Procs -> 0 .. NFRAMES] /\ life' \in [Procs -> {"free", "embryo", "live", "zombie"}]
    BY <1>0, <1>1, <1>3 DEF TypeOK
  <2> QED
    BY <1>0, <1>2, <1>7, <1>8, <2>1 DEF TypeOK
<1>11. Owned'
  <2>0. "kstack" \in Kinds /\ "new" \in Kinds /\ -1 \in Places
    BY DEF Kinds, Places
  <2>1. \A i \in Places : At("new", p, i) = Slot(new[p], i) /\ At("new", p, i)' = 0
    BY <1>8, NoSpaceIs DEF At, Slot
  <2>2. At("kstack", c, -1) = kstack[c] /\ At("kstack", c, -1)' = 0
    BY <1>9 DEF At
  <2>3. ASSUME NEW k \in Kinds, NEW q \in Procs, NEW i \in Places,
               ~(k = "new" /\ q = p), ~(k = "kstack" /\ q = c /\ i = -1)
        PROVE  At(k, q, i)' = At(k, q, i)
    BY <2>3, <1>2, <1>8, <1>9 DEF At, Slot, Kinds
  <2>4. \A k \in Kinds, q \in Procs, i \in Places :
          At(k, q, i)' = At(k, q, i) \/ (At(k, q, i)' = 0 /\ At(k, q, i) \in S \cup {0})
    BY <1>5, <1>6, <2>1, <2>2, <2>3, FreevmIs
  <2>5. ASSUME NEW f \in S
        PROVE  \E k \in Kinds, q \in Procs, i \in Places : At(k, q, i) = f /\ At(k, q, i)' = 0
    <3>1. CASE f = kstack[c]
      BY <2>0, <2>2, <3>1
    <3>2. CASE f \in Freevm(new[p])
      <4>1. PICK i \in Places : Slot(new[p], i) = f
        BY <1>5, <3>2, FreevmIs
      <4> QED
        BY <2>0, <2>1, <4>1
    <3> QED
      BY <1>6, <3>1, <3>2
  <2> QED
    <3>1. Freed(S)
      BY <1>7, <2>4, <2>5 DEF Freed
    <3> QED
      BY <1>0, <1>6, <1>7, <3>1, OwnedFree
<1>12. \A q \in Procs \ {p, c} : Same(q)
  BY <1>2, <1>8, <1>9 DEF Same
<1>13. LifeInv'
  <2>1. LifeOK(p)' /\ ForkOK(p)'
    BY <1>0, <1>1, <1>2, <1>4, <1>8, <1>9 DEF LifeOK, ForkOK
  <2>2. LifeOK(c)' /\ ForkOK(c)'
    BY <1>2, <1>4, <1>8, <1>9 DEF LifeOK, ForkOK
  <2> QED
    BY <1>0, <1>1, <1>3, <1>4, <1>8, <1>12, <2>1, <2>2, LifeCombine
<1>14. ProcOK(p)' /\ PgKept(p)
  BY <1>0, <1>1, <1>2, <1>4, <1>8, <1>9, QuietKeeps
<1>15. ProcOK(c)' /\ PgKept(c)
  BY <1>3, <1>4, <1>8, <1>9, IdleKeeps DEF PgKept
<1> QED
  BY <1>7, <1>10, <1>11, <1>12, <1>13, <1>14, <1>15, Combine

\* The child gets the copy.
LEMMA ForkDoneKeeps ==
  ASSUME IndInv, NEW p \in Procs, ForkDone(p)
  PROVE  IndInv' /\ OthersMem /\ \A q \in Procs : PgKept(q)
<1>0. TypeOK /\ Owned /\ LifeInv /\ \A q \in Procs : ProcOK(q) /\ LifeOK(q) /\ ForkOK(q)
  BY IndInvIs, LifeInvIs
<1>1. /\ life[p] = "live" /\ pc[p] = "fork_copy"
      /\ pgdir' = [pgdir EXCEPT ![child[p]] = new[p]]
      /\ sz' = [sz EXCEPT ![child[p]] = sz[p]]
      /\ life' = [life EXCEPT ![child[p]] = "live"]
      /\ execed' = [execed EXCEPT ![child[p]] = 0]
      /\ Leave(p)
  BY DEF ForkDone, Running
<1>2. free' = free /\ mem' = mem /\ kstack' = kstack /\ stack_psize' = stack_psize /\ panicked' = panicked
  BY DEF ForkDone
<1>3. PICK c \in Procs : c = child[p] /\ life[c] = "embryo"
  BY <1>0, <1>1 DEF ForkOK
<1>4. c # p /\ pc[c] = "user" /\ new[c] = NoSpace /\ pgdir[c] = NoSpace /\ child[c] = 0 /\ kstack[c] # 0 /\ new[p].dir # 0
  BY <1>0, <1>1, <1>3 DEF LifeOK, ForkOK
<1>5. new[p] \in Spaces
  BY <1>0 DEF TypeOK
<1>8. /\ pc' \in [Procs -> PCs]
      /\ child' \in [Procs -> Procs \cup {0}]
      /\ new' \in [Procs -> Spaces]
      /\ todo' \in [Procs -> Seq(Int)]
      /\ pc'[p] = "user" /\ child'[p] = 0 /\ new'[p] = NoSpace
      /\ \A q \in Procs \ {p} : pc'[q] = pc[q] /\ child'[q] = child[q] /\ new'[q] = new[q] /\ todo'[q] = todo[q]
  BY <1>0, <1>1, LeaveIs
<1>9. /\ pgdir'[c] = new[p] /\ life'[c] = "live" /\ execed'[c] = 0
      /\ \A q \in Procs \ {c} : pgdir'[q] = pgdir[q] /\ sz'[q] = sz[q] /\ life'[q] = life[q] /\ execed'[q] = execed[q]
  BY <1>0, <1>1, <1>3 DEF TypeOK
<1>10. TypeOK'
  <2>1. pgdir' \in [Procs -> Spaces] /\ sz' \in [Procs -> 0 .. MaxSize]
    BY <1>0, <1>1, <1>3, <1>5 DEF TypeOK
  <2>2. life' \in [Procs -> {"free", "embryo", "live", "zombie"}] /\ execed' \in [Procs -> {0, 1}]
    BY <1>0, <1>1, <1>3 DEF TypeOK
  <2> QED
    BY <1>0, <1>2, <1>8, <2>1, <2>2 DEF TypeOK
<1>11. Owned'
  <2>1. \A i \in Places : At("pgdir", c, i)' = At("new", p, i) /\ At("new", p, i)' = 0
    BY <1>8, <1>9, NoSpaceIs DEF At, Slot
  <2>2. \A i \in Places : At("pgdir", c, i) = 0
    BY <1>4, NoSpaceIs DEF At
  <2>3. \A k \in Kinds, q \in Procs, i \in Places :
          (k = "pgdir" => q # c) /\ (k = "new" => q # p) => At(k, q, i)' = At(k, q, i)
    BY <1>2, <1>8, <1>9 DEF At, Slot, Kinds
  <2>4. PICK S \in SUBSET Frames : S = {}
    OBVIOUS
  <2>5. /\ free' = free \cup S
        /\ \A i \in Places : At("pgdir", c, i) # 0 => At("pgdir", c, i) \in S
        /\ \A f \in S : \E i \in Places : At("pgdir", c, i) = f
    BY <1>2, <2>2, <2>4
  <2>6. Owned
    BY <1>0
  <2> QED
    <3>1. Moved(p, c, S)
      BY <2>1, <2>3, <2>5 DEF Moved
    <3> QED
      BY <2>6, <3>1, OwnedMove
<1>12. \A q \in Procs \ {p, c} : Same(q)
  BY <1>2, <1>8, <1>9 DEF Same
<1>13. LifeInv'
  <2>1. LifeOK(p)' /\ ForkOK(p)'
    BY <1>0, <1>1, <1>2, <1>4, <1>8, <1>9 DEF LifeOK, ForkOK
  <2>2. LifeOK(c)' /\ ForkOK(c)'
    BY <1>0, <1>2, <1>4, <1>8, <1>9 DEF LifeOK, ForkOK
  <2> QED
    BY <1>0, <1>1, <1>3, <1>4, <1>8, <1>12, <2>1, <2>2, LifeCombine
<1>14. ProcOK(p)' /\ PgKept(p)
  BY <1>0, <1>1, <1>2, <1>4, <1>8, <1>9, QuietKeeps
<1>15. ProcOK(c)' /\ PgKept(c)
  BY <1>3, <1>4, <1>8, <1>9, IdleKeeps DEF PgKept
<1>16. OthersMem
  BY <1>2 DEF OthersMem
<1> QED
  BY <1>10, <1>11, <1>12, <1>13, <1>14, <1>15, <1>16, Combine

-----------------------------------------------------------------------------
\* exec()

\* exec() gets its directory.
LEMMA ExecKvmKeeps ==
  ASSUME IndInv, NEW p \in Procs, ExecKvm(p)
  PROVE  IndInv' /\ OthersMem /\ \A q \in Procs : PgKept(q)
<1>0. TypeOK /\ ProcOK(p)
  BY IndInvIs
<1>1. PICK n \in 1 .. MaxSize :
        life[p] = "live" /\ pc[p] = "user" /\ Setupkvm(p, "exec", PageRange(0, n) \o <<TOP - 1>>)
  BY DEF ExecKvm, Running
<1> DEFINE lo == PageRange(0, n)
<1>2. lo \in Seq(Int) /\ Len(lo) = n /\ \A i \in 1 .. n : lo[i] = i - 1
  BY DEF PageRange
<1>3. <<TOP - 1>> \in Seq(Int) /\ Len(<<TOP - 1>>) = 1 /\ <<TOP - 1>>[1] = TOP - 1
  OBVIOUS
<1>4. PICK pages : pages = lo \o <<TOP - 1>>
  OBVIOUS
<1> HIDE DEF lo
<1>5. pages \in Seq(Int) /\ Len(pages) = n + 1 /\ \A i \in 1 .. n + 1 : pages[i] = IF i <= n THEN lo[i] ELSE <<TOP - 1>>[i - n]
  <2>1. /\ pages \in Seq(Int) /\ Len(pages) = Len(lo) + Len(<<TOP - 1>>)
        /\ \A i \in 1 .. Len(lo) + Len(<<TOP - 1>>) : pages[i] = IF i <= Len(lo) THEN lo[i] ELSE <<TOP - 1>>[i - Len(lo)]
    BY <1>2, <1>3, <1>4, ConcatProperties
  <2> QED
    BY <1>2, <1>3, <2>1
<1>6. (\A i \in 1 .. n : pages[i] = i - 1) /\ pages[n + 1] = TOP - 1
  BY <1>2, <1>3, <1>5
<1>7. /\ TypeOK' /\ Owned' /\ LifeInv' /\ OthersMem
      /\ \A q \in Procs \ {p} : Same(q)
      /\ PgKept(p)
      /\ pgdir' = pgdir /\ sz' = sz /\ stack_psize' = stack_psize /\ life' = life /\ execed' = execed
      /\ pc'[p] = "exec" /\ todo'[p] = pages /\ DOMAIN new'[p].pg = {}
  <2>1. Setupkvm(p, "exec", pages)
    BY <1>1, <1>4 DEF lo
  <2> QED
    BY <1>1, <1>5, <2>1, SetupkvmKeeps
<1>8. Loading(p, 0, n)'
  BY <1>5, <1>6, <1>7 DEF Loading
<1>9. TodoOK(p)'
  <2>1. 0 \in 0 .. n
    OBVIOUS
  <2> QED
    BY <1>7, <1>8, <2>1 DEF TodoOK
<1>10. MinSize # 0 => StackOK(p)'
  BY <1>0, <1>1, <1>7 DEF ProcOK, StackOK, Layout
<1>11. CopyOK(p)' /\ ComingOK(p)'
  BY <1>7 DEF CopyOK, ComingOK
<1>12. ProcOK(p)'
  BY <1>9, <1>10, <1>11 DEF ProcOK
<1> QED
  BY <1>7, <1>12, Combine

\* exec() loads a page.
LEMMA ExecLoadKeeps ==
  ASSUME IndInv, NEW p \in Procs, ExecLoad(p)
  PROVE  IndInv' /\ OthersMem /\ \A q \in Procs : PgKept(q)
<1>0. TypeOK /\ ProcOK(p)
  BY IndInvIs
<1>1. life[p] = "live" /\ pc[p] = "exec" /\ todo[p] # <<>> /\ NextPage(p, Data)
  BY DEF ExecLoad, Running
<1>2. PICK n \in 1 .. MaxSize : \E h \in 0 .. n : Loading(p, h, n)
  BY <1>0, <1>1 DEF ProcOK, TodoOK, Loaded
<1>3. PICK h \in 0 .. n : Loading(p, h, n)
  BY <1>2
<1>4. /\ Len(todo[p]) = n - h + 1
      /\ \A i \in 1 .. n - h : todo[p][i] = h + i - 1
      /\ todo[p][n - h + 1] = TOP - 1
      /\ DOMAIN new[p].pg = 0 .. h - 1
      /\ todo[p] \in Seq(Int)
  BY <1>0, <1>3 DEF Loading, TypeOK
<1>5. PICK x : x = Head(todo[p])
  OBVIOUS
<1>6. x = IF h = n THEN TOP - 1 ELSE h
  <2>1. x = todo[p][1]
    BY <1>1, <1>4, <1>5
  <2>2. CASE h = n
    <3>1. n - h + 1 = 1
      BY <2>2
    <3> QED
      BY <1>4, <2>1, <2>2, <3>1
  <2>3. CASE h # n
    <3>1. 1 \in 1 .. n - h /\ h + 1 - 1 = h
      BY <2>3
    <3> QED
      BY <1>4, <2>1, <2>3, <3>1
  <2> QED
    BY <2>2, <2>3
<1>7. x \in Pages /\ x \notin DOMAIN new[p].pg
  BY <1>4, <1>6 DEF Pages
<1>8. /\ TypeOK' /\ Owned' /\ LifeInv' /\ OthersMem
      /\ \A q \in Procs \ {p} : Same(q)
      /\ PgKept(p)
      /\ pgdir' = pgdir /\ sz' = sz /\ stack_psize' = stack_psize /\ life' = life /\ execed' = execed /\ pc' = pc
      /\ todo'[p] = Tail(todo[p])
      /\ DOMAIN new'[p].pg = DOMAIN new[p].pg \cup {x}
  <2>1. pc[p] \in {"fork_copy", "exec"} /\ Data \in {Zeros, Junk, Data} /\ Head(todo[p]) = x
    BY <1>1, <1>5
  <2> QED
    BY <1>1, <1>7, <2>1, NextPageKeeps
<1>9. TodoOK(p)'
  <2>1. CASE h = n
    <3>1. todo'[p] = <<>>
      <4>1. Len(todo[p]) = 1
        BY <1>4, <2>1
      <4>2. Tail(todo[p]) \in Seq(Int) /\ Len(Tail(todo[p])) = 0
        BY <1>1, <1>4, <4>1
      <4> QED
        BY <1>8, <4>2, EmptySeq
    <3>2. DOMAIN new'[p].pg = (0 .. n - 1) \cup {TOP - 1}
      BY <1>4, <1>6, <1>8, <2>1
    <3>3. Loaded(p, n)'
      BY <3>1, <3>2 DEF Loaded
    <3> QED
      BY <1>1, <1>8, <3>3 DEF TodoOK
  <2>2. CASE h # n
    <3>1. PICK k \in 0 .. n : k = h + 1
      BY <2>2
    <3>2. Len(todo'[p]) = n - k + 1 /\ \A i \in 1 .. n - k + 1 : todo'[p][i] = todo[p][i + 1]
      BY <1>1, <1>4, <1>8, <3>1
    <3>3. (\A i \in 1 .. n - k : todo'[p][i] = k + i - 1) /\ todo'[p][n - k + 1] = TOP - 1
      <4>1. ASSUME NEW i \in 1 .. n - k PROVE todo'[p][i] = k + i - 1
        <5>1. i + 1 \in 1 .. n - h /\ h + (i + 1) - 1 = k + i - 1 /\ i \in 1 .. n - k + 1
          BY <3>1
        <5> QED
          BY <1>4, <3>2, <5>1
      <4>2. n - k + 1 \in 1 .. n - k + 1 /\ n - k + 1 + 1 = n - h + 1
        BY <3>1
      <4>3. todo'[p][n - k + 1] = todo[p][n - k + 1 + 1]
        BY <3>2, <4>2
      <4> QED
        BY <1>4, <4>1, <4>2, <4>3
    <3>4. DOMAIN new'[p].pg = 0 .. k - 1
      BY <1>4, <1>6, <1>8, <2>2, <3>1
    <3>5. Loading(p, k, n)'
      BY <3>2, <3>3, <3>4 DEF Loading
    <3> QED
      BY <1>1, <1>8, <3>5 DEF TodoOK
  <2> QED
    BY <2>1, <2>2
<1>10. MinSize # 0 => StackOK(p)'
  BY <1>0, <1>1, <1>8 DEF ProcOK, StackOK, Layout
<1>11. CopyOK(p)' /\ ComingOK(p)'
  BY <1>1, <1>8 DEF CopyOK, ComingOK
<1>12. ProcOK(p)'
  BY <1>9, <1>10, <1>11 DEF ProcOK
<1> QED
  BY <1>8, <1>12, Combine

\* exec() gives up.
LEMMA ExecFailsKeeps ==
  ASSUME IndInv, NEW p \in Procs, ExecFails(p)
  PROVE  IndInv' /\ OthersMem /\ \A q \in Procs : PgKept(q)
<1>0. TypeOK /\ Owned /\ LifeInv /\ ProcOK(p) /\ LifeOK(p) /\ ForkOK(p)
  BY IndInvIs, LifeInvIs
<1>1. life[p] = "live" /\ pc[p] = "exec" /\ Kfree(Freevm(new[p])) /\ Leave(p)
  BY DEF ExecFails, Running
<1>2. /\ pgdir' = pgdir /\ sz' = sz /\ stack_psize' = stack_psize /\ execed' = execed /\ panicked' = panicked
      /\ kstack' = kstack /\ life' = life
  BY DEF ExecFails, proc
<1>3. new[p] \in Spaces
  BY <1>0 DEF TypeOK
<1>4. PICK S \in SUBSET Frames : S = Freevm(new[p])
  BY <1>3, FreevmIs
<1>5. /\ free' = free \cup S /\ free' \subseteq Frames
      /\ mem' \in [Frames -> {Zeros, Junk, Data}]
      /\ OthersMem
  BY <1>0, <1>1, <1>4, KfreeIs
<1>6. /\ pc' \in [Procs -> PCs]
      /\ child' \in [Procs -> Procs \cup {0}]
      /\ new' \in [Procs -> Spaces]
      /\ todo' \in [Procs -> Seq(Int)]
      /\ pc'[p] = "user" /\ child'[p] = 0 /\ new'[p] = NoSpace
      /\ \A q \in Procs \ {p} : pc'[q] = pc[q] /\ child'[q] = child[q] /\ new'[q] = new[q] /\ todo'[q] = todo[q]
  BY <1>0, <1>1, LeaveIs
<1>7. TypeOK'
  BY <1>0, <1>2, <1>5, <1>6 DEF TypeOK
<1>8. Owned'
  <2>0. "new" \in Kinds
    BY DEF Kinds
  <2>1. \A i \in Places : At("new", p, i) = Slot(new[p], i) /\ At("new", p, i)' = 0
    BY <1>6, NoSpaceIs DEF At, Slot
  <2>2. \A k \in Kinds, q \in Procs, i \in Places : k # "new" \/ q # p => At(k, q, i)' = At(k, q, i)
    BY <1>2, <1>6 DEF At, Slot, Kinds
  <2>3. \A k \in Kinds, q \in Procs, i \in Places :
          At(k, q, i)' = At(k, q, i) \/ (At(k, q, i)' = 0 /\ At(k, q, i) \in S \cup {0})
    BY <1>3, <1>4, <2>1, <2>2, FreevmIs
  <2>4. ASSUME NEW f \in S
        PROVE  \E k \in Kinds, q \in Procs, i \in Places : At(k, q, i) = f /\ At(k, q, i)' = 0
    <3>1. PICK i \in Places : Slot(new[p], i) = f
      BY <1>3, <1>4, FreevmIs
    <3> QED
      BY <2>0, <2>1, <3>1
  <2> QED
    <3>1. Freed(S)
      BY <1>5, <2>3, <2>4 DEF Freed
    <3> QED
      BY <1>0, <1>5, <3>1, OwnedFree
<1>9. \A q \in Procs \ {p} : Same(q)
  BY <1>2, <1>6 DEF Same
<1>10. LifeInv'
  <2>1. LifeOK(p)' /\ ForkOK(p)'
    BY <1>0, <1>1, <1>2, <1>6 DEF LifeOK, ForkOK
  <2> QED
    BY <1>0, <1>1, <1>6, <1>9, <2>1, LifeCombine
<1>11. ProcOK(p)' /\ PgKept(p)
  BY <1>0, <1>1, <1>2, <1>6, QuietKeeps
<1> QED
  BY <1>5, <1>7, <1>8, <1>9, <1>10, <1>11, Combine

\* exec() replaces the address space.
LEMMA ExecCommitKeeps ==
  ASSUME IndInv, NEW p \in Procs, ExecCommit(p)
  PROVE  IndInv' /\ OthersMem /\ \A q \in Procs : PgKept(q)
<1>0. TypeOK /\ Owned /\ LifeInv /\ ProcOK(p) /\ LifeOK(p) /\ ForkOK(p)
  BY IndInvIs, LifeInvIs
<1>1. /\ life[p] = "live" /\ pc[p] = "exec" /\ todo[p] = <<>>
      /\ pgdir' = [pgdir EXCEPT ![p] = new[p]]
      /\ sz' = [sz EXCEPT ![p] = Cardinality(DOMAIN new[p].pg) - 1]
      /\ stack_psize' = [stack_psize EXCEPT ![p] = 1]
      /\ execed' = [execed EXCEPT ![p] = 1]
      /\ Kfree(Freevm(pgdir[p])) /\ Leave(p)
  BY DEF ExecCommit, Running, CommitStack
<1>2. life' = life /\ kstack' = kstack /\ panicked' = panicked
  BY DEF ExecCommit
<1>3. new[p] \in Spaces /\ pgdir[p] \in Spaces
  BY <1>0 DEF TypeOK
<1>4. PICK S \in SUBSET Frames : S = Freevm(pgdir[p])
  BY <1>3, FreevmIs
<1>5. /\ free' = free \cup S /\ free' \subseteq Frames
      /\ mem' \in [Frames -> {Zeros, Junk, Data}]
      /\ OthersMem
  BY <1>0, <1>1, <1>4, KfreeIs
<1>6. /\ pc' \in [Procs -> PCs]
      /\ child' \in [Procs -> Procs \cup {0}]
      /\ new' \in [Procs -> Spaces]
      /\ todo' \in [Procs -> Seq(Int)]
      /\ pc'[p] = "user" /\ child'[p] = 0 /\ new'[p] = NoSpace
      /\ \A q \in Procs \ {p} : pc'[q] = pc[q] /\ child'[q] = child[q] /\ new'[q] = new[q] /\ todo'[q] = todo[q]
  BY <1>0, <1>1, LeaveIs
<1>7. PICK n \in 1 .. MaxSize : DOMAIN new[p].pg = (0 .. n - 1) \cup {TOP - 1}
  <2>1. PICK n \in 1 .. MaxSize : Loaded(p, n) \/ \E h \in 0 .. n : Loading(p, h, n)
    BY <1>0, <1>1 DEF ProcOK, TodoOK
  <2>2. ASSUME NEW h \in 0 .. n, Loading(p, h, n) PROVE FALSE
    <3>1. Len(todo[p]) = n - h + 1
      BY <2>2 DEF Loading
    <3> QED
      BY <1>1, <3>1
  <2> QED
    BY <2>1, <2>2 DEF Loaded
<1>8. Cardinality(DOMAIN new[p].pg) - 1 = n
  <2>1. IsFiniteSet(0 .. n - 1) /\ Cardinality(0 .. n - 1) = n
    BY FS_Interval
  <2>2. TOP - 1 \notin 0 .. n - 1
    OBVIOUS
  <2>3. Cardinality((0 .. n - 1) \cup {TOP - 1}) = n + 1
    BY <2>1, <2>2, FS_AddElement
  <2> QED
    BY <1>7, <2>3
<1>9. /\ pgdir'[p] = new[p] /\ sz'[p] = n /\ stack_psize'[p] = 1 /\ execed'[p] = 1
      /\ \A q \in Procs \ {p} : /\ pgdir'[q] = pgdir[q] /\ sz'[q] = sz[q]
                                /\ stack_psize'[q] = stack_psize[q] /\ execed'[q] = execed[q]
  BY <1>0, <1>1, <1>8 DEF TypeOK
<1>10. TypeOK'
  <2>1. pgdir' \in [Procs -> Spaces]
    BY <1>0, <1>1, <1>3 DEF TypeOK
  <2>2. sz' \in [Procs -> 0 .. MaxSize]
    BY <1>0, <1>1, <1>8 DEF TypeOK
  <2>3. stack_psize' \in [Procs -> Nat] /\ execed' \in [Procs -> {0, 1}]
    BY <1>0, <1>1 DEF TypeOK
  <2> QED
    BY <1>0, <1>2, <1>5, <1>6, <2>1, <2>2, <2>3 DEF TypeOK
<1>11. Owned'
  <2>1. \A i \in Places : At("pgdir", p, i)' = At("new", p, i) /\ At("new", p, i)' = 0
    BY <1>6, <1>9, NoSpaceIs DEF At, Slot
  <2>2. \A i \in Places : At("pgdir", p, i) = Slot(pgdir[p], i)
    BY AtIs
  <2>3. \A k \in Kinds, q \in Procs, i \in Places :
          (k = "pgdir" => q # p) /\ (k = "new" => q # p) => At(k, q, i)' = At(k, q, i)
    BY <1>2, <1>6, <1>9 DEF At, Slot, Kinds
  <2>4. /\ \A i \in Places : At("pgdir", p, i) # 0 => At("pgdir", p, i) \in S
        /\ \A f \in S : \E i \in Places : At("pgdir", p, i) = f
    BY <1>3, <1>4, <2>2, FreevmIs
  <2>5. Moved(p, p, S)
    BY <1>5, <2>1, <2>3, <2>4 DEF Moved
  <2> QED
    BY <1>0, <2>5, OwnedMove
<1>12. \A q \in Procs \ {p} : Same(q)
  BY <1>2, <1>6, <1>9 DEF Same
<1>13. LifeInv'
  <2>1. LifeOK(p)' /\ ForkOK(p)'
    BY <1>0, <1>1, <1>2, <1>6, <1>9 DEF LifeOK, ForkOK
  <2> QED
    BY <1>0, <1>1, <1>6, <1>12, <2>1, LifeCombine
<1>14. ProcOK(p)'
  <2>1. Layout(p, n)'
    BY <1>7, <1>9 DEF Layout
  <2>2. StackOK(p)'
    <3>1. 1 \in 1 .. MaxStack
      OBVIOUS
    <3>2. (Layout(p, sz[p]))'
      BY <1>9, <2>1 DEF Layout
    <3> QED
      BY <1>6, <1>9, <3>1, <3>2 DEF StackOK
  <2> QED
    BY <1>6, <2>2 DEF ProcOK, TodoOK, CopyOK, ComingOK
<1>15. PgKept(p)
  <2>1. new[p].dir # 0
    BY <1>0, <1>1 DEF LifeOK
  <2>2. -1 \in Places /\ "new" \in Kinds /\ "pgdir" \in Kinds /\ "new" # "pgdir"
    BY DEF Places, Kinds
  <2>3. At("new", p, -1) = new[p].dir /\ At("pgdir", p, -1) = pgdir[p].dir
    BY DEF At, Slot
  <2>4. new[p].dir # pgdir[p].dir
    BY <1>0, <2>1, <2>2, <2>3 DEF Owned
  <2> QED
    BY <1>9, <2>4 DEF PgKept
<1> QED
  BY <1>5, <1>10, <1>11, <1>12, <1>13, <1>14, <1>15, Combine

-----------------------------------------------------------------------------
\* sbrk() and the page fault

\* allocuvm() maps a page of zeros in the address space of p.
LEMMA MapKeeps ==
  ASSUME TypeOK, Owned, NEW p \in Procs, NEW i \in Pages, NEW f \in Frames,
         i \notin DOMAIN pgdir[p].pg,
         Kalloc(f), free' = free \ {f}, mem' = [mem EXCEPT ![f] = Zeros],
         pgdir' = [pgdir EXCEPT ![p] = Mapped(pgdir[p], i, f)],
         \A q \in Procs : kstack'[q] = kstack[q] /\ new'[q] = new[q]
  PROVE  /\ free' \subseteq Frames
         /\ mem' \in [Frames -> {Zeros, Junk, Data}]
         /\ pgdir' \in [Procs -> Spaces]
         /\ Owned' /\ OthersMem /\ PgKept(p)
         /\ pgdir'[p].dir = pgdir[p].dir
         /\ DOMAIN pgdir'[p].pg = DOMAIN pgdir[p].pg \cup {i}
         /\ \A q \in Procs \ {p} : pgdir'[q] = pgdir[q]
<1>1. f \in free /\ f # 0
  BY KallocIs
<1> DEFINE s == Mapped(pgdir[p], i, f)
<1>2. /\ s \in Spaces
      /\ s.dir = pgdir[p].dir
      /\ DOMAIN s.pg = DOMAIN pgdir[p].pg \cup {i}
      /\ \A j \in DOMAIN pgdir[p].pg : j # i => s.pg[j] = pgdir[p].pg[j]
      /\ \A j \in Places : Slot(s, j) = IF j = i THEN f ELSE Slot(pgdir[p], j)
  BY MappedIs DEF TypeOK
<1>3. pgdir' = [pgdir EXCEPT ![p] = s]
  OBVIOUS
<1> HIDE DEF s
<1>4. pgdir' \in [Procs -> Spaces] /\ pgdir'[p] = s /\ \A q \in Procs \ {p} : pgdir'[q] = pgdir[q]
  BY <1>2, <1>3 DEF TypeOK
<1>5. mem' \in [Frames -> {Zeros, Junk, Data}] /\ \A g \in Frames \ {f} : mem'[g] = mem[g]
  BY DEF TypeOK
<1>6. Owned'
  <2>1. "pgdir" \in Kinds /\ i \in Places /\ i # -1
    BY DEF Kinds, Places, Pages
  <2>2. At("pgdir", p, i) = 0
    BY <2>1 DEF At, Slot
  <2>3. \A j \in Places : At("pgdir", p, j)' = Slot(s, j) /\ At("pgdir", p, j) = Slot(pgdir[p], j)
    BY <1>4 DEF At, Slot
  <2>4. ASSUME NEW k \in Kinds, NEW q \in Procs, NEW j \in Places, k # "pgdir" \/ q # p \/ j # i
        PROVE  At(k, q, j)' = At(k, q, j)
    <3>1. CASE q # p
      BY <1>4, <3>1, AtSame
    <3>2. CASE q = p /\ k = "pgdir"
      BY <2>3, <2>4, <3>2, <1>2
    <3>3. CASE q = p /\ k # "pgdir"
      BY <3>3 DEF At, Slot, Kinds
    <3> QED
      BY <3>1, <3>2, <3>3
  <2>5. At("pgdir", p, i)' = f
    BY <2>1, <2>3, <1>2
  <2>6. Owned /\ free \subseteq Frames /\ f \in free /\ free' = free \ {f}
    BY <1>1 DEF TypeOK
  <2> QED
    <3>1. Allocated("pgdir", p, i, f)
      BY <2>2, <2>4, <2>5, <2>6 DEF Allocated
    <3> QED
      BY <2>1, <2>6, <3>1, OwnedAlloc
<1>7. OthersMem
  BY <1>1, <1>5 DEF OthersMem
<1>8. PgKept(p)
  BY <1>2, <1>4 DEF PgKept
<1>9. free' \subseteq Frames
  BY DEF TypeOK
<1> QED
  BY <1>2, <1>4, <1>5, <1>6, <1>7, <1>8, <1>9

\* deallocuvm() frees the pages S of the address space of p.
LEMMA UnmapKeeps ==
  ASSUME TypeOK, Owned, NEW p \in Procs, NEW S \in SUBSET DOMAIN pgdir[p].pg,
         Kfree({pgdir[p].pg[i] : i \in S}),
         pgdir' = [pgdir EXCEPT ![p] = Unmapped(pgdir[p], S)],
         \A q \in Procs : kstack'[q] = kstack[q] /\ new'[q] = new[q]
  PROVE  /\ free' \subseteq Frames
         /\ mem' \in [Frames -> {Zeros, Junk, Data}]
         /\ pgdir' \in [Procs -> Spaces]
         /\ Owned' /\ OthersMem
         /\ pgdir'[p].dir = pgdir[p].dir
         /\ DOMAIN pgdir'[p].pg = DOMAIN pgdir[p].pg \ S
         /\ \A j \in DOMAIN pgdir[p].pg \ S : pgdir'[p].pg[j] = pgdir[p].pg[j]
         /\ \A q \in Procs \ {p} : pgdir'[q] = pgdir[q]
<1>0. pgdir[p] \in Spaces
  BY DEF TypeOK
<1>1. DOMAIN pgdir[p].pg \subseteq Pages /\ \A i \in DOMAIN pgdir[p].pg : pgdir[p].pg[i] \in Frames
  BY <1>0, SpaceIs
<1>2. S \in SUBSET Pages /\ S \subseteq Places
  BY <1>1 DEF Pages, Places
<1> DEFINE s == Unmapped(pgdir[p], S)
<1>3. /\ s \in Spaces
      /\ s.dir = pgdir[p].dir
      /\ DOMAIN s.pg = DOMAIN pgdir[p].pg \ S
      /\ \A j \in DOMAIN pgdir[p].pg \ S : s.pg[j] = pgdir[p].pg[j]
      /\ \A j \in Places : Slot(s, j) = IF j \in S THEN 0 ELSE Slot(pgdir[p], j)
  BY <1>0, <1>2, UnmappedIs
<1>4. pgdir' = [pgdir EXCEPT ![p] = s]
  OBVIOUS
<1> HIDE DEF s
<1>5. pgdir' \in [Procs -> Spaces] /\ pgdir'[p] = s /\ \A q \in Procs \ {p} : pgdir'[q] = pgdir[q]
  BY <1>3, <1>4 DEF TypeOK
<1>6. PICK F \in SUBSET Frames : F = {pgdir[p].pg[i] : i \in S}
  BY <1>1
<1>7. /\ free' = free \cup F /\ free' \subseteq Frames
      /\ mem' \in [Frames -> {Zeros, Junk, Data}]
      /\ OthersMem
  BY <1>6, KfreeIs
<1>8. Owned'
  <2>0. "pgdir" \in Kinds
    BY DEF Kinds
  <2>1. \A j \in Places : At("pgdir", p, j)' = Slot(s, j) /\ At("pgdir", p, j) = Slot(pgdir[p], j)
    BY <1>5 DEF At, Slot
  <2>2. \A j \in S : Slot(pgdir[p], j) = pgdir[p].pg[j] /\ Slot(pgdir[p], j) \in F
    BY <1>0, <1>2, <1>6, SlotType
  <2>3. \A k \in Kinds, q \in Procs, j \in Places : k # "pgdir" \/ q # p => At(k, q, j)' = At(k, q, j)
    BY <1>5 DEF At, Slot, Kinds
  <2>4. \A j \in Places : \/ At("pgdir", p, j)' = At("pgdir", p, j)
                          \/ At("pgdir", p, j)' = 0 /\ At("pgdir", p, j) \in F
    BY <1>3, <2>1, <2>2
  <2>5. \A k \in Kinds, q \in Procs, j \in Places :
          At(k, q, j)' = At(k, q, j) \/ (At(k, q, j)' = 0 /\ At(k, q, j) \in F \cup {0})
    BY <2>3, <2>4
  <2>6. ASSUME NEW f \in F
        PROVE  \E k \in Kinds, q \in Procs, j \in Places : At(k, q, j) = f /\ At(k, q, j)' = 0
    <3>1. PICK j \in S : pgdir[p].pg[j] = f
      BY <1>6
    <3>2. j \in Places /\ At("pgdir", p, j) = f /\ At("pgdir", p, j)' = 0
      BY <1>2, <1>3, <2>1, <2>2, <3>1
    <3> QED
      BY <2>0, <3>2
  <2> QED
    <3>1. Freed(F)
      BY <1>7, <2>5, <2>6 DEF Freed
    <3> QED
      BY <1>6, <1>7, <3>1, OwnedFree
<1> QED
  BY <1>3, <1>5, <1>7, <1>8

\* sbrk() starts to grow the process.
LEMMA GrowBeginKeeps ==
  ASSUME IndInv, NEW p \in Procs, GrowBegin(p)
  PROVE  IndInv' /\ OthersMem /\ \A q \in Procs : PgKept(q)
<1>0. TypeOK /\ Owned /\ LifeInv /\ ProcOK(p) /\ LifeOK(p) /\ ForkOK(p)
  BY IndInvIs, LifeInvIs
<1>1. PICK to \in sz[p] + 1 .. MaxSize : todo' = [todo EXCEPT ![p] = PageRange(sz[p], to)]
  BY DEF GrowBegin
<1>2. life[p] = "live" /\ pc[p] = "user" /\ pc' = [pc EXCEPT ![p] = "grow"]
  BY DEF GrowBegin, Running
<1>3. /\ free' = free /\ mem' = mem /\ pgdir' = pgdir /\ sz' = sz /\ stack_psize' = stack_psize /\ execed' = execed
      /\ panicked' = panicked /\ kstack' = kstack /\ life' = life /\ child' = child /\ new' = new
  BY DEF GrowBegin, proc
<1>4. sz[p] \in Nat /\ to \in 1 .. MaxSize /\ sz[p] \in sz[p] .. to - 1
  BY <1>0 DEF TypeOK
<1> DEFINE r == PageRange(sz[p], to)
<1>5. r \in Seq(Int) /\ Len(r) = to - sz[p] /\ \A i \in 1 .. to - sz[p] : r[i] = sz[p] + i - 1
  <2>1. PICK n \in Nat : n = to - sz[p]
    BY <1>4
  <2>2. r = [i \in 1 .. n |-> sz[p] + i - 1]
    BY <2>1 DEF PageRange
  <2>3. r \in Seq(Int) /\ Len(r) = n /\ \A i \in 1 .. n : r[i] = sz[p] + i - 1
    BY <1>4, <2>2
  <2> QED
    BY <2>1, <2>3
<1> HIDE DEF r
<1>6. /\ todo' \in [Procs -> Seq(Int)] /\ todo'[p] = r /\ \A q \in Procs \ {p} : todo'[q] = todo[q]
      /\ pc' \in [Procs -> PCs] /\ pc'[p] = "grow" /\ \A q \in Procs \ {p} : pc'[q] = pc[q]
  BY <1>0, <1>1, <1>2, <1>5 DEF TypeOK, PCs, r
<1>7. TypeOK'
  BY <1>0, <1>3, <1>6 DEF TypeOK
<1>8. Owned'
  BY <1>0, <1>3, OwnedSame, AtSame
<1>9. \A q \in Procs \ {p} : Same(q)
  BY <1>3, <1>6 DEF Same
<1>10. LifeInv'
  <2>1. LifeOK(p)' /\ ForkOK(p)'
    BY <1>0, <1>2, <1>3, <1>6 DEF LifeOK, ForkOK
  <2> QED
    BY <1>0, <1>2, <1>3, <1>9, <2>1, LifeCombine
<1>11. OthersMem
  BY <1>3 DEF OthersMem
<1>12. ProcOK(p)' /\ PgKept(p)
  <2>1. PICK h \in sz[p] .. to - 1 : h = sz[p]
    BY <1>4
  <2>2. Growing(p, h, to)'
    BY <1>5, <1>6, <2>1 DEF Growing
  <2>3. TodoOK(p)'
    BY <1>3, <1>4, <1>6, <2>2 DEF TodoOK
  <2>4. MinSize # 0 => StackOK(p)'
    <3> SUFFICES ASSUME MinSize # 0, life'[p] = "live", execed'[p] = 1
                 PROVE  stack_psize'[p] \in 1 .. MaxStack /\ Layout(p, h)'
      BY <1>3, <1>4, <1>6, <2>2 DEF StackOK
    <3> QED
      BY <1>0, <1>2, <1>3, <2>1 DEF ProcOK, StackOK, Layout
  <2>5. CopyOK(p)' /\ ComingOK(p)' /\ PgKept(p)
    BY <1>3, <1>6 DEF CopyOK, ComingOK, PgKept
  <2> QED
    BY <2>3, <2>4, <2>5 DEF ProcOK
<1> QED
  BY <1>7, <1>8, <1>9, <1>10, <1>11, <1>12, Combine

\* What the first page to map is, and what is left after it.
LEMMA GrowingStep ==
  ASSUME TypeOK, NEW p \in Procs, NEW to \in 1 .. MaxSize, NEW h \in sz[p] .. to - 1, Growing(p, h, to)
  PROVE  /\ todo[p] \in Seq(Int) /\ Head(todo[p]) = h /\ todo[p][Len(todo[p])] = to - 1 /\ h \in 0 .. MaxSize - 1
         /\ Len(todo[p]) = 1 => to = h + 1
         /\ Len(todo[p]) > 1 /\ todo'[p] = Tail(todo[p]) => h + 1 <= to - 1 /\ Growing(p, h + 1, to)'
<1>1. sz[p] \in Nat /\ todo[p] \in Seq(Int) /\ h \in 0 .. MaxSize - 1
  BY DEF TypeOK
<1>2. Len(todo[p]) = to - h /\ \A i \in 1 .. to - h : todo[p][i] = h + i - 1
  BY DEF Growing
<1>3. 1 \in 1 .. to - h /\ to - h \in 1 .. to - h
  BY <1>1
<1>4. todo[p][1] = h /\ todo[p][to - h] = to - 1
  <2>1. todo[p][1] = h + 1 - 1 /\ todo[p][to - h] = h + (to - h) - 1
    BY <1>2, <1>3
  <2>2. h + 1 - 1 = h /\ h + (to - h) - 1 = to - 1
    BY <1>1
  <2> QED
    BY <2>1, <2>2
<1>5. Head(todo[p]) = todo[p][1]
  BY <1>1
<1>6. ASSUME Len(todo[p]) > 1, todo'[p] = Tail(todo[p]) PROVE h + 1 <= to - 1 /\ Growing(p, h + 1, to)'
  <2>1. h + 1 <= to - 1
    BY <1>1, <1>2, <1>6
  <2>2. Len(Tail(todo[p])) = to - (h + 1) /\ \A i \in 1 .. to - (h + 1) : Tail(todo[p])[i] = todo[p][i + 1]
    BY <1>1, <1>2, <1>6
  <2>3. ASSUME NEW i \in 1 .. to - (h + 1) PROVE Tail(todo[p])[i] = (h + 1) + i - 1
    <3>1. i + 1 \in 1 .. to - h /\ h + (i + 1) - 1 = (h + 1) + i - 1
      BY <1>1
    <3> QED
      BY <1>2, <2>2, <3>1
  <2> QED
    BY <1>6, <2>1, <2>2, <2>3 DEF Growing
<1> QED
  BY <1>1, <1>2, <1>4, <1>5, <1>6

\* One page more below the stack.
LEMMA LayoutNext ==
  ASSUME NEW p \in Procs, NEW h \in Nat, Layout(p, h), stack_psize'[p] = stack_psize[p],
         DOMAIN pgdir'[p].pg = DOMAIN pgdir[p].pg \cup {h}
  PROVE  Layout(p, h + 1)'
<1>1. (0 .. (h + 1) - 1) = (0 .. h - 1) \cup {h}
  OBVIOUS
<1> QED
  BY <1>1 DEF Layout

\* What every turn of the loop does.
LEMMA GrowMapIs ==
  ASSUME IndInv, NEW p \in Procs, GrowMap(p),
         \A q \in Procs : kstack'[q] = kstack[q] /\ new'[q] = new[q]
  PROVE  /\ life[p] = "live" /\ pc[p] = "grow"
         /\ free' \subseteq Frames
         /\ mem' \in [Frames -> {Zeros, Junk, Data}]
         /\ pgdir' \in [Procs -> Spaces]
         /\ Owned' /\ OthersMem /\ PgKept(p)
         /\ pgdir'[p].dir = pgdir[p].dir
         /\ DOMAIN pgdir'[p].pg = DOMAIN pgdir[p].pg \cup {Head(todo[p])}
         /\ \A q \in Procs \ {p} : pgdir'[q] = pgdir[q]
<1>0. TypeOK /\ Owned /\ ProcOK(p)
  BY IndInvIs
<1>1. life[p] = "live" /\ pc[p] = "grow" /\ Head(todo[p]) \notin DOMAIN pgdir[p].pg
  BY DEF GrowMap, Running
<1>2. PICK x : x = Head(todo[p])
  OBVIOUS
<1>3. PICK f \in Frames :
        /\ Kalloc(f)
        /\ free' = free \ {f}
        /\ mem' = [mem EXCEPT ![f] = Zeros]
        /\ pgdir' = [pgdir EXCEPT ![p] = Mapped(pgdir[p], x, f)]
  BY <1>2 DEF GrowMap
<1>4. PICK to \in 1 .. MaxSize : \E h \in sz[p] .. to - 1 : Growing(p, h, to)
  BY <1>0, <1>1 DEF ProcOK, TodoOK
<1>5. PICK h \in sz[p] .. to - 1 : Growing(p, h, to)
  BY <1>4
<1>6. x = h /\ h \in 0 .. MaxSize - 1
  BY <1>0, <1>2, <1>5, GrowingStep
<1>7. x \in Pages /\ x \notin DOMAIN pgdir[p].pg
  BY <1>1, <1>2, <1>6 DEF Pages
<1>8. /\ free' \subseteq Frames
      /\ mem' \in [Frames -> {Zeros, Junk, Data}]
      /\ pgdir' \in [Procs -> Spaces]
      /\ Owned' /\ OthersMem /\ PgKept(p)
      /\ pgdir'[p].dir = pgdir[p].dir
      /\ DOMAIN pgdir'[p].pg = DOMAIN pgdir[p].pg \cup {x}
      /\ \A q \in Procs \ {p} : pgdir'[q] = pgdir[q]
  BY <1>0, <1>3, <1>7, MapKeeps
<1> QED
  BY <1>1, <1>2, <1>8

\* sbrk() maps a page, not the last.
LEMMA GrowPageKeeps ==
  ASSUME IndInv, NEW p \in Procs, GrowPage(p)
  PROVE  IndInv' /\ OthersMem /\ \A q \in Procs : PgKept(q)
<1>0. TypeOK /\ Owned /\ LifeInv /\ ProcOK(p) /\ LifeOK(p) /\ ForkOK(p)
  BY IndInvIs, LifeInvIs
<1>1. GrowMap(p) /\ Len(todo[p]) > 1 /\ todo' = [todo EXCEPT ![p] = Tail(todo[p])]
  BY DEF GrowPage
<1>2. /\ sz' = sz /\ stack_psize' = stack_psize /\ execed' = execed
      /\ panicked' = panicked /\ kstack' = kstack /\ life' = life /\ child' = child /\ new' = new /\ pc' = pc
  BY DEF GrowPage, proc
<1>3. /\ life[p] = "live" /\ pc[p] = "grow"
      /\ free' \subseteq Frames
      /\ mem' \in [Frames -> {Zeros, Junk, Data}]
      /\ pgdir' \in [Procs -> Spaces]
      /\ Owned' /\ OthersMem /\ PgKept(p)
      /\ pgdir'[p].dir = pgdir[p].dir
      /\ DOMAIN pgdir'[p].pg = DOMAIN pgdir[p].pg \cup {Head(todo[p])}
      /\ \A q \in Procs \ {p} : pgdir'[q] = pgdir[q]
  BY <1>1, <1>2, GrowMapIs
<1>4. todo' \in [Procs -> Seq(Int)] /\ todo'[p] = Tail(todo[p]) /\ \A q \in Procs \ {p} : todo'[q] = todo[q]
  <2>1. todo[p] \in Seq(Int) /\ Tail(todo[p]) \in Seq(Int)
    BY <1>0, <1>1 DEF TypeOK
  <2> QED
    BY <1>0, <1>1, <2>1 DEF TypeOK
<1>5. TypeOK'
  BY <1>0, <1>2, <1>3, <1>4 DEF TypeOK
<1>6. \A q \in Procs \ {p} : Same(q)
  BY <1>2, <1>3, <1>4 DEF Same
<1>7. LifeInv'
  <2>1. LifeOK(p)' /\ ForkOK(p)'
    BY <1>0, <1>2, <1>3 DEF LifeOK, ForkOK
  <2> QED
    BY <1>0, <1>2, <1>3, <1>6, <2>1, LifeCombine
<1>8. TodoOK(p)'
  <2>1. PICK to \in 1 .. MaxSize : \E h \in sz[p] .. to - 1 : Growing(p, h, to)
    BY <1>0, <1>3 DEF ProcOK, TodoOK
  <2>2. PICK h \in sz[p] .. to - 1 : Growing(p, h, to)
    BY <2>1
  <2>3. h + 1 <= to - 1 /\ Growing(p, h + 1, to)'
    BY <1>0, <1>1, <1>4, <2>2, GrowingStep
  <2>4. h + 1 \in sz'[p] .. to - 1
    BY <1>0, <1>2, <2>3 DEF TypeOK
  <2> QED
    BY <1>2, <1>3, <2>3, <2>4 DEF TodoOK
<1>9. MinSize # 0 => StackOK(p)'
  <2> SUFFICES ASSUME MinSize # 0, execed[p] = 1 PROVE StackOK(p)'
    BY <1>2 DEF StackOK
  <2>0. /\ stack_psize[p] \in 1 .. MaxStack
        /\ \E to \in 1 .. MaxSize : \E h \in sz[p] .. to - 1 : Growing(p, h, to) /\ Layout(p, h)
    BY <1>0, <1>3 DEF ProcOK, StackOK
  <2>1. PICK to \in 1 .. MaxSize : \E h \in sz[p] .. to - 1 : Growing(p, h, to) /\ Layout(p, h)
    BY <2>0
  <2>2. PICK h \in sz[p] .. to - 1 : Growing(p, h, to) /\ Layout(p, h)
    BY <2>1
  <2>3. h + 1 <= to - 1 /\ Growing(p, h + 1, to)' /\ Head(todo[p]) = h /\ h \in Nat
    BY <1>0, <1>1, <1>4, <2>2, GrowingStep
  <2>4. h + 1 \in sz'[p] .. to - 1
    BY <1>0, <1>2, <2>3 DEF TypeOK
  <2>5. Layout(p, h + 1)'
    BY <1>2, <1>3, <2>2, <2>3, LayoutNext
  <2> QED
    BY <1>2, <1>3, <2>0, <2>3, <2>4, <2>5 DEF StackOK
<1>10. CopyOK(p)' /\ ComingOK(p)'
  BY <1>2, <1>3 DEF CopyOK, ComingOK
<1>11. ProcOK(p)'
  BY <1>8, <1>9, <1>10 DEF ProcOK
<1> QED
  BY <1>3, <1>5, <1>6, <1>7, <1>11, Combine

\* sbrk() maps the last page and returns.
LEMMA GrowDoneKeeps ==
  ASSUME IndInv, NEW p \in Procs, GrowDone(p)
  PROVE  IndInv' /\ OthersMem /\ \A q \in Procs : PgKept(q)
<1>0. TypeOK /\ Owned /\ LifeInv /\ ProcOK(p) /\ LifeOK(p) /\ ForkOK(p)
  BY IndInvIs, LifeInvIs
<1>1. GrowMap(p) /\ Len(todo[p]) = 1 /\ sz' = [sz EXCEPT ![p] = Head(todo[p]) + 1] /\ Leave(p)
  BY DEF GrowDone
<1>2. stack_psize' = stack_psize /\ execed' = execed /\ panicked' = panicked /\ kstack' = kstack /\ life' = life
  BY DEF GrowDone
<1>3. /\ pc' \in [Procs -> PCs]
      /\ child' \in [Procs -> Procs \cup {0}]
      /\ new' \in [Procs -> Spaces]
      /\ todo' \in [Procs -> Seq(Int)]
      /\ pc'[p] = "user" /\ child'[p] = 0 /\ new'[p] = NoSpace
      /\ \A q \in Procs \ {p} : pc'[q] = pc[q] /\ child'[q] = child[q] /\ new'[q] = new[q] /\ todo'[q] = todo[q]
  BY <1>0, <1>1, LeaveIs
<1>4. pc[p] = "grow" /\ new[p] = NoSpace
  BY <1>0, <1>1 DEF GrowMap, Running, LifeOK
<1>5. /\ life[p] = "live" /\ pc[p] = "grow"
      /\ free' \subseteq Frames
      /\ mem' \in [Frames -> {Zeros, Junk, Data}]
      /\ pgdir' \in [Procs -> Spaces]
      /\ Owned' /\ OthersMem /\ PgKept(p)
      /\ pgdir'[p].dir = pgdir[p].dir
      /\ DOMAIN pgdir'[p].pg = DOMAIN pgdir[p].pg \cup {Head(todo[p])}
      /\ \A q \in Procs \ {p} : pgdir'[q] = pgdir[q]
  <2>1. \A q \in Procs : kstack'[q] = kstack[q] /\ new'[q] = new[q]
    BY <1>2, <1>3, <1>4
  <2> QED
    BY <1>1, <2>1, GrowMapIs
<1>6. Head(todo[p]) \in 0 .. MaxSize - 1
  BY <1>0, <1>5, GrowingStep DEF ProcOK, TodoOK
<1>7. sz' \in [Procs -> 0 .. MaxSize] /\ sz'[p] = Head(todo[p]) + 1 /\ \A q \in Procs \ {p} : sz'[q] = sz[q]
  <2>1. PICK n \in 0 .. MaxSize : n = Head(todo[p]) + 1
    BY <1>6
  <2> QED
    BY <1>0, <1>1, <2>1 DEF TypeOK
<1>8. TypeOK'
  BY <1>0, <1>2, <1>3, <1>5, <1>7 DEF TypeOK
<1>9. \A q \in Procs \ {p} : Same(q)
  BY <1>2, <1>3, <1>5, <1>7 DEF Same
<1>10. LifeInv'
  <2>1. LifeOK(p)' /\ ForkOK(p)'
    BY <1>0, <1>2, <1>3, <1>5 DEF LifeOK, ForkOK
  <2> QED
    BY <1>0, <1>3, <1>5, <1>9, <2>1, LifeCombine
<1>11. MinSize # 0 => StackOK(p)'
  <2> SUFFICES ASSUME MinSize # 0, execed[p] = 1 PROVE StackOK(p)'
    BY <1>2 DEF StackOK
  <2>0. /\ stack_psize[p] \in 1 .. MaxStack
        /\ \E to \in 1 .. MaxSize : \E h \in sz[p] .. to - 1 : Growing(p, h, to) /\ Layout(p, h)
    BY <1>0, <1>5 DEF ProcOK, StackOK
  <2>1. PICK to \in 1 .. MaxSize : \E h \in sz[p] .. to - 1 : Growing(p, h, to) /\ Layout(p, h)
    BY <2>0
  <2>2. PICK h \in sz[p] .. to - 1 : Growing(p, h, to) /\ Layout(p, h)
    BY <2>1
  <2>3. Head(todo[p]) = h /\ h \in Nat
    BY <1>0, <2>2, GrowingStep
  <2>4. Layout(p, h + 1)'
    BY <1>2, <1>5, <2>2, <2>3, LayoutNext
  <2>5. (Layout(p, sz[p]))'
    BY <1>7, <2>3, <2>4 DEF Layout
  <2> QED
    BY <1>2, <1>3, <2>0, <2>5 DEF StackOK
<1>12. ProcOK(p)'
  BY <1>3, <1>11 DEF ProcOK, TodoOK, CopyOK, ComingOK
<1> QED
  BY <1>5, <1>8, <1>9, <1>10, <1>12, Combine

\* sbrk() runs out of memory.
LEMMA GrowFailsKeeps ==
  ASSUME IndInv, NEW p \in Procs, GrowFails(p)
  PROVE  IndInv' /\ OthersMem /\ \A q \in Procs : PgKept(q)
<1>0. TypeOK /\ Owned /\ LifeInv /\ ProcOK(p) /\ LifeOK(p) /\ ForkOK(p)
  BY IndInvIs, LifeInvIs
<1>1. /\ life[p] = "live" /\ pc[p] = "grow"
      /\ Kfree({pgdir[p].pg[i] : i \in GrowUndo(p)})
      /\ pgdir' = [pgdir EXCEPT ![p] = Unmapped(pgdir[p], GrowUndo(p))]
      /\ Leave(p)
  BY DEF GrowFails, Running
<1>2. /\ sz' = sz /\ stack_psize' = stack_psize /\ execed' = execed /\ panicked' = panicked
      /\ kstack' = kstack /\ life' = life
  BY DEF GrowFails, proc
<1>3. /\ pc' \in [Procs -> PCs]
      /\ child' \in [Procs -> Procs \cup {0}]
      /\ new' \in [Procs -> Spaces]
      /\ todo' \in [Procs -> Seq(Int)]
      /\ pc'[p] = "user" /\ child'[p] = 0 /\ new'[p] = NoSpace
      /\ \A q \in Procs \ {p} : pc'[q] = pc[q] /\ child'[q] = child[q] /\ new'[q] = new[q] /\ todo'[q] = todo[q]
  BY <1>0, <1>1, LeaveIs
<1>4. new[p] = NoSpace
  BY <1>0, <1>1 DEF LifeOK
<1>5. PICK S \in SUBSET DOMAIN pgdir[p].pg : S = GrowUndo(p)
  BY DEF GrowUndo
<1>6. /\ free' \subseteq Frames
      /\ mem' \in [Frames -> {Zeros, Junk, Data}]
      /\ pgdir' \in [Procs -> Spaces]
      /\ Owned' /\ OthersMem
      /\ pgdir'[p].dir = pgdir[p].dir
      /\ DOMAIN pgdir'[p].pg = DOMAIN pgdir[p].pg \ S
      /\ \A j \in DOMAIN pgdir[p].pg \ S : pgdir'[p].pg[j] = pgdir[p].pg[j]
      /\ \A q \in Procs \ {p} : pgdir'[q] = pgdir[q]
  <2>1. \A q \in Procs : kstack'[q] = kstack[q] /\ new'[q] = new[q]
    BY <1>2, <1>3, <1>4
  <2>2. Kfree({pgdir[p].pg[i] : i \in S}) /\ pgdir' = [pgdir EXCEPT ![p] = Unmapped(pgdir[p], S)]
    BY <1>1, <1>5
  <2> QED
    BY <1>0, <2>1, <2>2, UnmapKeeps
<1>7. TypeOK'
  BY <1>0, <1>2, <1>3, <1>6 DEF TypeOK
<1>8. \A q \in Procs \ {p} : Same(q)
  BY <1>2, <1>3, <1>6 DEF Same
<1>9. LifeInv'
  <2>1. LifeOK(p)' /\ ForkOK(p)'
    BY <1>0, <1>1, <1>2, <1>3, <1>6 DEF LifeOK, ForkOK
  <2> QED
    BY <1>0, <1>1, <1>3, <1>8, <2>1, LifeCombine
<1>10. PgKept(p)
  <2>1. PICK to \in 1 .. MaxSize : \E h \in sz[p] .. to - 1 : Growing(p, h, to)
    BY <1>0, <1>1 DEF ProcOK, TodoOK
  <2>2. todo[p][Len(todo[p])] = to - 1
    BY <1>0, <2>1, GrowingStep
  <2>3. DOMAIN pgdir[p].pg \subseteq Pages
    BY <1>0, SpaceIs DEF TypeOK
  <2>4. \A i \in S : i >= sz'[p] /\ i < MaxSize
    BY <1>0, <1>2, <1>5, <2>2, <2>3 DEF GrowUndo, TypeOK, Pages
  <2> QED
    BY <1>6, <2>4 DEF PgKept
<1>11. MinSize # 0 => StackOK(p)'
  <2> SUFFICES ASSUME MinSize # 0, execed[p] = 1 PROVE StackOK(p)'
    BY <1>2 DEF StackOK
  <2>0. /\ stack_psize[p] \in 1 .. MaxStack
        /\ \E to \in 1 .. MaxSize : \E h \in sz[p] .. to - 1 : Growing(p, h, to) /\ Layout(p, h)
    BY <1>0, <1>1 DEF ProcOK, StackOK
  <2>1. PICK to \in 1 .. MaxSize : \E h \in sz[p] .. to - 1 : Growing(p, h, to) /\ Layout(p, h)
    BY <2>0
  <2>2. PICK h \in sz[p] .. to - 1 : Growing(p, h, to) /\ Layout(p, h)
    BY <2>1
  <2>3. todo[p][Len(todo[p])] = to - 1 /\ h \in Nat /\ sz[p] \in Nat
    <3>1. todo[p][Len(todo[p])] = to - 1 /\ h \in 0 .. MaxSize - 1
      BY <1>0, <2>2, GrowingStep
    <3> QED
      BY <1>0, <3>1 DEF TypeOK
  <2>4. DOMAIN pgdir[p].pg = (0 .. h - 1) \cup (TOP - stack_psize[p] .. TOP - 1)
    BY <2>2 DEF Layout
  <2>5. S = {i \in DOMAIN pgdir[p].pg : sz[p] <= i /\ i <= to - 1}
    BY <1>5, <2>3 DEF GrowUndo
  <2>6. DOMAIN pgdir[p].pg \ S = (0 .. sz[p] - 1) \cup (TOP - stack_psize[p] .. TOP - 1)
    <3>1. /\ stack_psize[p] \in 1 .. MaxStack /\ h \in sz[p] .. to - 1 /\ to \in 1 .. MaxSize
          /\ h \in Nat /\ sz[p] \in Nat
      BY <2>0, <2>3
    <3>2. ASSUME NEW i \in Int
          PROVE  (i \in (0 .. h - 1) \cup (TOP - stack_psize[p] .. TOP - 1) /\ ~(sz[p] <= i /\ i <= to - 1))
                 <=> i \in (0 .. sz[p] - 1) \cup (TOP - stack_psize[p] .. TOP - 1)
      BY <3>1
    <3> QED
      BY <2>4, <2>5, <3>1, <3>2
  <2>7. (Layout(p, sz[p]))'
    BY <1>2, <1>6, <2>6 DEF Layout
  <2> QED
    BY <1>2, <1>3, <2>0, <2>7 DEF StackOK
<1>12. ProcOK(p)'
  BY <1>3, <1>11 DEF ProcOK, TodoOK, CopyOK, ComingOK
<1> QED
  BY <1>6, <1>7, <1>8, <1>9, <1>10, <1>12, Combine

\* sbrk() gives pages back.
LEMMA ShrinkKeeps ==
  ASSUME IndInv, NEW p \in Procs, Shrink(p)
  PROVE  IndInv' /\ OthersMem /\ \A q \in Procs : PgKept(q)
<1>0. TypeOK /\ Owned /\ LifeInv /\ ProcOK(p) /\ LifeOK(p) /\ ForkOK(p)
  BY IndInvIs, LifeInvIs
<1>1. PICK to \in MinSize .. sz[p] - 1 :
        LET S == {i \in DOMAIN pgdir[p].pg : to <= i /\ i < sz[p]} IN
        /\ Kfree({pgdir[p].pg[i] : i \in S})
        /\ pgdir' = [pgdir EXCEPT ![p] = Unmapped(pgdir[p], S)]
        /\ sz' = [sz EXCEPT ![p] = IF to = 0 THEN sz[p] ELSE to]
  BY DEF Shrink
<1>2. PICK S \in SUBSET DOMAIN pgdir[p].pg : S = {i \in DOMAIN pgdir[p].pg : to <= i /\ i < sz[p]}
  OBVIOUS
<1>3. /\ life[p] = "live" /\ pc[p] = "user"
      /\ Kfree({pgdir[p].pg[i] : i \in S})
      /\ pgdir' = [pgdir EXCEPT ![p] = Unmapped(pgdir[p], S)]
      /\ sz' = [sz EXCEPT ![p] = IF to = 0 THEN sz[p] ELSE to]
  BY <1>1, <1>2 DEF Shrink, Running
<1>4. /\ life' = life /\ kstack' = kstack /\ stack_psize' = stack_psize /\ pc' = pc /\ child' = child
      /\ new' = new /\ todo' = todo /\ execed' = execed /\ panicked' = panicked
  BY DEF Shrink
<1>5. /\ free' \subseteq Frames
      /\ mem' \in [Frames -> {Zeros, Junk, Data}]
      /\ pgdir' \in [Procs -> Spaces]
      /\ Owned' /\ OthersMem
      /\ pgdir'[p].dir = pgdir[p].dir
      /\ DOMAIN pgdir'[p].pg = DOMAIN pgdir[p].pg \ S
      /\ \A j \in DOMAIN pgdir[p].pg \ S : pgdir'[p].pg[j] = pgdir[p].pg[j]
      /\ \A q \in Procs \ {p} : pgdir'[q] = pgdir[q]
  BY <1>0, <1>3, <1>4, UnmapKeeps
<1>6. sz[p] \in 0 .. MaxSize /\ to \in 0 .. MaxSize /\ to < sz[p]
  BY <1>0 DEF TypeOK
<1>7. /\ sz' \in [Procs -> 0 .. MaxSize]
      /\ to # 0 => sz'[p] = to
      /\ \A q \in Procs \ {p} : sz'[q] = sz[q]
  BY <1>0, <1>3, <1>6 DEF TypeOK
<1>8. TypeOK'
  BY <1>0, <1>4, <1>5, <1>7 DEF TypeOK
<1>9. \A q \in Procs \ {p} : Same(q)
  BY <1>4, <1>5, <1>7 DEF Same
<1>10. LifeInv'
  <2>1. LifeOK(p)' /\ ForkOK(p)'
    BY <1>0, <1>3, <1>4, <1>5 DEF LifeOK, ForkOK
  <2> QED
    BY <1>0, <1>3, <1>4, <1>9, <2>1, LifeCombine
<1>11. DOMAIN pgdir[p].pg \subseteq Pages
  BY <1>0, SpaceIs DEF TypeOK
<1>12. PgKept(p)
  <2>1. MinSize # 0 => \A i \in S : i >= sz'[p] /\ i < MaxSize
    BY <1>2, <1>6, <1>7, <1>11 DEF Pages
  <2> QED
    BY <1>5, <2>1 DEF PgKept
<1>13. MinSize # 0 => StackOK(p)'
  <2> SUFFICES ASSUME MinSize # 0, execed[p] = 1 PROVE StackOK(p)'
    BY <1>4 DEF StackOK
  <2>1. stack_psize[p] \in 1 .. MaxStack /\ Layout(p, sz[p])
    BY <1>0, <1>3 DEF ProcOK, StackOK
  <2>2. DOMAIN pgdir[p].pg = (0 .. sz[p] - 1) \cup (TOP - stack_psize[p] .. TOP - 1)
    BY <2>1 DEF Layout
  <2>3. DOMAIN pgdir[p].pg \ S = (0 .. to - 1) \cup (TOP - stack_psize[p] .. TOP - 1)
    BY <1>2, <1>6, <2>1, <2>2
  <2>4. sz'[p] = to
    BY <1>1, <1>7
  <2>5. (Layout(p, sz[p]))'
    BY <1>4, <1>5, <2>3, <2>4 DEF Layout
  <2> QED
    BY <1>3, <1>4, <2>1, <2>5 DEF StackOK
<1>14. ProcOK(p)'
  BY <1>3, <1>4, <1>13 DEF ProcOK, TodoOK, CopyOK, ComingOK
<1> QED
  BY <1>5, <1>8, <1>9, <1>10, <1>12, <1>14, Combine

\* A process whose count is right grows its stack within the bound.
LEMMA FaultIsBelow ==
  ASSUME TypeOK, NEW p \in Procs, Faults(p), Layout(p, sz[p])
  PROVE  stack_psize[p] < MaxStack
<1>1. stack_psize[p] \in Nat /\ TOP - StackBottom(p) < MaxStack
  BY DEF TypeOK, Faults
<1> DEFINE B == {i \in Pages : \A j \in i .. TOP - 1 : j \in DOMAIN pgdir[p].pg} \cup {TOP}
<1>2. B \in SUBSET Nat /\ TOP \in B /\ B # {}
  BY DEF Pages
<1>3. PICK m \in B : \A i \in B : m <= i
  BY <1>2, LeastNat
<1>4. StackBottom(p) = m
  <2>1. Min(B) = m
    BY <1>2, <1>3, MinIs
  <2> QED
    BY <2>1 DEF StackBottom
<1>5. m \in Nat /\ m <= TOP
  BY <1>2, <1>3
<1>6. CASE stack_psize[p] \in 1 .. TOP
  <2>1. \A j \in TOP - stack_psize[p] .. TOP - 1 : j \in DOMAIN pgdir[p].pg
    BY DEF Layout
  <2>2. TOP - stack_psize[p] \in B
    BY <1>6, <2>1 DEF Pages
  <2>3. m <= TOP - stack_psize[p]
    BY <1>3, <2>2
  <2> QED
    BY <1>1, <1>4, <1>5, <1>6, <2>3
<1>7. CASE stack_psize[p] = 0
  BY <1>7
<1>8. CASE stack_psize[p] > TOP
  <2>1. pgdir[p] \in Spaces
    BY DEF TypeOK
  <2>2. DOMAIN pgdir[p].pg \subseteq Pages
    BY <2>1, SpaceIs
  <2>3. -1 \in TOP - stack_psize[p] .. TOP - 1
    BY <1>1, <1>8
  <2>4. -1 \in DOMAIN pgdir[p].pg
    BY <2>3 DEF Layout
  <2> QED
    BY <2>2, <2>4 DEF Pages
<1> QED
  BY <1>1, <1>6, <1>7, <1>8

\* A page fault maps the page the count says.
LEMMA PageFaultKeeps ==
  ASSUME IndInv, NEW p \in Procs, PageFault(p)
  PROVE  IndInv' /\ OthersMem /\ \A q \in Procs : PgKept(q)
<1>0. TypeOK /\ Owned /\ LifeInv /\ ProcOK(p) /\ LifeOK(p) /\ ForkOK(p)
  BY IndInvIs, LifeInvIs
<1>1. PICK x : x = FaultPage(p)
  OBVIOUS
<1>2. /\ Faults(p) /\ life[p] = "live" /\ pc[p] = "user"
      /\ x \in 0 .. TOP - 2 /\ x \notin DOMAIN pgdir[p].pg
      /\ stack_psize' = [stack_psize EXCEPT ![p] = stack_psize[p] + 1]
  BY <1>1 DEF PageFault, Faults, Running, CanGrowStack
<1>3. PICK f \in Frames :
        /\ Kalloc(f)
        /\ free' = free \ {f}
        /\ mem' = [mem EXCEPT ![f] = Zeros]
        /\ pgdir' = [pgdir EXCEPT ![p] = Mapped(pgdir[p], x, f)]
  BY <1>1 DEF PageFault
<1>4. /\ life' = life /\ kstack' = kstack /\ sz' = sz /\ pc' = pc /\ child' = child
      /\ new' = new /\ todo' = todo /\ execed' = execed /\ panicked' = panicked
  BY DEF PageFault
<1>5. /\ free' \subseteq Frames
      /\ mem' \in [Frames -> {Zeros, Junk, Data}]
      /\ pgdir' \in [Procs -> Spaces]
      /\ Owned' /\ OthersMem /\ PgKept(p)
      /\ pgdir'[p].dir = pgdir[p].dir
      /\ DOMAIN pgdir'[p].pg = DOMAIN pgdir[p].pg \cup {x}
      /\ \A q \in Procs \ {p} : pgdir'[q] = pgdir[q]
  <2>1. x \in Pages
    BY <1>2 DEF Pages
  <2> QED
    BY <1>0, <1>2, <1>3, <1>4, <2>1, MapKeeps
<1>6. /\ stack_psize' \in [Procs -> Nat]
      /\ stack_psize[p] \in Nat
      /\ stack_psize'[p] = stack_psize[p] + 1
      /\ \A q \in Procs \ {p} : stack_psize'[q] = stack_psize[q]
  <2>1. stack_psize \in [Procs -> Nat]
    BY <1>0 DEF TypeOK
  <2>2. PICK n \in Nat : n = stack_psize[p] + 1
    BY <2>1
  <2>3. stack_psize' = [stack_psize EXCEPT ![p] = n]
    BY <1>2, <2>2
  <2> QED
    BY <2>1, <2>2, <2>3
<1>7. TypeOK'
  BY <1>0, <1>4, <1>5, <1>6 DEF TypeOK
<1>8. \A q \in Procs \ {p} : Same(q)
  BY <1>4, <1>5, <1>6 DEF Same
<1>9. LifeInv'
  <2>1. LifeOK(p)' /\ ForkOK(p)'
    BY <1>0, <1>2, <1>4, <1>5 DEF LifeOK, ForkOK
  <2> QED
    BY <1>0, <1>2, <1>4, <1>8, <2>1, LifeCombine
<1>10. MinSize # 0 => StackOK(p)'
  <2> SUFFICES ASSUME MinSize # 0, execed[p] = 1 PROVE StackOK(p)'
    BY <1>4 DEF StackOK
  <2>1. stack_psize[p] \in 1 .. MaxStack /\ Layout(p, sz[p])
    BY <1>0, <1>2 DEF ProcOK, StackOK
  <2>2. stack_psize[p] < MaxStack
    BY <1>0, <1>2, <2>1, FaultIsBelow
  <2>3. stack_psize'[p] \in 1 .. MaxStack
    BY <1>6, <2>1, <2>2
  <2>4. DOMAIN pgdir[p].pg = (0 .. sz[p] - 1) \cup (TOP - stack_psize[p] .. TOP - 1)
    BY <2>1 DEF Layout
  <2>5. (TOP - stack_psize'[p] .. TOP - 1) = (TOP - stack_psize[p] .. TOP - 1) \cup {x}
    BY <1>1, <1>6, <2>1 DEF FaultPage
  <2>6. DOMAIN pgdir'[p].pg = (0 .. sz'[p] - 1) \cup (TOP - stack_psize'[p] .. TOP - 1)
    BY <1>4, <1>5, <2>4, <2>5
  <2>7. (Layout(p, sz[p]))'
    BY <2>6 DEF Layout
  <2> QED
    BY <1>2, <1>4, <2>3, <2>7 DEF StackOK
<1>11. ProcOK(p)'
  BY <1>2, <1>4, <1>10 DEF ProcOK, TodoOK, CopyOK, ComingOK
<1> QED
  BY <1>5, <1>7, <1>8, <1>9, <1>11, Combine

-----------------------------------------------------------------------------
\* Programs

\* A process exits.
LEMMA ExitKeeps ==
  ASSUME IndInv, NEW p \in Procs, Exit(p)
  PROVE  IndInv' /\ OthersMem /\ \A q \in Procs : PgKept(q)
<1>0. TypeOK /\ Owned /\ LifeInv /\ ProcOK(p) /\ LifeOK(p) /\ ForkOK(p)
  BY IndInvIs, LifeInvIs
<1>1. life[p] = "live" /\ pc[p] = "user" /\ life' = [life EXCEPT ![p] = "zombie"]
  BY DEF Exit, Running
<1>2. /\ free' = free /\ mem' = mem /\ kstack' = kstack /\ pgdir' = pgdir /\ sz' = sz /\ stack_psize' = stack_psize
      /\ pc' = pc /\ child' = child /\ new' = new /\ todo' = todo /\ execed' = execed /\ panicked' = panicked
  BY DEF Exit
<1>3. /\ life' \in [Procs -> {"free", "embryo", "live", "zombie"}]
      /\ life'[p] = "zombie" /\ \A q \in Procs \ {p} : life'[q] = life[q]
  BY <1>0, <1>1 DEF TypeOK
<1>4. TypeOK'
  BY <1>0, <1>2, <1>3 DEF TypeOK
<1>5. Owned'
  BY <1>0, <1>2, OwnedSame, AtSame
<1>6. \A q \in Procs \ {p} : Same(q)
  BY <1>2, <1>3 DEF Same
<1>7. LifeInv'
  <2>1. LifeOK(p)' /\ ForkOK(p)'
    BY <1>0, <1>1, <1>2, <1>3 DEF LifeOK, ForkOK
  <2> QED
    BY <1>0, <1>1, <1>2, <1>6, <2>1, LifeCombine
<1>8. OthersMem
  BY <1>2 DEF OthersMem
<1>9. ProcOK(p)' /\ PgKept(p)
  BY <1>1, <1>2, <1>3, IdleKeeps DEF PgKept
<1> QED
  BY <1>4, <1>5, <1>6, <1>7, <1>8, <1>9, Combine

\* wait() frees a zombie.
LEMMA ReapKeeps ==
  ASSUME IndInv, NEW p \in Procs, Reap(p)
  PROVE  IndInv' /\ OthersMem /\ \A q \in Procs : PgKept(q)
<1>0. TypeOK /\ Owned /\ LifeInv /\ ProcOK(p) /\ LifeOK(p) /\ ForkOK(p)
  BY IndInvIs, LifeInvIs
<1>1. /\ life[p] = "zombie"
      /\ Kfree(Freevm(pgdir[p]) \cup {kstack[p]})
      /\ kstack' = [kstack EXCEPT ![p] = 0]
      /\ pgdir' = [pgdir EXCEPT ![p] = NoSpace]
      /\ life' = [life EXCEPT ![p] = "free"]
  BY DEF Reap
<1>2. /\ sz' = sz /\ stack_psize' = stack_psize /\ pc' = pc /\ child' = child /\ new' = new /\ todo' = todo
      /\ execed' = execed /\ panicked' = panicked
  BY DEF Reap
<1>3. pgdir[p] \in Spaces /\ kstack[p] \in Frames
  BY <1>0, <1>1 DEF TypeOK, LifeOK, Frames
<1>4. PICK S \in SUBSET Frames : S = Freevm(pgdir[p]) \cup {kstack[p]}
  BY <1>3, FreevmIs
<1>5. /\ free' = free \cup S /\ free' \subseteq Frames
      /\ mem' \in [Frames -> {Zeros, Junk, Data}]
      /\ OthersMem
  BY <1>0, <1>1, <1>4, KfreeIs
<1>6. /\ kstack'[p] = 0 /\ pgdir'[p] = NoSpace /\ life'[p] = "free"
      /\ \A q \in Procs \ {p} : kstack'[q] = kstack[q] /\ pgdir'[q] = pgdir[q] /\ life'[q] = life[q]
  BY <1>0, <1>1 DEF TypeOK
<1>7. TypeOK'
  <2>1. kstack' \in [Procs -> 0 .. NFRAMES] /\ life' \in [Procs -> {"free", "embryo", "live", "zombie"}]
    BY <1>0, <1>1 DEF TypeOK
  <2>2. pgdir' \in [Procs -> Spaces]
    BY <1>0, <1>1, NoSpaceIs DEF TypeOK
  <2> QED
    BY <1>0, <1>2, <1>5, <2>1, <2>2 DEF TypeOK
<1>8. Owned'
  <2>0. "kstack" \in Kinds /\ "pgdir" \in Kinds /\ -1 \in Places
    BY DEF Kinds, Places
  <2>1. \A i \in Places : At("pgdir", p, i) = Slot(pgdir[p], i) /\ At("pgdir", p, i)' = 0
    BY <1>6, NoSpaceIs DEF At, Slot
  <2>2. At("kstack", p, -1) = kstack[p] /\ At("kstack", p, -1)' = 0
    BY <1>6 DEF At
  <2>3. ASSUME NEW k \in Kinds, NEW q \in Procs, NEW i \in Places,
               ~(k = "pgdir" /\ q = p), ~(k = "kstack" /\ q = p /\ i = -1)
        PROVE  At(k, q, i)' = At(k, q, i)
    BY <2>3, <1>2, <1>6 DEF At, Slot, Kinds
  <2>4. \A k \in Kinds, q \in Procs, i \in Places :
          At(k, q, i)' = At(k, q, i) \/ (At(k, q, i)' = 0 /\ At(k, q, i) \in S \cup {0})
    BY <1>3, <1>4, <2>1, <2>2, <2>3, FreevmIs
  <2>5. ASSUME NEW f \in S
        PROVE  \E k \in Kinds, q \in Procs, i \in Places : At(k, q, i) = f /\ At(k, q, i)' = 0
    <3>1. CASE f = kstack[p]
      BY <2>0, <2>2, <3>1
    <3>2. CASE f \in Freevm(pgdir[p])
      <4>1. PICK i \in Places : Slot(pgdir[p], i) = f
        BY <1>3, <3>2, FreevmIs
      <4> QED
        BY <2>0, <2>1, <4>1
    <3> QED
      BY <1>4, <3>1, <3>2
  <2> QED
    <3>1. Freed(S)
      BY <1>5, <2>4, <2>5 DEF Freed
    <3> QED
      BY <1>0, <1>5, <3>1, OwnedFree
<1>9. \A q \in Procs \ {p} : Same(q)
  BY <1>2, <1>6 DEF Same
<1>10. LifeInv'
  <2>1. LifeOK(p)' /\ ForkOK(p)'
    BY <1>0, <1>1, <1>2, <1>6 DEF LifeOK, ForkOK
  <2> QED
    BY <1>0, <1>1, <1>2, <1>9, <2>1, LifeCombine
<1>11. ProcOK(p)' /\ PgKept(p)
  BY <1>0, <1>1, <1>2, <1>6, IdleKeeps DEF PgKept, LifeOK
<1> QED
  BY <1>5, <1>7, <1>8, <1>9, <1>10, <1>11, Combine

\* A store changes one page, which only the process that does it has.
LEMMA StoreKeeps ==
  ASSUME IndInv, NEW p \in Procs, NEW i \in Pages, Store(p, i)
  PROVE  /\ IndInv'
         /\ pgdir' = pgdir
         /\ \A q \in Procs, j \in Pages : (q # p \/ j # i) /\ j \in DOMAIN pgdir[q].pg =>
              mem'[pgdir[q].pg[j]] = mem[pgdir[q].pg[j]]
<1>0. TypeOK /\ Owned /\ LifeInv /\ \A q \in Procs : ProcOK(q)
  BY IndInvIs
<1>1. life[p] = "live" /\ pc[p] = "user" /\ i \in DOMAIN pgdir[p].pg /\ mem' = [mem EXCEPT ![pgdir[p].pg[i]] = Data]
  BY DEF Store, Running
<1>2. /\ free' = free /\ life' = life /\ kstack' = kstack /\ sz' = sz
      /\ stack_psize' = stack_psize /\ execed' = execed /\ pgdir' = pgdir /\ pc' = pc /\ child' = child
      /\ new' = new /\ todo' = todo /\ panicked' = panicked
  BY DEF Store, proc
<1>3. PICK f : f = pgdir[p].pg[i]
  OBVIOUS
<1>4. \A q \in Procs : pgdir[q] \in Spaces /\ new[q] \in Spaces
  BY <1>0 DEF TypeOK
<1>5. \A q \in Procs : DOMAIN pgdir[q].pg \subseteq Pages /\ DOMAIN new[q].pg \subseteq Pages
  BY <1>4, SpaceIs
<1>6. f \in Frames
  BY <1>1, <1>3, <1>4, SpaceIs
<1>7. mem' \in [Frames -> {Zeros, Junk, Data}] /\ \A g \in Frames \ {f} : mem'[g] = mem[g]
  BY <1>0, <1>1, <1>3, <1>6 DEF TypeOK
<1>8. Pages \subseteq Places /\ "pgdir" \in Kinds /\ "new" \in Kinds /\ "new" # "pgdir"
  BY DEF Pages, Places, Kinds
<1>9. /\ \A q \in Procs, j \in Pages : j \in DOMAIN pgdir[q].pg => At("pgdir", q, j) = pgdir[q].pg[j] /\ At("pgdir", q, j) # 0
      /\ \A q \in Procs, j \in Pages : j \in DOMAIN new[q].pg => At("new", q, j) = new[q].pg[j] /\ At("new", q, j) # 0
  <2>1. ASSUME NEW q \in Procs, NEW j \in Pages, j \in DOMAIN pgdir[q].pg
        PROVE  At("pgdir", q, j) = pgdir[q].pg[j] /\ At("pgdir", q, j) # 0
    <3>1. j \in Places /\ pgdir[q] \in Spaces
      BY <1>4, <1>8
    <3> QED
      BY <2>1, <3>1, MappedAt
  <2>2. ASSUME NEW q \in Procs, NEW j \in Pages, j \in DOMAIN new[q].pg
        PROVE  At("new", q, j) = new[q].pg[j] /\ At("new", q, j) # 0
    <3>1. j \in Places /\ new[q] \in Spaces
      BY <1>4, <1>8
    <3> QED
      BY <2>2, <3>1, MappedAt
  <2> QED
    BY <2>1, <2>2
<1>10. ASSUME NEW q \in Procs, NEW j \in Pages, q # p \/ j # i, j \in DOMAIN pgdir[q].pg
       PROVE  mem'[pgdir[q].pg[j]] = mem[pgdir[q].pg[j]]
  <2>1. pgdir[q].pg[j] # f
    <3>0. Owned /\ i \in Places /\ j \in Places /\ "pgdir" \in Kinds /\ At("pgdir", p, i) # 0
      BY <1>0, <1>1, <1>8, <1>9
    <3>1. At("pgdir", p, i) # At("pgdir", q, j)
      BY <3>0, <1>10, OneOwner
    <3> QED
      BY <1>1, <1>3, <1>9, <1>10, <3>1
  <2>2. pgdir[q].pg[j] \in Frames
    BY <1>4, <1>10, SpaceIs
  <2> QED
    BY <1>7, <2>1, <2>2
<1>11. ASSUME NEW q \in Procs, NEW j \in Pages, j \in DOMAIN new[q].pg
       PROVE  mem'[new[q].pg[j]] = mem[new[q].pg[j]]
  <2>1. new[q].pg[j] # f
    <3>0. /\ Owned /\ i \in Places /\ j \in Places /\ At("pgdir", p, i) # 0
          /\ "pgdir" \in Kinds /\ "new" \in Kinds /\ "pgdir" # "new"
      BY <1>0, <1>1, <1>8, <1>9
    <3>1. At("pgdir", p, i) # At("new", q, j)
      BY <3>0, OneOwner
    <3> QED
      BY <1>1, <1>3, <1>9, <1>11, <3>1
  <2>2. new[q].pg[j] \in Frames
    BY <1>4, <1>11, SpaceIs
  <2> QED
    BY <1>7, <2>1, <2>2
<1>12. TypeOK'
  BY <1>0, <1>2, <1>7 DEF TypeOK
<1>13. Owned'
  BY <1>0, <1>2, OwnedSame, AtSame
<1>14. LifeInv'
  BY <1>0, <1>2 DEF LifeInv
<1>15. ASSUME NEW q \in Procs PROVE ProcOK(q)'
  <2>1. CASE q # p
    <3>1. DataKept(q)
      BY <1>5, <1>10, <1>11, <2>1 DEF DataKept
    <3>2. Same(q)
      BY <1>2 DEF Same
    <3> QED
      BY <1>0, <3>1, <3>2, SameKeeps
  <2>2. CASE q = p
    BY <1>0, <1>1, <1>2, <2>2, QuietKeeps
  <2> QED
    BY <2>1, <2>2
<1>16. TodoInv' /\ CopyInv'
  BY <1>15 DEF TodoInv, CopyInv, ProcOK, TodoOK, CopyOK
<1>17. KeptInv'
  BY <1>15 DEF KeptInv, StackInv, ComingInv, ProcOK, StackOK, ComingOK
<1>18. IndInv'
  BY <1>12, <1>13, <1>14, <1>16, <1>17 DEF IndInv
<1> QED
  BY <1>2, <1>10, <1>18

-----------------------------------------------------------------------------
\* The theorems

\* The first process and its three pages satisfy the invariant.
LEMMA InitIndInv == Init => IndInv
<1> SUFFICES ASSUME Init PROVE IndInv
  OBVIOUS
<1> DEFINE g == [i \in {0} |-> 3]
           s == [dir |-> 2, pg |-> g]
<1>1. {0} \in SUBSET Pages /\ 1 \in Frames /\ 2 \in Frames /\ 3 \in Frames
  BY DEF Pages, Frames
<1>2. DOMAIN g = {0} /\ g[0] = 3 /\ g \in [{0} -> Frames]
  BY <1>1
<1> HIDE DEF g
<1>3. s \in Spaces /\ s.dir = 2 /\ s.pg = g
  <2>1. 2 \in 0 .. NFRAMES
    OBVIOUS
  <2> QED
    BY <1>1, <1>2, <2>1, SpaceFrom
<1>4. \A i \in Places : Slot(s, i) = IF i = -1 THEN 2 ELSE IF i = 0 THEN 3 ELSE 0
  BY <1>1, <1>2, <1>3 DEF Slot
<1>5. pgdir = [p \in Procs |-> IF p = 1 THEN s ELSE NoSpace]
  BY DEF Init, g
<1> HIDE DEF s
<1>6. /\ pgdir \in [Procs -> Spaces] /\ pgdir[1] = s /\ \A p \in Procs \ {1} : pgdir[p] = NoSpace
      /\ new \in [Procs -> Spaces] /\ \A p \in Procs : new[p] = NoSpace
  BY <1>3, <1>5, NoSpaceIs DEF Init
<1>7. /\ kstack \in [Procs -> 0 .. NFRAMES] /\ kstack[1] = 1 /\ \A p \in Procs \ {1} : kstack[p] = 0
      /\ life[1] = "live" /\ \A p \in Procs \ {1} : life[p] = "free"
      /\ \A p \in Procs : pc[p] = "user" /\ child[p] = 0
      /\ \A p \in Procs : execed[p] = 0
  BY DEF Init
<1>8. TypeOK
  <2>1. free \subseteq Frames /\ mem \in [Frames -> {Zeros, Junk, Data}]
    BY DEF Init
  <2>2. /\ life \in [Procs -> {"free", "embryo", "live", "zombie"}]
        /\ pc \in [Procs -> PCs] /\ child \in [Procs -> Procs \cup {0}]
        /\ execed \in [Procs -> {0, 1}] /\ panicked \in {0, 1}
    BY DEF Init, PCs
  <2>3. sz \in [Procs -> 0 .. MaxSize] /\ stack_psize \in [Procs -> Nat]
    BY DEF Init
  <2>4. todo \in [Procs -> Seq(Int)]
    <3>1. <<>> \in Seq(Int)
      OBVIOUS
    <3> QED
      BY <3>1 DEF Init
  <2> QED
    BY <1>6, <1>7, <2>1, <2>2, <2>3, <2>4 DEF TypeOK
<1>9. Owned
  <2>0. free = Frames \ (1 .. 3)
    BY DEF Init
  <2>1. "kstack" \in Kinds /\ "pgdir" \in Kinds /\ -1 \in Places /\ 0 \in Places /\ -1 # 0
    BY DEF Kinds, Places
  <2>2. \A k \in Kinds, p \in Procs \ {1}, i \in Places : At(k, p, i) = 0
    BY <1>6, <1>7, NoSpaceIs DEF At, Kinds
  <2>3. \A i \in Places : /\ At("kstack", 1, i) = IF i = -1 THEN 1 ELSE 0
                          /\ At("pgdir", 1, i) = Slot(s, i)
                          /\ At("new", 1, i) = 0
    BY <1>6, <1>7, NoSpaceIs, AtIs
  <2>4. \A k \in Kinds, p \in Procs, i \in Places : At(k, p, i) # 0 =>
          /\ p = 1
          /\ \/ k = "kstack" /\ i = -1 /\ At(k, p, i) = 1
             \/ k = "pgdir" /\ i = -1 /\ At(k, p, i) = 2
             \/ k = "pgdir" /\ i = 0 /\ At(k, p, i) = 3
    BY <1>4, <2>2, <2>3 DEF Kinds
  <2>5. \A k, l \in Kinds, p, q \in Procs, i, j \in Places :
          At(k, p, i) # 0 /\ At(k, p, i) = At(l, q, j) => k = l /\ p = q /\ i = j
    BY <2>4
  <2>6. \A k \in Kinds, p \in Procs, i \in Places : At(k, p, i) # 0 => At(k, p, i) \in Frames \ free
    BY <1>1, <2>0, <2>4
  <2>7. ASSUME NEW f \in Frames \ free
        PROVE  \E k \in Kinds, p \in Procs, i \in Places : At(k, p, i) = f
    <3>1. f \in {1, 2, 3}
      BY <2>0
    <3>2. At("kstack", 1, -1) = 1 /\ At("pgdir", 1, -1) = 2 /\ At("pgdir", 1, 0) = 3
      BY <1>1, <1>4, <2>1, <2>3
    <3>3. 1 \in Procs
      OBVIOUS
    <3> QED
      BY <2>1, <3>1, <3>2, <3>3
  <2> QED
    BY <2>5, <2>6, <2>7 DEF Owned
<1>10. LifeInv
  BY <1>3, <1>6, <1>7 DEF LifeInv, NoSpace
<1>11. TodoInv /\ CopyInv /\ ComingInv
  BY <1>7 DEF TodoInv, CopyInv, ComingInv
<1>12. StackInv
  BY <1>7 DEF StackInv
<1> QED
  BY <1>8, <1>9, <1>10, <1>11, <1>12 DEF IndInv, KeptInv

\* Every step keeps the invariant, and but for stores the memory in use.
LEMMA StepKeeps ==
  ASSUME IndInv, [Next]_vars
  PROVE  /\ IndInv'
         /\ \/ OthersMem /\ \A q \in Procs : PgKept(q)
            \/ \E p \in Procs, i \in Pages : Store(p, i)
<1> DEFINE Kept == IndInv' /\ OthersMem /\ \A q \in Procs : PgKept(q)
<1>1. CASE UNCHANGED vars
  <2>1. panicked' \in {0, 1} /\ UNCHANGED <<free, mem, proc, pgdir, pc, child, new, todo>>
    BY <1>1, IndInvIs DEF vars, proc, TypeOK
  <2> QED
    BY <2>1, PanicKeeps
<1>2. ASSUME Panic PROVE Kept
  BY <1>2, PanicKeeps DEF Panic
<1>3. ASSUME NEW p \in Procs, Step(p) PROVE Kept \/ \E i \in Pages : Store(p, i)
  <2>1. ASSUME ForkBegin(p) \/ ForkKvm(p) \/ ForkCopy(p) \/ ForkPanics(p) \/ ForkFails(p) \/ ForkDone(p)
        PROVE  Kept
    BY <1>2, <2>1, ForkBeginKeeps, ForkKvmKeeps, ForkCopyKeeps, ForkFailsKeeps, ForkDoneKeeps DEF ForkPanics
  <2>2. ASSUME ExecKvm(p) \/ ExecLoad(p) \/ ExecFails(p) \/ ExecCommit(p)
        PROVE  Kept
    BY <2>2, ExecKvmKeeps, ExecLoadKeeps, ExecFailsKeeps, ExecCommitKeeps
  <2>3. ASSUME GrowBegin(p) \/ GrowPage(p) \/ GrowPanics(p) \/ GrowFails(p) \/ GrowDone(p) \/ Shrink(p)
        PROVE  Kept
    BY <1>2, <2>3, GrowBeginKeeps, GrowPageKeeps, GrowFailsKeeps, GrowDoneKeeps, ShrinkKeeps DEF GrowPanics
  <2>4. ASSUME PageFault(p) \/ PageFaultPanics(p) \/ Exit(p) \/ Reap(p)
        PROVE  Kept
    BY <1>2, <2>4, PageFaultKeeps, ExitKeeps, ReapKeeps DEF PageFaultPanics
  <2> QED
    BY <1>3, <2>1, <2>2, <2>3, <2>4 DEF Step
<1>4. ASSUME NEW p \in Procs, NEW i \in Pages, Store(p, i) PROVE IndInv'
  BY <1>4, StoreKeeps
<1> QED
  BY <1>1, <1>3, <1>4 DEF Next

\* The inductive invariant: who owns each physical page, what each slot of
\* the process table holds, and what fork(), exec() and sbrk() have built so far.
THEOREM Invariance == Spec => []IndInv
<1>1. Init => IndInv
  BY InitIndInv
<1>2. IndInv /\ [Next]_vars => IndInv'
  BY StepKeeps
<1> QED
  BY <1>1, <1>2, PTL DEF Spec

\* Every variable of UserMem keeps its type; in particular no page is mapped
\* outside the user part of the address space.
THEOREM TypeCorrect == Spec => []TypeOK
<1>1. IndInv => TypeOK
  BY DEF IndInv
<1> QED
  BY <1>1, Invariance, PTL

\* The uses of a physical page, one kind after the other.
LEMMA UsesIs ==
  ASSUME NEW f, NEW u
  PROVE  u \in Uses(f) <=>
           \/ \E p \in Procs : kstack[p] = f /\ u = <<"kstack", p>>
           \/ \E p \in Procs : pgdir[p].dir = f /\ u = <<"dir", p>>
           \/ \E p \in Procs : new[p].dir = f /\ u = <<"newdir", p>>
           \/ \E p \in Procs : \E i \in DOMAIN pgdir[p].pg : pgdir[p].pg[i] = f /\ u = <<"page", p, i>>
           \/ \E p \in Procs : \E i \in DOMAIN new[p].pg : new[p].pg[i] = f /\ u = <<"newpage", p, i>>
<1> DEFINE A == {<<"kstack", p>> : p \in {q \in Procs : kstack[q] = f}}
           B == {<<"dir", p>> : p \in {q \in Procs : pgdir[q].dir = f}}
           C == {<<"newdir", p>> : p \in {q \in Procs : new[q].dir = f}}
           DAt(p) == {<<"page", p, i>> : i \in {j \in DOMAIN pgdir[p].pg : pgdir[p].pg[j] = f}}
           D == UNION {DAt(p) : p \in Procs}
           EAt(p) == {<<"newpage", p, i>> : i \in {j \in DOMAIN new[p].pg : new[p].pg[j] = f}}
           E == UNION {EAt(p) : p \in Procs}
<1>1. u \in A <=> \E p \in Procs : kstack[p] = f /\ u = <<"kstack", p>>
  BY Zenon
<1>2. u \in B <=> \E p \in Procs : pgdir[p].dir = f /\ u = <<"dir", p>>
  BY Zenon
<1>3. u \in C <=> \E p \in Procs : new[p].dir = f /\ u = <<"newdir", p>>
  BY Zenon
<1>4. u \in D <=> \E p \in Procs : \E i \in DOMAIN pgdir[p].pg : pgdir[p].pg[i] = f /\ u = <<"page", p, i>>
  <2>1. \A p \in Procs : u \in DAt(p) <=> \E i \in DOMAIN pgdir[p].pg : pgdir[p].pg[i] = f /\ u = <<"page", p, i>>
    BY Zenon
  <2> HIDE DEF DAt
  <2>2. u \in D <=> \E p \in Procs : u \in DAt(p)
    BY Zenon
  <2> QED
    BY <2>1, <2>2, Zenon
<1>5. u \in E <=> \E p \in Procs : \E i \in DOMAIN new[p].pg : new[p].pg[i] = f /\ u = <<"newpage", p, i>>
  <2>1. \A p \in Procs : u \in EAt(p) <=> \E i \in DOMAIN new[p].pg : new[p].pg[i] = f /\ u = <<"newpage", p, i>>
    BY Zenon
  <2> HIDE DEF EAt
  <2>2. u \in E <=> \E p \in Procs : u \in EAt(p)
    BY Zenon
  <2> QED
    BY <2>1, <2>2, Zenon
<1>6. Uses(f) = A \cup B \cup C \cup D \cup E
  BY DEF Uses
<1> HIDE DEF A, B, C, D, E
<1> QED
  BY <1>1, <1>2, <1>3, <1>4, <1>5, <1>6, Zenon

\* No physical page is lost, none is used twice, none is free and in use,
\* whatever fork(), exec() and sbrk() of other processes run out of memory in
\* between: kalloc(), kfree(), freevm(), copyuvm(), allocuvm(), deallocuvm().
THEOREM PagesOwned == Spec => []FramesOwned
<1>1. ASSUME IndInv PROVE FramesOwned
  <2>0. TypeOK /\ Owned
    BY <1>1 DEF IndInv
  <2>1. \A p \in Procs : pgdir[p] \in Spaces /\ new[p] \in Spaces
    BY <2>0 DEF TypeOK
  <2>2. \A p \in Procs : DOMAIN pgdir[p].pg \subseteq Pages /\ DOMAIN new[p].pg \subseteq Pages
    BY <2>1, SpaceIs
  <2>3. Pages \subseteq Places /\ -1 \in Places /\ -1 \notin Pages
    BY DEF Pages, Places
  <2>k. "kstack" \in Kinds /\ "pgdir" \in Kinds /\ "new" \in Kinds
    BY DEF Kinds
  <2> DEFINE U(k, p, i) ==
        CASE k = "kstack" -> <<"kstack", p>>
          [] k = "pgdir" /\ i = -1 -> <<"dir", p>>
          [] k = "new" /\ i = -1 -> <<"newdir", p>>
          [] k = "pgdir" /\ i # -1 -> <<"page", p, i>>
          [] k = "new" /\ i # -1 -> <<"newpage", p, i>>
  <2>4. ASSUME NEW f \in Frames, NEW u \in Uses(f)
        PROVE  \E k \in Kinds, p \in Procs, i \in Places : At(k, p, i) = f /\ u = U(k, p, i)
    <3>1. CASE \E p \in Procs : kstack[p] = f /\ u = <<"kstack", p>>
      <4>1. PICK p \in Procs : kstack[p] = f /\ u = <<"kstack", p>>
        BY <3>1
      <4>2. At("kstack", p, -1) = f
        BY <4>1 DEF At
      <4> QED
        BY <2>3, <2>k, <4>1, <4>2
    <3>2. CASE \E p \in Procs : pgdir[p].dir = f /\ u = <<"dir", p>>
      <4>1. PICK p \in Procs : pgdir[p].dir = f /\ u = <<"dir", p>>
        BY <3>2
      <4>2. At("pgdir", p, -1) = f
        BY <4>1 DEF At, Slot
      <4> QED
        BY <2>3, <2>k, <4>1, <4>2
    <3>3. CASE \E p \in Procs : new[p].dir = f /\ u = <<"newdir", p>>
      <4>1. PICK p \in Procs : new[p].dir = f /\ u = <<"newdir", p>>
        BY <3>3
      <4>2. At("new", p, -1) = f
        BY <4>1 DEF At, Slot
      <4> QED
        BY <2>3, <2>k, <4>1, <4>2
    <3>4. CASE \E p \in Procs : \E i \in DOMAIN pgdir[p].pg : pgdir[p].pg[i] = f /\ u = <<"page", p, i>>
      <4>1. PICK p \in Procs : \E i \in DOMAIN pgdir[p].pg : pgdir[p].pg[i] = f /\ u = <<"page", p, i>>
        BY <3>4
      <4>2. PICK i \in DOMAIN pgdir[p].pg : pgdir[p].pg[i] = f /\ u = <<"page", p, i>>
        BY <4>1
      <4>3. i \in Places /\ i # -1
        BY <2>2, <2>3
      <4>4. At("pgdir", p, i) = f
        BY <4>2, <4>3 DEF At, Slot
      <4> QED
        BY <2>k, <4>2, <4>3, <4>4
    <3>5. CASE \E p \in Procs : \E i \in DOMAIN new[p].pg : new[p].pg[i] = f /\ u = <<"newpage", p, i>>
      <4>1. PICK p \in Procs : \E i \in DOMAIN new[p].pg : new[p].pg[i] = f /\ u = <<"newpage", p, i>>
        BY <3>5
      <4>2. PICK i \in DOMAIN new[p].pg : new[p].pg[i] = f /\ u = <<"newpage", p, i>>
        BY <4>1
      <4>3. i \in Places /\ i # -1
        BY <2>2, <2>3
      <4>4. At("new", p, i) = f
        BY <4>2, <4>3 DEF At, Slot
      <4> QED
        BY <2>k, <4>2, <4>3, <4>4
    <3>6. \/ \E p \in Procs : kstack[p] = f /\ u = <<"kstack", p>>
          \/ \E p \in Procs : pgdir[p].dir = f /\ u = <<"dir", p>>
          \/ \E p \in Procs : new[p].dir = f /\ u = <<"newdir", p>>
          \/ \E p \in Procs : \E i \in DOMAIN pgdir[p].pg : pgdir[p].pg[i] = f /\ u = <<"page", p, i>>
          \/ \E p \in Procs : \E i \in DOMAIN new[p].pg : new[p].pg[i] = f /\ u = <<"newpage", p, i>>
      BY <2>4, UsesIs
    <3> HIDE DEF U
    <3> QED
      BY <3>1, <3>2, <3>3, <3>4, <3>5, <3>6
  <2>5. ASSUME NEW f \in Frames, NEW k \in Kinds, NEW p \in Procs, NEW i \in Places, At(k, p, i) = f
        PROVE  U(k, p, i) \in Uses(f)
    <3>0. f # 0
      BY DEF Frames
    <3>1. CASE k = "kstack"
      <4>1. kstack[p] = f
        BY <2>5, <3>0, <3>1 DEF At
      <4>2. U(k, p, i) = <<"kstack", p>>
        BY <3>1
      <4> QED
        BY <4>1, <4>2, UsesIs, Zenon
    <3>2. CASE k = "pgdir" /\ i = -1
      <4>1. pgdir[p].dir = f
        BY <2>5, <3>2 DEF At, Slot
      <4>2. U(k, p, i) = <<"dir", p>>
        BY <3>2
      <4> QED
        BY <4>1, <4>2, UsesIs, Zenon
    <3>3. CASE k = "new" /\ i = -1
      <4>1. new[p].dir = f
        BY <2>5, <3>3 DEF At, Slot
      <4>2. U(k, p, i) = <<"newdir", p>>
        BY <3>3
      <4> QED
        BY <4>1, <4>2, UsesIs, Zenon
    <3>4. CASE k = "pgdir" /\ i # -1
      <4>1. i \in DOMAIN pgdir[p].pg /\ pgdir[p].pg[i] = f
        BY <2>5, <3>0, <3>4 DEF At, Slot
      <4>2. U(k, p, i) = <<"page", p, i>>
        BY <3>4
      <4>3. <<"page", p, i>> \in Uses(f)
        BY <4>1, UsesIs, Zenon
      <4> HIDE DEF U
      <4> QED
        BY <4>2, <4>3, Zenon
    <3>5. CASE k = "new" /\ i # -1
      <4>1. i \in DOMAIN new[p].pg /\ new[p].pg[i] = f
        BY <2>5, <3>0, <3>5 DEF At, Slot
      <4>2. U(k, p, i) = <<"newpage", p, i>>
        BY <3>5
      <4>3. <<"newpage", p, i>> \in Uses(f)
        BY <4>1, UsesIs, Zenon
      <4> HIDE DEF U
      <4> QED
        BY <4>2, <4>3, Zenon
    <3> QED
      BY <3>1, <3>2, <3>3, <3>4, <3>5 DEF Kinds
  <2> HIDE DEF U
  <2>6. ASSUME NEW f \in free PROVE Uses(f) = {}
    <3>1. f \in Frames /\ f # 0
      BY <2>0 DEF TypeOK, Frames
    <3>2. ASSUME NEW u \in Uses(f) PROVE FALSE
      BY <2>0, <2>4, <3>1, <3>2 DEF Owned
    <3> QED
      BY <3>2
  <2>7. ASSUME NEW f \in Frames \ free PROVE Cardinality(Uses(f)) = 1
    <3>0. f # 0
      BY DEF Frames
    <3>1. PICK k \in Kinds, p \in Procs, i \in Places : At(k, p, i) = f
      BY <2>0 DEF Owned
    <3>2. U(k, p, i) \in Uses(f)
      BY <2>5, <3>1
    <3>3. ASSUME NEW u \in Uses(f) PROVE u = U(k, p, i)
      <4>1. PICK l \in Kinds, q \in Procs, j \in Places : At(l, q, j) = f /\ u = U(l, q, j)
        BY <2>4, <3>3
      <4>2. l = k /\ q = p /\ j = i
        BY <2>0, <3>0, <3>1, <4>1 DEF Owned
      <4> QED
        BY <4>1, <4>2
    <3>4. PICK u : u = U(k, p, i)
      OBVIOUS
    <3>5. Uses(f) = {u}
      BY <3>2, <3>3, <3>4
    <3>6. Cardinality({u}) = 1
      BY FS_Singleton
    <3> QED
      BY <3>5, <3>6, Zenon
  <2> QED
    BY <2>6, <2>7 DEF FramesOwned
<1> QED
  BY <1>1, Invariance, PTL

\* When no program gives back its last page: the stack_psize of a process
\* that has called exec() is the number of its stack pages, so the page fault
\* handler of trap() maps the next one.
THEOREM StackIsCounted ==
  ASSUME MinSize # 0
  PROVE  Spec => []StackCounted
<1>1. IndInv => StackCounted
  BY DEF IndInv, KeptInv, StackInv, StackCounted, Layout
<1> QED
  BY <1>1, Invariance, PTL

\* A step other than the process's own store leaves what its pages hold.
LEMMA StepKeepsMemory ==
  ASSUME MinSize # 0, IndInv, [Next]_vars, NEW p \in Procs,
         life[p] = "live", life'[p] = "live", pgdir'[p].dir = pgdir[p].dir,
         NEW i \in DOMAIN pgdir[p].pg
  PROVE  \/ i \in DOMAIN pgdir'[p].pg /\ Holds(p, i)' = Holds(p, i)
         \/ Store(p, i)
         \/ i >= sz'[p] /\ i < MaxSize
<1>0. TypeOK /\ Owned /\ IndInv'
  BY StepKeeps, IndInvIs
<1>1. pgdir[p] \in Spaces
  BY <1>0 DEF TypeOK
<1>2. i \in Pages
  BY <1>1, SpaceIs
<1>3. i \in Places /\ i # -1 /\ "pgdir" \in Kinds
  BY <1>2 DEF Pages, Places, Kinds
<1>4. CASE OthersMem /\ \A q \in Procs : PgKept(q)
  <2>1. CASE i \in DOMAIN pgdir'[p].pg /\ pgdir'[p].pg[i] = pgdir[p].pg[i]
    <3>1. At("pgdir", p, i) = pgdir[p].pg[i] /\ At("pgdir", p, i) # 0
      BY <1>1, <1>3, MappedAt
    <3>2. At("pgdir", p, i)' = pgdir[p].pg[i]
      BY <1>3, <2>1 DEF At, Slot
    <3>3. Owned'
      BY <1>0 DEF IndInv
    <3>4. mem'[pgdir[p].pg[i]] = mem[pgdir[p].pg[i]]
      BY <1>0, <1>3, <1>4, <3>1, <3>2, <3>3, PlaceKept
    <3> QED
      BY <2>1, <3>4 DEF Holds
  <2>2. CASE i >= sz'[p] /\ i < MaxSize
    BY <2>2
  <2> QED
    BY <1>4, <2>1, <2>2 DEF PgKept
<1>5. ASSUME NEW q \in Procs, NEW j \in Pages, Store(q, j)
      PROVE  Store(p, i) \/ (i \in DOMAIN pgdir'[p].pg /\ Holds(p, i)' = Holds(p, i))
  <2>1. /\ pgdir' = pgdir
        /\ \A r \in Procs, k \in Pages : (r # q \/ k # j) /\ k \in DOMAIN pgdir[r].pg =>
             mem'[pgdir[r].pg[k]] = mem[pgdir[r].pg[k]]
    BY <1>5, StoreKeeps
  <2>2. CASE q = p /\ j = i
    BY <1>5, <2>2
  <2>3. CASE ~(q = p /\ j = i)
    <3>1. mem'[pgdir[p].pg[i]] = mem[pgdir[p].pg[i]]
      BY <1>2, <2>1, <2>3
    <3> QED
      BY <2>1, <3>1 DEF Holds
  <2> QED
    BY <2>2, <2>3
<1> QED
  BY <1>4, <1>5, StepKeeps

\* When no program gives back its last page: what the pages of a process hold
\* changes by its own stores only, and only sbrk() takes pages from it.
THEOREM MemoryIsKept ==
  ASSUME MinSize # 0
  PROVE  Spec => MemoryKept
<1>1. ASSUME IndInv, [Next]_vars
      PROVE  [\A p \in Procs :
                life[p] = "live" /\ life'[p] = "live" /\ pgdir'[p].dir = pgdir[p].dir =>
                  \A i \in DOMAIN pgdir[p].pg :
                    \/ i \in DOMAIN pgdir'[p].pg /\ Holds(p, i)' = Holds(p, i)
                    \/ Store(p, i)
                    \/ i >= sz'[p] /\ i < MaxSize]_vars
  BY <1>1, StepKeepsMemory
<1> QED
  BY <1>1, Invariance, PTL DEF Spec, MemoryKept

\* Only the last step of fork() makes an embryo run.
LEMMA BornInFork ==
  ASSUME IndInv, [Next]_vars, NEW p \in Procs, NEW np \in Procs, Born(p, np)
  PROVE  ForkDone(p)
<1>0. TypeOK /\ LifeInv
  BY IndInvIs
<1>1. child[p] = np /\ life[np] = "embryo" /\ life'[np] = "live"
  BY DEF Born
<1>2. life' # life
  BY <1>1
<1>3. PICK q \in Procs : Step(q)
  BY <1>2 DEF Next, vars
<1>4. \/ ForkBegin(q) \/ ForkFails(q) \/ ForkDone(q) \/ Exit(q) \/ Reap(q)
  BY <1>2, <1>3 DEF Step, ForkKvm, Setupkvm, ForkCopy, NextPage, ForkPanics, Panic, ExecKvm, ExecLoad, ExecFails,
                    ExecCommit, GrowBegin, GrowPage, GrowPanics, GrowFails, GrowDone, Shrink, PageFault, PageFaultPanics,
                    Store, proc
<1>5. life \in [Procs -> {"free", "embryo", "live", "zombie"}]
  BY <1>0 DEF TypeOK
<1>6. ~ForkBegin(q)
  BY <1>1, <1>5 DEF ForkBegin
<1>7. ~ForkFails(q)
  BY <1>1, <1>5 DEF ForkFails
<1>8. ~Exit(q) /\ ~Reap(q)
  BY <1>1, <1>5 DEF Exit, Reap
<1>9. ForkDone(q)
  BY <1>4, <1>6, <1>7, <1>8
<1>10. child[q] = np
  BY <1>1, <1>5, <1>9 DEF ForkDone
<1>11. q = p
  BY <1>0, <1>1, <1>10 DEF LifeInv
<1> QED
  BY <1>9, <1>11

\* When no program gives back its last page: fork() in a process that has
\* called exec() gives the child every page with its data, whatever other
\* processes do while copyuvm() is at work.
THEOREM ForkIsComplete ==
  ASSUME MinSize # 0
  PROVE  Spec => ForkAfterExecCopies
<1>1. ASSUME IndInv, [Next]_vars
      PROVE  [\A p, np \in Procs : Born(p, np) /\ execed[p] = 1 => IsCopy(p, np)]_vars
  <2> SUFFICES ASSUME NEW p \in Procs, NEW np \in Procs, Born(p, np), execed[p] = 1
               PROVE  IsCopy(p, np)
    OBVIOUS
  <2>0. TypeOK /\ ProcOK(p)
    BY <1>1, IndInvIs
  <2>1. ForkDone(p) /\ child[p] = np
    BY <1>1, BornInFork DEF Born
  <2>2. pc[p] = "fork_copy" /\ todo[p] = <<>> /\ pgdir' = [pgdir EXCEPT ![np] = new[p]] /\ mem' = mem
    BY <2>1 DEF ForkDone, Running
  <2>3. pgdir'[np] = new[p]
    BY <2>0, <2>2 DEF TypeOK
  <2>4. \A i \in DOMAIN new[p].pg : i \in DOMAIN pgdir[p].pg /\ mem[new[p].pg[i]] = mem[pgdir[p].pg[i]]
    BY <2>0, <2>2 DEF ProcOK, CopyOK
  <2>5. DOMAIN pgdir[p].pg \subseteq DOMAIN new[p].pg
    BY <2>0, <2>2 DEF ProcOK, ComingOK
  <2> QED
    BY <2>2, <2>3, <2>4, <2>5 DEF IsCopy, Holds
<1> QED
  BY <1>1, Invariance, PTL DEF Spec, ForkAfterExecCopies
=============================================================================
