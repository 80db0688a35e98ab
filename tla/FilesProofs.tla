---------------------------- MODULE FilesProofs ----------------------------
(***************************************************************************)
(* Proofs about Files for all programs and every size of its tables: the   *)
(* reference counts of open files and of inodes are the pointers to them,  *)
(* whatever calls of several processes do at once and wherever they fail;  *)
(* and a block is marked in use iff one inode has it, and only one.        *)
(***************************************************************************)
EXTENDS Files, Facts

\* The sizes of the tables, one by one.
LEMMA Sizes ==
  /\ NPROC \in Nat \ {0} /\ NInodes \in Nat \ {0} /\ NFILE \in Nat \ {0} /\ NOFILE \in Nat \ {0}
  /\ BSIZE \in Nat \ {0} /\ NDIRECT \in Nat \ {0} /\ NBLOCKS \in Nat
  BY FilesAssumption

\* A pointer that is not null points at an inode.
LEMMA InoIs ==
  /\ \A i : i \in Ino <=> i \in 0..NInodes /\ i # 0
  /\ 0 \in 0..NInodes /\ ROOTINO \in Ino
  BY Sizes DEF Ino, ROOTINO

-----------------------------------------------------------------------------
\* Counting pointers

One(x) == IF x THEN 1 ELSE 0
Only(x, S) == IF x THEN S ELSE {}

\* How often i is among the inodes to be put.
PutCount(s, i) == One(Len(s) >= 1 /\ s[1] = i) + One(Len(s) >= 2 /\ s[2] = i)

\* The pointers to inode i of a process q with thread t and current
\* directory c, their number, and those of open files.
Mine(q, t, c, i) ==
       Only(c = i /\ t.pc # "chdir2", {<<"cwd", q, 0>>})
  \cup Only(t.ip = i, {<<"ip", q, 0>>})
  \cup Only(t.dp = i, {<<"dp", q, 0>>})
  \cup Only(t.at = i, {<<"at", q, 0>>})
  \cup Only(Len(t.puts) >= 1 /\ t.puts[1] = i, {<<"put", q, 1>>})
  \cup Only(Len(t.puts) >= 2 /\ t.puts[2] = i, {<<"put", q, 2>>})
Count(t, c, i) ==
  One(c = i /\ t.pc # "chdir2") + One(t.ip = i) + One(t.dp = i) + One(t.at = i) + PutCount(t.puts, i)
InFiles(F, i) == {<<"file", f, 0>> : f \in {g \in 1..NFILE : F[g].ip = i}}
Others(P, T, p, i) == UNION {Mine(q, T[q], P[q].cwd, i) : q \in Proc \ {p}}

\* The pointers to inode i with open files F, processes P and threads T.
PointersOf(F, P, T, i) ==
       {<<"file", f, 0>> : f \in {g \in 1..NFILE : F[g].ref > 0 /\ F[g].ip = i}}
  \cup {<<"cwd", p, 0>> : p \in {q \in Proc : P[q].cwd = i /\ T[q].pc # "chdir2"}}
  \cup {<<"ip", p, 0>> : p \in {q \in Proc : T[q].ip = i}}
  \cup {<<"dp", p, 0>> : p \in {q \in Proc : T[q].dp = i}}
  \cup {<<"at", p, 0>> : p \in {q \in Proc : T[q].at = i}}
  \cup UNION {{<<"put", p, k>> : k \in {j \in DOMAIN T[p].puts : T[p].puts[j] = i}} : p \in Proc}

\* Adding an element that is not there.
LEMMA AddOne ==
  ASSUME NEW S, IsFiniteSet(S), NEW x, x \notin S, NEW X, NEW n, (X = {x} /\ n = 1) \/ (X = {} /\ n = 0)
  PROVE  IsFiniteSet(S \cup X) /\ Cardinality(S \cup X) = Cardinality(S) + n
<1>1. CASE X = {x} /\ n = 1
  BY <1>1, FS_AddElement, FS_CardinalityType
<1>2. CASE X = {} /\ n = 0
  <2>1. S \cup X = S
    BY <1>2
  <2> QED
    BY <1>2, <2>1, FS_CardinalityType
<1> QED
  BY <1>1, <1>2

\* The number of pointers of a process.
LEMMA MineIs ==
  ASSUME NEW q, NEW t, NEW c, NEW i
  PROVE  /\ IsFiniteSet(Mine(q, t, c, i))
         /\ Cardinality(Mine(q, t, c, i)) = Count(t, c, i)
         /\ Count(t, c, i) \in Nat
<1> DEFINE X1 == Only(c = i /\ t.pc # "chdir2", {<<"cwd", q, 0>>})
           X2 == Only(t.ip = i, {<<"ip", q, 0>>})
           X3 == Only(t.dp = i, {<<"dp", q, 0>>})
           X4 == Only(t.at = i, {<<"at", q, 0>>})
           X5 == Only(Len(t.puts) >= 1 /\ t.puts[1] = i, {<<"put", q, 1>>})
           X6 == Only(Len(t.puts) >= 2 /\ t.puts[2] = i, {<<"put", q, 2>>})
           n1 == One(c = i /\ t.pc # "chdir2")
           n2 == One(t.ip = i)
           n3 == One(t.dp = i)
           n4 == One(t.at = i)
           n5 == One(Len(t.puts) >= 1 /\ t.puts[1] = i)
           n6 == One(Len(t.puts) >= 2 /\ t.puts[2] = i)
           S2 == X1 \cup X2
           S3 == S2 \cup X3
           S4 == S3 \cup X4
           S5 == S4 \cup X5
           S6 == S5 \cup X6
<1>1. IsFiniteSet(X1) /\ Cardinality(X1) = n1
  BY FS_EmptySet, FS_Singleton DEF One, Only
<1>2. IsFiniteSet(S2) /\ Cardinality(S2) = Cardinality(X1) + n2
  <2>1. <<"ip", q, 0>> \notin X1
    BY DEF Only
  <2>2. (X2 = {<<"ip", q, 0>>} /\ n2 = 1) \/ (X2 = {} /\ n2 = 0)
    BY DEF One, Only
  <2>3. S2 = X1 \cup X2
    OBVIOUS
  <2> HIDE DEF X1, X2, S2, S3, S4, S5, S6, n1, n2, n3, n4, n5, n6
  <2> QED
    BY <1>1, <2>1, <2>2, <2>3, AddOne
<1>3. IsFiniteSet(S3) /\ Cardinality(S3) = Cardinality(S2) + n3
  <2>1. <<"dp", q, 0>> \notin S2
    BY DEF Only
  <2>2. (X3 = {<<"dp", q, 0>>} /\ n3 = 1) \/ (X3 = {} /\ n3 = 0)
    BY DEF One, Only
  <2>3. S3 = S2 \cup X3
    OBVIOUS
  <2> HIDE DEF X1, X3, S2, S3, S4, S5, S6, n1, n2, n3, n4, n5, n6
  <2> QED
    BY <1>2, <2>1, <2>2, <2>3, AddOne
<1>4. IsFiniteSet(S4) /\ Cardinality(S4) = Cardinality(S3) + n4
  <2>1. <<"at", q, 0>> \notin S3
    BY DEF Only
  <2>2. (X4 = {<<"at", q, 0>>} /\ n4 = 1) \/ (X4 = {} /\ n4 = 0)
    BY DEF One, Only
  <2>3. S4 = S3 \cup X4
    OBVIOUS
  <2> HIDE DEF X1, X4, S2, S3, S4, S5, S6, n1, n2, n3, n4, n5, n6
  <2> QED
    BY <1>3, <2>1, <2>2, <2>3, AddOne
<1>5. IsFiniteSet(S5) /\ Cardinality(S5) = Cardinality(S4) + n5
  <2>1. <<"put", q, 1>> \notin S4
    BY DEF Only
  <2>2. (X5 = {<<"put", q, 1>>} /\ n5 = 1) \/ (X5 = {} /\ n5 = 0)
    BY DEF One, Only
  <2>3. S5 = S4 \cup X5
    OBVIOUS
  <2> HIDE DEF X1, X5, S2, S3, S4, S5, S6, n1, n2, n3, n4, n5, n6
  <2> QED
    BY <1>4, <2>1, <2>2, <2>3, AddOne
<1>6. IsFiniteSet(S6) /\ Cardinality(S6) = Cardinality(S5) + n6
  <2>1. <<"put", q, 2>> \notin S5
    BY DEF Only
  <2>2. (X6 = {<<"put", q, 2>>} /\ n6 = 1) \/ (X6 = {} /\ n6 = 0)
    BY DEF One, Only
  <2>3. S6 = S5 \cup X6
    OBVIOUS
  <2> HIDE DEF X1, X6, S2, S3, S4, S5, S6, n1, n2, n3, n4, n5, n6
  <2> QED
    BY <1>5, <2>1, <2>2, <2>3, AddOne
<1>7. S6 = Mine(q, t, c, i) /\ Count(t, c, i) = n1 + n2 + n3 + n4 + (n5 + n6)
  BY DEF Mine, Count, PutCount
<1>8. /\ n1 \in Nat /\ n2 \in Nat /\ n3 \in Nat
      /\ n4 \in Nat /\ n5 \in Nat /\ n6 \in Nat
  BY DEF One
<1> HIDE DEF X1, S2, S3, S4, S5, S6, n1, n2, n3, n4, n5, n6
<1> QED
  BY <1>1, <1>2, <1>3, <1>4, <1>5, <1>6, <1>7, <1>8

\* What a process points at is its own.
LEMMA MineHas ==
  ASSUME NEW q, NEW t, NEW c, NEW i, NEW x \in Mine(q, t, c, i)
  PROVE  \E n \in {"cwd", "ip", "dp", "at", "put"}, k \in 0..2 : x = <<n, q, k>>
  BY DEF Mine, Only

\* The sequences of inodes to be put.
LEMMA PutsAre ==
  ASSUME NEW s \in Puts
  PROVE  /\ Len(s) \in 0..2
         /\ \A k : k \in DOMAIN s <=> k \in 1..2 /\ k <= Len(s)
         /\ s = <<>> <=> Len(s) = 0
         /\ Len(s) >= 1 => s[1] \in Ino /\ Head(s) = s[1]
         /\ Len(s) = 1 => Tail(s) = <<>>
         /\ Len(s) = 2 => s[2] \in Ino /\ Tail(s) = <<s[2]>>
<1>1. CASE s = <<>>
  BY <1>1
<1>2. ASSUME NEW i \in Ino, s = <<i>> PROVE Len(s) = 1 /\ DOMAIN s = {1} /\ s[1] = i /\ Head(s) = i /\ Tail(s) = <<>>
  BY <1>2
<1>3. ASSUME NEW i \in Ino, NEW j \in Ino, s = <<i, j>>
      PROVE  Len(s) = 2 /\ DOMAIN s = {1, 2} /\ s[1] = i /\ s[2] = j /\ Head(s) = i /\ Tail(s) = <<j>>
  BY <1>3
<1> QED
  BY <1>1, <1>2, <1>3 DEF Puts

\* The pointers to an inode are those of the open files and of the processes.
LEMMA PointersAre ==
  ASSUME NEW F, NEW P, NEW T, NEW i \in Ino, NEW x,
         \A f \in 1..NFILE : F[f].ip = i => F[f].ref > 0, \A q \in Proc : T[q].puts \in Puts
  PROVE  x \in PointersOf(F, P, T, i) <=> x \in InFiles(F, i) \/ \E q \in Proc : x \in Mine(q, T[q], P[q].cwd, i)
<1>1. \A f \in 1..NFILE : F[f].ref > 0 /\ F[f].ip = i <=> F[f].ip = i
  OBVIOUS
<1>2. ASSUME NEW q \in Proc
      PROVE  x \in {<<"put", q, k>> : k \in {j \in DOMAIN T[q].puts : T[q].puts[j] = i}}
             <=> x \in Only(Len(T[q].puts) >= 1 /\ T[q].puts[1] = i, {<<"put", q, 1>>})
                 \/ x \in Only(Len(T[q].puts) >= 2 /\ T[q].puts[2] = i, {<<"put", q, 2>>})
  <2>1. T[q].puts \in Puts
    OBVIOUS
  <2>2. PICK s \in Puts : s = T[q].puts
    BY <2>1
  <2>3. Len(s) \in 0..2 /\ \A k : k \in DOMAIN s <=> k \in 1..2 /\ k <= Len(s)
    BY PutsAre
  <2>4. x \in {<<"put", q, k>> : k \in {j \in DOMAIN s : s[j] = i}}
        <=> \E k \in 1..2 : k <= Len(s) /\ s[k] = i /\ x = <<"put", q, k>>
    BY <2>3
  <2> QED
    BY <2>2, <2>3, <2>4 DEF Only
<1>3. x \in {<<"file", f, 0>> : f \in {g \in 1..NFILE : F[g].ref > 0 /\ F[g].ip = i}} <=> x \in InFiles(F, i)
  BY <1>1 DEF InFiles
<1>4. ASSUME NEW q \in Proc
      PROVE  /\ x \in Only(P[q].cwd = i /\ T[q].pc # "chdir2", {<<"cwd", q, 0>>})
                <=> P[q].cwd = i /\ T[q].pc # "chdir2" /\ x = <<"cwd", q, 0>>
             /\ x \in Only(T[q].ip = i, {<<"ip", q, 0>>}) <=> T[q].ip = i /\ x = <<"ip", q, 0>>
             /\ x \in Only(T[q].dp = i, {<<"dp", q, 0>>}) <=> T[q].dp = i /\ x = <<"dp", q, 0>>
             /\ x \in Only(T[q].at = i, {<<"at", q, 0>>}) <=> T[q].at = i /\ x = <<"at", q, 0>>
  BY DEF Only
<1>5. /\ x \in {<<"cwd", p, 0>> : p \in {q \in Proc : P[q].cwd = i /\ T[q].pc # "chdir2"}}
         <=> \E q \in Proc : P[q].cwd = i /\ T[q].pc # "chdir2" /\ x = <<"cwd", q, 0>>
      /\ x \in {<<"ip", p, 0>> : p \in {q \in Proc : T[q].ip = i}} <=> \E q \in Proc : T[q].ip = i /\ x = <<"ip", q, 0>>
      /\ x \in {<<"dp", p, 0>> : p \in {q \in Proc : T[q].dp = i}} <=> \E q \in Proc : T[q].dp = i /\ x = <<"dp", q, 0>>
      /\ x \in {<<"at", p, 0>> : p \in {q \in Proc : T[q].at = i}} <=> \E q \in Proc : T[q].at = i /\ x = <<"at", q, 0>>
      /\ x \in UNION {{<<"put", p, k>> : k \in {j \in DOMAIN T[p].puts : T[p].puts[j] = i}} : p \in Proc}
         <=> \E q \in Proc : x \in {<<"put", q, k>> : k \in {j \in DOMAIN T[q].puts : T[q].puts[j] = i}}
  OBVIOUS
<1>6. ASSUME NEW q \in Proc
      PROVE  x \in Mine(q, T[q], P[q].cwd, i) <=>
               \/ P[q].cwd = i /\ T[q].pc # "chdir2" /\ x = <<"cwd", q, 0>>
               \/ T[q].ip = i /\ x = <<"ip", q, 0>>
               \/ T[q].dp = i /\ x = <<"dp", q, 0>>
               \/ T[q].at = i /\ x = <<"at", q, 0>>
               \/ x \in {<<"put", q, k>> : k \in {j \in DOMAIN T[q].puts : T[q].puts[j] = i}}
  BY <1>2, <1>4, Zenon DEF Mine
<1>7. x \in PointersOf(F, P, T, i) <=>
        \/ x \in InFiles(F, i)
        \/ \E q \in Proc : P[q].cwd = i /\ T[q].pc # "chdir2" /\ x = <<"cwd", q, 0>>
        \/ \E q \in Proc : T[q].ip = i /\ x = <<"ip", q, 0>>
        \/ \E q \in Proc : T[q].dp = i /\ x = <<"dp", q, 0>>
        \/ \E q \in Proc : T[q].at = i /\ x = <<"at", q, 0>>
        \/ \E q \in Proc : x \in {<<"put", q, k>> : k \in {j \in DOMAIN T[q].puts : T[q].puts[j] = i}}
  <2> DEFINE P1 == {<<"file", f, 0>> : f \in {g \in 1..NFILE : F[g].ref > 0 /\ F[g].ip = i}}
             P2 == {<<"cwd", p, 0>> : p \in {q \in Proc : P[q].cwd = i /\ T[q].pc # "chdir2"}}
             P3 == {<<"ip", p, 0>> : p \in {q \in Proc : T[q].ip = i}}
             P4 == {<<"dp", p, 0>> : p \in {q \in Proc : T[q].dp = i}}
             P5 == {<<"at", p, 0>> : p \in {q \in Proc : T[q].at = i}}
             P6 == UNION {{<<"put", p, k>> : k \in {j \in DOMAIN T[p].puts : T[p].puts[j] = i}} : p \in Proc}
  <2>1. PointersOf(F, P, T, i) = P1 \cup P2 \cup P3 \cup P4 \cup P5 \cup P6
    BY DEF PointersOf
  <2>2. x \in P1 <=> x \in InFiles(F, i)
    BY <1>3
  <2> HIDE DEF P1
  <2>3. x \in PointersOf(F, P, T, i) <=> x \in P1 \/ x \in P2 \/ x \in P3 \/ x \in P4 \/ x \in P5 \/ x \in P6
    <3> HIDE DEF P2, P3, P4, P5, P6
    <3> QED
      BY <2>1
  <2> QED
    BY <2>2, <2>3, <1>5
<1> QED
  BY <1>6, <1>7, Zenon

\* They are finitely many, and counted process by process.
LEMMA Total ==
  ASSUME NEW F, NEW P, NEW T, NEW p \in Proc, NEW i \in Ino,
         \A f \in 1..NFILE : F[f].ip = i => F[f].ref > 0, \A q \in Proc : T[q].puts \in Puts
  PROVE  /\ IsFiniteSet(InFiles(F, i)) /\ IsFiniteSet(Others(P, T, p, i))
         /\ Cardinality(InFiles(F, i)) \in Nat /\ Cardinality(Others(P, T, p, i)) \in Nat
         /\ Count(T[p], P[p].cwd, i) \in Nat
         /\ Cardinality(PointersOf(F, P, T, i)) =
              Cardinality(InFiles(F, i)) + Cardinality(Others(P, T, p, i)) + Count(T[p], P[p].cwd, i)
<1> DEFINE M == Mine(p, T[p], P[p].cwd, i)
<1>0. IsFiniteSet(1..NFILE) /\ IsFiniteSet(Proc)
  <2>1. NFILE \in Int /\ NPROC \in Int /\ 1 \in Int
    BY Sizes
  <2> QED
    BY <2>1, FS_Interval, Zenon DEF Proc
<1>1. PointersOf(F, P, T, i) = (InFiles(F, i) \cup Others(P, T, p, i)) \cup M
  BY PointersAre DEF Others
<1>2. IsFiniteSet(M) /\ Cardinality(M) = Count(T[p], P[p].cwd, i) /\ Count(T[p], P[p].cwd, i) \in Nat
  BY MineIs
<1>3. IsFiniteSet(InFiles(F, i))
  <2> DEFINE Z == {g \in 1..NFILE : F[g].ip = i}
             h == [g \in Z |-> <<"file", g, 0>>]
  <2>1. IsFiniteSet(Z)
    BY <1>0, FS_Subset
  <2>2. InFiles(F, i) = {h[g] : g \in Z}
    BY DEF InFiles
  <2> HIDE DEF Z, h
  <2>3. IsFiniteSet({h[g] : g \in Z})
    BY <2>1, FiniteImage
  <2> QED
    BY <2>2, <2>3
<1>4. IsFiniteSet(Others(P, T, p, i))
  <2> DEFINE Z == Proc \ {p}
             h == [q \in Z |-> Mine(q, T[q], P[q].cwd, i)]
  <2>1. IsFiniteSet(Z)
    BY <1>0, FS_Subset
  <2>2. {Mine(q, T[q], P[q].cwd, i) : q \in Proc \ {p}} = {h[q] : q \in Z}
    OBVIOUS
  <2>4. IsFiniteSet({h[q] : q \in Z})
    <3> HIDE DEF Z, h
    <3> QED
      BY <2>1, FiniteImage
  <2>3. \A S \in {Mine(q, T[q], P[q].cwd, i) : q \in Proc \ {p}} : IsFiniteSet(S)
    BY MineIs
  <2> QED
    BY <2>2, <2>3, <2>4, FS_UNION, Zenon DEF Others
<1>5. InFiles(F, i) \cap Others(P, T, p, i) = {} /\ (InFiles(F, i) \cup Others(P, T, p, i)) \cap M = {}
  <2>1. \A x \in InFiles(F, i) : \E f \in 1..NFILE : x = <<"file", f, 0>>
    BY DEF InFiles
  <2>2. \A x \in Others(P, T, p, i) : \E q \in Proc \ {p} : \E n \in {"cwd", "ip", "dp", "at", "put"}, k \in 0..2 : x = <<n, q, k>>
    BY MineHas DEF Others
  <2>3. \A x \in M : \E n \in {"cwd", "ip", "dp", "at", "put"}, k \in 0..2 : x = <<n, p, k>>
    BY MineHas
  <2> QED
    BY <2>1, <2>2, <2>3
<1> HIDE DEF M
<1>6. /\ IsFiniteSet(InFiles(F, i) \cup Others(P, T, p, i))
      /\ Cardinality(InFiles(F, i) \cup Others(P, T, p, i)) = Cardinality(InFiles(F, i)) + Cardinality(Others(P, T, p, i))
  <2>1. Cardinality(InFiles(F, i) \cap Others(P, T, p, i)) = 0
    BY <1>5, FS_EmptySet
  <2>2. Cardinality(InFiles(F, i)) \in Nat /\ Cardinality(Others(P, T, p, i)) \in Nat
    BY <1>3, <1>4, FS_CardinalityType
  <2>3. /\ IsFiniteSet(InFiles(F, i) \cup Others(P, T, p, i))
        /\ Cardinality(InFiles(F, i) \cup Others(P, T, p, i)) =
             Cardinality(InFiles(F, i)) + Cardinality(Others(P, T, p, i)) - Cardinality(InFiles(F, i) \cap Others(P, T, p, i))
    BY <1>3, <1>4, FS_Union, Zenon
  <2> QED
    BY <2>1, <2>2, <2>3
<1>7. Cardinality(PointersOf(F, P, T, i)) = Cardinality(InFiles(F, i) \cup Others(P, T, p, i)) + Cardinality(M)
  <2> DEFINE U == InFiles(F, i) \cup Others(P, T, p, i)
  <2>1. Cardinality(U \cap M) = 0
    BY <1>5, FS_EmptySet
  <2>2. Cardinality(U) \in Nat /\ Cardinality(M) \in Nat /\ IsFiniteSet(U) /\ PointersOf(F, P, T, i) = U \cup M
    BY <1>1, <1>2, <1>6, FS_CardinalityType
  <2> HIDE DEF U
  <2>3. Cardinality(U \cup M) = Cardinality(U) + Cardinality(M) - Cardinality(U \cap M)
    BY <1>2, <2>2, FS_Union
  <2> QED
    BY <2>1, <2>2, <2>3 DEF U
<1> QED
  BY <1>2, <1>3, <1>4, <1>6, <1>7, FS_CardinalityType

-----------------------------------------------------------------------------
\* What a step must show

\* The pieces of Shape.
LEMMA ShapeIs ==
  ASSUME Shape
  PROVE  /\ DOMAIN inode = Ino /\ DOMAIN icache = Ino /\ DOMAIN ftable = 1..NFILE
         /\ DOMAIN proc = Proc /\ DOMAIN th = Proc
         /\ \A i \in Ino : IsInode(inode[i]) /\ icache[i].ref \in Nat
         /\ \A f \in 1..NFILE : IsFile(ftable[f])
         /\ \A p \in Proc : IsProc(proc[p]) /\ IsThread(th[p])
<1>1. DOMAIN [i \in Ino |-> inode[i]] = Ino /\ DOMAIN [f \in 1..NFILE |-> ftable[f]] = 1..NFILE
      /\ DOMAIN [p \in Proc |-> proc[p]] = Proc /\ DOMAIN [p \in Proc |-> th[p]] = Proc
  OBVIOUS
<1>2. inode = [i \in Ino |-> inode[i]] /\ ftable = [f \in 1..NFILE |-> ftable[f]]
      /\ proc = [p \in Proc |-> proc[p]] /\ th = [p \in Proc |-> th[p]]
  BY DEF Shape
<1>3. icache \in [Ino -> [ref : Nat, valid : BOOLEAN, lock : 0..NPROC]]
  BY DEF Shape
<1>4. DOMAIN inode = Ino /\ DOMAIN ftable = 1..NFILE /\ DOMAIN proc = Proc /\ DOMAIN th = Proc
  BY <1>1, <1>2, Zenon
<1> QED
  BY <1>3, <1>4 DEF Shape

\* The counts are right after a step that changes those of p and of the open
\* files as it changes the counters.
LEMMA RefsKept ==
  ASSUME Shape, Shape', RefCounts, NEW p \in Proc,
         \A q \in Proc \ {p}, i \in Ino : Mine(q, th'[q], proc'[q].cwd, i) = Mine(q, th[q], proc[q].cwd, i),
         \A i \in Ino :
           icache'[i].ref + Cardinality(InFiles(ftable, i)) + Count(th[p], proc[p].cwd, i) =
           icache[i].ref + Cardinality(InFiles(ftable', i)) + Count(th'[p], proc'[p].cwd, i)
  PROVE  RefCounts'
<1> SUFFICES ASSUME NEW i \in Ino PROVE icache'[i].ref = Cardinality(PointersOf(ftable', proc', th', i))
  BY DEF RefCounts, Pointers, PointersOf
<1>1. icache[i].ref = Cardinality(PointersOf(ftable, proc, th, i))
  BY DEF RefCounts, Pointers, PointersOf
<1>2. /\ \A f \in 1..NFILE : ftable[f].ip = i => ftable[f].ref > 0
      /\ \A f \in 1..NFILE : ftable'[f].ip = i => ftable'[f].ref > 0
      /\ \A q \in Proc : th[q].puts \in Puts /\ th'[q].puts \in Puts
  BY DEF Shape, IsFile, IsThread, Ino
<1>3. /\ Cardinality(InFiles(ftable, i)) \in Nat /\ Cardinality(Others(proc, th, p, i)) \in Nat
      /\ Count(th[p], proc[p].cwd, i) \in Nat
      /\ Cardinality(PointersOf(ftable, proc, th, i)) =
           Cardinality(InFiles(ftable, i)) + Cardinality(Others(proc, th, p, i)) + Count(th[p], proc[p].cwd, i)
  BY <1>2, Total
<1>4. /\ Cardinality(InFiles(ftable', i)) \in Nat /\ Cardinality(Others(proc', th', p, i)) \in Nat
      /\ Count(th'[p], proc'[p].cwd, i) \in Nat
      /\ Cardinality(PointersOf(ftable', proc', th', i)) =
           Cardinality(InFiles(ftable', i)) + Cardinality(Others(proc', th', p, i)) + Count(th'[p], proc'[p].cwd, i)
  BY <1>2, Total
<1>5. Others(proc', th', p, i) = Others(proc, th, p, i)
  BY DEF Others
<1>6. icache[i].ref \in Nat /\ icache'[i].ref \in Nat
  BY DEF Shape
<1> QED
  BY <1>1, <1>3, <1>4, <1>5, <1>6

\* The files of a step that opens and closes none.
SameFiles ==
  /\ ftable' = [f \in 1..NFILE |-> ftable'[f]]
  /\ \A f \in 1..NFILE :
       /\ DOMAIN ftable'[f] = DOMAIN ftable[f]
       /\ ftable'[f].ref = ftable[f].ref /\ ftable'[f].ip = ftable[f].ip
       /\ ftable'[f].type = ftable[f].type /\ ftable'[f].w = ftable[f].w

\* The inodes of a step that allocates and frees none.
SameKinds ==
  /\ inode' = [i \in Ino |-> inode'[i]]
  /\ \A i \in Ino : IsInode(inode'[i]) /\ inode'[i].type = inode[i].type

Cache == [Ino -> [ref : Nat, valid : BOOLEAN, lock : 0..NPROC]]

\* Kinds and Uses with inodes I and open files F, and all that is known of a
\* process s with thread t.
KindsIn(I, t) ==
  /\ t.dp # 0 => I[t.dp].type = "dir"
  /\ t.pc = "open2" => I[t.ip].type = "file"
UsesIn(F, t, s) ==
  t.pc \in {"read", "write", "fstat"} =>
    /\ t.f \in 1..NFILE
    /\ \E d \in Fd : s.ofile[d] = t.f
    /\ F[t.f].type = "inode"
    /\ t.pc = "write" => F[t.f].w
Well(I, F, t, s) == IsThread(t) /\ IsProc(s) /\ Locals(t) /\ KindsIn(I, t) /\ UsesIn(F, t, s) /\ Lives(t, s)

\* What is known of the tables.
Tables ==
  /\ inode = [i \in Ino |-> inode[i]] /\ \A i \in Ino : IsInode(inode[i])
  /\ ftable = [f \in 1..NFILE |-> ftable[f]] /\ \A f \in 1..NFILE : IsFile(ftable[f])
  /\ icache \in Cache
  /\ FilesInv /\ FilesCounted

\* The counters change like the pointers of open files and of a process p
\* that becomes s with the thread u.
Balance(p, u, s) ==
  \A i \in Ino :
    icache'[i].ref + Cardinality(InFiles(ftable, i)) + Count(th[p], proc[p].cwd, i) =
    icache[i].ref + Cardinality(InFiles(ftable', i)) + Count(u, s.cwd, i)

\* The invariant gives it of every process.
LEMMA WellNow ==
  ASSUME IndInv, NEW q \in Proc
  PROVE  Well(inode, ftable, th[q], proc[q])
<1>1. Shape /\ Locals(th[q]) /\ Kinds(th[q]) /\ Uses(th[q], proc[q]) /\ Lives(th[q], proc[q])
  BY DEF IndInv, ThreadsInv
<1>2. IsThread(th[q]) /\ IsProc(proc[q])
  BY <1>1, ShapeIs
<1> QED
  BY <1>1, <1>2 DEF Well, Kinds, KindsIn, Uses, UsesIn

\* The invariant after a step, from what it says of each process and each
\* table and from the change of the counters.
LEMMA Shown ==
  ASSUME IndInv, NEW p \in Proc,
         th' = [q \in Proc |-> th'[q]], proc' = [q \in Proc |-> proc'[q]],
         \A q \in Proc : Well(inode', ftable', th'[q], proc'[q]),
         Tables', Balance(p, th'[p], proc'[p]),
         \A q \in Proc \ {p}, i \in Ino : Mine(q, th'[q], proc'[q].cwd, i) = Mine(q, th[q], proc[q].cwd, i)
  PROVE  IndInv'
<1>1. Shape'
  <2>1. \A q \in Proc : IsThread(th'[q]) /\ IsProc(proc'[q])
    BY DEF Well
  <2> QED
    BY <2>1 DEF Shape, Cache, Tables
<1>2. RefCounts'
  <2>1. Shape /\ RefCounts
    BY DEF IndInv
  <2>2. \A i \in Ino :
          icache'[i].ref + Cardinality(InFiles(ftable, i)) + Count(th[p], proc[p].cwd, i) =
          icache[i].ref + Cardinality(InFiles(ftable', i)) + Count(th'[p], proc'[p].cwd, i)
    BY DEF Balance
  <2> QED
    BY <1>1, <2>1, <2>2, RefsKept, Zenon
<1>3. ThreadsInv'
  <2> SUFFICES ASSUME NEW q \in Proc
               PROVE  (Locals(th[q]) /\ Kinds(th[q]) /\ Uses(th[q], proc[q]) /\ Lives(th[q], proc[q]))'
    BY DEF ThreadsInv
  <2>1. PICK t, s : t = th'[q] /\ s = proc'[q]
    OBVIOUS
  <2>2. Locals(t) /\ KindsIn(inode', t) /\ UsesIn(ftable', t, s) /\ Lives(t, s)
    BY <2>1 DEF Well
  <2>3. Kinds(th[q])' /\ Uses(th[q], proc[q])'
    BY <2>1, <2>2 DEF Kinds, KindsIn, Uses, UsesIn
  <2> QED
    BY <2>1, <2>2, <2>3 DEF Locals, HasAt, HasIp, HasDp, Lives
<1> QED
  BY <1>1, <1>2, <1>3 DEF IndInv, Tables

\* The same of a step that changes one process only.
LEMMA Step ==
  ASSUME IndInv, NEW p \in Proc, NEW u, NEW s, th' = [th EXCEPT ![p] = u], proc' = [proc EXCEPT ![p] = s],
         Well(inode', ftable', u, s), \A q \in Proc \ {p} : Well(inode', ftable', th[q], proc[q]),
         Tables', Balance(p, u, s)
  PROVE  IndInv'
<1>1. DOMAIN th = Proc /\ DOMAIN proc = Proc
  BY ShapeIs DEF IndInv
<1>2. /\ th'[p] = u /\ \A q \in Proc : q # p => th'[q] = th[q]
      /\ proc'[p] = s /\ \A q \in Proc : q # p => proc'[q] = proc[q]
      /\ th' = [q \in Proc |-> th'[q]] /\ proc' = [q \in Proc |-> proc'[q]]
  BY <1>1
<1>3. \A q \in Proc : Well(inode', ftable', th'[q], proc'[q])
  BY <1>2
<1>4. \A q \in Proc \ {p}, i \in Ino : Mine(q, th'[q], proc'[q].cwd, i) = Mine(q, th[q], proc[q].cwd, i)
  BY <1>2
<1>5. Balance(p, th'[p], proc'[p])
  BY <1>2
<1> QED
  BY <1>2, <1>3, <1>4, <1>5, Shown, Zenon

\* Counters and pointers are numbers.
LEMMA Numbers ==
  ASSUME IndInv, NEW p \in Proc, NEW i \in Ino
  PROVE  /\ Cardinality(InFiles(ftable, i)) \in Nat /\ icache[i].ref \in Nat
         /\ Count(th[p], proc[p].cwd, i) \in Nat /\ Cardinality(Others(proc, th, p, i)) \in Nat
         /\ icache[i].ref = Cardinality(InFiles(ftable, i)) + Cardinality(Others(proc, th, p, i)) + Count(th[p], proc[p].cwd, i)
<1>1. Shape /\ RefCounts
  BY DEF IndInv
<1>2. /\ \A f \in 1..NFILE : ftable[f].ip = i => ftable[f].ref > 0
      /\ \A q \in Proc : th[q].puts \in Puts
  BY <1>1 DEF Shape, IsFile, IsThread, Ino
<1>3. icache[i].ref = Cardinality(PointersOf(ftable, proc, th, i))
  BY <1>1 DEF RefCounts, Pointers, PointersOf
<1>4. icache[i].ref \in Nat
  BY <1>1, ShapeIs
<1>5. /\ Cardinality(InFiles(ftable, i)) \in Nat /\ Cardinality(Others(proc, th, p, i)) \in Nat
      /\ Count(th[p], proc[p].cwd, i) \in Nat
      /\ Cardinality(PointersOf(ftable, proc, th, i)) =
           Cardinality(InFiles(ftable, i)) + Cardinality(Others(proc, th, p, i)) + Count(th[p], proc[p].cwd, i)
  BY <1>2, Total
<1> QED
  BY <1>3, <1>4, <1>5

\* A step of p that changes its thread and the inodes' counters alike.
LEMMA Moved ==
  ASSUME IndInv, NEW p \in Proc, NEW u, th' = [th EXCEPT ![p] = u], proc' = proc,
         SameFiles, SameKinds,
         icache' \in Cache,
         IsThread(u), Locals(u), Kinds(u), Uses(u, proc[p]), Lives(u, proc[p]),
         \A i \in Ino : icache'[i].ref + Count(th[p], proc[p].cwd, i) = icache[i].ref + Count(u, proc[p].cwd, i)
  PROVE  IndInv'
<1>0. Shape /\ FilesInv /\ FilesCounted
  BY DEF IndInv
<1>1. proc' = [proc EXCEPT ![p] = proc[p]]
  <2>1. DOMAIN proc = Proc /\ proc = [q \in Proc |-> proc[q]]
    BY <1>0, ShapeIs DEF Shape
  <2> QED
    BY <2>1
<1>2. inode' = [i \in Ino |-> inode'[i]] /\ (\A i \in Ino : IsInode(inode'[i])) /\ ftable' = [f \in 1..NFILE |-> ftable'[f]]
  BY DEF SameKinds, SameFiles
<1>3. \A f \in 1..NFILE : IsFile(ftable'[f])
  BY <1>0, ShapeIs DEF SameFiles, IsFile
<1>4. FilesCounted'
  BY <1>0 DEF FilesCounted, SameFiles
<1>5. FilesInv'
  <2>1. \A f \in 1..NFILE : ftable[f].ip # 0 => ftable[f].ip \in Ino
    BY <1>0, InoIs DEF Shape, IsFile
  <2> QED
    BY <1>0, <2>1 DEF FilesInv, SameFiles, SameKinds
<1>6. ASSUME NEW t, NEW s, Well(inode, ftable, t, s) PROVE Well(inode', ftable', t, s)
  <2>1. t.dp # 0 => t.dp \in Ino
    BY <1>6, InoIs DEF Well, IsThread
  <2>2. t.pc = "open2" => t.ip \in Ino
    BY <1>6, InoIs DEF Well, IsThread, Locals, HasIp
  <2>3. KindsIn(inode', t)
    BY <1>6, <2>1, <2>2 DEF Well, KindsIn, SameKinds
  <2>4. UsesIn(ftable', t, s)
    BY <1>6 DEF Well, UsesIn, SameFiles
  <2> QED
    BY <1>6, <2>3, <2>4 DEF Well
<1>7. \A q \in Proc \ {p} : Well(inode', ftable', th[q], proc[q])
  BY <1>6, WellNow
<1>8. Well(inode', ftable', u, proc[p])
  <2>1. IsProc(proc[p])
    BY <1>0, ShapeIs
  <2>2. Well(inode, ftable, u, proc[p])
    BY <2>1 DEF Well, Kinds, KindsIn, Uses, UsesIn
  <2> QED
    BY <1>6, <2>2
<1>9. \A i \in Ino :
        icache'[i].ref + Cardinality(InFiles(ftable, i)) + Count(th[p], proc[p].cwd, i) =
        icache[i].ref + Cardinality(InFiles(ftable', i)) + Count(u, proc[p].cwd, i)
  <2> SUFFICES ASSUME NEW i \in Ino
               PROVE  icache'[i].ref + Cardinality(InFiles(ftable, i)) + Count(th[p], proc[p].cwd, i) =
                      icache[i].ref + Cardinality(InFiles(ftable', i)) + Count(u, proc[p].cwd, i)
    OBVIOUS
  <2>1. InFiles(ftable', i) = InFiles(ftable, i)
    BY DEF SameFiles, InFiles
  <2>2. /\ Cardinality(InFiles(ftable, i)) \in Nat /\ icache[i].ref \in Nat
        /\ Count(th[p], proc[p].cwd, i) \in Nat /\ Count(u, proc[p].cwd, i) \in Nat
    BY Numbers, MineIs
  <2>3. icache'[i].ref \in Nat
    BY DEF Cache
  <2> QED
    BY <2>1, <2>2, <2>3
<1>10. Tables'
  BY <1>2, <1>3, <1>4, <1>5 DEF Tables
<1>11. PICK s : s = proc[p]
  OBVIOUS
<1>12. proc' = [proc EXCEPT ![p] = s] /\ Well(inode', ftable', u, s) /\ Balance(p, u, s)
  BY <1>1, <1>8, <1>9, <1>11 DEF Balance
<1> QED
  BY <1>7, <1>10, <1>12, Step, Zenon

\* A step that leaves inodes or open files alone.
LEMMA Unchanged ==
  ASSUME Shape
  PROVE  (inode' = inode => SameKinds) /\ (ftable' = ftable => SameFiles)
<1>1. inode' = inode => SameKinds
  BY ShapeIs DEF Shape, SameKinds
<1>2. ftable' = ftable => SameFiles
  BY DEF Shape, SameFiles
<1> QED
  BY <1>1, <1>2

-----------------------------------------------------------------------------
\* The operations on the inode cache

\* ilock() and iunlock() in one step: no reference changes.
LEMMA VisitIs ==
  ASSUME NEW c \in Cache, NEW i
  PROVE  Visit(c, i) \in Cache /\ \A j \in Ino : Visit(c, i)[j].ref = c[j].ref
  BY DEF Visit, Cache

\* iunlock() changes no reference.
LEMMA IunlockIs ==
  ASSUME NEW c \in Cache, NEW i
  PROVE  Iunlock(c, i) \in Cache /\ \A j \in Ino : Iunlock(c, i)[j].ref = c[j].ref
<1>1. 0 \in 0..NPROC
  BY Sizes
<1> QED
  BY <1>1 DEF Iunlock, Cache

\* ilock() changes no reference.
LEMMA IlockIs ==
  ASSUME NEW c \in Cache, NEW i, NEW p \in Proc
  PROVE  Ilock(c, i, p) \in Cache /\ \A j \in Ino : Ilock(c, i, p)[j].ref = c[j].ref
<1>1. p \in 0..NPROC
  BY Sizes DEF Proc
<1> QED
  BY <1>1 DEF Ilock, Cache

\* iget() adds a reference to one inode.
LEMMA IgetIs ==
  ASSUME NEW c \in Cache, NEW i \in Ino
  PROVE  Iget(c, i) \in Cache /\ \A j \in Ino : Iget(c, i)[j].ref = c[j].ref + One(i = j)
<1>1. PICK b \in BOOLEAN : b = (c[i].valid /\ c[i].ref > 0)
  OBVIOUS
<1>2. c[i] \in [ref : Nat, valid : BOOLEAN, lock : 0..NPROC]
  BY DEF Cache
<1> DEFINE r == [ref |-> c[i].ref + 1, valid |-> b, lock |-> c[i].lock]
<1>3. r \in [ref : Nat, valid : BOOLEAN, lock : 0..NPROC]
  BY <1>2
<1>4. Iget(c, i) = [c EXCEPT ![i] = r]
  BY <1>1 DEF Iget, Cache
<1> QED
  BY <1>2, <1>3, <1>4 DEF Cache, One

\* idup() adds a reference to one inode.
LEMMA IdupIs ==
  ASSUME NEW c \in Cache, NEW i \in Ino
  PROVE  Idup(c, i) \in Cache /\ \A j \in Ino : Idup(c, i)[j].ref = c[j].ref + One(i = j)
<1>1. c[i].ref \in Nat
  BY DEF Cache
<1> QED
  BY <1>1 DEF Idup, Cache, One

-----------------------------------------------------------------------------
\* The operations on a thread

\* How often an inode is in the iput()s owed, one or two of them or none.
LEMMA PutCountIs ==
  ASSUME NEW i \in Ino
  PROVE  /\ PutCount(<<>>, i) = 0
         /\ \A a : PutCount(<<a>>, i) = One(a = i)
         /\ \A a, b : PutCount(<<a, b>>, i) = One(a = i) + One(b = i)
  BY DEF PutCount, One

\* A call owes at most two iput()s, of inodes.
LEMMA PutsFrom ==
  /\ <<>> \in Puts
  /\ \A i \in Ino : <<i>> \in Puts
  /\ \A i, j \in Ino : <<i, j>> \in Puts
  BY DEF Puts

\* A thread that returns to its program.
LEMMA ReturnIs ==
  ASSUME NEW t, NEW v, NEW s \in Puts
  PROVE  LET u == Return(t, v, s) IN
           /\ IsThread(u) /\ Locals(u) /\ Kinds(u)
           /\ u.pc = "user" /\ u.puts = s
           /\ \A c, i : i \in Ino => Count(u, c, i) = One(c = i) + PutCount(s, i)
<1> DEFINE u == Return(t, v, s)
<1>1. /\ u.pc = "user" /\ u.call = NoCall /\ u.at = 0 /\ u.ip = 0 /\ u.dp = 0 /\ u.path = <<>>
      /\ u.puts = s /\ u.dropping = FALSE /\ DOMAIN u = DOMAIN NewThread
  BY DEF Return, NewThread
<1> HIDE DEF u
<1>2. IsThread(u)
  <2>1. 0 \in 0..NInodes /\ <<>> \in Seq(STRING)
    BY Sizes
  <2> QED
    BY <1>1, <2>1 DEF IsThread, Paths
<1>3. Locals(u) /\ Kinds(u)
  BY <1>1 DEF Locals, Kinds, HasAt, HasIp, HasDp, NoCall
<1>4. ASSUME NEW c, NEW i \in Ino PROVE Count(u, c, i) = One(c = i) + PutCount(s, i)
  <2>1. i # 0 /\ PutCount(s, i) \in Nat /\ One(c = i) \in Nat
    BY DEF Ino, PutCount, One
  <2> QED
    BY <1>1, <2>1 DEF Count, One
<1> QED
  BY <1>1, <1>2, <1>3, <1>4 DEF u

\* A process in a call is running, and until it exits has a directory.
LEMMA InCall ==
  ASSUME IndInv, NEW p \in Proc, th[p].pc # "user"
  PROVE  /\ proc[p].state = "run"
         /\ th[p].pc # "zombie" => proc[p].cwd \in Ino
<1>1. IsProc(proc[p]) /\ Lives(th[p], proc[p])
  BY ShapeIs DEF IndInv, ThreadsInv
<1> QED
  BY <1>1, InoIs DEF IsProc, Lives

\* A step in which the call of p returns.
LEMMA Returned ==
  ASSUME IndInv, NEW p \in Proc, NEW t, NEW v, NEW s \in Puts, th' = [th EXCEPT ![p] = Return(t, v, s)],
         proc' = proc, SameFiles, SameKinds, icache' \in Cache,
         \A i \in Ino : icache'[i].ref = icache[i].ref,
         proc[p].state = "run", th[p].pc # "zombie",
         \A i \in Ino : Count(th[p], proc[p].cwd, i) = One(proc[p].cwd = i) + PutCount(s, i)
  PROVE  IndInv'
<1>1. PICK u : u = Return(t, v, s)
  OBVIOUS
<1>2. /\ IsThread(u) /\ Locals(u) /\ Kinds(u) /\ u.pc = "user"
      /\ \A c, i : i \in Ino => Count(u, c, i) = One(c = i) + PutCount(s, i)
  BY <1>1, ReturnIs
<1>3. Uses(u, proc[p])
  BY <1>2 DEF Uses
<1>4. Lives(u, proc[p])
  <2>1. Lives(th[p], proc[p])
    BY DEF IndInv, ThreadsInv
  <2> QED
    BY <1>2, <2>1 DEF Lives
<1>5. \A i \in Ino : icache'[i].ref + Count(th[p], proc[p].cwd, i) = icache[i].ref + Count(u, proc[p].cwd, i)
  BY <1>2
<1> QED
  BY <1>1, <1>2, <1>3, <1>4, <1>5, Moved, Zenon

-----------------------------------------------------------------------------
\* Calls that return

\* What is known of a thread that goes on at a label.
LEMMA AtIs ==
  ASSUME IndInv, NEW p \in Proc, NEW L, At(p, L)
  PROVE  /\ Shape /\ icache \in Cache
         /\ th[p].pc \in L /\ th[p].puts = <<>>
         /\ IsThread(th[p]) /\ Locals(th[p]) /\ Kinds(th[p]) /\ Uses(th[p], proc[p]) /\ Lives(th[p], proc[p])
         /\ \A i \in Ino : Count(th[p], proc[p].cwd, i) =
              One(proc[p].cwd = i /\ th[p].pc # "chdir2") + One(th[p].ip = i) + One(th[p].dp = i) + One(th[p].at = i)
<1>1. Shape /\ icache \in Cache /\ th[p].pc \in L /\ th[p].puts = <<>>
  BY DEF IndInv, Shape, Cache, At
<1>2. IsThread(th[p]) /\ Locals(th[p]) /\ Kinds(th[p]) /\ Uses(th[p], proc[p]) /\ Lives(th[p], proc[p])
  BY <1>1, ShapeIs DEF IndInv, ThreadsInv
<1>3. ASSUME NEW i \in Ino
      PROVE  Count(th[p], proc[p].cwd, i) =
              One(proc[p].cwd = i /\ th[p].pc # "chdir2") + One(th[p].ip = i) + One(th[p].dp = i) + One(th[p].at = i)
  <2>1. PutCount(th[p].puts, i) = 0
    BY <1>1, PutCountIs
  <2> QED
    BY <2>1 DEF Count, One
<1> QED
  BY <1>1, <1>2, <1>3

\* A call at a label returns and puts what its thread points at.
LEMMA Returns ==
  ASSUME IndInv, NEW p \in Proc, NEW L, At(p, L), NEW t, NEW v, NEW s \in Puts,
         th' = [th EXCEPT ![p] = Return(t, v, s)],
         proc' = proc, SameFiles, SameKinds, icache' \in Cache,
         \A i \in Ino : icache'[i].ref = icache[i].ref,
         th[p].pc \notin {"user", "chdir2", "zombie"},
         \A i \in Ino : One(th[p].ip = i) + One(th[p].dp = i) + One(th[p].at = i) = PutCount(s, i)
  PROVE  IndInv'
<1>1. proc[p].state = "run"
  BY InCall
<1>2. ASSUME NEW i \in Ino PROVE Count(th[p], proc[p].cwd, i) = One(proc[p].cwd = i) + PutCount(s, i)
  <2>1. Count(th[p], proc[p].cwd, i) =
          One(proc[p].cwd = i /\ th[p].pc # "chdir2") + One(th[p].ip = i) + One(th[p].dp = i) + One(th[p].at = i)
    BY AtIs
  <2>2. One(proc[p].cwd = i /\ th[p].pc # "chdir2") = One(proc[p].cwd = i)
    BY DEF One
  <2>3. One(proc[p].cwd = i) \in Nat /\ One(th[p].ip = i) \in Nat /\ One(th[p].dp = i) \in Nat /\ One(th[p].at = i) \in Nat
    BY DEF One
  <2> QED
    BY <2>1, <2>2, <2>3
<1> QED
  BY <1>1, <1>2, Returned

\* What is put when a thread points at nothing, at its inode, or at its parent.
LEMMA PutsOfNone ==
  ASSUME NEW t, NEW i \in Ino, t.ip = 0, t.dp = 0, t.at = 0
  PROVE  One(t.ip = i) + One(t.dp = i) + One(t.at = i) = PutCount(<<>>, i)
  BY PutCountIs, InoIs DEF One

\* A thread that owns ip alone, when it is to be put.
LEMMA PutsOfIp ==
  ASSUME NEW t, NEW i \in Ino, t.dp = 0, t.at = 0
  PROVE  One(t.ip = i) + One(t.dp = i) + One(t.at = i) = PutCount(<<t.ip>>, i)
  BY PutCountIs, InoIs DEF One

\* A thread that owns dp alone, when it is to be put.
LEMMA PutsOfDp ==
  ASSUME NEW t, NEW i \in Ino, t.ip = 0, t.at = 0
  PROVE  One(t.ip = i) + One(t.dp = i) + One(t.at = i) = PutCount(<<t.dp>>, i)
  BY PutCountIs, InoIs DEF One

\* The offset of an open file does not matter.
LEMMA OffsetIs ==
  ASSUME Shape, NEW f, NEW x, ftable' = [ftable EXCEPT ![f].off = x]
  PROVE  SameFiles
<1>1. DOMAIN ftable = 1..NFILE /\ \A g \in 1..NFILE : DOMAIN ftable[g] = DOMAIN NoFile
  BY ShapeIs DEF IsFile
<1>2. "ref" \in DOMAIN NoFile /\ "ip" \in DOMAIN NoFile /\ "type" \in DOMAIN NoFile /\ "w" \in DOMAIN NoFile
  BY DEF NoFile
<1> QED
  BY <1>1, <1>2 DEF SameFiles

\* read() keeps the invariant: only the shared offset moves.
LEMMA ReadKeeps ==
  ASSUME IndInv, NEW p \in Proc, Read(p)
  PROVE  IndInv'
<1>1. At(p, {"read"}) /\ icache' = Visit(icache, ftable[th[p].f].ip) /\ inode' = inode /\ proc' = proc
  BY DEF Read, disk
<1>2. /\ Shape /\ icache \in Cache /\ th[p].pc = "read" /\ Locals(th[p])
  BY <1>1, AtIs
<1>3. th[p].ip = 0 /\ th[p].dp = 0 /\ th[p].at = 0
  BY <1>2 DEF Locals, HasIp, HasDp, HasAt
<1>4. SameKinds /\ SameFiles
  <2>1. ftable' = ftable \/ \E x : ftable' = [ftable EXCEPT ![th[p].f].off = x]
    BY DEF Read
  <2> QED
    BY <1>1, <1>2, <2>1, Unchanged, OffsetIs
<1>5. icache' \in Cache /\ \A i \in Ino : icache'[i].ref = icache[i].ref
  BY <1>1, <1>2, VisitIs
<1>6. \E t, v : th' = [th EXCEPT ![p] = Return(t, v, <<>>)]
  BY DEF Read
<1>7. \A i \in Ino : One(th[p].ip = i) + One(th[p].dp = i) + One(th[p].at = i) = PutCount(<<>>, i)
  BY <1>3, PutsOfNone
<1>8. PICK t, v : th' = [th EXCEPT ![p] = Return(t, v, <<>>)]
  BY <1>6
<1>9. <<>> \in Puts /\ th[p].pc \notin {"user", "chdir2", "zombie"}
  BY <1>2, PutsFrom
<1> QED
  BY <1>1, <1>4, <1>5, <1>7, <1>8, <1>9, Returns, Zenon

\* fstat() keeps the invariant.
LEMMA FstatKeeps ==
  ASSUME IndInv, NEW p \in Proc, Fstat(p)
  PROVE  IndInv'
<1>1. /\ At(p, {"fstat"}) /\ icache' = Visit(icache, ftable[th[p].f].ip)
      /\ inode' = inode /\ proc' = proc /\ ftable' = ftable
      /\ \E t, v : th' = [th EXCEPT ![p] = Return(t, v, <<>>)]
  BY DEF Fstat, disk
<1>2. /\ Shape /\ icache \in Cache /\ th[p].pc = "fstat" /\ Locals(th[p])
  BY <1>1, AtIs
<1>3. th[p].ip = 0 /\ th[p].dp = 0 /\ th[p].at = 0
  BY <1>2 DEF Locals, HasIp, HasDp, HasAt
<1>4. SameKinds /\ SameFiles
  BY <1>1, <1>2, Unchanged
<1>5. icache' \in Cache /\ \A i \in Ino : icache'[i].ref = icache[i].ref
  BY <1>1, <1>2, VisitIs
<1>6. \A i \in Ino : One(th[p].ip = i) + One(th[p].dp = i) + One(th[p].at = i) = PutCount(<<>>, i)
  BY <1>3, PutsOfNone
<1>8. PICK t, v : th' = [th EXCEPT ![p] = Return(t, v, <<>>)]
  BY <1>1
<1>9. <<>> \in Puts /\ th[p].pc \notin {"user", "chdir2", "zombie"}
  BY <1>2, PutsFrom
<1> QED
  BY <1>1, <1>4, <1>5, <1>6, <1>8, <1>9, Returns, Zenon

\* exec(), mkdir() and mknod(), and unlink() and link() that fail, put the
\* inode they have.
LEMMA PutIpKeeps ==
  ASSUME IndInv, NEW p \in Proc, NEW L, At(p, L), th[p].pc \in {"exec1", "made", "unlink3", "open1", "open2", "create2", "link1", "linkbad", "chdir1"},
         NEW t, NEW v, th' = [th EXCEPT ![p] = Return(t, v, <<th[p].ip>>)],
         proc' = proc, ftable' = ftable, SameKinds, icache' \in Cache,
         \A i \in Ino : icache'[i].ref = icache[i].ref
  PROVE  IndInv'
<1>1. Shape /\ Locals(th[p]) /\ IsThread(th[p])
  BY AtIs
<1>2. th[p].ip \in Ino /\ th[p].dp = 0 /\ th[p].at = 0
  BY <1>1, InoIs DEF Locals, HasIp, HasDp, HasAt, IsThread
<1>3. \A i \in Ino : One(th[p].ip = i) + One(th[p].dp = i) + One(th[p].at = i) = PutCount(<<th[p].ip>>, i)
  BY <1>2, PutsOfIp
<1>4. <<th[p].ip>> \in Puts
  BY <1>2, PutsFrom
<1>5. SameFiles
  BY <1>1, Unchanged
<1>6. th[p].pc \notin {"user", "chdir2", "zombie"}
  OBVIOUS
<1> QED
  BY <1>3, <1>4, <1>5, <1>6, Returns, Zenon

\* The same of the parent.
LEMMA PutDpKeeps ==
  ASSUME IndInv, NEW p \in Proc, NEW L, At(p, L), th[p].pc \in {"unlink1", "unlinkbad"},
         NEW t, NEW v, th' = [th EXCEPT ![p] = Return(t, v, <<th[p].dp>>)],
         proc' = proc, ftable' = ftable, SameKinds, icache' \in Cache,
         \A i \in Ino : icache'[i].ref = icache[i].ref
  PROVE  IndInv'
<1>1. Shape /\ Locals(th[p]) /\ IsThread(th[p])
  BY AtIs
<1>2. th[p].dp \in Ino /\ th[p].ip = 0 /\ th[p].at = 0
  BY <1>1, InoIs DEF Locals, HasIp, HasDp, HasAt, IsThread
<1>3. \A i \in Ino : One(th[p].ip = i) + One(th[p].dp = i) + One(th[p].at = i) = PutCount(<<th[p].dp>>, i)
  BY <1>2, PutsOfDp
<1>4. <<th[p].dp>> \in Puts
  BY <1>2, PutsFrom
<1>5. SameFiles
  BY <1>1, Unchanged
<1>6. th[p].pc \notin {"user", "chdir2", "zombie"}
  OBVIOUS
<1> QED
  BY <1>3, <1>4, <1>5, <1>6, Returns, Zenon

\* An inode that is written keeps its kind.
LEMMA OneInode ==
  ASSUME Shape, NEW i, NEW n, i \in Ino => IsInode(n) /\ n.type = inode[i].type, inode' = [inode EXCEPT ![i] = n]
  PROVE  SameKinds
<1>1. DOMAIN inode = Ino /\ \A j \in Ino : IsInode(inode[j])
  BY ShapeIs
<1>2. \A j \in Ino : inode'[j] = IF j = i THEN n ELSE inode[j]
  BY <1>1
<1>3. inode' = [j \in Ino |-> inode'[j]]
  BY <1>1
<1> QED
  BY <1>1, <1>2, <1>3 DEF SameKinds

\* The number of links does not matter for the kind of an inode.
LEMMA NlinkIs ==
  ASSUME NEW n, IsInode(n), NEW x
  PROVE  IsInode([n EXCEPT !.nlink = x]) /\ [n EXCEPT !.nlink = x].type = n.type
<1>1. DOMAIN n = {"type", "nlink", "data", "blks", "ind"}
  BY DEF IsInode, NoInode
<1> DEFINE m == [n EXCEPT !.nlink = x]
<1>2. DOMAIN m = DOMAIN n /\ m.type = n.type /\ m.data = n.data
  BY <1>1
<1> HIDE DEF m
<1>3. IsInode(m)
  BY <1>2 DEF IsInode
<1> QED
  BY <1>2, <1>3 DEF m

\* The link count of an inode changes.
LEMMA Counted ==
  ASSUME Shape, NEW i, NEW x, inode' = [inode EXCEPT ![i].nlink = x]
  PROVE  SameKinds
<1>1. \A j \in Ino : IsInode(inode[j])
  BY ShapeIs
<1>2. i \in Ino => IsInode([inode[i] EXCEPT !.nlink = x]) /\ [inode[i] EXCEPT !.nlink = x].type = inode[i].type
  BY <1>1, NlinkIs
<1>3. inode' = [inode EXCEPT ![i] = [inode[i] EXCEPT !.nlink = x]]
  OBVIOUS
<1> QED
  BY <1>2, <1>3, OneInode

\* exec() puts the inode it has read.
LEMMA ExecKeeps ==
  ASSUME IndInv, NEW p \in Proc, Exec(p)
  PROVE  IndInv'
<1>1. /\ At(p, {"exec1"}) /\ icache' = Visit(icache, th[p].ip) /\ inode' = inode /\ proc' = proc /\ ftable' = ftable
      /\ \E v : th' = [th EXCEPT ![p] = Return(th[p], v, <<th[p].ip>>)]
  BY DEF Exec, disk
<1>2. Shape /\ icache \in Cache /\ th[p].pc = "exec1"
  BY <1>1, AtIs
<1>3. SameKinds /\ icache' \in Cache /\ \A i \in Ino : icache'[i].ref = icache[i].ref
  BY <1>1, <1>2, Unchanged, VisitIs
<1>4. PICK v : th' = [th EXCEPT ![p] = Return(th[p], v, <<th[p].ip>>)]
  BY <1>1
<1>5. th[p].pc \in {"exec1", "made", "unlink3", "open1", "open2", "create2", "link1", "linkbad", "chdir1"}
  BY <1>2
<1> QED
  BY <1>1, <1>3, <1>4, <1>5, PutIpKeeps, Zenon

\* mkdir() and mknod() put the inode create() made.
LEMMA MadeKeeps ==
  ASSUME IndInv, NEW p \in Proc, Made(p)
  PROVE  IndInv'
<1>1. /\ At(p, {"made"}) /\ icache' = Iunlock(icache, th[p].ip) /\ inode' = inode /\ proc' = proc /\ ftable' = ftable
      /\ th' = [th EXCEPT ![p] = Return(th[p], 0, <<th[p].ip>>)]
  BY DEF Made, disk
<1>2. Shape /\ icache \in Cache /\ th[p].pc = "made"
  BY <1>1, AtIs
<1>3. SameKinds /\ icache' \in Cache /\ \A i \in Ino : icache'[i].ref = icache[i].ref
  BY <1>1, <1>2, Unchanged, IunlockIs
<1>5. th[p].pc \in {"exec1", "made", "unlink3", "open1", "open2", "create2", "link1", "linkbad", "chdir1"}
  BY <1>2
<1> QED
  BY <1>1, <1>3, <1>5, PutIpKeeps, Zenon

\* unlink() puts the inode whose link it has taken.
LEMMA UnlinkCountKeeps ==
  ASSUME IndInv, NEW p \in Proc, UnlinkCount(p)
  PROVE  IndInv'
<1>1. /\ At(p, {"unlink3"}) /\ icache' = Iunlock(icache, th[p].ip) /\ proc' = proc /\ ftable' = ftable
      /\ th' = [th EXCEPT ![p] = Return(th[p], 0, <<th[p].ip>>)]
      /\ \E x : inode' = [inode EXCEPT ![th[p].ip].nlink = x]
  BY DEF UnlinkCount
<1>2. Shape /\ icache \in Cache /\ th[p].pc = "unlink3"
  BY <1>1, AtIs
<1>3. SameKinds
  BY <1>1, <1>2, Counted
<1>4. icache' \in Cache /\ \A i \in Ino : icache'[i].ref = icache[i].ref
  BY <1>1, <1>2, IunlockIs
<1>5. th[p].pc \in {"exec1", "made", "unlink3", "open1", "open2", "create2", "link1", "linkbad", "chdir1"}
  BY <1>2
<1> QED
  BY <1>1, <1>3, <1>4, <1>5, PutIpKeeps, Zenon

\* link() that fails takes the link count back and puts the inode.
LEMMA LinkBadKeeps ==
  ASSUME IndInv, NEW p \in Proc, LinkBad(p)
  PROVE  IndInv'
<1>1. /\ At(p, {"linkbad"}) /\ icache' = Visit(icache, th[p].ip) /\ proc' = proc /\ ftable' = ftable
      /\ th' = [th EXCEPT ![p] = Return(th[p], -1, <<th[p].ip>>)]
      /\ \E x : inode' = [inode EXCEPT ![th[p].ip].nlink = x]
  BY DEF LinkBad
<1>2. Shape /\ icache \in Cache /\ th[p].pc = "linkbad"
  BY <1>1, AtIs
<1>3. SameKinds
  BY <1>1, <1>2, Counted
<1>4. icache' \in Cache /\ \A i \in Ino : icache'[i].ref = icache[i].ref
  BY <1>1, <1>2, VisitIs
<1>5. th[p].pc \in {"exec1", "made", "unlink3", "open1", "open2", "create2", "link1", "linkbad", "chdir1"}
  BY <1>2
<1> QED
  BY <1>1, <1>3, <1>4, <1>5, PutIpKeeps, Zenon

\* unlink() that fails unlocks and puts the parent.
LEMMA UnlinkBadKeeps ==
  ASSUME IndInv, NEW p \in Proc, UnlinkBad(p)
  PROVE  IndInv'
<1>1. /\ At(p, {"unlinkbad"}) /\ icache' = Iunlock(icache, th[p].dp) /\ inode' = inode /\ proc' = proc /\ ftable' = ftable
      /\ th' = [th EXCEPT ![p] = Return(th[p], -1, <<th[p].dp>>)]
  BY DEF UnlinkBad, disk
<1>2. Shape /\ icache \in Cache /\ th[p].pc = "unlinkbad"
  BY <1>1, AtIs
<1>3. SameKinds /\ icache' \in Cache /\ \A i \in Ino : icache'[i].ref = icache[i].ref
  BY <1>1, <1>2, Unchanged, IunlockIs
<1>5. th[p].pc \in {"unlink1", "unlinkbad"}
  BY <1>2
<1> QED
  BY <1>1, <1>3, <1>5, PutDpKeeps, Zenon

-----------------------------------------------------------------------------
\* Calls that go on

\* The pointers a thread holds to inode i.
Held(t, i) == One(t.ip = i) + One(t.dp = i) + One(t.at = i) + PutCount(t.puts, i)

\* A call in the kernel goes on to a label where it has no open file.
LEMMA Goes ==
  ASSUME IndInv, NEW p \in Proc, NEW u, th' = [th EXCEPT ![p] = u], proc' = proc,
         SameFiles, SameKinds, icache' \in Cache,
         th[p].pc \notin {"user", "chdir2", "zombie"}, u.pc \notin {"chdir2", "zombie", "read", "write", "fstat"},
         IsThread(u), Locals(u), Kinds(u),
         \A i \in Ino : icache'[i].ref + Held(th[p], i) = icache[i].ref + Held(u, i)
  PROVE  IndInv'
<1>1. Uses(u, proc[p])
  BY DEF Uses
<1>2. Lives(u, proc[p])
  <2>1. proc[p].state = "run" /\ proc[p].cwd \in Ino
    BY InCall
  <2> QED
    BY <2>1, InoIs DEF Lives
<1>3. ASSUME NEW i \in Ino
      PROVE  icache'[i].ref + Count(th[p], proc[p].cwd, i) = icache[i].ref + Count(u, proc[p].cwd, i)
  <2>1. PICK c : c = proc[p].cwd
    OBVIOUS
  <2>2. One(c = i /\ th[p].pc # "chdir2") = One(c = i /\ u.pc # "chdir2")
    BY DEF One
  <2>3. /\ Count(th[p], c, i) = One(c = i /\ th[p].pc # "chdir2") + Held(th[p], i)
        /\ Held(th[p], i) \in Nat /\ One(c = i /\ th[p].pc # "chdir2") \in Nat
    BY DEF Count, Held, One, PutCount
  <2>4. Count(u, c, i) = One(c = i /\ u.pc # "chdir2") + Held(u, i) /\ Held(u, i) \in Nat
    BY DEF Count, Held, One, PutCount
  <2>5. icache'[i].ref \in Nat /\ icache[i].ref \in Nat
    BY ShapeIs DEF Cache, IndInv
  <2>6. icache'[i].ref + Held(th[p], i) = icache[i].ref + Held(u, i)
    OBVIOUS
  <2> QED
    BY <2>1, <2>2, <2>3, <2>4, <2>5, <2>6
<1> QED
  BY <1>1, <1>2, <1>3, Moved, Zenon

\* The thread u is t at label l with these pointers.
Like(u, t, l, at, path, ip, dp, s) ==
  /\ DOMAIN u = DOMAIN NewThread
  /\ u.pc = l /\ u.at = at /\ u.path = path /\ u.ip = ip /\ u.dp = dp /\ u.puts = s
  /\ u.call = t.call /\ u.f = t.f /\ u.dropping = t.dropping

\* Such a thread has its shape, and what it holds can be read off.
LEMMA LikeIs ==
  ASSUME NEW t, IsThread(t), NEW u, NEW l, NEW at \in 0..NInodes, NEW path \in Paths, NEW ip \in 0..NInodes,
         NEW dp \in 0..NInodes, NEW s \in Puts, Like(u, t, l, at, path, ip, dp, s)
  PROVE  /\ IsThread(u)
         /\ \A i : Held(u, i) = One(ip = i) + One(dp = i) + One(at = i) + PutCount(s, i)
<1>1. IsThread(u)
  BY DEF Like, IsThread
<1>2. \A i : Held(u, i) = One(ip = i) + One(dp = i) + One(at = i) + PutCount(s, i)
  BY DEF Like, Held
<1> QED
  BY <1>1, <1>2

\* The fields of a thread.
LEMMA ThreadFields ==
  DOMAIN NewThread = {"pc", "call", "at", "path", "ip", "dp", "f", "done", "puts", "dropping", "ret", "buf"}
  BY DEF NewThread

\* A thread that jumps.
LEMMA GotoIs ==
  ASSUME NEW t, IsThread(t), NEW l, NEW s
  PROVE  /\ Like(Goto(t, l, s), t, l, t.at, t.path, t.ip, t.dp, s)
         /\ \A x : Like([Goto(t, l, s) EXCEPT !.ip = x], t, l, t.at, t.path, x, t.dp, s)
         /\ \A y : Like([Goto(t, l, s) EXCEPT !.dp = y], t, l, t.at, t.path, t.ip, y, s)
         /\ \A x, y : Like([Goto(t, l, s) EXCEPT !.ip = x, !.dp = y], t, l, t.at, t.path, x, y, s)
<1>1. DOMAIN t = {"pc", "call", "at", "path", "ip", "dp", "f", "done", "puts", "dropping", "ret", "buf"}
  BY ThreadFields DEF IsThread
<1>2. Like(Goto(t, l, s), t, l, t.at, t.path, t.ip, t.dp, s)
  BY <1>1, ThreadFields DEF Like, Goto
<1>3. PICK g : g = Goto(t, l, s)
  OBVIOUS
<1>4. /\ DOMAIN g = {"pc", "call", "at", "path", "ip", "dp", "f", "done", "puts", "dropping", "ret", "buf"}
      /\ g.pc = l /\ g.at = t.at /\ g.path = t.path /\ g.ip = t.ip /\ g.dp = t.dp /\ g.puts = s
      /\ g.call = t.call /\ g.f = t.f /\ g.dropping = t.dropping
  BY <1>2, <1>3, ThreadFields DEF Like
<1>5. /\ \A x : Like([g EXCEPT !.ip = x], t, l, t.at, t.path, x, t.dp, s)
      /\ \A y : Like([g EXCEPT !.dp = y], t, l, t.at, t.path, t.ip, y, s)
      /\ \A x, y : Like([g EXCEPT !.ip = x, !.dp = y], t, l, t.at, t.path, x, y, s)
  BY <1>4, ThreadFields DEF Like
<1> QED
  BY <1>2, <1>3, <1>5, Zenon

-----------------------------------------------------------------------------
\* Directories

\* A slot holds an inode number.
LEMMA SlotsHave ==
  ASSUME NEW x \in DirSlots
  PROVE  x.inum \in 0..NInodes
<1>1. ASSUME NEW N, x \in [name : N, inum : 0..NInodes] PROVE x.inum \in 0..NInodes
  BY <1>1
<1> QED
  BY <1>1, Zenon DEF DirSlots

\* Looking a name up finds an inode number or nothing.
LEMMA DirlookupIs ==
  ASSUME Shape, NEW d \in Ino, inode[d].type = "dir", NEW n
  PROVE  /\ inode[d].data \in Seq(DirSlots)
         /\ Find(d, n) \in 0..Len(inode[d].data)
         /\ Dirlookup(d, n) \in 0..NInodes
<1>1. inode[d].data \in Seq(DirSlots)
  BY ShapeIs DEF IsInode
<1>2. PICK s \in Seq(DirSlots) : s = inode[d].data
  BY <1>1
<1> DEFINE hits == {k \in Entries(d) : inode[d].data[k].name = n}
<1>3. hits \subseteq 1..Len(s) /\ Len(s) \in Nat
  BY <1>2 DEF Entries
<1>4. Find(d, n) = IF hits = {} THEN 0 ELSE CHOOSE k \in hits : \A h \in hits : k <= h
  BY DEF Find
<1> HIDE DEF hits
<1>5. Find(d, n) \in 0..Len(s)
  <2>1. CASE hits = {}
    BY <1>3, <1>4, <2>1
  <2>2. CASE hits # {}
    <3>1. hits \in SUBSET Nat
      BY <1>3
    <3>2. \E k \in hits : \A h \in hits : k <= h
      BY <2>2, <3>1, LeastNat
    <3>3. PICK c : c = CHOOSE k \in hits : \A h \in hits : k <= h
      OBVIOUS
    <3>4. c \in hits
      BY <3>2, <3>3
    <3>5. Find(d, n) = c
      BY <1>4, <2>2, <3>3
    <3> QED
      BY <1>3, <3>4, <3>5
  <2> QED
    BY <2>1, <2>2
<1>6. Dirlookup(d, n) \in 0..NInodes
  <2>1. CASE Find(d, n) = 0
    BY <2>1, InoIs DEF Dirlookup
  <2>2. CASE Find(d, n) # 0
    <3>1. Find(d, n) \in 1..Len(s) /\ Len(s) \in Nat
      BY <1>3, <1>5, <2>2
    <3>2. s[Find(d, n)] \in DirSlots
      BY <3>1
    <3>3. s[Find(d, n)].inum \in 0..NInodes
      BY <3>2, SlotsHave
    <3> QED
      BY <1>2, <2>2, <3>3 DEF Dirlookup
  <2> QED
    BY <2>1, <2>2
<1> QED
  BY <1>1, <1>2, <1>5, <1>6

\* What writei() makes of an inode's data.
Content(n, off, us) ==
  [j \in 1..(IF off + Len(us) > Len(n.data) THEN off + Len(us) ELSE Len(n.data)) |->
     IF j \in off+1..off+Len(us) THEN us[j - off] ELSE n.data[j]]

\* writei() changes an inode's data, block addresses and nothing else.
LEMMA WriteiHas ==
  ASSUME NEW n, IsInode(n), NEW u, NEW off, NEW us, NEW m, m = Writei(u, n, off, us).ino
  PROVE  m = n \/ (DOMAIN m = DOMAIN n /\ m.type = n.type /\ m.data = Content(n, off, us))
<1> DEFINE len == IF off + Len(us) > Len(n.data) THEN off + Len(us) ELSE Len(n.data)
           data == [j \in 1..len |-> IF j \in off+1..off+Len(us) THEN us[j - off] ELSE n.data[j]]
<1>2. m = n \/ \E b, x : m = [n EXCEPT !.blks = b, !.ind = x, !.data = data]
  <2>1. PICK w : w = Bmap(u, n, IF Blocks(len) > Len(n.blks) THEN Blocks(len) ELSE Len(n.blks))
    OBVIOUS
  <2>2. Writei(u, n, off, us) =
          [fits |-> w.fits, used |-> IF w.fits THEN u \cup {Balloc(u, j) : j \in 1..w.k} ELSE u,
           ino  |-> IF w.fits THEN [n EXCEPT !.blks = w.blks, !.ind = w.ind, !.data = data] ELSE n]
    BY <2>1, Zenon DEF Writei
  <2>3. m = IF w.fits THEN [n EXCEPT !.blks = w.blks, !.ind = w.ind, !.data = data] ELSE n
    BY <2>2
  <2> QED
    BY <2>3, Zenon
<1>3. DOMAIN n = {"type", "nlink", "data", "blks", "ind"}
  BY DEF IsInode, NoInode
<1> HIDE DEF data
<1>4. m = n \/ (DOMAIN m = DOMAIN n /\ m.type = n.type /\ m.data = data)
  <2>1. CASE m = n
    BY <2>1
  <2>2. ASSUME NEW b, NEW x, m = [n EXCEPT !.blks = b, !.ind = x, !.data = data]
        PROVE  DOMAIN m = DOMAIN n /\ m.type = n.type /\ m.data = data
    BY <1>3, <2>2
  <2> QED
    BY <1>2, <2>1, <2>2, Zenon
<1> QED
  BY <1>4 DEF data, Content

\* Writing to anything but a directory leaves what it is.
LEMMA WriteiAny ==
  ASSUME NEW n, IsInode(n), n.type # "dir", NEW u, NEW off, NEW us
  PROVE  IsInode(Writei(u, n, off, us).ino) /\ Writei(u, n, off, us).ino.type = n.type
<1>1. PICK m : m = Writei(u, n, off, us).ino
  OBVIOUS
<1>2. m = n \/ (DOMAIN m = DOMAIN n /\ m.type = n.type)
  BY <1>1, WriteiHas
<1> QED
  BY <1>1, <1>2 DEF IsInode

\* Writing slots to a directory leaves slots in it.
LEMMA WriteiIs ==
  ASSUME NEW n, IsInode(n), NEW u, NEW off \in Int, NEW us,
         n.type = "dir" => us \in Seq(DirSlots) /\ off <= Len(n.data)
  PROVE  IsInode(Writei(u, n, off, us).ino) /\ Writei(u, n, off, us).ino.type = n.type
<1> DEFINE len == IF off + Len(us) > Len(n.data) THEN off + Len(us) ELSE Len(n.data)
           data == [j \in 1..len |-> IF j \in off+1..off+Len(us) THEN us[j - off] ELSE n.data[j]]
<1>1. PICK m : m = Writei(u, n, off, us).ino
  OBVIOUS
<1>2. m = n \/ (DOMAIN m = DOMAIN n /\ m.type = n.type /\ m.data = Content(n, off, us))
  BY <1>1, WriteiHas
<1>5. m = n \/ (DOMAIN m = DOMAIN n /\ m.type = n.type /\ m.data = data)
  BY <1>2 DEF Content
<1>4. n.type = "dir" => data \in Seq(DirSlots)
  <2> SUFFICES ASSUME n.type = "dir" PROVE data \in Seq(DirSlots)
    OBVIOUS
  <2>1. PICK a \in Seq(DirSlots), b \in Seq(DirSlots) : a = n.data /\ b = us
    BY DEF IsInode
  <2>2. Len(a) \in Nat /\ Len(b) \in Nat /\ off <= Len(a)
    BY <2>1
  <2>3. len \in Nat /\ len >= Len(a) /\ len >= off + Len(b) /\ (len = Len(a) \/ len = off + Len(b))
    BY <2>1, <2>2
  <2> HIDE DEF len
  <2>4. ASSUME NEW j \in 1..len PROVE data[j] \in DirSlots
    <3>1. CASE j \in off+1..off+Len(us)
      <4>1. j - off \in 1..Len(b)
        BY <2>1, <2>2, <2>3, <3>1
      <4> QED
        BY <2>1, <3>1, <4>1
    <3>2. CASE j \notin off+1..off+Len(us)
      <4>1. j \in 1..Len(a)
        BY <2>1, <2>2, <2>3, <3>2
      <4> QED
        BY <2>1, <3>2, <4>1
    <3> QED
      BY <3>1, <3>2
  <2> QED
    BY <2>3, <2>4
<1> HIDE DEF data
<1>6. IsInode(m) /\ m.type = n.type
  BY <1>4, <1>5 DEF IsInode
<1> QED
  BY <1>1, <1>6

\* A slot is a record of a name and a number.
LEMMA SlotFields ==
  ASSUME NEW N, NEW M, NEW n \in N, NEW i \in M
  PROVE  Slot(n, i) \in [name : N, inum : M]
  BY DEF Slot

\* A slot of a directory with any name.
LEMMA SlotIs ==
  ASSUME NEW n \in STRING, NEW i \in 0..NInodes
  PROVE  Slot(n, i) \in DirSlots
  BY SlotFields, Zenon DEF DirSlots

\* The empty slot and the dots of a directory.
LEMMA DotIs ==
  ASSUME NEW N, N = {"", ".", ".."}, NEW n \in N, NEW i \in 0..NInodes
  PROVE  Slot(n, i) \in DirSlots
<1>1. Slot(n, i) \in [name : N, inum : 0..NInodes]
  BY SlotFields, Zenon
<1> QED
  BY <1>1, Zenon DEF DirSlots

\* A new entry of a directory.
LEMMA DirlinkIs ==
  ASSUME Shape, NEW u, NEW d \in Ino, inode[d].type = "dir", NEW n \in STRING, NEW i \in 0..NInodes
  PROVE  IsInode(Dirlink(u, d, n, i).ino) /\ Dirlink(u, d, n, i).ino.type = "dir"
<1>1. IsInode(inode[d]) /\ inode[d].data \in Seq(DirSlots)
  BY ShapeIs DEF IsInode
<1> DEFINE free == DOMAIN inode[d].data \ Entries(d)
           off == IF free = {} THEN Len(inode[d].data) ELSE (CHOOSE k \in free : \A h \in free : k <= h) - 1
<1>2. Len(inode[d].data) \in Nat /\ free \subseteq 1..Len(inode[d].data)
  BY <1>1
<1>3. Dirlink(u, d, n, i) = Writei(u, inode[d], off, <<Slot(n, i)>>)
  BY DEF Dirlink
<1> HIDE DEF free
<1>4. off \in Int /\ off <= Len(inode[d].data)
  <2>1. CASE free = {}
    BY <1>2, <2>1
  <2>2. CASE free # {}
    <3>1. free \in SUBSET Nat
      BY <1>2
    <3>2. \E k \in free : \A h \in free : k <= h
      BY <2>2, <3>1, LeastNat
    <3>3. PICK c : c = CHOOSE k \in free : \A h \in free : k <= h
      OBVIOUS
    <3>4. c \in free
      BY <3>2, <3>3
    <3>5. off = c - 1
      BY <2>2, <3>3
    <3> QED
      BY <1>2, <3>4, <3>5
  <2> QED
    BY <2>1, <2>2
<1>5. <<Slot(n, i)>> \in Seq(DirSlots)
  <2>1. Slot(n, i) \in DirSlots
    BY SlotIs, Zenon
  <2> QED
    BY <2>1
<1> HIDE DEF off
<1>6. IsInode(Writei(u, inode[d], off, <<Slot(n, i)>>).ino)
      /\ Writei(u, inode[d], off, <<Slot(n, i)>>).ino.type = inode[d].type
  BY <1>1, <1>4, <1>5, WriteiIs
<1> QED
  BY <1>3, <1>6

-----------------------------------------------------------------------------
\* The steps of a call in the kernel

\* A thread that owes no iput() holds its three pointers.
LEMMA HeldAt ==
  ASSUME NEW t, t.puts = <<>>, NEW i \in Ino
  PROVE  Held(t, i) = One(t.ip = i) + One(t.dp = i) + One(t.at = i)
  BY DEF Held, One, PutCount

\* A lookup locks the directory, then takes a reference to what it finds, and
\* unlocks the directory or not.
LEMMA LookupIs ==
  ASSUME NEW c \in Cache, NEW d, NEW i \in Ino
  PROVE  /\ Iget(Visit(c, d), i) \in Cache
         /\ \A j \in Ino : Iget(Visit(c, d), i)[j].ref = c[j].ref + One(i = j)
<1>1. PICK v \in Cache : v = Visit(c, d) /\ \A j \in Ino : v[j].ref = c[j].ref
  BY VisitIs
<1>2. Iget(v, i) \in Cache /\ \A j \in Ino : Iget(v, i)[j].ref = v[j].ref + One(i = j)
  BY IgetIs
<1> QED
  BY <1>1, <1>2

\* The same with the directory locked.
LEMMA LockedLookupIs ==
  ASSUME NEW c \in Cache, NEW d, NEW p \in Proc, NEW i \in Ino
  PROVE  /\ Iget(Ilock(c, d, p), i) \in Cache
         /\ \A j \in Ino : Iget(Ilock(c, d, p), i)[j].ref = c[j].ref + One(i = j)
<1>1. PICK l \in Cache : l = Ilock(c, d, p) /\ \A j \in Ino : l[j].ref = c[j].ref
  BY IlockIs
<1>2. Iget(l, i) \in Cache /\ \A j \in Ino : Iget(l, i)[j].ref = l[j].ref + One(i = j)
  BY IgetIs
<1> QED
  BY <1>1, <1>2

\* The thread of p becomes u, at label l with these pointers, and the
\* counters change with them.
Jump(p, u, l, at, path, ip, dp, s) ==
  /\ th' = [th EXCEPT ![p] = u]
  /\ th[p].pc \notin {"user", "chdir2", "zombie"} /\ l \notin {"chdir2", "zombie", "read", "write", "fstat"}
  /\ Like(u, th[p], l, at, path, ip, dp, s)
  /\ path \in Paths /\ at \in 0..NInodes /\ ip \in 0..NInodes /\ dp \in 0..NInodes /\ s \in Puts
  /\ icache' \in Cache
  /\ \A i \in Ino : icache'[i].ref + One(th[p].ip = i) + One(th[p].dp = i) + One(th[p].at = i) =
                    icache[i].ref + One(ip = i) + One(dp = i) + One(at = i) + PutCount(s, i)

\* Such a step keeps the invariant.
LEMMA Jumps ==
  ASSUME IndInv, NEW p \in Proc, NEW L, At(p, L), proc' = proc, SameFiles, SameKinds,
         NEW u, NEW l, NEW at, NEW path, NEW ip, NEW dp, NEW s,
         Jump(p, u, l, at, path, ip, dp, s), Locals(u), Kinds(u)
  PROVE  IndInv'
<1>0. /\ th' = [th EXCEPT ![p] = u] /\ icache' \in Cache
      /\ th[p].pc \notin {"user", "chdir2", "zombie"} /\ l \notin {"chdir2", "zombie", "read", "write", "fstat"}
      /\ Like(u, th[p], l, at, path, ip, dp, s)
      /\ path \in Paths /\ at \in 0..NInodes /\ ip \in 0..NInodes /\ dp \in 0..NInodes /\ s \in Puts
  BY DEF Jump
<1>1. Shape /\ th[p].puts = <<>> /\ IsThread(th[p])
  BY AtIs
<1>2. IsThread(u) /\ \A i : Held(u, i) = One(ip = i) + One(dp = i) + One(at = i) + PutCount(s, i)
  BY <1>0, <1>1, LikeIs
<1>3. ASSUME NEW i \in Ino PROVE icache'[i].ref + Held(th[p], i) = icache[i].ref + Held(u, i)
  <2>1. Held(th[p], i) = One(th[p].ip = i) + One(th[p].dp = i) + One(th[p].at = i)
    BY <1>1, HeldAt
  <2>2. icache[i].ref \in Nat /\ icache'[i].ref \in Nat
    BY <1>0, <1>1, ShapeIs DEF Cache
  <2>3. PutCount(s, i) \in Nat
    BY DEF PutCount, One
  <2>4. icache'[i].ref + One(th[p].ip = i) + One(th[p].dp = i) + One(th[p].at = i) =
        icache[i].ref + One(ip = i) + One(dp = i) + One(at = i) + PutCount(s, i)
    BY DEF Jump
  <2>5. Held(u, i) = One(ip = i) + One(dp = i) + One(at = i) + PutCount(s, i)
    BY <1>2
  <2> QED
    BY <2>1, <2>2, <2>3, <2>4, <2>5 DEF One
<1>4. u.pc \notin {"chdir2", "zombie", "read", "write", "fstat"}
  BY <1>0 DEF Like
<1> QED
  BY <1>0, <1>2, <1>3, <1>4, Goes, Zenon

\* create() of a name that exists: its inode takes the place of the parent.
LEMMA CreateExistingKeeps ==
  ASSUME IndInv, NEW p \in Proc, CreateExisting(p)
  PROVE  IndInv'
<1>0. PICK t, ip : t = th[p] /\ ip = Dirlookup(th[p].dp, Head(th[p].path))
  OBVIOUS
<1>1. PICK u : u = [Goto(t, "create2", <<t.dp>>) EXCEPT !.ip = ip, !.dp = 0]
  OBVIOUS
<1>2. /\ At(p, {"create1"}) /\ ip # 0 /\ icache' = Iget(Visit(icache, t.dp), ip) /\ th' = [th EXCEPT ![p] = u]
      /\ inode' = inode /\ proc' = proc /\ ftable' = ftable
  BY <1>0, <1>1 DEF CreateExisting, disk
<1>3. /\ Shape /\ icache \in Cache /\ t.pc = "create1"
      /\ IsThread(t) /\ Locals(t) /\ Kinds(t)
  BY <1>0, <1>2, AtIs
<1>4. t.dp \in Ino /\ inode[t.dp].type = "dir" /\ t.ip = 0 /\ t.at = 0
  BY <1>3, InoIs DEF Locals, HasIp, HasDp, HasAt, IsThread, Kinds
<1>5. ip \in Ino
  BY <1>0, <1>2, <1>3, <1>4, DirlookupIs, InoIs
<1>6. Like(u, th[p], "create2", t.at, t.path, ip, 0, <<t.dp>>)
  BY <1>0, <1>1, <1>3, GotoIs, Zenon
<1>7. <<t.dp>> \in Puts /\ t.path \in Paths /\ 0 \in 0..NInodes /\ t.at \in 0..NInodes /\ ip \in 0..NInodes
  BY <1>3, <1>4, <1>5, PutsFrom, InoIs DEF IsThread
<1>8. Locals(u) /\ Kinds(u)
  BY <1>0, <1>3, <1>4, <1>5, <1>6, InoIs DEF Like, Locals, Kinds, HasIp, HasDp, HasAt
<1>9. icache' \in Cache /\ \A i \in Ino : icache'[i].ref = icache[i].ref + One(ip = i)
  BY <1>2, <1>3, <1>5, LookupIs
<1>10. \A i \in Ino : icache'[i].ref + One(th[p].ip = i) + One(th[p].dp = i) + One(th[p].at = i) =
                      icache[i].ref + One(ip = i) + One(0 = i) + One(t.at = i) + PutCount(<<t.dp>>, i)
  BY <1>0, <1>3, <1>4, <1>9, PutCountIs, ShapeIs, InoIs DEF One
<1>11. SameKinds /\ SameFiles
  BY <1>2, <1>3, Unchanged
<1>12. /\ th[p].pc \notin {"user", "chdir2", "zombie"}
       /\ "create2" \notin {"chdir2", "zombie", "read", "write", "fstat"}
  BY <1>0, <1>3
<1>13. Jump(p, u, "create2", t.at, t.path, ip, 0, <<t.dp>>)
  BY <1>2, <1>6, <1>7, <1>9, <1>10, <1>12 DEF Jump
<1> QED
  BY <1>2, <1>8, <1>11, <1>13, Jumps, Zenon

\* create() of a name that exists: open() keeps a file, anything else fails.
LEMMA CreateKeepKeeps ==
  ASSUME IndInv, NEW p \in Proc, CreateKeep(p)
  PROVE  IndInv'
<1>0. PICK t : t = th[p]
  OBVIOUS
<1>1. PICK u : u = [t EXCEPT !.pc = "open2"]
  OBVIOUS
<1>2. /\ At(p, {"create2"}) /\ inode' = inode /\ proc' = proc /\ ftable' = ftable
      /\ \/ /\ inode[t.ip].type = "file" /\ th' = [th EXCEPT ![p] = u]
            /\ icache' = Ilock(icache, t.ip, p)
         \/ /\ th' = [th EXCEPT ![p] = Return(t, -1, <<t.ip>>)]
            /\ icache' = Visit(icache, t.ip)
  BY <1>0, <1>1 DEF CreateKeep, disk
<1>3. /\ Shape /\ icache \in Cache /\ t.pc = "create2" /\ t.puts = <<>>
      /\ IsThread(t) /\ Locals(t) /\ Kinds(t)
  BY <1>0, <1>2, AtIs
<1>4. t.ip \in Ino /\ t.dp = 0 /\ t.at = 0
  BY <1>3, InoIs DEF Locals, HasIp, HasDp, HasAt, IsThread
<1>5. SameKinds /\ SameFiles
  BY <1>2, <1>3, Unchanged
<1>6. CASE inode[t.ip].type = "file" /\ th' = [th EXCEPT ![p] = u] /\ icache' = Ilock(icache, t.ip, p)
  <2>1. Like(u, th[p], "open2", t.at, t.path, t.ip, t.dp, <<>>)
    <3>1. DOMAIN t = {"pc", "call", "at", "path", "ip", "dp", "f", "done", "puts", "dropping", "ret", "buf"}
      BY <1>3, ThreadFields DEF IsThread
    <3> QED
      BY <1>0, <1>1, <1>3, <3>1, ThreadFields DEF Like
  <2>2. <<>> \in Puts /\ t.path \in Paths /\ t.dp \in 0..NInodes /\ t.at \in 0..NInodes /\ t.ip \in 0..NInodes
    BY <1>3, PutsFrom DEF IsThread
  <2>3. Locals(u) /\ Kinds(u)
    BY <1>0, <1>3, <1>4, <1>6, <2>1, InoIs DEF Like, Locals, Kinds, HasIp, HasDp, HasAt
  <2>4. icache' \in Cache /\ \A i \in Ino : icache'[i].ref = icache[i].ref
    BY <1>3, <1>6, IlockIs
  <2>5. \A i \in Ino : icache'[i].ref + One(th[p].ip = i) + One(th[p].dp = i) + One(th[p].at = i) =
                       icache[i].ref + One(t.ip = i) + One(t.dp = i) + One(t.at = i) + PutCount(<<>>, i)
    BY <1>0, <1>3, <2>4, PutCountIs, ShapeIs DEF One
  <2>6. /\ th[p].pc \notin {"user", "chdir2", "zombie"}
        /\ "open2" \notin {"chdir2", "zombie", "read", "write", "fstat"}
    BY <1>0, <1>3
  <2>7. Jump(p, u, "open2", t.at, t.path, t.ip, t.dp, <<>>)
    BY <1>6, <2>1, <2>2, <2>4, <2>5, <2>6 DEF Jump
  <2> QED
    BY <1>2, <1>5, <2>3, <2>7, Jumps, Zenon
<1>7. CASE th' = [th EXCEPT ![p] = Return(t, -1, <<t.ip>>)] /\ icache' = Visit(icache, t.ip)
  <2>1. icache' \in Cache /\ \A i \in Ino : icache'[i].ref = icache[i].ref
    BY <1>3, <1>7, VisitIs
  <2>2. th[p].pc \in {"exec1", "made", "unlink3", "open1", "open2", "create2", "link1", "linkbad", "chdir1"}
    BY <1>0, <1>3
  <2>3. th' = [th EXCEPT ![p] = Return(t, -1, <<th[p].ip>>)]
    BY <1>0, <1>7
  <2> QED
    BY <1>2, <1>5, <2>1, <2>2, <2>3, PutIpKeeps, Zenon
<1> QED
  BY <1>2, <1>6, <1>7

\* unlink() looks the name up in the parent it locks.
LEMMA UnlinkFindKeeps ==
  ASSUME IndInv, NEW p \in Proc, UnlinkFind(p)
  PROVE  IndInv'
<1>0. PICK t, ip : t = th[p] /\ ip = Dirlookup(th[p].dp, Head(th[p].path))
  OBVIOUS
<1>1. PICK u : u = [Goto(t, "unlink2", <<>>) EXCEPT !.ip = ip]
  OBVIOUS
<1>2. /\ At(p, {"unlink1"}) /\ inode' = inode /\ proc' = proc /\ ftable' = ftable
      /\ \/ /\ th' = [th EXCEPT ![p] = Return(t, -1, <<t.dp>>)]
            /\ icache' = Visit(icache, t.dp)
         \/ /\ ip # 0 /\ icache' = Iget(Ilock(icache, t.dp, p), ip)
            /\ th' = [th EXCEPT ![p] = u]
  BY <1>0, <1>1 DEF UnlinkFind, disk
<1>3. /\ Shape /\ icache \in Cache /\ t.pc = "unlink1"
      /\ IsThread(t) /\ Locals(t) /\ Kinds(t)
  BY <1>0, <1>2, AtIs
<1>4. t.dp \in Ino /\ inode[t.dp].type = "dir" /\ t.ip = 0 /\ t.at = 0
  BY <1>3, InoIs DEF Locals, HasIp, HasDp, HasAt, IsThread, Kinds
<1>5. SameKinds /\ SameFiles
  BY <1>2, <1>3, Unchanged
<1>6. CASE th' = [th EXCEPT ![p] = Return(t, -1, <<t.dp>>)] /\ icache' = Visit(icache, t.dp)
  <2>1. icache' \in Cache /\ \A i \in Ino : icache'[i].ref = icache[i].ref
    BY <1>3, <1>6, VisitIs
  <2>2. th[p].pc \in {"unlink1", "unlinkbad"}
    BY <1>0, <1>3
  <2>3. th' = [th EXCEPT ![p] = Return(t, -1, <<th[p].dp>>)]
    BY <1>0, <1>6
  <2> QED
    BY <1>2, <1>5, <2>1, <2>2, <2>3, PutDpKeeps, Zenon
<1>7. CASE ip # 0 /\ icache' = Iget(Ilock(icache, t.dp, p), ip) /\ th' = [th EXCEPT ![p] = u]
  <2>1. ip \in Ino
    BY <1>0, <1>3, <1>4, <1>7, DirlookupIs, InoIs
  <2>2. Like(u, th[p], "unlink2", t.at, t.path, ip, t.dp, <<>>)
    BY <1>0, <1>1, <1>3, GotoIs, Zenon
  <2>3. <<>> \in Puts /\ t.path \in Paths /\ t.dp \in 0..NInodes /\ t.at \in 0..NInodes /\ ip \in 0..NInodes
    BY <1>3, <2>1, PutsFrom, InoIs DEF IsThread
  <2>4. Locals(u) /\ Kinds(u)
    BY <1>0, <1>3, <1>4, <2>1, <2>2, InoIs DEF Like, Locals, Kinds, HasIp, HasDp, HasAt
  <2>5. icache' \in Cache /\ \A i \in Ino : icache'[i].ref = icache[i].ref + One(ip = i)
    BY <1>3, <1>7, <2>1, LockedLookupIs
  <2>6. \A i \in Ino : icache'[i].ref + One(th[p].ip = i) + One(th[p].dp = i) + One(th[p].at = i) =
                       icache[i].ref + One(ip = i) + One(t.dp = i) + One(t.at = i) + PutCount(<<>>, i)
    BY <1>0, <1>3, <1>4, <2>5, PutCountIs, ShapeIs, InoIs DEF One
  <2>7. /\ th[p].pc \notin {"user", "chdir2", "zombie"}
        /\ "unlink2" \notin {"chdir2", "zombie", "read", "write", "fstat"}
    BY <1>0, <1>3
  <2>8. Jump(p, u, "unlink2", t.at, t.path, ip, t.dp, <<>>)
    BY <1>7, <2>2, <2>3, <2>5, <2>6, <2>7 DEF Jump
  <2> QED
    BY <1>2, <1>5, <2>4, <2>8, Jumps, Zenon
<1> QED
  BY <1>2, <1>6, <1>7

\* unlink() erases the entry and puts the parent, or, when the directory is
\* not empty, puts the directory.
LEMMA UnlinkEraseKeeps ==
  ASSUME IndInv, NEW p \in Proc, UnlinkErase(p)
  PROVE  IndInv'
<1>0. PICK t : t = th[p]
  OBVIOUS
<1>1. PICK u, v : /\ u = [Goto(t, "unlinkbad", <<t.ip>>) EXCEPT !.ip = 0]
                  /\ v = [Goto(t, "unlink3", <<t.dp>>) EXCEPT !.dp = 0]
  OBVIOUS
<1>a. PICK off : off = Find(t.dp, Head(t.path)) - 1
  OBVIOUS
<1>b. PICK n : n = Writei(used, inode[t.dp], off, <<NoSlot>>).ino
  OBVIOUS
<1>2. /\ At(p, {"unlink2"}) /\ proc' = proc /\ ftable' = ftable
      /\ \/ /\ inode' = inode /\ icache' = Visit(icache, t.ip)
            /\ th' = [th EXCEPT ![p] = u]
         \/ /\ \E x : inode' = [inode EXCEPT ![t.dp] = [n EXCEPT !.nlink = x]]
            /\ icache' = Iunlock(Ilock(icache, t.ip, p), t.dp)
            /\ th' = [th EXCEPT ![p] = v]
  <2>1. /\ At(p, {"unlink2"}) /\ proc' = proc /\ ftable' = ftable
        /\ \/ /\ inode' = inode /\ icache' = Visit(icache, t.ip)
              /\ th' = [th EXCEPT ![p] = u]
           \/ /\ inode' = [inode EXCEPT ![t.dp] = [n EXCEPT !.nlink = @ - (IF inode[t.ip].type = "dir" THEN 1 ELSE 0)]]
              /\ icache' = Iunlock(Ilock(icache, t.ip, p), t.dp)
              /\ th' = [th EXCEPT ![p] = v]
    BY <1>0, <1>1, <1>a, <1>b, Zenon DEF UnlinkErase
  <2> QED
    BY <2>1
<1>3. /\ Shape /\ icache \in Cache /\ t.pc = "unlink2"
      /\ IsThread(t) /\ Locals(t) /\ Kinds(t)
  BY <1>0, <1>2, AtIs
<1>4. t.dp \in Ino /\ inode[t.dp].type = "dir" /\ t.ip \in Ino /\ t.at = 0 /\ t.path \in Paths
  BY <1>3, InoIs DEF Locals, HasIp, HasDp, HasAt, IsThread, Kinds
<1>5. SameFiles
  BY <1>2, <1>3, Unchanged
<1>6. 0 \in 0..NInodes /\ t.at \in 0..NInodes /\ t.dp \in 0..NInodes /\ t.ip \in 0..NInodes
  BY <1>4, InoIs
<1>7. CASE inode' = inode /\ icache' = Visit(icache, t.ip) /\ th' = [th EXCEPT ![p] = u]
  <2>1. SameKinds
    BY <1>3, <1>7, Unchanged
  <2>2. Like(u, th[p], "unlinkbad", t.at, t.path, 0, t.dp, <<t.ip>>)
    BY <1>0, <1>1, <1>3, GotoIs, Zenon
  <2>3. <<t.ip>> \in Puts
    BY <1>4, PutsFrom
  <2>4. Locals(u) /\ Kinds(u)
    BY <1>0, <1>3, <1>4, <2>2, InoIs DEF Like, Locals, Kinds, HasIp, HasDp, HasAt
  <2>5. icache' \in Cache /\ \A i \in Ino : icache'[i].ref = icache[i].ref
    BY <1>3, <1>7, VisitIs
  <2>6. \A i \in Ino : icache'[i].ref + One(th[p].ip = i) + One(th[p].dp = i) + One(th[p].at = i) =
                       icache[i].ref + One(0 = i) + One(t.dp = i) + One(t.at = i) + PutCount(<<t.ip>>, i)
    BY <1>0, <1>3, <1>4, <2>5, PutCountIs, ShapeIs, InoIs DEF One
  <2>7. /\ th[p].pc \notin {"user", "chdir2", "zombie"}
        /\ "unlinkbad" \notin {"chdir2", "zombie", "read", "write", "fstat"}
    BY <1>0, <1>3
  <2>8. Jump(p, u, "unlinkbad", t.at, t.path, 0, t.dp, <<t.ip>>)
    BY <1>4, <1>6, <1>7, <2>2, <2>3, <2>5, <2>6, <2>7 DEF Jump
  <2> QED
    BY <1>2, <1>5, <2>1, <2>4, <2>8, Jumps, Zenon
<1>8. CASE /\ \E x : inode' = [inode EXCEPT ![t.dp] = [n EXCEPT !.nlink = x]]
           /\ icache' = Iunlock(Ilock(icache, t.ip, p), t.dp) /\ th' = [th EXCEPT ![p] = v]
  <2>1. SameKinds
    <3>1. <<NoSlot>> \in Seq(DirSlots)
      <4>1. NoSlot \in DirSlots
        <5>1. "" \in {"", ".", ".."} /\ 0 \in 0..NInodes
          BY InoIs
        <5> QED
          BY <5>1, DotIs, Zenon DEF NoSlot
      <4> QED
        BY <4>1
    <3>2. inode[t.dp].data \in Seq(DirSlots) /\ Find(t.dp, Head(t.path)) \in 0..Len(inode[t.dp].data)
      BY <1>3, <1>4, DirlookupIs
    <3>3. off \in Int /\ off <= Len(inode[t.dp].data)
      BY <1>a, <3>2
    <3>4. IsInode(inode[t.dp])
      BY <1>3, <1>4, ShapeIs
    <3>5. IsInode(n) /\ n.type = inode[t.dp].type
      BY <1>b, <3>1, <3>3, <3>4, WriteiIs
    <3>6. PICK x : inode' = [inode EXCEPT ![t.dp] = [n EXCEPT !.nlink = x]]
      BY <1>8
    <3>7. IsInode([n EXCEPT !.nlink = x]) /\ [n EXCEPT !.nlink = x].type = inode[t.dp].type
      BY <3>5, NlinkIs
    <3> QED
      BY <1>3, <3>6, <3>7, OneInode
  <2>2. Like(v, th[p], "unlink3", t.at, t.path, t.ip, 0, <<t.dp>>)
    BY <1>0, <1>1, <1>3, GotoIs, Zenon
  <2>3. <<t.dp>> \in Puts
    BY <1>4, PutsFrom
  <2>4. Locals(v) /\ Kinds(v)
    BY <1>0, <1>3, <1>4, <2>2, InoIs DEF Like, Locals, Kinds, HasIp, HasDp, HasAt
  <2>5. icache' \in Cache /\ \A i \in Ino : icache'[i].ref = icache[i].ref
    BY <1>3, <1>8, IunlockIs, IlockIs
  <2>6. \A i \in Ino : icache'[i].ref + One(th[p].ip = i) + One(th[p].dp = i) + One(th[p].at = i) =
                       icache[i].ref + One(t.ip = i) + One(0 = i) + One(t.at = i) + PutCount(<<t.dp>>, i)
    BY <1>0, <1>3, <1>4, <2>5, PutCountIs, ShapeIs, InoIs DEF One
  <2>7. /\ th[p].pc \notin {"user", "chdir2", "zombie"}
        /\ "unlink3" \notin {"chdir2", "zombie", "read", "write", "fstat"}
    BY <1>0, <1>3
  <2>8. Jump(p, v, "unlink3", t.at, t.path, t.ip, 0, <<t.dp>>)
    BY <1>4, <1>6, <1>8, <2>2, <2>3, <2>5, <2>6, <2>7 DEF Jump
  <2> QED
    BY <1>2, <1>5, <2>1, <2>4, <2>8, Jumps, Zenon
<1> QED
  BY <1>2, <1>7, <1>8

\* link() adds the entry and puts parent and inode, or finds the name taken.
LEMMA LinkEntryKeeps ==
  ASSUME IndInv, NEW p \in Proc, LinkEntry(p)
  PROVE  IndInv'
<1>0. PICK t, old : t = th[p] /\ old = Dirlookup(th[p].dp, Head(th[p].path))
  OBVIOUS
<1>1. PICK u, n : u = Goto(t, "link3", <<old>>) /\ n = Dirlink(used, t.dp, Head(t.path), t.ip).ino
  OBVIOUS
<1>2. /\ At(p, {"link2"}) /\ proc' = proc /\ ftable' = ftable
      /\ \/ /\ inode' = inode /\ old # 0 /\ icache' = Iget(Ilock(icache, t.dp, p), old)
            /\ th' = [th EXCEPT ![p] = u]
         \/ /\ inode' = [inode EXCEPT ![t.dp] = n] /\ icache' = Visit(icache, t.dp)
            /\ th' = [th EXCEPT ![p] = Return(t, 0, <<t.dp, t.ip>>)]
  BY <1>0, <1>1, Zenon DEF LinkEntry, disk
<1>3. /\ Shape /\ icache \in Cache /\ t.pc = "link2"
      /\ IsThread(t) /\ Locals(t) /\ Kinds(t)
  BY <1>0, <1>2, AtIs
<1>4. /\ t.dp \in Ino /\ inode[t.dp].type = "dir" /\ t.ip \in Ino /\ t.at = 0
      /\ t.path \in Paths /\ t.path # <<>>
  BY <1>3, InoIs DEF Locals, HasIp, HasDp, HasAt, IsThread, Kinds
<1>5. SameFiles
  BY <1>2, <1>3, Unchanged
<1>6. CASE inode' = inode /\ old # 0 /\ icache' = Iget(Ilock(icache, t.dp, p), old) /\ th' = [th EXCEPT ![p] = u]
  <2>1. old \in Ino /\ SameKinds
    BY <1>0, <1>3, <1>4, <1>6, DirlookupIs, InoIs, Unchanged
  <2>2. Like(u, th[p], "link3", t.at, t.path, t.ip, t.dp, <<old>>)
    BY <1>0, <1>1, <1>3, GotoIs, Zenon
  <2>3. <<old>> \in Puts /\ t.dp \in 0..NInodes /\ t.at \in 0..NInodes /\ t.ip \in 0..NInodes
    BY <1>3, <2>1, PutsFrom, InoIs DEF IsThread
  <2>4. Locals(u) /\ Kinds(u)
    BY <1>0, <1>3, <1>4, <2>1, <2>2, InoIs DEF Like, Locals, Kinds, HasIp, HasDp, HasAt
  <2>5. icache' \in Cache /\ \A i \in Ino : icache'[i].ref = icache[i].ref + One(old = i)
    BY <1>3, <1>6, <2>1, LockedLookupIs
  <2>6. \A i \in Ino : icache'[i].ref + One(th[p].ip = i) + One(th[p].dp = i) + One(th[p].at = i) =
                       icache[i].ref + One(t.ip = i) + One(t.dp = i) + One(t.at = i) + PutCount(<<old>>, i)
    BY <1>0, <1>3, <1>4, <2>5, PutCountIs, ShapeIs, InoIs DEF One
  <2>7. /\ th[p].pc \notin {"user", "chdir2", "zombie"}
        /\ "link3" \notin {"chdir2", "zombie", "read", "write", "fstat"}
    BY <1>0, <1>3
  <2>8. Jump(p, u, "link3", t.at, t.path, t.ip, t.dp, <<old>>)
    BY <1>4, <1>6, <2>2, <2>3, <2>5, <2>6, <2>7 DEF Jump
  <2> QED
    BY <1>2, <1>5, <2>1, <2>4, <2>8, Jumps, Zenon
<1>7. CASE /\ inode' = [inode EXCEPT ![t.dp] = n] /\ icache' = Visit(icache, t.dp)
           /\ th' = [th EXCEPT ![p] = Return(t, 0, <<t.dp, t.ip>>)]
  <2>1. SameKinds
    <3>1. Head(t.path) \in STRING /\ t.ip \in 0..NInodes
      BY <1>4, InoIs DEF Paths
    <3>2. IsInode(n) /\ n.type = inode[t.dp].type
      BY <1>1, <1>3, <1>4, <3>1, DirlinkIs
    <3> QED
      BY <1>3, <1>7, <3>2, OneInode
  <2>2. icache' \in Cache /\ \A i \in Ino : icache'[i].ref = icache[i].ref
    BY <1>3, <1>7, VisitIs
  <2>3. \A i \in Ino : One(th[p].ip = i) + One(th[p].dp = i) + One(th[p].at = i) = PutCount(<<t.dp, t.ip>>, i)
    BY <1>0, <1>4, PutCountIs, InoIs DEF One
  <2>4. <<t.dp, t.ip>> \in Puts /\ th[p].pc \notin {"user", "chdir2", "zombie"}
    BY <1>0, <1>3, <1>4, PutsFrom
  <2> QED
    BY <1>2, <1>5, <1>7, <2>1, <2>2, <2>3, <2>4, Returns, Zenon
<1> QED
  BY <1>2, <1>6, <1>7

\* link() to a name that exists unlocks and puts the parent.
LEMMA LinkExistsKeeps ==
  ASSUME IndInv, NEW p \in Proc, LinkExists(p)
  PROVE  IndInv'
<1>0. PICK t : t = th[p]
  OBVIOUS
<1>1. PICK u : u = [Goto(t, "linkbad", <<t.dp>>) EXCEPT !.dp = 0]
  OBVIOUS
<1>2. /\ At(p, {"link3"}) /\ proc' = proc /\ ftable' = ftable /\ inode' = inode
      /\ icache' = Iunlock(icache, t.dp) /\ th' = [th EXCEPT ![p] = u]
  BY <1>0, <1>1 DEF LinkExists, disk
<1>3. /\ Shape /\ icache \in Cache /\ t.pc = "link3"
      /\ IsThread(t) /\ Locals(t) /\ Kinds(t)
  BY <1>0, <1>2, AtIs
<1>4. t.dp \in Ino /\ t.ip \in Ino /\ t.at = 0 /\ t.path \in Paths
  BY <1>3, InoIs DEF Locals, HasIp, HasDp, HasAt, IsThread
<1>5. SameFiles /\ SameKinds
  BY <1>2, <1>3, Unchanged
<1>6. Like(u, th[p], "linkbad", t.at, t.path, t.ip, 0, <<t.dp>>)
  BY <1>0, <1>1, <1>3, GotoIs, Zenon
<1>7. <<t.dp>> \in Puts /\ 0 \in 0..NInodes /\ t.at \in 0..NInodes /\ t.ip \in 0..NInodes
  BY <1>4, PutsFrom, InoIs
<1>8. Locals(u) /\ Kinds(u)
  BY <1>0, <1>3, <1>4, <1>6, InoIs DEF Like, Locals, Kinds, HasIp, HasDp, HasAt
<1>9. icache' \in Cache /\ \A i \in Ino : icache'[i].ref = icache[i].ref
  BY <1>2, <1>3, IunlockIs
<1>10. \A i \in Ino : icache'[i].ref + One(th[p].ip = i) + One(th[p].dp = i) + One(th[p].at = i) =
                      icache[i].ref + One(t.ip = i) + One(0 = i) + One(t.at = i) + PutCount(<<t.dp>>, i)
  BY <1>0, <1>3, <1>4, <1>9, PutCountIs, ShapeIs, InoIs DEF One
<1>11. /\ th[p].pc \notin {"user", "chdir2", "zombie"}
       /\ "linkbad" \notin {"chdir2", "zombie", "read", "write", "fstat"}
  BY <1>0, <1>3
<1>12. Jump(p, u, "linkbad", t.at, t.path, t.ip, 0, <<t.dp>>)
  BY <1>2, <1>4, <1>6, <1>7, <1>9, <1>10, <1>11 DEF Jump
<1> QED
  BY <1>2, <1>5, <1>8, <1>12, Jumps, Zenon

-----------------------------------------------------------------------------
\* Path names

\* The elements of a path.
LEMMA TailIs ==
  ASSUME NEW path \in Paths, path # <<>>
  PROVE  Head(path) \in STRING /\ Tail(path) \in Paths
  BY DEF Paths

\* A walk sets out from a directory that exists, with the rest of the path.
LEMMA WalkIs ==
  ASSUME NEW p \in Proc, proc[p].cwd \in Ino, NEW path \in Paths, NEW t, IsThread(t), NEW l
  PROVE  /\ Start(p, path) \in Ino
         /\ \E rest \in Paths : Like(Walk(p, t, path, l), t, l, Start(p, path), rest, t.ip, t.dp, t.puts)
<1>1. Start(p, path) \in Ino
  BY InoIs DEF Start
<1>2. PICK rest : rest = IF path # <<>> /\ Head(path) = "/" THEN Tail(path) ELSE path
  OBVIOUS
<1>3. rest \in Paths
  <2>1. path # <<>> => Tail(path) \in Paths
    BY DEF Paths
  <2> QED
    BY <1>2, <2>1
<1>4. DOMAIN t = {"pc", "call", "at", "path", "ip", "dp", "f", "done", "puts", "dropping", "ret", "buf"}
  BY ThreadFields DEF IsThread
<1>5. PICK a : a = Start(p, path)
  OBVIOUS
<1>6. Walk(p, t, path, l) = [t EXCEPT !.pc = l, !.at = a, !.path = rest]
  BY <1>2, <1>5 DEF Walk
<1>7. Like([t EXCEPT !.pc = l, !.at = a, !.path = rest], t, l, a, rest, t.ip, t.dp, t.puts)
  BY <1>4, ThreadFields DEF Like
<1> QED
  BY <1>1, <1>3, <1>5, <1>6, <1>7

\* link() counts the new link and sets out for the new name's parent.
LEMMA LinkCountKeeps ==
  ASSUME IndInv, NEW p \in Proc, LinkCount(p)
  PROVE  IndInv'
<1>0. PICK t, new : t = th[p] /\ new = th[p].call.new
  OBVIOUS
<1>1. PICK u, s : u = Walk(p, t, new, "nameiparent") /\ s = Start(p, new)
  OBVIOUS
<1>2. /\ At(p, {"link1"}) /\ proc' = proc /\ ftable' = ftable
      /\ \/ /\ inode' = inode /\ icache' = Visit(icache, t.ip)
            /\ th' = [th EXCEPT ![p] = Return(t, -1, <<t.ip>>)]
         \/ /\ inode' = [inode EXCEPT ![t.ip].nlink = @ + 1]
            /\ icache' = Iget(Visit(icache, t.ip), s)
            /\ th' = [th EXCEPT ![p] = u]
  BY <1>0, <1>1, Zenon DEF LinkCount
<1>3. /\ Shape /\ icache \in Cache /\ t.pc = "link1" /\ t.puts = <<>>
      /\ IsThread(t) /\ Locals(t) /\ Kinds(t)
  BY <1>0, <1>2, AtIs
<1>4. t.ip \in Ino /\ t.dp = 0 /\ t.at = 0 /\ t.call.op = "link" /\ new \in Paths
  BY <1>0, <1>3, InoIs DEF Locals, HasIp, HasDp, HasAt, IsThread
<1>5. SameFiles
  BY <1>2, <1>3, Unchanged
<1>6. CASE inode' = inode /\ icache' = Visit(icache, t.ip) /\ th' = [th EXCEPT ![p] = Return(t, -1, <<t.ip>>)]
  <2>1. icache' \in Cache /\ (\A i \in Ino : icache'[i].ref = icache[i].ref) /\ SameKinds
    BY <1>3, <1>6, VisitIs, Unchanged
  <2>2. th[p].pc \in {"exec1", "made", "unlink3", "open1", "open2", "create2", "link1", "linkbad", "chdir1"}
    BY <1>0, <1>3
  <2>3. th' = [th EXCEPT ![p] = Return(t, -1, <<th[p].ip>>)]
    BY <1>0, <1>6
  <2> QED
    BY <1>2, <2>1, <2>2, <2>3, PutIpKeeps, Zenon
<1>7. CASE /\ inode' = [inode EXCEPT ![t.ip].nlink = @ + 1] /\ icache' = Iget(Visit(icache, t.ip), s)
           /\ th' = [th EXCEPT ![p] = u]
  <2>1. SameKinds
    BY <1>3, <1>7, Counted
  <2>2. proc[p].cwd \in Ino
    <3>1. th[p].pc # "user" /\ th[p].pc # "zombie"
      BY <1>0, <1>3
    <3> QED
      BY <3>1, InCall
  <2>3. s \in Ino
    BY <1>1, <1>3, <1>4, <2>2, WalkIs
  <2>4. PICK rest \in Paths : Like(u, th[p], "nameiparent", s, rest, t.ip, t.dp, <<>>)
    BY <1>0, <1>1, <1>3, <1>4, <2>2, WalkIs
  <2>5. <<>> \in Puts /\ s \in 0..NInodes /\ t.dp \in 0..NInodes /\ t.ip \in 0..NInodes
    BY <1>3, <2>3, PutsFrom, InoIs DEF IsThread
  <2>6. Locals(u) /\ Kinds(u)
    BY <1>0, <1>3, <1>4, <2>3, <2>4, InoIs DEF Like, Locals, Kinds, HasIp, HasDp, HasAt
  <2>7. icache' \in Cache /\ \A i \in Ino : icache'[i].ref = icache[i].ref + One(s = i)
    BY <1>3, <1>7, <2>3, LookupIs
  <2>8. \A i \in Ino : icache'[i].ref + One(th[p].ip = i) + One(th[p].dp = i) + One(th[p].at = i) =
                       icache[i].ref + One(t.ip = i) + One(t.dp = i) + One(s = i) + PutCount(<<>>, i)
    BY <1>0, <1>3, <1>4, <2>7, PutCountIs, ShapeIs, InoIs DEF One
  <2>9. /\ th[p].pc \notin {"user", "chdir2", "zombie"}
        /\ "nameiparent" \notin {"chdir2", "zombie", "read", "write", "fstat"}
    BY <1>0, <1>3
  <2>10. Jump(p, u, "nameiparent", s, rest, t.ip, t.dp, <<>>)
    BY <1>4, <1>7, <2>4, <2>5, <2>7, <2>8, <2>9 DEF Jump
  <2> QED
    BY <1>2, <1>5, <2>1, <2>6, <2>10, Jumps, Zenon
<1> QED
  BY <1>2, <1>6, <1>7

\* What namei() and nameiparent() hand to their callers.
LEMMA FoundNone ==
  ASSUME NEW t, IsThread(t), Locals(t), t.pc \in {"namei", "nameiparent"}, NEW s
  PROVE  LET u == Found(t, 0, s) IN
           \/ \E w, v : u = Return(w, v, s) /\ t.ip = 0 /\ t.dp = 0
           \/ Like(u, t, "linkbad", 0, t.path, t.ip, t.dp, s) /\ t.pc = "nameiparent" /\ t.call.op = "link"
<1>1. PICK z : z = [t EXCEPT !.at = 0]
  OBVIOUS
<1>2. DOMAIN t = {"pc", "call", "at", "path", "ip", "dp", "f", "done", "puts", "dropping", "ret", "buf"}
  BY ThreadFields DEF IsThread
<1>3. CASE t.pc = "nameiparent" /\ t.call.op = "link"
  <2>1. Found(t, 0, s) = Goto(z, "linkbad", s)
    BY <1>1, <1>3 DEF Found
  <2>2. Goto(z, "linkbad", s) = [z EXCEPT !.pc = "linkbad", !.puts = s]
    BY DEF Goto
  <2>3. Like([z EXCEPT !.pc = "linkbad", !.puts = s], t, "linkbad", 0, t.path, t.ip, t.dp, s)
    BY <1>1, <1>2, ThreadFields DEF Like
  <2> QED
    BY <1>3, <2>1, <2>2, <2>3
<1>4. CASE ~(t.pc = "nameiparent" /\ t.call.op = "link")
  <2>1. Found(t, 0, s) = Return(z, -1, s)
    BY <1>1, <1>4, Zenon DEF Found
  <2>2. t.ip = 0 /\ t.dp = 0
    BY <1>4 DEF Locals, HasIp, HasDp
  <2> QED
    BY <2>1, <2>2
<1> QED
  BY <1>3, <1>4

\* namei() found an inode.
LEMMA FoundIp ==
  ASSUME NEW t, IsThread(t), Locals(t), t.pc = "namei", NEW i \in Ino, NEW s
  PROVE  \E l \in {"open1", "link1", "chdir1", "exec1"} :
           Like(Found(t, i, s), t, l, 0, t.path, i, t.dp, s) /\ (l = "link1" => t.call.op = "link")
<1>1. PICK z : z = [t EXCEPT !.at = 0]
  OBVIOUS
<1>2. DOMAIN t = {"pc", "call", "at", "path", "ip", "dp", "f", "done", "puts", "dropping", "ret", "buf"}
  BY ThreadFields DEF IsThread
<1>3. i # 0 /\ t.call.op \in {"open", "link", "chdir", "exec"}
  BY InoIs DEF Locals
<1>4. PICK l : l = CASE t.call.op = "open"  -> "open1"
                     [] t.call.op = "link"  -> "link1"
                     [] t.call.op = "chdir" -> "chdir1"
                     [] t.call.op = "exec"  -> "exec1"
  OBVIOUS
<1>5. Found(t, i, s) = [Goto(z, l, s) EXCEPT !.ip = i]
  BY <1>1, <1>3, <1>4, Zenon DEF Found
<1>6. l \in {"open1", "link1", "chdir1", "exec1"} /\ (l = "link1" => t.call.op = "link")
  BY <1>3, <1>4
<1>7. PICK g : g = [z EXCEPT !.pc = l, !.puts = s]
  OBVIOUS
<1>8. /\ DOMAIN g = {"pc", "call", "at", "path", "ip", "dp", "f", "done", "puts", "dropping", "ret", "buf"}
      /\ g.pc = l /\ g.at = 0 /\ g.path = t.path /\ g.ip = t.ip /\ g.dp = t.dp /\ g.puts = s
      /\ g.call = t.call /\ g.f = t.f /\ g.dropping = t.dropping
  BY <1>1, <1>2, <1>7
<1>9. Like([g EXCEPT !.ip = i], t, l, 0, t.path, i, t.dp, s)
  BY <1>8, ThreadFields DEF Like
<1>10. Found(t, i, s) = [g EXCEPT !.ip = i]
  BY <1>5, <1>7 DEF Goto
<1> QED
  BY <1>6, <1>9, <1>10

\* nameiparent() found a directory.
LEMMA FoundDp ==
  ASSUME NEW t, IsThread(t), Locals(t), t.pc = "nameiparent", t.path # <<>>, NEW i \in Ino, NEW s
  PROVE  \E l \in {"link2", "unlink1", "create1"}, path \in Paths \ {<<>>} :
           Like(Found(t, i, s), t, l, 0, path, t.ip, i, s) /\ (l = "link2" <=> t.call.op = "link")
<1>1. PICK z : z = [t EXCEPT !.at = 0]
  OBVIOUS
<1>2. DOMAIN t = {"pc", "call", "at", "path", "ip", "dp", "f", "done", "puts", "dropping", "ret", "buf"}
  BY ThreadFields DEF IsThread
<1>3. i # 0
  BY InoIs
<1>4. PICK l : l = CASE t.call.op = "link"   -> "link2"
                     [] t.call.op = "unlink" -> "unlink1"
                     [] OTHER                -> "create1"
  OBVIOUS
<1>a. PICK path : path = <<Elem(Head(t.path))>>
  OBVIOUS
<1>b. path \in Paths \ {<<>>}
  <2>1. Head(t.path) \in STRING
    BY DEF IsThread, Paths
  <2>2. Elem(Head(t.path)) \in STRING
    BY <2>1, FilesAssumption DEF Elem
  <2> QED
    BY <1>a, <2>2 DEF Paths
<1>5. Found(t, i, s) = [Goto(z, l, s) EXCEPT !.dp = i, !.path = path]
  BY <1>1, <1>3, <1>4, <1>a DEF Found
<1>6. l \in {"link2", "unlink1", "create1"} /\ (l = "link2" <=> t.call.op = "link")
  BY <1>4
<1>7. PICK g : g = [z EXCEPT !.pc = l, !.puts = s]
  OBVIOUS
<1>8. /\ DOMAIN g = {"pc", "call", "at", "path", "ip", "dp", "f", "done", "puts", "dropping", "ret", "buf"}
      /\ g.pc = l /\ g.at = 0 /\ g.path = t.path /\ g.ip = t.ip /\ g.dp = t.dp /\ g.puts = s
      /\ g.call = t.call /\ g.f = t.f /\ g.dropping = t.dropping
  BY <1>1, <1>2, <1>7
<1>9. Like([g EXCEPT !.dp = i, !.path = path], t, l, 0, path, t.ip, i, s)
  BY <1>8, ThreadFields DEF Like
<1>10. Found(t, i, s) = [g EXCEPT !.dp = i, !.path = path]
  BY <1>5, <1>7 DEF Goto
<1> QED
  BY <1>6, <1>9, <1>10, <1>b

\* A walk that ends: nothing changes but the thread.
Ends(p) ==
  /\ At(p, {"namei", "nameiparent"})
  /\ proc' = proc /\ ftable' = ftable /\ inode' = inode
  /\ icache' \in Cache /\ \A i \in Ino : icache'[i].ref = icache[i].ref

\* What is known of a walk.
LEMMA WalkHas ==
  ASSUME IndInv, NEW p \in Proc, At(p, {"namei", "nameiparent"}), NEW t, t = th[p]
  PROVE  /\ Shape /\ icache \in Cache /\ t.pc \in {"namei", "nameiparent"} /\ t.puts = <<>>
         /\ IsThread(t) /\ Locals(t) /\ Kinds(t)
         /\ t.at \in Ino /\ t.dp = 0 /\ t.path \in Paths /\ t.ip \in 0..NInodes
         /\ t.pc = "namei" => t.ip = 0
         /\ t.pc = "nameiparent" => (t.ip # 0 <=> t.call.op = "link")
         /\ t.pc \notin {"user", "chdir2", "zombie"}
<1>1. /\ Shape /\ icache \in Cache /\ t.pc \in {"namei", "nameiparent"} /\ t.puts = <<>>
      /\ IsThread(t) /\ Locals(t) /\ Kinds(t)
  BY AtIs
<1>2. t.at \in Ino /\ t.dp = 0 /\ t.path \in Paths /\ t.ip \in 0..NInodes
  BY <1>1, InoIs DEF Locals, HasIp, HasDp, HasAt, IsThread
<1>3. /\ t.pc = "namei" => t.ip = 0
      /\ t.pc = "nameiparent" => (t.ip # 0 <=> t.call.op = "link")
      /\ t.pc \notin {"user", "chdir2", "zombie"}
  BY <1>1 DEF Locals, HasIp
<1> QED
  BY <1>1, <1>2, <1>3

\* The call of p returns and puts what its thread points at.
Leave(p, t, v, s) ==
  /\ th' = [th EXCEPT ![p] = Return(t, v, s)]
  /\ th[p].pc \notin {"user", "chdir2", "zombie"} /\ s \in Puts
  /\ icache' \in Cache /\ \A i \in Ino : icache'[i].ref = icache[i].ref
  /\ \A i \in Ino : One(th[p].ip = i) + One(th[p].dp = i) + One(th[p].at = i) = PutCount(s, i)

\* Such a step keeps the invariant.
LEMMA Leaves ==
  ASSUME IndInv, NEW p \in Proc, NEW L, At(p, L), proc' = proc, SameFiles, SameKinds,
         NEW t, NEW v, NEW s, Leave(p, t, v, s)
  PROVE  IndInv'
<1>1. /\ th' = [th EXCEPT ![p] = Return(t, v, s)]
      /\ th[p].pc \notin {"user", "chdir2", "zombie"} /\ s \in Puts
      /\ icache' \in Cache /\ \A i \in Ino : icache'[i].ref = icache[i].ref
      /\ \A i \in Ino : One(th[p].ip = i) + One(th[p].dp = i) + One(th[p].at = i) = PutCount(s, i)
  BY DEF Leave
<1> QED
  BY <1>1, Returns, Zenon

\* It fails and puts the inode it has come to.
LEMMA NoneKeeps ==
  ASSUME IndInv, NEW p \in Proc, Ends(p), th' = [th EXCEPT ![p] = Found(th[p], 0, <<th[p].at>>)]
  PROVE  IndInv'
<1>0. PICK t : t = th[p]
  OBVIOUS
<1>1. PICK u : u = Found(t, 0, <<t.at>>)
  OBVIOUS
<1>2. /\ At(p, {"namei", "nameiparent"}) /\ proc' = proc /\ ftable' = ftable /\ inode' = inode
      /\ icache' \in Cache /\ \A i \in Ino : icache'[i].ref = icache[i].ref
  BY DEF Ends
<1>3. /\ Shape /\ icache \in Cache /\ t.pc \in {"namei", "nameiparent"}
      /\ IsThread(t) /\ Locals(t) /\ Kinds(t)
      /\ t.at \in Ino /\ t.dp = 0 /\ t.path \in Paths /\ t.ip \in 0..NInodes
      /\ t.pc \notin {"user", "chdir2", "zombie"}
  BY <1>0, <1>2, WalkHas, Zenon
<1>4. SameKinds /\ SameFiles
  BY <1>2, <1>3, Unchanged
<1>5. <<t.at>> \in Puts
  BY <1>3, PutsFrom
<1>6. ASSUME NEW w, NEW v, u = Return(w, v, <<t.at>>), t.ip = 0, t.dp = 0 PROVE IndInv'
  <2>1. \A i \in Ino : One(th[p].ip = i) + One(th[p].dp = i) + One(th[p].at = i) = PutCount(<<t.at>>, i)
    BY <1>0, <1>6, PutCountIs, InoIs DEF One
  <2>2. th' = [th EXCEPT ![p] = Return(w, v, <<t.at>>)]
    BY <1>0, <1>1, <1>6
  <2>3. th[p].pc \notin {"user", "chdir2", "zombie"}
    BY <1>0, <1>3
  <2>4. Leave(p, w, v, <<t.at>>)
    BY <1>2, <1>5, <2>1, <2>2, <2>3 DEF Leave
  <2> QED
    BY <1>2, <1>4, <2>4, Leaves, Zenon
<1>7. ASSUME Like(u, t, "linkbad", 0, t.path, t.ip, t.dp, <<t.at>>), t.pc = "nameiparent", t.call.op = "link" PROVE IndInv'
  <2>1. Locals(u) /\ Kinds(u)
    BY <1>3, <1>7, InoIs DEF Like, Locals, Kinds, HasIp, HasDp, HasAt
  <2>2. \A i \in Ino : icache'[i].ref + One(th[p].ip = i) + One(th[p].dp = i) + One(th[p].at = i) =
                       icache[i].ref + One(t.ip = i) + One(t.dp = i) + One(0 = i) + PutCount(<<t.at>>, i)
    BY <1>0, <1>2, <1>3, PutCountIs, ShapeIs, InoIs DEF One
  <2>3. /\ th[p].pc \notin {"user", "chdir2", "zombie"}
        /\ "linkbad" \notin {"chdir2", "zombie", "read", "write", "fstat"}
    BY <1>0, <1>3
  <2>4. 0 \in 0..NInodes /\ t.dp \in 0..NInodes
    BY <1>3, InoIs
  <2>5. Jump(p, u, "linkbad", 0, t.path, t.ip, t.dp, <<t.at>>)
    BY <1>0, <1>1, <1>2, <1>3, <1>5, <1>7, <2>2, <2>3, <2>4 DEF Jump
  <2> QED
    BY <1>2, <1>4, <2>1, <2>5, Jumps, Zenon
<1>8. \/ \E w, v : u = Return(w, v, <<t.at>>) /\ t.ip = 0 /\ t.dp = 0
      \/ Like(u, t, "linkbad", 0, t.path, t.ip, t.dp, <<t.at>>) /\ t.pc = "nameiparent" /\ t.call.op = "link"
  BY <1>1, <1>3, FoundNone
<1> QED
  BY <1>6, <1>7, <1>8, Zenon

\* namei() hands the inode it has come to to its caller.
LEMMA IpKeeps ==
  ASSUME IndInv, NEW p \in Proc, Ends(p), th[p].pc = "namei", th' = [th EXCEPT ![p] = Found(th[p], th[p].at, <<>>)]
  PROVE  IndInv'
<1>0. PICK t : t = th[p]
  OBVIOUS
<1>1. PICK u : u = Found(t, t.at, <<>>)
  OBVIOUS
<1>2. /\ At(p, {"namei", "nameiparent"}) /\ proc' = proc /\ ftable' = ftable /\ inode' = inode
      /\ icache' \in Cache /\ \A i \in Ino : icache'[i].ref = icache[i].ref
  BY DEF Ends
<1>3. /\ Shape /\ icache \in Cache /\ t.pc = "namei"
      /\ IsThread(t) /\ Locals(t) /\ Kinds(t)
      /\ t.at \in Ino /\ t.dp = 0 /\ t.path \in Paths /\ t.ip = 0
  BY <1>0, <1>2, WalkHas, Zenon
<1>4. SameKinds /\ SameFiles
  BY <1>2, <1>3, Unchanged
<1>5. PICK l \in {"open1", "link1", "chdir1", "exec1"} :
        Like(u, t, l, 0, t.path, t.at, t.dp, <<>>) /\ (l = "link1" => t.call.op = "link")
  BY <1>1, <1>3, FoundIp
<1>6. Locals(u) /\ Kinds(u)
  BY <1>3, <1>5, InoIs DEF Like, Locals, Kinds, HasIp, HasDp, HasAt
<1>7. \A i \in Ino : icache'[i].ref + One(th[p].ip = i) + One(th[p].dp = i) + One(th[p].at = i) =
                     icache[i].ref + One(t.at = i) + One(t.dp = i) + One(0 = i) + PutCount(<<>>, i)
  BY <1>0, <1>2, <1>3, PutCountIs, ShapeIs, InoIs DEF One
<1>8. /\ th[p].pc \notin {"user", "chdir2", "zombie"}
      /\ l \notin {"chdir2", "zombie", "read", "write", "fstat"}
  BY <1>0, <1>3, <1>5
<1>9. 0 \in 0..NInodes /\ t.dp \in 0..NInodes /\ t.at \in 0..NInodes /\ <<>> \in Puts
  BY <1>3, InoIs, PutsFrom
<1>10. Jump(p, u, l, 0, t.path, t.at, t.dp, <<>>)
  BY <1>0, <1>1, <1>2, <1>3, <1>5, <1>7, <1>8, <1>9 DEF Jump
<1> QED
  BY <1>2, <1>4, <1>6, <1>10, Jumps, Zenon

\* nameiparent() hands the directory it has come to to its caller.
LEMMA DpKeeps ==
  ASSUME IndInv, NEW p \in Proc, Ends(p), th[p].pc = "nameiparent", th[p].path # <<>>, inode[th[p].at].type = "dir",
         th' = [th EXCEPT ![p] = Found(th[p], th[p].at, <<>>)]
  PROVE  IndInv'
<1>0. PICK t : t = th[p]
  OBVIOUS
<1>1. PICK u : u = Found(t, t.at, <<>>)
  OBVIOUS
<1>2. /\ At(p, {"namei", "nameiparent"}) /\ proc' = proc /\ ftable' = ftable /\ inode' = inode
      /\ icache' \in Cache /\ \A i \in Ino : icache'[i].ref = icache[i].ref
  BY DEF Ends
<1>3. /\ Shape /\ icache \in Cache /\ t.pc = "nameiparent"
      /\ IsThread(t) /\ Locals(t) /\ Kinds(t)
      /\ t.at \in Ino /\ t.dp = 0 /\ t.path \in Paths /\ t.path # <<>> /\ inode[t.at].type = "dir"
      /\ (t.ip # 0 <=> t.call.op = "link") /\ t.ip \in 0..NInodes
  BY <1>0, <1>2, WalkHas, Zenon
<1>4. SameKinds /\ SameFiles
  BY <1>2, <1>3, Unchanged
<1>5. PICK l \in {"link2", "unlink1", "create1"}, path \in Paths \ {<<>>} :
        Like(u, t, l, 0, path, t.ip, t.at, <<>>) /\ (l = "link2" <=> t.call.op = "link")
  BY <1>1, <1>3, FoundDp
<1>6. Locals(u) /\ Kinds(u)
  BY <1>3, <1>5, InoIs DEF Like, Locals, Kinds, HasIp, HasDp, HasAt
<1>7. \A i \in Ino : icache'[i].ref + One(th[p].ip = i) + One(th[p].dp = i) + One(th[p].at = i) =
                     icache[i].ref + One(t.ip = i) + One(t.at = i) + One(0 = i) + PutCount(<<>>, i)
  BY <1>0, <1>2, <1>3, PutCountIs, ShapeIs, InoIs DEF One
<1>8. /\ th[p].pc \notin {"user", "chdir2", "zombie"}
      /\ l \notin {"chdir2", "zombie", "read", "write", "fstat"}
  BY <1>0, <1>3, <1>5
<1>9. 0 \in 0..NInodes /\ t.at \in 0..NInodes /\ <<>> \in Puts
  BY <1>3, InoIs, PutsFrom
<1>10. Jump(p, u, l, 0, path, t.ip, t.at, <<>>)
  BY <1>0, <1>1, <1>2, <1>3, <1>5, <1>7, <1>8, <1>9 DEF Jump
<1> QED
  BY <1>2, <1>4, <1>6, <1>10, Jumps, Zenon

\* One turn of namex()'s loop.
LEMMA NamexKeeps ==
  ASSUME IndInv, NEW p \in Proc, Namex(p)
  PROVE  IndInv'
<1>0. PICK t, d, next : t = th[p] /\ d = th[p].at /\ next = Dirlookup(th[p].at, Elem(Head(th[p].path)))
  OBVIOUS
<1>a. PICK u : u = [t EXCEPT !.at = next, !.path = Tail(@), !.puts = <<d>>]
  OBVIOUS
<1>1. /\ At(p, {"namei", "nameiparent"}) /\ proc' = proc /\ ftable' = ftable /\ inode' = inode
      /\ \/ /\ t.path = <<>> /\ th' = [th EXCEPT ![p] = NoElement(t)] /\ icache' = icache
         \/ /\ t.path # <<>> /\ inode[d].type = "dir" /\ t.pc = "nameiparent"
            /\ th' = [th EXCEPT ![p] = Found(t, d, <<>>)] /\ icache' = Visit(icache, d)
         \/ th' = [th EXCEPT ![p] = Found(t, 0, <<d>>)] /\ icache' = Visit(icache, d)
         \/ /\ t.path # <<>> /\ inode[d].type = "dir" /\ next # 0
            /\ th' = [th EXCEPT ![p] = u] /\ icache' = Iget(Visit(icache, d), next)
  BY <1>0, <1>a DEF Namex, disk
<1>2. /\ Shape /\ icache \in Cache /\ t.pc \in {"namei", "nameiparent"} /\ t.puts = <<>>
      /\ IsThread(t) /\ Locals(t) /\ Kinds(t)
      /\ d \in Ino /\ t.dp = 0 /\ t.path \in Paths /\ t.ip \in 0..NInodes
      /\ t.pc \notin {"user", "chdir2", "zombie"}
  BY <1>0, <1>1, WalkHas, Zenon
<1>3. icache' = icache \/ icache' = Visit(icache, d) => Ends(p)
  BY <1>1, <1>2, VisitIs DEF Ends
<1>4. CASE t.path = <<>> /\ th' = [th EXCEPT ![p] = NoElement(t)] /\ icache' = icache
  <2>1. CASE t.pc = "nameiparent"
    <3>1. th' = [th EXCEPT ![p] = Found(th[p], 0, <<th[p].at>>)]
      BY <1>0, <1>4, <2>1 DEF NoElement
    <3> QED
      BY <1>3, <1>4, <3>1, NoneKeeps
  <2>2. CASE t.pc = "namei"
    <3>1. th' = [th EXCEPT ![p] = Found(th[p], th[p].at, <<>>)]
      BY <1>0, <1>4, <2>2 DEF NoElement
    <3> QED
      BY <1>0, <1>3, <1>4, <2>2, <3>1, IpKeeps
  <2> QED
    BY <1>2, <2>1, <2>2
<1>5. CASE /\ t.path # <<>> /\ inode[d].type = "dir" /\ t.pc = "nameiparent"
           /\ th' = [th EXCEPT ![p] = Found(t, d, <<>>)] /\ icache' = Visit(icache, d)
  BY <1>0, <1>3, <1>5, DpKeeps
<1>6. CASE th' = [th EXCEPT ![p] = Found(t, 0, <<d>>)] /\ icache' = Visit(icache, d)
  BY <1>0, <1>3, <1>6, NoneKeeps
<1>7. CASE /\ t.path # <<>> /\ inode[d].type = "dir" /\ next # 0
           /\ th' = [th EXCEPT ![p] = u] /\ icache' = Iget(Visit(icache, d), next)
  <2>1. next \in Ino
    BY <1>0, <1>2, <1>7, DirlookupIs, InoIs
  <2>2. PICK rest : rest = Tail(t.path)
    OBVIOUS
  <2>3. rest \in Paths
    BY <1>2, <1>7, <2>2, TailIs
  <2>4. Like(u, th[p], t.pc, next, rest, t.ip, t.dp, <<d>>)
    <3>1. DOMAIN t = {"pc", "call", "at", "path", "ip", "dp", "f", "done", "puts", "dropping", "ret", "buf"}
      BY <1>2, ThreadFields DEF IsThread
    <3>2. u = [t EXCEPT !.at = next, !.path = rest, !.puts = <<d>>]
      BY <1>a, <2>2
    <3> QED
      BY <1>0, <3>1, <3>2, ThreadFields DEF Like
  <2>5. Locals(u) /\ Kinds(u)
    BY <1>0, <1>2, <2>1, <2>4, InoIs DEF Like, Locals, Kinds, HasIp, HasDp, HasAt
  <2>6. icache' \in Cache /\ \A i \in Ino : icache'[i].ref = icache[i].ref + One(next = i)
    <3>1. icache \in Cache /\ icache' = Iget(Visit(icache, d), next)
      BY <1>2, <1>7
    <3> QED
      BY <2>1, <3>1, LookupIs
  <2>7. \A i \in Ino : icache'[i].ref + One(th[p].ip = i) + One(th[p].dp = i) + One(th[p].at = i) =
                       icache[i].ref + One(t.ip = i) + One(t.dp = i) + One(next = i) + PutCount(<<d>>, i)
    BY <1>0, <1>2, <2>6, PutCountIs, ShapeIs, InoIs DEF One
  <2>8. /\ th[p].pc \notin {"user", "chdir2", "zombie"}
        /\ t.pc \notin {"chdir2", "zombie", "read", "write", "fstat"}
    BY <1>0, <1>2
  <2>9. next \in 0..NInodes /\ t.dp \in 0..NInodes /\ <<d>> \in Puts /\ SameKinds /\ SameFiles
    BY <1>1, <1>2, <2>1, InoIs, PutsFrom, Unchanged
  <2>10. Jump(p, u, t.pc, next, rest, t.ip, t.dp, <<d>>)
    BY <1>2, <1>7, <2>3, <2>4, <2>6, <2>7, <2>8, <2>9 DEF Jump
  <2> QED
    BY <1>1, <2>5, <2>9, <2>10, Jumps, Zenon
<1> QED
  BY <1>1, <1>4, <1>5, <1>6, <1>7, Zenon

-----------------------------------------------------------------------------
\* iput()

\* The first inode to be put, and the others.
LEMMA PutCountTail ==
  ASSUME NEW s \in Puts, s # <<>>
  PROVE  /\ Head(s) \in Ino /\ Tail(s) \in Puts
         /\ \A i \in Ino : PutCount(s, i) = One(Head(s) = i) + PutCount(Tail(s), i)
<1>1. CASE s \in {<<i>> : i \in Ino}
  <2>1. PICK a \in Ino : s = <<a>>
    BY <1>1
  <2>2. Head(s) = a /\ Tail(s) = <<>>
    BY <2>1
  <2>3. \A i \in Ino : PutCount(<<a>>, i) = One(a = i) /\ PutCount(<<>>, i) = 0
    BY PutCountIs
  <2> QED
    BY <2>1, <2>2, <2>3, PutsFrom DEF One
<1>2. CASE s \in {<<i, j>> : i, j \in Ino}
  <2>1. PICK a \in Ino, b \in Ino : s = <<a, b>>
    BY <1>2
  <2>2. Head(s) = a /\ Tail(s) = <<b>>
    BY <2>1
  <2>3. \A i \in Ino : PutCount(<<a, b>>, i) = One(a = i) + One(b = i) /\ PutCount(<<b>>, i) = One(b = i)
    BY PutCountIs
  <2> QED
    BY <2>1, <2>2, <2>3, PutsFrom DEF One
<1> QED
  BY <1>1, <1>2 DEF Puts

\* The second half of iput() drops a reference and a pointer.
LEMMA DropKeeps ==
  ASSUME IndInv, NEW p \in Proc, Drop(p)
  PROVE  IndInv'
<1>0. PICK t : t = th[p]
  OBVIOUS
<1>1. PICK h, rest : h = Head(t.puts) /\ rest = Tail(t.puts)
  OBVIOUS
<1>2. PICK u : u = [t EXCEPT !.puts = rest, !.dropping = FALSE]
  OBVIOUS
<1>3. /\ t.puts # <<>> /\ proc' = proc /\ ftable' = ftable /\ inode' = inode
      /\ icache' = [icache EXCEPT ![h].ref = @ - 1] /\ th' = [th EXCEPT ![p] = u]
  BY <1>0, <1>1, <1>2 DEF Drop
<1>4. Shape /\ IsThread(t) /\ Locals(t) /\ Kinds(t) /\ Uses(t, proc[p]) /\ Lives(t, proc[p])
  BY <1>0, ShapeIs DEF IndInv, ThreadsInv
<1>5. /\ h \in Ino /\ rest \in Puts
      /\ \A i \in Ino : PutCount(t.puts, i) = One(h = i) + PutCount(rest, i)
  BY <1>1, <1>3, <1>4, PutCountTail DEF IsThread
<1>7. /\ DOMAIN u = DOMAIN NewThread /\ u.pc = t.pc /\ u.at = t.at /\ u.path = t.path /\ u.ip = t.ip
      /\ u.dp = t.dp /\ u.puts = rest /\ u.call = t.call /\ u.f = t.f /\ u.dropping = FALSE
  <2>1. DOMAIN t = {"pc", "call", "at", "path", "ip", "dp", "f", "done", "puts", "dropping", "ret", "buf"}
    BY <1>4, ThreadFields DEF IsThread
  <2> QED
    BY <1>2, <2>1, ThreadFields
<1>8. IsThread(u) /\ Locals(u) /\ Kinds(u) /\ Uses(u, proc[p])
  <2>1. IsThread(u)
    BY <1>4, <1>5, <1>7 DEF IsThread
  <2>2. Locals(u) /\ Kinds(u)
    BY <1>4, <1>7 DEF Locals, Kinds, HasIp, HasDp, HasAt
  <2>3. Uses(u, proc[p])
    BY <1>4, <1>7 DEF Uses
  <2> QED
    BY <2>1, <2>2, <2>3
<1>9. Lives(u, proc[p])
  BY <1>3, <1>4, <1>7 DEF Lives
<1>10. \A i \in Ino : Count(t, proc[p].cwd, i) = One(h = i) + Count(u, proc[p].cwd, i)
  <2> SUFFICES ASSUME NEW i \in Ino PROVE Count(t, proc[p].cwd, i) = One(h = i) + Count(u, proc[p].cwd, i)
    OBVIOUS
  <2>1. PutCount(t.puts, i) = One(h = i) + PutCount(rest, i) /\ PutCount(rest, i) \in Nat
    BY <1>5 DEF PutCount, One
  <2> QED
    BY <1>7, <2>1 DEF Count, One
<1>11. icache[h].ref >= 1
  <2>1. icache[h].ref >= Count(t, proc[p].cwd, h)
    BY <1>0, <1>5, Numbers
  <2>2. Count(u, proc[p].cwd, h) \in Nat /\ icache[h].ref \in Nat
    BY <1>4, <1>5, MineIs, ShapeIs
  <2> QED
    BY <1>5, <1>10, <2>1, <2>2 DEF One
<1>12. icache' \in Cache /\ \A i \in Ino : icache'[i].ref = icache[i].ref - One(h = i)
  <2>1. icache \in Cache
    BY <1>4 DEF Shape, Cache
  <2>2. PICK r \in Nat : r = icache[h].ref - 1
    BY <1>5, <1>11, <2>1 DEF Cache
  <2>3. icache' = [icache EXCEPT ![h].ref = r]
    BY <1>3, <1>5, <2>1, <2>2 DEF Cache
  <2>4. icache' \in Cache
    BY <2>1, <2>3 DEF Cache
  <2>5. \A i \in Ino : icache'[i].ref = IF i = h THEN r ELSE icache[i].ref
    BY <1>5, <2>1, <2>3 DEF Cache
  <2>6. \A i \in Ino : icache[i].ref \in Nat
    BY <2>1 DEF Cache
  <2> QED
    BY <2>2, <2>4, <2>5, <2>6 DEF One
<1>13. \A i \in Ino : icache'[i].ref + Count(th[p], proc[p].cwd, i) = icache[i].ref + Count(u, proc[p].cwd, i)
  <2> SUFFICES ASSUME NEW i \in Ino
               PROVE  icache'[i].ref + Count(th[p], proc[p].cwd, i) = icache[i].ref + Count(u, proc[p].cwd, i)
    OBVIOUS
  <2>1. Count(u, proc[p].cwd, i) \in Nat /\ icache[i].ref \in Nat
    BY <1>4, MineIs, ShapeIs
  <2>2. One(h = i) \in Nat
    BY DEF One
  <2> QED
    BY <1>0, <1>10, <1>12, <2>1, <2>2
<1>14. SameKinds /\ SameFiles
  BY <1>3, <1>4, Unchanged
<1> QED
  BY <1>3, <1>8, <1>9, <1>12, <1>13, <1>14, Moved, Zenon

\* An inode whose one reference is being put has no other pointer.
LEMMA Alone ==
  ASSUME IndInv, NEW p \in Proc, th[p].puts # <<>>, NEW i, i = Head(th[p].puts), icache[i].ref = 1
  PROVE  /\ i \in Ino
         /\ \A f \in 1..NFILE : ftable[f].ip # i
         /\ \A q \in Proc : th[q].dp # i /\ th[q].ip # i /\ th[q].at # i /\ (proc[q].cwd # i \/ th[q].pc = "chdir2")
<1>0. PICK t : t = th[p]
  OBVIOUS
<1>1. Shape /\ IsThread(t)
  BY <1>0, ShapeIs DEF IndInv
<1>2. i \in Ino /\ PutCount(t.puts, i) = One(i = i) + PutCount(Tail(t.puts), i)
  BY <1>0, <1>1, PutCountTail DEF IsThread
<1>3. PutCount(t.puts, i) >= 1
  <2>1. PutCount(Tail(t.puts), i) \in Nat
    BY DEF PutCount, One
  <2> QED
    BY <1>2, <2>1 DEF One
<1>4. /\ Cardinality(InFiles(ftable, i)) \in Nat /\ Cardinality(Others(proc, th, p, i)) \in Nat
      /\ Count(t, proc[p].cwd, i) \in Nat
      /\ 1 = Cardinality(InFiles(ftable, i)) + Cardinality(Others(proc, th, p, i)) + Count(t, proc[p].cwd, i)
  BY <1>0, <1>2, Numbers
<1>5. Count(t, proc[p].cwd, i) >= 1 + One(proc[p].cwd = i /\ t.pc # "chdir2") + One(t.ip = i) + One(t.dp = i) + One(t.at = i)
  <2>1. PutCount(t.puts, i) \in Nat
    BY DEF PutCount, One
  <2> QED
    BY <1>3, <2>1 DEF Count, One
<1>6. /\ Cardinality(InFiles(ftable, i)) = 0 /\ Cardinality(Others(proc, th, p, i)) = 0
      /\ t.ip # i /\ t.dp # i /\ t.at # i /\ (proc[p].cwd # i \/ t.pc = "chdir2")
  BY <1>4, <1>5 DEF One
<1>7. IsFiniteSet(InFiles(ftable, i)) /\ IsFiniteSet(Others(proc, th, p, i))
  <2>1. /\ \A f \in 1..NFILE : ftable[f].ip = i => ftable[f].ref > 0
        /\ \A q \in Proc : th[q].puts \in Puts
    BY <1>1, <1>2 DEF Shape, IsFile, IsThread, Ino
  <2> QED
    BY <1>2, <2>1, Total
<1>8. InFiles(ftable, i) = {} /\ Others(proc, th, p, i) = {}
  BY <1>6, <1>7, FS_EmptySet
<1>9. \A f \in 1..NFILE : ftable[f].ip # i
  BY <1>8 DEF InFiles
<1>10. ASSUME NEW q \in Proc, q # p
       PROVE  th[q].dp # i /\ th[q].ip # i /\ th[q].at # i /\ (proc[q].cwd # i \/ th[q].pc = "chdir2")
  <2>1. Mine(q, th[q], proc[q].cwd, i) = {}
    BY <1>8, <1>10 DEF Others
  <2> QED
    BY <2>1 DEF Mine, Only
<1> QED
  BY <1>0, <1>2, <1>6, <1>9, <1>10

\* What is known of the tables, after a step that leaves the files alone.
LEMMA TablesKept ==
  ASSUME IndInv, ftable' = ftable, \A q \in Proc : proc'[q].ofile = proc[q].ofile,
         inode' = [i \in Ino |-> inode'[i]], \A i \in Ino : IsInode(inode'[i]), icache' \in Cache,
         \A f \in 1..NFILE : ftable[f].ip \in Ino => inode'[ftable[f].ip].type = inode[ftable[f].ip].type
  PROVE  Tables'
<1>1. Shape /\ FilesInv /\ FilesCounted
  BY DEF IndInv
<1>2. ftable' = [f \in 1..NFILE |-> ftable'[f]] /\ \A f \in 1..NFILE : IsFile(ftable'[f])
  BY <1>1 DEF Shape
<1>3. FilesCounted'
  <2>1. \A f \in 1..NFILE : {pd \in Proc \X Fd : proc'[pd[1]].ofile[pd[2]] = f} =
                            {pd \in Proc \X Fd : proc[pd[1]].ofile[pd[2]] = f}
    OBVIOUS
  <2> QED
    BY <1>1, <2>1 DEF FilesCounted
<1>4. FilesInv'
  <2>1. \A f \in 1..NFILE : ftable[f].ip # 0 => ftable[f].ip \in Ino
    BY <1>1, InoIs DEF Shape, IsFile
  <2> QED
    BY <1>1, <2>1 DEF FilesInv
<1> QED
  BY <1>2, <1>3, <1>4 DEF Tables

\* The first half of iput() frees an inode only when nothing else points at it.
LEMMA IputKeeps ==
  ASSUME IndInv, NEW p \in Proc, Iput(p)
  PROVE  IndInv'
<1>0. PICK t, s : t = th[p] /\ s = proc[p]
  OBVIOUS
<1>1. PICK h, u : h = Head(t.puts) /\ u = [t EXCEPT !.dropping = TRUE]
  OBVIOUS
<1>2. /\ t.puts # <<>> /\ proc' = proc /\ ftable' = ftable
      /\ inode' = IF IsLast(h) THEN [inode EXCEPT ![h] = NoInode] ELSE inode
      /\ icache' = IF IsLast(h) THEN [icache EXCEPT ![h].valid = FALSE] ELSE icache
      /\ th' = [th EXCEPT ![p] = u]
  BY <1>0, <1>1 DEF Iput
<1>3. Shape /\ Well(inode, ftable, t, s) /\ icache \in Cache
  BY <1>0, WellNow DEF IndInv, Shape, Cache
<1>4. /\ DOMAIN u = DOMAIN NewThread /\ u.pc = t.pc /\ u.at = t.at /\ u.path = t.path /\ u.ip = t.ip
      /\ u.dp = t.dp /\ u.puts = t.puts /\ u.call = t.call /\ u.f = t.f /\ u.dropping = TRUE
  <2>1. DOMAIN t = {"pc", "call", "at", "path", "ip", "dp", "f", "done", "puts", "dropping", "ret", "buf"}
    BY <1>3, ThreadFields DEF Well, IsThread
  <2> QED
    BY <1>1, <2>1, ThreadFields
<1>5. Well(inode, ftable, u, s)
  <2>1. IsThread(u) /\ IsProc(s)
    BY <1>3, <1>4 DEF Well, IsThread
  <2>2. Locals(u) /\ KindsIn(inode, u) /\ UsesIn(ftable, u, s) /\ Lives(u, s)
    BY <1>3, <1>4 DEF Well, Locals, HasIp, HasDp, HasAt, KindsIn, UsesIn, Lives
  <2> QED
    BY <2>1, <2>2 DEF Well
<1>6. /\ inode' = [i \in Ino |-> inode'[i]] /\ \A i \in Ino : IsInode(inode'[i])
      /\ \A i \in Ino : inode'[i] = inode[i] \/ (i = h /\ IsLast(h))
  <2>1. DOMAIN inode = Ino /\ inode = [i \in Ino |-> inode[i]] /\ \A i \in Ino : IsInode(inode[i])
    BY <1>3, ShapeIs DEF Shape
  <2>2. IsInode(NoInode)
    BY DEF IsInode, NoInode
  <2>3. CASE IsLast(h)
    <3>1. inode' = [inode EXCEPT ![h] = NoInode]
      BY <1>2, <2>3
    <3>2. inode' = [i \in Ino |-> inode'[i]] /\ \A i \in Ino : inode'[i] = IF i = h THEN NoInode ELSE inode[i]
      BY <2>1, <3>1
    <3> QED
      BY <2>1, <2>2, <2>3, <3>2
  <2>4. CASE ~IsLast(h)
    <3>1. inode' = inode
      BY <1>2, <2>4
    <3> QED
      BY <2>1, <3>1
  <2> QED
    BY <2>3, <2>4
<1>7. icache' \in Cache /\ \A i \in Ino : icache'[i].ref = icache[i].ref
  <2>1. [icache EXCEPT ![h].valid = FALSE] \in Cache /\ \A i \in Ino : [icache EXCEPT ![h].valid = FALSE][i].ref = icache[i].ref
    BY <1>3 DEF Cache
  <2> QED
    BY <1>2, <1>3, <2>1
<1>8. IsLast(h) => /\ h \in Ino
                   /\ \A f \in 1..NFILE : ftable[f].ip # h
                   /\ \A q \in Proc : th[q].dp # h /\ th[q].ip # h
  <2>1. IsLast(h) => icache[h].ref = 1
    BY DEF IsLast
  <2> QED
    BY <1>0, <1>1, <1>2, <2>1, Alone
<1>9. ASSUME NEW q \in Proc, NEW w, w.ip = th[q].ip, w.dp = th[q].dp, NEW r, Well(inode, ftable, w, r)
      PROVE  Well(inode', ftable', w, r)
  <2>1. (w.dp # 0 => w.dp \in Ino) /\ (w.pc = "open2" => w.ip \in Ino)
    BY <1>9, InoIs DEF Well, IsThread, Locals, HasIp
  <2>2. (w.dp # 0 => inode'[w.dp] = inode[w.dp]) /\ (w.pc = "open2" => inode'[w.ip] = inode[w.ip])
    BY <1>6, <1>8, <1>9, <2>1
  <2>3. KindsIn(inode', w)
    BY <1>9, <2>2 DEF Well, KindsIn
  <2>4. UsesIn(ftable', w, r)
    BY <1>2, <1>9 DEF Well, UsesIn
  <2> QED
    BY <1>9, <2>3, <2>4 DEF Well
<1>10. Well(inode', ftable', u, s)
  BY <1>0, <1>4, <1>5, <1>9
<1>11. \A q \in Proc \ {p} : Well(inode', ftable', th[q], proc[q])
  BY <1>9, WellNow
<1>12. Tables'
  <2>1. \A f \in 1..NFILE : ftable[f].ip \in Ino => inode'[ftable[f].ip].type = inode[ftable[f].ip].type
    BY <1>6, <1>8
  <2>2. \A q \in Proc : proc'[q].ofile = proc[q].ofile
    BY <1>2
  <2> QED
    BY <1>2, <1>6, <1>7, <2>1, <2>2, TablesKept, Zenon
<1>13. Balance(p, u, s)
  <2>1. \A i \in Ino : Count(u, s.cwd, i) = Count(th[p], proc[p].cwd, i)
    BY <1>0, <1>4 DEF Count
  <2> QED
    BY <1>2, <1>7, <2>1 DEF Balance
<1>14. proc' = [proc EXCEPT ![p] = s]
  <2>1. DOMAIN proc = Proc /\ proc = [q \in Proc |-> proc[q]]
    BY <1>3, ShapeIs DEF Shape
  <2> QED
    BY <1>0, <1>2, <2>1
<1> QED
  BY <1>2, <1>10, <1>11, <1>12, <1>13, <1>14, Step, Zenon

-----------------------------------------------------------------------------
\* chdir(), write() and the entry to the kernel

\* chdir() to a directory: the old one is to be put.
LEMMA ChdirCheckKeeps ==
  ASSUME IndInv, NEW p \in Proc, ChdirCheck(p)
  PROVE  IndInv'
<1>0. PICK t, c : t = th[p] /\ c = proc[p].cwd
  OBVIOUS
<1>1. PICK u : u = Goto(t, "chdir2", <<c>>)
  OBVIOUS
<1>2. /\ At(p, {"chdir1"}) /\ icache' = Visit(icache, t.ip) /\ inode' = inode /\ proc' = proc /\ ftable' = ftable
      /\ \/ th' = [th EXCEPT ![p] = Return(t, -1, <<th[p].ip>>)]
         \/ th' = [th EXCEPT ![p] = u]
  BY <1>0, <1>1 DEF ChdirCheck, disk
<1>3. /\ Shape /\ icache \in Cache /\ t.pc = "chdir1" /\ t.puts = <<>>
      /\ IsThread(t) /\ Locals(t) /\ Kinds(t) /\ Lives(t, proc[p])
  BY <1>0, <1>2, AtIs
<1>4. t.ip \in Ino /\ t.dp = 0 /\ t.at = 0
  BY <1>3, InoIs DEF Locals, HasIp, HasDp, HasAt, IsThread
<1>5. SameKinds /\ SameFiles /\ icache' \in Cache /\ \A i \in Ino : icache'[i].ref = icache[i].ref
  BY <1>2, <1>3, Unchanged, VisitIs
<1>6. CASE th' = [th EXCEPT ![p] = Return(t, -1, <<th[p].ip>>)]
  <2>1. th[p].pc \in {"exec1", "made", "unlink3", "open1", "open2", "create2", "link1", "linkbad", "chdir1"}
    BY <1>0, <1>3
  <2> QED
    BY <1>2, <1>5, <1>6, <2>1, PutIpKeeps, Zenon
<1>7. CASE th' = [th EXCEPT ![p] = u]
  <2>1. proc[p].state = "run" /\ c \in Ino
    BY <1>0, <1>3, InCall
  <2>2. Like(u, t, "chdir2", t.at, t.path, t.ip, t.dp, <<c>>)
    BY <1>1, <1>3, GotoIs, Zenon
  <2>3. IsThread(u)
    BY <1>3, <2>1, <2>2, PutsFrom DEF Like, IsThread
  <2>4. Locals(u) /\ Kinds(u)
    BY <1>3, <1>4, <2>2, InoIs DEF Like, Locals, Kinds, HasIp, HasDp, HasAt
  <2>5. Uses(u, proc[p]) /\ Lives(u, proc[p])
    BY <1>0, <1>3, <2>1, <2>2, InoIs DEF Like, Uses, Lives
  <2>6. \A i \in Ino : icache'[i].ref + Count(th[p], proc[p].cwd, i) = icache[i].ref + Count(u, proc[p].cwd, i)
    <3> SUFFICES ASSUME NEW i \in Ino PROVE Count(th[p], proc[p].cwd, i) = Count(u, proc[p].cwd, i)
      BY <1>5
    <3>1. PutCount(u.puts, i) = One(c = i) /\ PutCount(t.puts, i) = 0
      BY <1>3, <2>2, PutCountIs DEF Like
    <3>2. u.pc = "chdir2" /\ u.ip = t.ip /\ u.dp = t.dp /\ u.at = t.at
      BY <2>2 DEF Like
    <3> QED
      BY <1>0, <1>3, <3>1, <3>2 DEF Count, One
  <2> QED
    BY <1>2, <1>5, <1>7, <2>3, <2>4, <2>5, <2>6, Moved, Zenon
<1> QED
  BY <1>2, <1>6, <1>7

\* One transaction of write().
LEMMA WriteKeeps ==
  ASSUME IndInv, NEW p \in Proc, Write(p)
  PROVE  IndInv'
<1>0. PICK t, f : t = th[p] /\ f = ftable[th[p].f]
  OBVIOUS
<1>1. PICK us : us = SubSeq(t.call.data, t.done + 1, Min2(t.done + WMAX, Len(t.call.data)))
  OBVIOUS
<1>a. PICK n, done : n = Writei(used, inode[f.ip], f.off, us).ino /\ done = t.done + Len(us)
  OBVIOUS
<1>b. PICK u : u = [t EXCEPT !.done = done]
  OBVIOUS
<1>2. /\ At(p, {"write"}) /\ proc' = proc /\ icache' = Visit(icache, f.ip)
      /\ \/ ftable' = ftable \/ \E x : ftable' = [ftable EXCEPT ![t.f].off = x]
      /\ inode' = inode \/ inode' = [inode EXCEPT ![f.ip] = n]
      /\ (\E v : th' = [th EXCEPT ![p] = Return(t, v, <<>>)]) \/ th' = [th EXCEPT ![p] = u]
  <2>1. /\ At(p, {"write"}) /\ proc' = proc
        /\ \/ /\ th' = [th EXCEPT ![p] = Return(t, -1, <<>>)]
              /\ icache' = Visit(icache, f.ip)
              /\ inode' = inode /\ ftable' = ftable
           \/ /\ inode' = [inode EXCEPT ![f.ip] = n]
              /\ icache' = Visit(icache, f.ip)
              /\ ftable' = [ftable EXCEPT ![t.f].off = Advance(@, Len(us))]
              /\ th' = [th EXCEPT ![p] = IF done = Len(t.call.data) THEN Return(t, done, <<>>) ELSE u]
    BY <1>0, <1>1, <1>a, <1>b, Zenon DEF Write, disk
  <2>2. CASE /\ th' = [th EXCEPT ![p] = Return(t, -1, <<>>)] /\ icache' = Visit(icache, f.ip)
             /\ inode' = inode /\ ftable' = ftable
    BY <2>1, <2>2
  <2>3. CASE /\ inode' = [inode EXCEPT ![f.ip] = n]
             /\ icache' = Visit(icache, f.ip)
             /\ ftable' = [ftable EXCEPT ![t.f].off = Advance(@, Len(us))]
             /\ th' = [th EXCEPT ![p] = IF done = Len(t.call.data) THEN Return(t, done, <<>>) ELSE u]
    BY <2>1, <2>3
  <2> QED
    BY <2>1, <2>2, <2>3
<1>3. /\ Shape /\ icache \in Cache /\ t.pc = "write" /\ t.puts = <<>>
      /\ IsThread(t) /\ Locals(t) /\ Kinds(t) /\ Uses(t, proc[p]) /\ Lives(t, proc[p])
  BY <1>0, <1>2, AtIs
<1>4. t.ip = 0 /\ t.dp = 0 /\ t.at = 0
  BY <1>3 DEF Locals, HasIp, HasDp, HasAt
<1>5. SameFiles
  BY <1>2, <1>3, Unchanged, OffsetIs
<1>6. SameKinds
  <2>1. t.f \in 1..NFILE /\ f.w
    BY <1>0, <1>3 DEF Uses
  <2>2. f.ip \in Ino => IsInode(n) /\ n.type = inode[f.ip].type
    <3> SUFFICES ASSUME f.ip \in Ino PROVE IsInode(n) /\ n.type = inode[f.ip].type
      OBVIOUS
    <3>1. inode[f.ip].type # "dir" /\ IsInode(inode[f.ip])
      BY <1>0, <1>3, <2>1, InoIs, ShapeIs DEF IndInv, FilesInv
    <3> QED
      BY <1>a, <3>1, WriteiAny
  <2> QED
    BY <1>2, <1>3, <2>2, Unchanged, OneInode
<1>7. icache' \in Cache /\ \A i \in Ino : icache'[i].ref = icache[i].ref
  BY <1>2, <1>3, VisitIs
<1>8. ASSUME NEW v, th' = [th EXCEPT ![p] = Return(t, v, <<>>)] PROVE IndInv'
  <2>1. \A i \in Ino : One(th[p].ip = i) + One(th[p].dp = i) + One(th[p].at = i) = PutCount(<<>>, i)
    BY <1>0, <1>4, PutsOfNone
  <2>2. <<>> \in Puts /\ th[p].pc \notin {"user", "chdir2", "zombie"}
    BY <1>0, <1>3, PutsFrom
  <2> QED
    BY <1>2, <1>5, <1>6, <1>7, <1>8, <2>1, <2>2, Returns, Zenon
<1>9. CASE th' = [th EXCEPT ![p] = u]
  <2>1. Like(u, t, t.pc, t.at, t.path, t.ip, t.dp, t.puts)
    <3>1. DOMAIN t = {"pc", "call", "at", "path", "ip", "dp", "f", "done", "puts", "dropping", "ret", "buf"}
      BY <1>3, ThreadFields DEF IsThread
    <3> QED
      BY <1>b, <3>1, ThreadFields DEF Like
  <2>2. IsThread(u)
    BY <1>3, <2>1 DEF Like, IsThread
  <2>3. Locals(u) /\ Kinds(u) /\ Uses(u, proc[p]) /\ Lives(u, proc[p])
    BY <1>3, <2>1 DEF Like, Locals, Kinds, HasIp, HasDp, HasAt, Uses, Lives
  <2>4. \A i \in Ino : icache'[i].ref + Count(th[p], proc[p].cwd, i) = icache[i].ref + Count(u, proc[p].cwd, i)
    BY <1>0, <1>7, <2>1 DEF Like, Count
  <2> QED
    BY <1>2, <1>5, <1>6, <1>7, <1>9, <2>2, <2>3, <2>4, Moved, Zenon
<1> QED
  BY <1>2, <1>8, <1>9, Zenon

\* What is known of a process that runs its program.
LEMMA IdleIs ==
  ASSUME IndInv, NEW p \in Proc, Idle(p)
  PROVE  /\ Shape /\ icache \in Cache /\ proc[p].state = "run" /\ proc[p].cwd \in Ino
         /\ IsThread(th[p]) /\ Locals(th[p]) /\ Lives(th[p], proc[p])
         /\ th[p].pc = "user" /\ th[p].puts = <<>> /\ th[p].ip = 0 /\ th[p].dp = 0 /\ th[p].at = 0
         /\ \A i \in Ino : Count(th[p], proc[p].cwd, i) = One(proc[p].cwd = i)
<1>1. Shape /\ icache \in Cache /\ proc[p].state = "run" /\ th[p].pc = "user" /\ th[p].puts = <<>>
  BY DEF IndInv, Shape, Cache, Idle
<1>2. IsThread(th[p]) /\ IsProc(proc[p]) /\ Locals(th[p]) /\ Lives(th[p], proc[p])
  BY <1>1, ShapeIs DEF IndInv, ThreadsInv
<1>3. proc[p].cwd \in Ino
  BY <1>1, <1>2, InoIs DEF IsProc, Lives
<1>4. th[p].ip = 0 /\ th[p].dp = 0 /\ th[p].at = 0
  BY <1>1, <1>2 DEF Locals, HasIp, HasDp, HasAt
<1>5. ASSUME NEW i \in Ino PROVE Count(th[p], proc[p].cwd, i) = One(proc[p].cwd = i)
  <2>1. PutCount(th[p].puts, i) = 0
    BY <1>1, PutCountIs
  <2> QED
    BY <1>1, <1>4, <2>1, InoIs DEF Count, One
<1> QED
  BY <1>1, <1>2, <1>3, <1>4, <1>5

\* A call enters the kernel and takes the references its thread holds.
LEMMA Enters ==
  ASSUME IndInv, NEW p \in Proc, Idle(p), NEW u, th' = [th EXCEPT ![p] = u],
         proc' = proc, ftable' = ftable, inode' = inode, icache' \in Cache,
         IsThread(u), Locals(u), Kinds(u), Uses(u, proc[p]), u.pc \notin {"chdir2", "zombie"},
         \A i \in Ino : icache'[i].ref = icache[i].ref + Held(u, i)
  PROVE  IndInv'
<1>1. /\ Shape /\ proc[p].state = "run" /\ proc[p].cwd \in Ino
      /\ \A i \in Ino : Count(th[p], proc[p].cwd, i) = One(proc[p].cwd = i)
  BY IdleIs
<1>2. Lives(u, proc[p])
  BY <1>1, InoIs DEF Lives
<1>3. ASSUME NEW i \in Ino
      PROVE  icache'[i].ref + Count(th[p], proc[p].cwd, i) = icache[i].ref + Count(u, proc[p].cwd, i)
  <2>1. PICK c : c = proc[p].cwd
    OBVIOUS
  <2>2. Count(u, c, i) = One(c = i) + Held(u, i) /\ Held(u, i) \in Nat /\ One(c = i) \in Nat
    BY DEF Count, Held, One, PutCount
  <2>3. icache[i].ref \in Nat /\ icache'[i].ref = icache[i].ref + Held(u, i) /\ Count(th[p], c, i) = One(c = i)
    BY <1>1, <2>1, ShapeIs
  <2> QED
    BY <2>1, <2>2, <2>3
<1>4. SameKinds /\ SameFiles
  BY <1>1, Unchanged
<1> QED
  BY <1>2, <1>3, <1>4, Moved, Zenon

\* A thread that has not begun.
LEMMA NewThreadIs ==
  /\ IsThread(NewThread) /\ NewThread.pc = "user" /\ NewThread.call = NoCall /\ NewThread.at = 0
  /\ NewThread.ip = 0 /\ NewThread.dp = 0 /\ NewThread.puts = <<>>
<1>1. 0 \in 0..NInodes /\ <<>> \in Paths /\ <<>> \in Puts
  BY InoIs, PutsFrom DEF Paths
<1> QED
  BY <1>1 DEF NewThread, IsThread

\* A call with a path name sets out.
LEMMA PathCallKeeps ==
  ASSUME IndInv, NEW p \in Proc, Idle(p), NEW c \in SysCalls,
         c.op \in {"open", "mkdir", "mknod", "unlink", "link", "chdir", "exec"}, PathCall(p, c)
  PROVE  IndInv'
<1>0. PICK l : l = IF c.op \in {"link", "chdir", "exec"} \/ (c.op = "open" /\ ~c.create)
                   THEN "namei" ELSE "nameiparent"
  OBVIOUS
<1>1. PICK t, s : t = [NewThread EXCEPT !.call = c] /\ s = Start(p, c.path)
  OBVIOUS
<1>2. PICK u : u = Walk(p, t, c.path, l)
  OBVIOUS
<1>3. /\ icache' = Iget(icache, s) /\ th' = [th EXCEPT ![p] = u] /\ inode' = inode /\ ftable' = ftable /\ proc' = proc
  BY <1>0, <1>1, <1>2 DEF PathCall, disk
<1>4. /\ Shape /\ icache \in Cache /\ proc[p].cwd \in Ino
  BY IdleIs
<1>5. c.path \in Paths /\ (c.op = "link" => c.new \in Paths)
  BY DEF SysCalls
<1>6. IsThread(t) /\ t.call = c /\ t.ip = 0 /\ t.dp = 0 /\ t.puts = <<>>
  <2>1. /\ DOMAIN t = DOMAIN NewThread /\ t.call = c /\ t.at = NewThread.at /\ t.ip = NewThread.ip
        /\ t.dp = NewThread.dp /\ t.path = NewThread.path /\ t.puts = NewThread.puts /\ t.dropping = NewThread.dropping
    BY <1>1, ThreadFields
  <2> QED
    BY <2>1, NewThreadIs DEF IsThread
<1>7. s \in Ino
  BY <1>1, <1>4, <1>5, <1>6, WalkIs
<1>8. PICK rest \in Paths : Like(u, t, l, s, rest, t.ip, t.dp, t.puts)
  BY <1>1, <1>2, <1>4, <1>5, <1>6, WalkIs
<1>9. /\ l \in {"namei", "nameiparent"}
      /\ l = "namei" => c.op \in {"open", "link", "chdir", "exec"}
      /\ l = "nameiparent" => c.op \in {"open", "mkdir", "mknod", "unlink"}
  BY <1>0
<1>10. u.pc = l /\ u.at = s /\ u.ip = 0 /\ u.dp = 0 /\ u.call = c /\ u.puts = <<>>
  BY <1>6, <1>8 DEF Like
<1>11. IsThread(u)
  <2>1. s \in 0..NInodes
    BY <1>7, InoIs
  <2> QED
    BY <1>6, <1>8, <2>1 DEF Like, IsThread
<1>12. Locals(u) /\ Kinds(u) /\ Uses(u, proc[p])
  BY <1>5, <1>7, <1>9, <1>10, InoIs DEF Locals, Kinds, HasIp, HasDp, HasAt, Uses
<1>13. u.pc \notin {"chdir2", "zombie"}
  BY <1>9, <1>10
<1>14. icache' \in Cache /\ \A i \in Ino : icache'[i].ref = icache[i].ref + One(s = i)
  BY <1>3, <1>4, <1>7, IgetIs
<1>15. \A i \in Ino : icache'[i].ref = icache[i].ref + Held(u, i)
  <2> SUFFICES ASSUME NEW i \in Ino PROVE Held(u, i) = One(s = i)
    BY <1>14
  <2>1. Held(u, i) = One(u.ip = i) + One(u.dp = i) + One(u.at = i)
    BY <1>10, HeldAt
  <2> QED
    BY <1>10, <2>1, InoIs DEF One
<1> QED
  BY <1>3, <1>11, <1>12, <1>13, <1>14, <1>15, Enters, Zenon

\* A process without pointers of its own returns.
LEMMA IdleReturns ==
  ASSUME IndInv, NEW p \in Proc, Idle(p), NEW t, NEW v, th' = [th EXCEPT ![p] = Return(t, v, <<>>)],
         proc' = proc, ftable' = ftable, inode' = inode, icache' = icache
  PROVE  IndInv'
<1>1. /\ Shape /\ icache \in Cache /\ proc[p].state = "run" /\ th[p].pc = "user"
      /\ \A i \in Ino : Count(th[p], proc[p].cwd, i) = One(proc[p].cwd = i)
  BY IdleIs
<1>2. SameKinds /\ SameFiles /\ icache' \in Cache /\ \A i \in Ino : icache'[i].ref = icache[i].ref
  BY <1>1, Unchanged
<1>3. \A i \in Ino : Count(th[p], proc[p].cwd, i) = One(proc[p].cwd = i) + PutCount(<<>>, i)
  BY <1>1, PutCountIs DEF One
<1>4. <<>> \in Puts /\ th[p].pc # "zombie"
  BY <1>1, PutsFrom
<1> QED
  BY <1>1, <1>2, <1>3, <1>4, Returned, Zenon

\* A call with a descriptor finds its open file, or fails.
LEMMA FdCallKeeps ==
  ASSUME IndInv, NEW p \in Proc, Idle(p), NEW c \in SysCalls, c.op \in {"read", "write", "fstat"}, FdCall(p, c)
  PROVE  IndInv'
<1>0. PICK t, f : t = th[p] /\ f = Argfd(p, c.fd)
  OBVIOUS
<1>1. PICK u : u = [t EXCEPT !.pc = c.op, !.call = c, !.f = f]
  OBVIOUS
<1>2. /\ icache' = icache /\ inode' = inode /\ ftable' = ftable /\ proc' = proc
      /\ \/ th' = [th EXCEPT ![p] = Return(t, -1, <<>>)]
         \/ th' = [th EXCEPT ![p] = Return(t, 0, <<>>)]
         \/ /\ th' = [th EXCEPT ![p] = u] /\ f # 0 /\ ftable[f].type = "inode"
            /\ c.op = "write" => ftable[f].w
  <2> DEFINE fail == f = 0 \/ CASE c.op = "read"  -> ~ftable[f].r
                                [] c.op = "write" -> ~ftable[f].w
                                [] OTHER          -> ftable[f].type # "inode"
             none == c.op = "write" /\ Len(c.data) = 0
  <2>1. /\ icache' = icache /\ inode' = inode /\ ftable' = ftable /\ proc' = proc
        /\ ~fail => ftable[f].type = "inode"
        /\ th' = [th EXCEPT ![p] = IF fail THEN Return(t, -1, <<>>) ELSE IF none THEN Return(t, 0, <<>>) ELSE u]
    BY <1>0, <1>1 DEF FdCall, disk
  <2>2. c.op = "write" /\ ~fail => ftable[f].w
    OBVIOUS
  <2>3. ~fail => f # 0
    OBVIOUS
  <2> HIDE DEF fail, none
  <2> QED
    BY <2>1, <2>2, <2>3
<1>3. /\ Shape /\ icache \in Cache /\ IsThread(t) /\ Locals(t)
      /\ t.puts = <<>> /\ t.ip = 0 /\ t.dp = 0 /\ t.at = 0
  BY <1>0, IdleIs
<1>4. CASE th' = [th EXCEPT ![p] = Return(t, -1, <<>>)] \/ th' = [th EXCEPT ![p] = Return(t, 0, <<>>)]
  BY <1>2, <1>4, IdleReturns, Zenon
<1>5. CASE th' = [th EXCEPT ![p] = u] /\ f # 0 /\ ftable[f].type = "inode" /\ (c.op = "write" => ftable[f].w)
  <2>1. /\ DOMAIN u = DOMAIN NewThread /\ u.pc = c.op /\ u.at = t.at /\ u.path = t.path /\ u.ip = t.ip
        /\ u.dp = t.dp /\ u.puts = t.puts /\ u.call = c /\ u.f = f /\ u.dropping = t.dropping
    <3>1. DOMAIN t = {"pc", "call", "at", "path", "ip", "dp", "f", "done", "puts", "dropping", "ret", "buf"}
      BY <1>3, ThreadFields DEF IsThread
    <3> QED
      BY <1>1, <3>1, ThreadFields
  <2>2. IsThread(u)
    BY <1>3, <2>1 DEF IsThread
  <2>3. Locals(u) /\ Kinds(u)
    BY <1>3, <2>1 DEF Locals, Kinds, HasIp, HasDp, HasAt
  <2>4. f \in 1..NFILE /\ \E d \in Fd : proc[p].ofile[d] = f
    <3>1. c.fd \in Fd /\ f = proc[p].ofile[c.fd]
      BY <1>0, <1>5 DEF Argfd
    <3>2. proc[p].ofile \in [Fd -> 0..NFILE]
      BY <1>3, ShapeIs DEF IsProc
    <3> QED
      BY <1>5, <3>1, <3>2, Sizes
  <2>5. Uses(u, proc[p])
    BY <1>5, <2>1, <2>4 DEF Uses
  <2>6. u.pc \notin {"chdir2", "zombie"}
    BY <2>1
  <2>7. \A i \in Ino : icache'[i].ref = icache[i].ref + Held(u, i)
    <3> SUFFICES ASSUME NEW i \in Ino PROVE icache[i].ref = icache[i].ref + Held(u, i)
      BY <1>2
    <3>1. Held(u, i) = One(u.ip = i) + One(u.dp = i) + One(u.at = i)
      BY <1>3, <2>1, HeldAt
    <3>2. icache[i].ref \in Nat
      BY <1>3, ShapeIs
    <3> QED
      BY <1>3, <2>1, <3>1, <3>2, InoIs DEF One
  <2>8. icache' \in Cache
    BY <1>2, <1>3
  <2> QED
    BY <1>2, <1>5, <2>2, <2>3, <2>5, <2>6, <2>7, <2>8, Enters, Zenon
<1> QED
  BY <1>2, <1>4, <1>5

\* A process begins to exit.
LEMMA ExitCallKeeps ==
  ASSUME IndInv, NEW p \in Proc, Idle(p), th' = [th EXCEPT ![p] = [NewThread EXCEPT !.pc = "exit"]],
         inode' = inode, icache' = icache, ftable' = ftable, proc' = proc
  PROVE  IndInv'
<1>0. PICK u : u = [NewThread EXCEPT !.pc = "exit"]
  OBVIOUS
<1>1. Shape /\ icache \in Cache
  BY IdleIs
<1>2. /\ DOMAIN u = DOMAIN NewThread /\ u.pc = "exit" /\ u.at = NewThread.at /\ u.path = NewThread.path /\ u.ip = NewThread.ip
      /\ u.dp = NewThread.dp /\ u.puts = NewThread.puts /\ u.call = NewThread.call /\ u.dropping = NewThread.dropping
  BY <1>0, ThreadFields
<1>3. IsThread(u) /\ u.at = 0 /\ u.ip = 0 /\ u.dp = 0 /\ u.puts = <<>> /\ u.call = NoCall
  BY <1>2, NewThreadIs DEF IsThread
<1>4. Locals(u) /\ Kinds(u) /\ Uses(u, proc[p]) /\ u.pc \notin {"chdir2", "zombie"}
  BY <1>2, <1>3 DEF Locals, Kinds, HasIp, HasDp, HasAt, Uses, NoCall
<1>5. \A i \in Ino : icache'[i].ref = icache[i].ref + Held(u, i)
  <2> SUFFICES ASSUME NEW i \in Ino PROVE icache[i].ref = icache[i].ref + Held(u, i)
    OBVIOUS
  <2>1. Held(u, i) = One(u.ip = i) + One(u.dp = i) + One(u.at = i)
    BY <1>3, HeldAt
  <2>2. icache[i].ref \in Nat
    BY <1>1, ShapeIs
  <2> QED
    BY <1>3, <2>1, <2>2, InoIs DEF One
<1>6. th' = [th EXCEPT ![p] = u] /\ icache' \in Cache
  BY <1>0, <1>1
<1> QED
  BY <1>3, <1>4, <1>5, <1>6, Enters, Zenon

-----------------------------------------------------------------------------
\* Opening and closing files

\* The descriptors of processes P that stand for an open file f.
Users(P, f) == {pd \in Proc \X Fd : P[pd[1]].ofile[pd[2]] = f}

\* They are finitely many.
LEMMA UsersFinite ==
  ASSUME NEW P, NEW f
  PROVE  IsFiniteSet(Users(P, f)) /\ Cardinality(Users(P, f)) \in Nat
<1>1. IsFiniteSet(Proc) /\ IsFiniteSet(Fd)
  <2>1. NPROC \in Int /\ NOFILE - 1 \in Int /\ 0 \in Int /\ 1 \in Int
    BY Sizes
  <2> QED
    BY <2>1, FS_Interval, Zenon DEF Proc, Fd
<1>2. IsFiniteSet(Proc \X Fd)
  BY <1>1, FS_Product, Zenon
<1>3. Users(P, f) \in SUBSET (Proc \X Fd)
  BY DEF Users
<1> QED
  BY <1>2, <1>3, FS_Subset, FS_CardinalityType, Zenon

\* A set counted with one element that comes or goes.
LEMMA OneMore ==
  ASSUME NEW S, NEW T, IsFiniteSet(S), IsFiniteSet(T), NEW x, \A y : y # x => (y \in S <=> y \in T)
  PROVE  Cardinality(T) + One(x \in S) = Cardinality(S) + One(x \in T)
<1>1. CASE (x \in S) <=> (x \in T)
  <2>1. S = T
    BY <1>1
  <2> QED
    BY <1>1, <2>1 DEF One
<1>2. CASE x \in S /\ x \notin T
  <2>1. T \cup {x} = S
    BY <1>2
  <2>2. Cardinality(S) = Cardinality(T) + 1 /\ Cardinality(T) \in Nat
    BY <1>2, <2>1, FS_AddElement, FS_CardinalityType
  <2> QED
    BY <1>2, <2>2 DEF One
<1>3. CASE x \notin S /\ x \in T
  <2>1. S \cup {x} = T
    BY <1>3
  <2>2. Cardinality(T) = Cardinality(S) + 1 /\ Cardinality(S) \in Nat
    BY <1>3, <2>1, FS_AddElement, FS_CardinalityType
  <2> QED
    BY <1>3, <2>2 DEF One
<1> QED
  BY <1>1, <1>2, <1>3

\* The users of a file when one descriptor is set.
Apart(P, Q, p, d) == \A q \in Proc, e \in Fd : q # p \/ e # d => Q[q].ofile[e] = P[q].ofile[e]
Recounted(P, Q, p, d, f) ==
  Cardinality(Users(Q, f)) + One(P[p].ofile[d] = f) = Cardinality(Users(P, f)) + One(Q[p].ofile[d] = f)

\* The count goes with that descriptor.
LEMMA UsersIs ==
  ASSUME NEW P, NEW Q, NEW p \in Proc, NEW d \in Fd, NEW f, Apart(P, Q, p, d)
  PROVE  Recounted(P, Q, p, d, f)
<1>1. PICK x : x = <<p, d>>
  OBVIOUS
<1>2. /\ x \in Users(P, f) <=> P[p].ofile[d] = f
      /\ x \in Users(Q, f) <=> Q[p].ofile[d] = f
  BY <1>1 DEF Users
<1>3. ASSUME NEW y, y # x PROVE y \in Users(P, f) <=> y \in Users(Q, f)
  <2>1. CASE y \in Proc \X Fd
    <3>1. PICK q \in Proc, e \in Fd : y = <<q, e>>
      BY <2>1
    <3>2. q # p \/ e # d
      BY <1>1, <1>3, <3>1
    <3> QED
      BY <3>1, <3>2 DEF Users, Apart
  <2>2. CASE y \notin Proc \X Fd
    BY <2>2 DEF Users
  <2> QED
    BY <2>1, <2>2
<1>4. Cardinality(Users(Q, f)) + One(x \in Users(P, f)) = Cardinality(Users(P, f)) + One(x \in Users(Q, f))
  BY <1>3, UsersFinite, OneMore, Zenon
<1> QED
  BY <1>2, <1>4 DEF One, Recounted

\* The open files of an inode when one entry of the table is set.
Elsewhere(F, G, f) == \A g \in 1..NFILE : g # f => G[g].ip = F[g].ip

\* The count goes with that entry.
LEMMA InFilesIs ==
  ASSUME NEW F, NEW G, NEW f \in 1..NFILE, NEW i, Elsewhere(F, G, f)
  PROVE  /\ Cardinality(InFiles(F, i)) \in Nat /\ Cardinality(InFiles(G, i)) \in Nat
         /\ Cardinality(InFiles(G, i)) + One(F[f].ip = i) = Cardinality(InFiles(F, i)) + One(G[f].ip = i)
<1>1. ASSUME NEW H PROVE IsFiniteSet(InFiles(H, i))
  <2> DEFINE Z == {g \in 1..NFILE : H[g].ip = i}
             h == [g \in Z |-> <<"file", g, 0>>]
  <2>0. NFILE \in Int /\ 1 \in Int
    BY Sizes
  <2>1. IsFiniteSet(Z)
    BY <2>0, FS_Interval, FS_Subset
  <2>2. InFiles(H, i) = {h[g] : g \in Z}
    BY DEF InFiles
  <2> HIDE DEF Z, h
  <2>3. IsFiniteSet({h[g] : g \in Z})
    BY <2>1, FiniteImage
  <2> QED
    BY <2>2, <2>3
<1>2. PICK x : x = <<"file", f, 0>>
  OBVIOUS
<1>3. /\ x \in InFiles(F, i) <=> F[f].ip = i
      /\ x \in InFiles(G, i) <=> G[f].ip = i
  BY <1>2 DEF InFiles
<1>4. \A y : y # x => (y \in InFiles(F, i) <=> y \in InFiles(G, i))
  BY <1>2 DEF InFiles, Elsewhere
<1>5. Cardinality(InFiles(G, i)) + One(x \in InFiles(F, i)) = Cardinality(InFiles(F, i)) + One(x \in InFiles(G, i))
  BY <1>1, <1>4, OneMore, Zenon
<1> QED
  BY <1>1, <1>3, <1>5, FS_CardinalityType DEF One

\* filealloc() finds a free entry, if it finds one.
LEMMA FreeFileIs ==
  ASSUME NEW F, \A f \in 1..NFILE : F[f].ref \in Nat, FreeFile(F) # 0
  PROVE  FreeFile(F) \in 1..NFILE /\ F[FreeFile(F)].ref = 0
<1> DEFINE T == {f \in 1..NFILE : F[f].ref = 0}
<1>1. T # {} /\ T \in SUBSET Nat
  BY DEF FreeFile
<1>2. PICK m \in T : \A g \in T : m <= g
  BY <1>1, LeastNat
<1>3. m \in 1..NFILE /\ F[m].ref = 0 /\ \A g \in 1..m-1 : F[g].ref > 0
  BY <1>2, Sizes
<1> QED
  BY <1>1, <1>3 DEF FreeFile

\* fdalloc() finds a free descriptor, if it finds one.
LEMMA FreeFdIs ==
  ASSUME NEW of, FreeFd(of) # -1
  PROVE  FreeFd(of) \in Fd /\ of[FreeFd(of)] = 0
<1> DEFINE T == {d \in Fd : of[d] = 0}
<1>1. T # {} /\ T \in SUBSET Nat
  BY Sizes DEF FreeFd, Fd
<1>2. PICK m \in T : \A g \in T : m <= g
  BY <1>1, LeastNat
<1>3. m \in Fd /\ of[m] = 0 /\ \A g \in 0..m-1 : of[g] # 0
  BY <1>2, Sizes DEF Fd
<1> QED
  BY <1>1, <1>3 DEF FreeFd

\* A step that changes a process and the table of open files, but no file that
\* another process has open.
LEMMA Refiled ==
  ASSUME IndInv, NEW p \in Proc, NEW u, NEW s, th' = [th EXCEPT ![p] = u], proc' = [proc EXCEPT ![p] = s],
         inode' = inode, Tables', Balance(p, u, s), Well(inode, ftable', u, s),
         \A q \in Proc \ {p}, d \in Fd, f \in 1..NFILE :
           proc[q].ofile[d] = f => ftable'[f].type = ftable[f].type /\ ftable'[f].w = ftable[f].w
  PROVE  IndInv'
<1>1. ASSUME NEW q \in Proc \ {p} PROVE Well(inode', ftable', th[q], proc[q])
  <2>1. PICK t, r : t = th[q] /\ r = proc[q]
    OBVIOUS
  <2>2. Well(inode, ftable, t, r)
    BY <2>1, WellNow
  <2>3. UsesIn(ftable', t, r)
    BY <2>1, <2>2 DEF Well, UsesIn
  <2>4. Well(inode', ftable', t, r)
    BY <2>2, <2>3 DEF Well
  <2> QED
    BY <2>1, <2>4
<1>2. Well(inode', ftable', u, s)
  OBVIOUS
<1> QED
  BY <1>1, <1>2, Step, Zenon

\* A file with one user, or none, is not another process's.
LEMMA SoleUser ==
  ASSUME IndInv, NEW p \in Proc, NEW d \in Fd, NEW f \in 1..NFILE, NEW q \in Proc \ {p}, NEW e \in Fd,
         proc[q].ofile[e] = f
  PROVE  ftable[f].ref > One(proc[p].ofile[d] = f)
<1>1. <<q, e>> \in Users(proc, f) /\ <<q, e>> # <<p, d>> /\ (proc[p].ofile[d] = f => <<p, d>> \in Users(proc, f))
  BY DEF Users
<1>2. ftable[f].ref = Cardinality(Users(proc, f))
  BY DEF IndInv, FilesCounted, Users
<1>3. PICK x, y : x = <<q, e>> /\ y = <<p, d>>
  OBVIOUS
<1>4. PICK S : S = Users(proc, f)
  OBVIOUS
<1>5. IsFiniteSet(S) /\ Cardinality(S) \in Nat /\ x \in S /\ x # y
  BY <1>1, <1>3, <1>4, UsersFinite
<1>6. Cardinality(S) = Cardinality(S \ {x}) + 1 /\ IsFiniteSet(S \ {x}) /\ Cardinality(S \ {x}) \in Nat
  <2>1. IsFiniteSet(S \ {x}) /\ Cardinality(S \ {x}) = Cardinality(S) - 1
    BY <1>5, FS_RemoveElement
  <2> QED
    BY <1>5, <2>1, FS_CardinalityType
<1>7. y \in S => Cardinality(S \ {x}) # 0
  <2>1. Cardinality(S \ {x}) = 0 => S \ {x} = {}
    BY <1>6, FS_EmptySet
  <2> QED
    BY <1>5, <2>1
<1> QED
  BY <1>1, <1>2, <1>3, <1>4, <1>6, <1>7 DEF One

\* The process s with descriptor d set to g.
Having(s, d, g) == [s EXCEPT !.ofile = [@ EXCEPT ![d] = g]]

\* It is a process with that descriptor, and else as before.
LEMMA HavingIs ==
  ASSUME NEW s, IsProc(s), NEW d \in Fd, NEW g \in 0..NFILE
  PROVE  LET r == Having(s, d, g) IN
           /\ IsProc(r) /\ r.state = s.state /\ r.cwd = s.cwd /\ r.parent = s.parent
           /\ r.ofile[d] = g /\ \A e \in Fd : e # d => r.ofile[e] = s.ofile[e]
<1>1. DOMAIN s = {"state", "parent", "cwd", "ofile"} /\ s.ofile \in [Fd -> 0..NFILE]
  BY DEF IsProc, NoProc
<1>2. [s.ofile EXCEPT ![d] = g] \in [Fd -> 0..NFILE]
  BY <1>1
<1>3. PICK of : of = [s.ofile EXCEPT ![d] = g]
  OBVIOUS
<1>4. PICK r : r = Having(s, d, g)
  OBVIOUS
<1>5. r = [s EXCEPT !.ofile = of]
  BY <1>1, <1>3, <1>4 DEF Having
<1>6. DOMAIN r = DOMAIN s /\ r.state = s.state /\ r.cwd = s.cwd /\ r.parent = s.parent /\ r.ofile = of
  BY <1>1, <1>5
<1>7. of[d] = g /\ \A e \in Fd : e # d => of[e] = s.ofile[e]
  BY <1>1, <1>3
<1>8. IsProc(r)
  BY <1>2, <1>3, <1>6 DEF IsProc
<1> QED
  BY <1>4, <1>6, <1>7, <1>8

\* One more or one less descriptor of a file, whose entry becomes e.
Refers(p, d, g, f, e) ==
  /\ IsFile(e)
  /\ \/ proc[p].ofile[d] = 0 /\ g = f /\ e.ref = ftable[f].ref + 1
     \/ proc[p].ofile[d] = f /\ g = 0 /\ e.ref = ftable[f].ref - 1
  /\ e.ip # 0 => inode[e.ip].type # "free" /\ (e.w => inode[e.ip].type # "dir")
  /\ ftable[f].ref > One(proc[p].ofile[d] = f) => e.type = ftable[f].type /\ e.w = ftable[f].w

\* Then the files are counted.
LEMMA RefersCounted ==
  ASSUME IndInv, NEW p \in Proc, NEW d \in Fd, NEW f \in 1..NFILE, NEW g, NEW e, Refers(p, d, g, f, e),
         inode' = inode, icache' \in Cache, ftable' = [ftable EXCEPT ![f] = e],
         proc' = [proc EXCEPT ![p] = Having(proc[p], d, g)]
  PROVE  Tables' /\ g \in 0..NFILE
<1>0. Shape /\ FilesInv /\ FilesCounted
  BY DEF IndInv
<1>1. g \in 0..NFILE
  BY Sizes DEF Refers
<1>2. /\ ftable' = [h \in 1..NFILE |-> ftable'[h]] /\ \A h \in 1..NFILE : ftable'[h] = IF h = f THEN e ELSE ftable[h]
      /\ \A h \in 1..NFILE : IsFile(ftable[h])
  BY <1>0, ShapeIs
<1>3. inode' = [i \in Ino |-> inode'[i]] /\ \A i \in Ino : IsInode(inode'[i])
  BY <1>0 DEF Shape
<1>4. \A h \in 1..NFILE : IsFile(ftable'[h])
  BY <1>2 DEF Refers
<1>5. FilesInv'
  BY <1>0, <1>2 DEF FilesInv, Refers
<1>6. FilesCounted'
  <2> SUFFICES ASSUME NEW h \in 1..NFILE PROVE ftable'[h].ref = Cardinality(Users(proc', h))
    BY DEF FilesCounted, Users
  <2>1. ftable[h].ref = Cardinality(Users(proc, h)) /\ ftable[h].ref \in Nat /\ ftable[f].ref \in Nat
    BY <1>0, <1>2 DEF FilesCounted, Users, IsFile
  <2>2. PICK r : r = Having(proc[p], d, g)
    OBVIOUS
  <2>3. DOMAIN proc = Proc /\ IsProc(proc[p])
    BY <1>0, ShapeIs
  <2>4. r.ofile[d] = g /\ \A b \in Fd : b # d => r.ofile[b] = proc[p].ofile[b]
    BY <1>1, <2>2, <2>3, HavingIs
  <2>5. proc'[p] = r /\ \A q \in Proc : q # p => proc'[q] = proc[q]
    BY <2>2, <2>3
  <2>6. \A q \in Proc, b \in Fd : q # p \/ b # d => proc'[q].ofile[b] = proc[q].ofile[b]
    BY <2>4, <2>5
  <2>7. Cardinality(Users(proc', h)) + One(proc[p].ofile[d] = h) = Cardinality(Users(proc, h)) + One(proc'[p].ofile[d] = h)
    <3>1. PICK P, Q : P = proc /\ Q = proc'
      OBVIOUS
    <3>2. Apart(P, Q, p, d)
      BY <2>6, <3>1 DEF Apart
    <3>3. Recounted(P, Q, p, d, h)
      BY <3>2, UsersIs, Zenon
    <3> QED
      BY <3>1, <3>3 DEF Recounted
  <2>8. Cardinality(Users(proc', h)) \in Nat
    BY UsersFinite
  <2>9. proc'[p].ofile[d] = g
    BY <2>4, <2>5
  <2>10. \/ proc[p].ofile[d] = 0 /\ g = f /\ e.ref = ftable[f].ref + 1
         \/ proc[p].ofile[d] = f /\ g = 0 /\ e.ref = ftable[f].ref - 1
    BY DEF Refers
  <2> QED
    BY <1>2, <2>1, <2>7, <2>8, <2>9, <2>10 DEF One
<1> QED
  BY <1>1, <1>2, <1>3, <1>4, <1>5, <1>6 DEF Tables

\* The counters of inodes change like the pointers of p and of open file f.
Moves(p, u, f, e) ==
  \A i \in Ino :
    icache'[i].ref + One(ftable[f].ip = i) + Count(th[p], proc[p].cwd, i) =
    icache[i].ref + One(e.ip = i) + Count(u, proc[p].cwd, i)

\* A step that opens or closes a descriptor of p.
LEMMA Filed ==
  ASSUME IndInv, NEW p \in Proc, NEW u, NEW d \in Fd, NEW f \in 1..NFILE, NEW g, NEW e, Refers(p, d, g, f, e),
         th' = [th EXCEPT ![p] = u], inode' = inode, icache' \in Cache, ftable' = [ftable EXCEPT ![f] = e],
         proc' = [proc EXCEPT ![p] = Having(proc[p], d, g)],
         IsThread(u), Locals(u), Kinds(u), u.pc \in {"user", "exit"}, proc[p].state = "run", proc[p].cwd # 0,
         Moves(p, u, f, e)
  PROVE  IndInv'
<1>0. Shape
  BY DEF IndInv
<1>1. PICK s : s = Having(proc[p], d, g)
  OBVIOUS
<1>2. Tables' /\ g \in 0..NFILE
  BY RefersCounted, Zenon
<1>3. IsProc(s) /\ s.state = "run" /\ s.cwd = proc[p].cwd
  BY <1>0, <1>1, <1>2, ShapeIs, HavingIs
<1>4. DOMAIN ftable = 1..NFILE /\ \A h \in 1..NFILE : ftable'[h] = IF h = f THEN e ELSE ftable[h]
  BY <1>0, ShapeIs
<1>5. Well(inode, ftable', u, s)
  <2>1. KindsIn(inode, u)
    BY DEF Kinds, KindsIn
  <2>2. UsesIn(ftable', u, s)
    BY DEF UsesIn
  <2>3. Lives(u, s)
    BY <1>3 DEF Lives
  <2> QED
    BY <1>3, <2>1, <2>2, <2>3 DEF Well
<1>6. ASSUME NEW q \in Proc \ {p}, NEW b \in Fd, NEW h \in 1..NFILE, proc[q].ofile[b] = h
      PROVE  ftable'[h].type = ftable[h].type /\ ftable'[h].w = ftable[h].w
  <2>1. CASE h # f
    BY <1>4, <2>1
  <2>2. CASE h = f
    <3>1. ftable[f].ref > One(proc[p].ofile[d] = f)
      BY <1>6, <2>2, SoleUser
    <3> QED
      BY <1>4, <2>2, <3>1 DEF Refers
  <2> QED
    BY <2>1, <2>2
<1>7. Balance(p, u, s)
  <2> SUFFICES ASSUME NEW i \in Ino
               PROVE  icache'[i].ref + Cardinality(InFiles(ftable, i)) + Count(th[p], proc[p].cwd, i) =
                      icache[i].ref + Cardinality(InFiles(ftable', i)) + Count(u, s.cwd, i)
    BY DEF Balance
  <2>1. PICK F, G : F = ftable /\ G = ftable'
    OBVIOUS
  <2>2. Elsewhere(F, G, f)
    BY <1>4, <2>1 DEF Elsewhere
  <2>3. /\ Cardinality(InFiles(F, i)) \in Nat /\ Cardinality(InFiles(G, i)) \in Nat
        /\ Cardinality(InFiles(G, i)) + One(F[f].ip = i) = Cardinality(InFiles(F, i)) + One(G[f].ip = i)
    BY <2>2, InFilesIs
  <2>4. G[f] = e /\ One(e.ip = i) \in Nat /\ One(F[f].ip = i) \in Nat
    BY <1>4, <2>1 DEF One
  <2>5. /\ icache'[i].ref \in Nat /\ icache[i].ref \in Nat
        /\ Count(th[p], proc[p].cwd, i) \in Nat /\ Count(u, s.cwd, i) \in Nat
    BY Numbers, MineIs DEF Cache
  <2>6. icache'[i].ref + One(F[f].ip = i) + Count(th[p], proc[p].cwd, i) = icache[i].ref + One(e.ip = i) + Count(u, s.cwd, i)
    BY <1>3, <2>1 DEF Moves
  <2>7. icache'[i].ref + Cardinality(InFiles(F, i)) + Count(th[p], proc[p].cwd, i) =
        icache[i].ref + Cardinality(InFiles(G, i)) + Count(u, s.cwd, i)
    BY <2>3, <2>4, <2>5, <2>6
  <2> QED
    BY <2>1, <2>7
<1>8. proc' = [proc EXCEPT ![p] = s]
  BY <1>1
<1> QED
  BY <1>2, <1>5, <1>6, <1>7, <1>8, Refiled, Zenon

\* A step of p that changes no table.
LEMMA Quiet ==
  ASSUME IndInv, NEW p \in Proc, NEW u, NEW s, th' = [th EXCEPT ![p] = u], proc' = [proc EXCEPT ![p] = s],
         inode' = inode, icache' = icache, ftable' = ftable, s.ofile = proc[p].ofile,
         IsThread(u), IsProc(s), Locals(u), Kinds(u), Uses(u, s), Lives(u, s),
         \A i \in Ino : Count(u, s.cwd, i) = Count(th[p], proc[p].cwd, i)
  PROVE  IndInv'
<1>0. Shape /\ icache \in Cache
  BY DEF IndInv, Shape, Cache
<1>1. Well(inode, ftable', u, s)
  <2>1. KindsIn(inode, u) /\ UsesIn(ftable', u, s)
    BY DEF Kinds, KindsIn, Uses, UsesIn
  <2> QED
    BY <2>1 DEF Well
<1>2. Tables'
  <2>1. \A q \in Proc : proc'[q].ofile = proc[q].ofile
    <3>1. DOMAIN proc = Proc
      BY <1>0, ShapeIs
    <3> QED
      BY <3>1
  <2>2. /\ inode' = [i \in Ino |-> inode'[i]] /\ \A i \in Ino : IsInode(inode'[i])
        /\ \A f \in 1..NFILE : ftable[f].ip \in Ino => inode'[ftable[f].ip].type = inode[ftable[f].ip].type
    BY <1>0 DEF Shape
  <2>3. icache' \in Cache
    BY <1>0
  <2> QED
    BY <2>1, <2>2, <2>3, TablesKept, Zenon
<1>3. Balance(p, u, s)
  BY DEF Balance
<1>4. \A q \in Proc \ {p}, d \in Fd, f \in 1..NFILE :
           proc[q].ofile[d] = f => ftable'[f].type = ftable[f].type /\ ftable'[f].w = ftable[f].w
  OBVIOUS
<1> QED
  BY <1>1, <1>2, <1>3, <1>4, Refiled, Zenon

\* chdir() ends with the new directory in the place of the old one.
LEMMA ChdirSetKeeps ==
  ASSUME IndInv, NEW p \in Proc, ChdirSet(p)
  PROVE  IndInv'
<1>0. PICK t : t = th[p]
  OBVIOUS
<1>1. PICK u, s : u = Return(t, 0, <<>>) /\ s = [proc[p] EXCEPT !.cwd = t.ip]
  OBVIOUS
<1>2. /\ At(p, {"chdir2"}) /\ th' = [th EXCEPT ![p] = u] /\ proc' = [proc EXCEPT ![p] = s]
      /\ inode' = inode /\ icache' = icache /\ ftable' = ftable
  BY <1>0, <1>1 DEF ChdirSet, disk
<1>3. /\ Shape /\ icache \in Cache /\ t.pc = "chdir2" /\ t.puts = <<>> /\ IsThread(t) /\ Locals(t)
      /\ \A i \in Ino : Count(t, proc[p].cwd, i) =
              One(proc[p].cwd = i /\ t.pc # "chdir2") + One(t.ip = i) + One(t.dp = i) + One(t.at = i)
  BY <1>0, <1>2, AtIs
<1>4. t.ip \in Ino /\ t.dp = 0 /\ t.at = 0
  BY <1>3, InoIs DEF Locals, HasIp, HasDp, HasAt, IsThread
<1>5. proc[p].state = "run" /\ IsProc(proc[p])
  BY <1>0, <1>3, InCall, ShapeIs
<1>6. IsProc(s) /\ s.state = "run" /\ s.cwd = t.ip /\ s.ofile = proc[p].ofile
  <2>1. DOMAIN proc[p] = {"state", "parent", "cwd", "ofile"}
    BY <1>5 DEF IsProc, NoProc
  <2>2. DOMAIN s = DOMAIN proc[p] /\ s.state = proc[p].state /\ s.cwd = t.ip /\ s.ofile = proc[p].ofile
    BY <1>1, <2>1
  <2>3. t.ip \in 0..NInodes
    BY <1>4, InoIs
  <2> QED
    BY <1>5, <2>2, <2>3 DEF IsProc
<1>7. /\ IsThread(u) /\ Locals(u) /\ Kinds(u) /\ u.pc = "user" /\ u.puts = <<>>
      /\ \A c, i : i \in Ino => Count(u, c, i) = One(c = i) + PutCount(<<>>, i)
  <2>1. <<>> \in Puts
    BY PutsFrom
  <2> QED
    BY <1>1, <2>1, ReturnIs
<1>8. Uses(u, s) /\ Lives(u, s)
  BY <1>4, <1>6, <1>7, InoIs DEF Uses, Lives
<1>9. ASSUME NEW i \in Ino PROVE Count(u, s.cwd, i) = Count(th[p], proc[p].cwd, i)
  <2>1. Count(t, proc[p].cwd, i) = One(t.ip = i)
    BY <1>3, <1>4, InoIs DEF One
  <2>2. Count(u, t.ip, i) = One(t.ip = i)
    BY <1>7, PutCountIs DEF One
  <2> QED
    BY <1>0, <1>6, <2>1, <2>2
<1> QED
  BY <1>2, <1>6, <1>7, <1>8, <1>9, Quiet, Zenon

\* The file of a descriptor is counted.
LEMMA UsedIs ==
  ASSUME IndInv, NEW p \in Proc, NEW d \in Fd, NEW f, f = proc[p].ofile[d], f # 0
  PROVE  f \in 1..NFILE /\ IsFile(ftable[f]) /\ ftable[f].ref >= 1
<1>0. Shape
  BY DEF IndInv
<1>1. proc[p].ofile \in [Fd -> 0..NFILE]
  BY <1>0, ShapeIs DEF IsProc
<1>2. f \in 1..NFILE
  BY <1>1, Sizes
<1>3. <<p, d>> \in Users(proc, f) /\ ftable[f].ref = Cardinality(Users(proc, f))
  BY <1>2 DEF Users, IndInv, FilesCounted
<1>4. Cardinality(Users(proc, f)) # 0 /\ Cardinality(Users(proc, f)) \in Nat
  BY <1>3, UsersFinite, FS_EmptySet
<1> QED
  BY <1>0, <1>2, <1>3, <1>4, ShapeIs

\* fileclose() of the file of descriptor d.
LEMMA Closed ==
  ASSUME IndInv, NEW p \in Proc, NEW d \in Fd, NEW f, f = proc[p].ofile[d], f # 0, NEW e, e = Fileclose(ftable, f)[f]
  PROVE  /\ f \in 1..NFILE /\ Fileclose(ftable, f) = [ftable EXCEPT ![f] = e]
         /\ Refers(p, d, 0, f, e) /\ ClosePuts(f) \in Puts
         /\ \A i \in Ino : One(ftable[f].ip = i) = One(e.ip = i) + PutCount(ClosePuts(f), i)
<1>0. Shape /\ DOMAIN ftable = 1..NFILE
  BY ShapeIs DEF IndInv
<1>1. f \in 1..NFILE /\ IsFile(ftable[f]) /\ ftable[f].ref >= 1
  BY UsedIs
<1>2. PICK a : a = ftable[f]
  OBVIOUS
<1>3. a.ref \in Nat /\ a.ref >= 1 /\ DOMAIN a = {"ref", "type", "ip", "off", "r", "w"} /\ IsFile(a)
      /\ (a.ip # 0 <=> a.type = "inode") /\ a.ip \in 0..NInodes
  BY <1>1, <1>2 DEF IsFile, NoFile
<1>4. PICK b : b = IF a.ref > 1 THEN [a EXCEPT !.ref = a.ref - 1] ELSE NoFile
  OBVIOUS
<1>a. Fileclose(ftable, f) = [ftable EXCEPT ![f] = b]
  BY <1>2, <1>4 DEF Fileclose
<1>b. e = b
  BY <1>0, <1>1, <1>a
<1>5. Fileclose(ftable, f) = [ftable EXCEPT ![f] = e]
  BY <1>a, <1>b
<1>6. FilesInv
  BY DEF IndInv
<1>7. CASE a.ref > 1
  <2>1. /\ DOMAIN e = DOMAIN NoFile /\ e.ref = a.ref - 1 /\ e.ref \in Nat /\ e.ref > 0
        /\ e.type = a.type /\ e.ip = a.ip /\ e.w = a.w
    BY <1>3, <1>4, <1>7, <1>b DEF NoFile
  <2>2. IsFile(e)
    BY <1>3, <2>1 DEF IsFile
  <2>3. e.ip # 0 => inode[e.ip].type # "free" /\ (e.w => inode[e.ip].type # "dir")
    BY <1>1, <1>2, <1>6, <2>1 DEF FilesInv
  <2>4. Refers(p, d, 0, f, e)
    BY <1>2, <2>1, <2>2, <2>3 DEF Refers
  <2>5. ClosePuts(f) = <<>>
    BY <1>2, <1>3, <1>7 DEF ClosePuts
  <2>6. \A i \in Ino : One(ftable[f].ip = i) = One(e.ip = i) + PutCount(ClosePuts(f), i)
    BY <1>2, <2>1, <2>5, PutCountIs DEF One
  <2> QED
    BY <1>1, <1>5, <2>4, <2>5, <2>6, PutsFrom
<1>8. CASE a.ref = 1
  <2>1. e = NoFile
    BY <1>4, <1>8, <1>b
  <2>2. IsFile(NoFile) /\ NoFile.ref = 0 /\ NoFile.ip = 0
    BY InoIs DEF IsFile, NoFile
  <2>3. One(proc[p].ofile[d] = f) = 1
    BY DEF One
  <2>4. Refers(p, d, 0, f, e)
    BY <1>2, <1>8, <2>1, <2>2, <2>3 DEF Refers
  <2>5. a.ip # 0 => ClosePuts(f) = <<a.ip>> /\ a.ip \in Ino
    BY <1>2, <1>3, <1>8, InoIs DEF ClosePuts
  <2>6. a.ip = 0 => ClosePuts(f) = <<>>
    BY <1>2, <1>3 DEF ClosePuts
  <2>7. ClosePuts(f) \in Puts
    BY <2>5, <2>6, PutsFrom
  <2>8. ASSUME NEW i \in Ino PROVE One(a.ip = i) = One(e.ip = i) + PutCount(ClosePuts(f), i)
    <3>1. e.ip # i /\ 0 # i
      BY <2>1, <2>2, InoIs
    <3>2. PutCount(<<a.ip>>, i) = One(a.ip = i) /\ PutCount(<<>>, i) = 0
      BY PutCountIs
    <3> QED
      BY <2>5, <2>6, <3>1, <3>2 DEF One
  <2>9. \A i \in Ino : One(ftable[f].ip = i) = One(e.ip = i) + PutCount(ClosePuts(f), i)
    BY <1>2, <2>8
  <2> QED
    BY <1>1, <1>5, <2>4, <2>7, <2>9
<1> QED
  BY <1>3, <1>7, <1>8

\* close() drops a descriptor, and with the last one of a file its inode.
LEMMA CloseKeeps ==
  ASSUME IndInv, NEW p \in Proc, Idle(p), NEW fd, Close(p, fd)
  PROVE  IndInv'
<1>0. PICK f : f = Argfd(p, fd)
  OBVIOUS
<1>1. CASE f = 0
  <2>1. th' = [th EXCEPT ![p] = Return(th[p], -1, <<>>)] /\ proc' = proc /\ ftable' = ftable /\ inode' = inode /\ icache' = icache
    BY <1>0, <1>1 DEF Close, disk
  <2> QED
    BY <2>1, IdleReturns, Zenon
<1>2. CASE f # 0
  <2>1. PICK u, e : u = Return(th[p], 0, ClosePuts(f)) /\ e = Fileclose(ftable, f)[f]
    OBVIOUS
  <2>2. /\ ftable' = Fileclose(ftable, f) /\ proc' = [proc EXCEPT ![p].ofile[fd] = 0]
        /\ th' = [th EXCEPT ![p] = u] /\ inode' = inode /\ icache' = icache
    BY <1>0, <1>2, <2>1 DEF Close, disk
  <2>3. fd \in Fd /\ f = proc[p].ofile[fd]
    BY <1>0, <1>2 DEF Argfd
  <2>4. /\ f \in 1..NFILE /\ ftable' = [ftable EXCEPT ![f] = e]
        /\ Refers(p, fd, 0, f, e) /\ ClosePuts(f) \in Puts
        /\ \A i \in Ino : One(ftable[f].ip = i) = One(e.ip = i) + PutCount(ClosePuts(f), i)
    BY <1>2, <2>1, <2>2, <2>3, Closed
  <2>5. proc' = [proc EXCEPT ![p] = Having(proc[p], fd, 0)]
    BY <2>2 DEF Having
  <2>6. /\ Shape /\ icache \in Cache /\ proc[p].state = "run" /\ proc[p].cwd # 0
        /\ \A i \in Ino : Count(th[p], proc[p].cwd, i) = One(proc[p].cwd = i)
    BY IdleIs, InoIs
  <2>7. /\ IsThread(u) /\ Locals(u) /\ Kinds(u) /\ u.pc \in {"user", "exit"}
        /\ \A c, i : i \in Ino => Count(u, c, i) = One(c = i) + PutCount(ClosePuts(f), i)
    BY <2>1, <2>4, ReturnIs
  <2>8. Moves(p, u, f, e)
    <3> SUFFICES ASSUME NEW i \in Ino
                 PROVE  icache[i].ref + One(ftable[f].ip = i) + Count(th[p], proc[p].cwd, i) =
                        icache[i].ref + One(e.ip = i) + Count(u, proc[p].cwd, i)
      BY <2>2 DEF Moves
    <3>1. One(proc[p].cwd = i) \in Nat /\ One(e.ip = i) \in Nat /\ PutCount(ClosePuts(f), i) \in Nat /\ icache[i].ref \in Nat
      BY <2>6, ShapeIs DEF One, PutCount
    <3> QED
      BY <2>4, <2>6, <2>7, <3>1
  <2>9. icache' \in Cache
    BY <2>2, <2>6
  <2> QED
    BY <2>2, <2>3, <2>4, <2>5, <2>6, <2>7, <2>8, <2>9, Filed, Zenon
<1> QED
  BY <1>1, <1>2

\* dup() of a file that is open.
LEMMA DupKeeps ==
  ASSUME IndInv, NEW p \in Proc, Idle(p), NEW fd, Dup(p, fd)
  PROVE  IndInv'
<1>0. PICK f, d : f = Argfd(p, fd) /\ d = FreeFd(proc[p].ofile)
  OBVIOUS
<1>1. CASE ~(f # 0 /\ d # -1)
  <2>1. th' = [th EXCEPT ![p] = Return(th[p], -1, <<>>)] /\ proc' = proc /\ ftable' = ftable /\ inode' = inode /\ icache' = icache
    BY <1>0, <1>1 DEF Dup, disk
  <2> QED
    BY <2>1, IdleReturns, Zenon
<1>2. CASE f # 0 /\ d # -1
  <2>1. PICK u, a : u = Return(th[p], d, <<>>) /\ a = ftable[f]
    OBVIOUS
  <2>a. PICK e : e = [a EXCEPT !.ref = a.ref + 1]
    OBVIOUS
  <2>2. /\ ftable' = [ftable EXCEPT ![f].ref = @ + 1] /\ proc' = [proc EXCEPT ![p].ofile[d] = f]
        /\ th' = [th EXCEPT ![p] = u] /\ inode' = inode /\ icache' = icache
    BY <1>0, <1>2, <2>1 DEF Dup, disk
  <2>3. fd \in Fd /\ f = proc[p].ofile[fd]
    BY <1>0, <1>2 DEF Argfd
  <2>4. d \in Fd /\ proc[p].ofile[d] = 0
    BY <1>0, <1>2, FreeFdIs
  <2>5. f \in 1..NFILE /\ IsFile(a) /\ a.ref >= 1
    BY <1>2, <2>1, <2>3, UsedIs
  <2>6. /\ DOMAIN e = DOMAIN NoFile /\ e.ref = a.ref + 1 /\ e.type = a.type /\ e.ip = a.ip /\ e.w = a.w
    <3>1. DOMAIN a = {"ref", "type", "ip", "off", "r", "w"} /\ DOMAIN a = DOMAIN NoFile
      BY <2>5 DEF IsFile, NoFile
    <3> QED
      BY <2>a, <3>1
  <2>7. ftable' = [ftable EXCEPT ![f] = e]
    BY <2>1, <2>2, <2>a
  <2>8. Refers(p, d, f, f, e)
    <3>1. IsFile(e)
      BY <2>5, <2>6 DEF IsFile
    <3>2. e.ip # 0 => inode[e.ip].type # "free" /\ (e.w => inode[e.ip].type # "dir")
      BY <2>1, <2>5, <2>6 DEF IndInv, FilesInv
    <3> QED
      BY <2>1, <2>4, <2>6, <3>1, <3>2 DEF Refers
  <2>9. proc' = [proc EXCEPT ![p] = Having(proc[p], d, f)]
    BY <2>2 DEF Having
  <2>10. /\ Shape /\ icache \in Cache /\ proc[p].state = "run" /\ proc[p].cwd # 0
        /\ \A i \in Ino : Count(th[p], proc[p].cwd, i) = One(proc[p].cwd = i)
    BY IdleIs, InoIs
  <2>11. /\ IsThread(u) /\ Locals(u) /\ Kinds(u) /\ u.pc \in {"user", "exit"}
        /\ \A c, i : i \in Ino => Count(u, c, i) = One(c = i) + PutCount(<<>>, i)
    <3>1. <<>> \in Puts
      BY PutsFrom
    <3> QED
      BY <2>1, <3>1, ReturnIs
  <2>12. Moves(p, u, f, e)
    <3> SUFFICES ASSUME NEW i \in Ino
                 PROVE  icache[i].ref + One(a.ip = i) + Count(th[p], proc[p].cwd, i) =
                        icache[i].ref + One(e.ip = i) + Count(u, proc[p].cwd, i)
      BY <2>1, <2>2 DEF Moves
    <3>1. Count(u, proc[p].cwd, i) = One(proc[p].cwd = i)
      BY <2>11, PutCountIs DEF One
    <3> QED
      BY <2>6, <2>10, <3>1
  <2>13. icache' \in Cache
    BY <2>2, <2>10
  <2> QED
    BY <2>2, <2>4, <2>5, <2>7, <2>8, <2>9, <2>10, <2>11, <2>12, <2>13, Filed, Zenon
<1> QED
  BY <1>1, <1>2

\* open() hands the reference of its thread to the open file.
LEMMA OpenKeeps ==
  ASSUME IndInv, NEW p \in Proc, Open(p)
  PROVE  IndInv'
<1>0. PICK t, f, d : t = th[p] /\ f = FreeFile(ftable) /\ d = FreeFd(proc[p].ofile)
  OBVIOUS
<1>1. PICK u, e : /\ u = Return(t, d, <<>>)
                  /\ e = [ref |-> 1, type |-> "inode", ip |-> t.ip, off |-> 0,
                          r |-> t.call.mode # "w", w |-> t.call.mode # "r"]
  OBVIOUS
<1>2. /\ At(p, {"open1", "open2"}) /\ icache' = Iunlock(Visit(icache, t.ip), t.ip) /\ inode' = inode
      /\ \/ th' = [th EXCEPT ![p] = Return(t, -1, <<th[p].ip>>)] /\ ftable' = ftable /\ proc' = proc
         \/ /\ th' = [th EXCEPT ![p] = u] /\ ftable' = [ftable EXCEPT ![f] = e]
            /\ proc' = [proc EXCEPT ![p].ofile[d] = f] /\ f # 0 /\ d # -1
            /\ ~(t.pc = "open1" /\ inode[t.ip].type = "dir" /\ t.call.mode # "r")
  BY <1>0, <1>1 DEF Open, disk
<1>3. /\ Shape /\ icache \in Cache /\ t.pc \in {"open1", "open2"} /\ t.puts = <<>>
      /\ IsThread(t) /\ Locals(t) /\ Kinds(t)
      /\ \A i \in Ino : Count(t, proc[p].cwd, i) =
              One(proc[p].cwd = i /\ t.pc # "chdir2") + One(t.ip = i) + One(t.dp = i) + One(t.at = i)
  BY <1>0, <1>2, AtIs
<1>4. t.ip \in Ino /\ t.dp = 0 /\ t.at = 0
  BY <1>3, InoIs DEF Locals, HasIp, HasDp, HasAt, IsThread
<1>5. SameKinds /\ icache' \in Cache /\ \A i \in Ino : icache'[i].ref = icache[i].ref
  <2>1. PICK c \in Cache : c = Visit(icache, t.ip) /\ \A i \in Ino : c[i].ref = icache[i].ref
    BY <1>3, VisitIs
  <2> QED
    BY <1>2, <1>3, <2>1, Unchanged, IunlockIs
<1>6. CASE th' = [th EXCEPT ![p] = Return(t, -1, <<th[p].ip>>)] /\ ftable' = ftable /\ proc' = proc
  <2>1. th[p].pc \in {"exec1", "made", "unlink3", "open1", "open2", "create2", "link1", "linkbad", "chdir1"}
    BY <1>0, <1>3
  <2> QED
    BY <1>2, <1>5, <1>6, <2>1, PutIpKeeps, Zenon
<1>7. CASE /\ th' = [th EXCEPT ![p] = u] /\ ftable' = [ftable EXCEPT ![f] = e]
           /\ proc' = [proc EXCEPT ![p].ofile[d] = f] /\ f # 0 /\ d # -1
           /\ ~(t.pc = "open1" /\ inode[t.ip].type = "dir" /\ t.call.mode # "r")
  <2>1. d \in Fd /\ proc[p].ofile[d] = 0
    BY <1>0, <1>7, FreeFdIs
  <2>2. f \in 1..NFILE /\ ftable[f].ref = 0
    <3>1. \A g \in 1..NFILE : ftable[g].ref \in Nat
      BY <1>3, ShapeIs DEF IsFile
    <3> QED
      BY <1>0, <1>7, <3>1, FreeFileIs
  <2>3. ftable[f].ip = 0
    BY <1>3, <2>2, ShapeIs DEF IsFile
  <2>4. e.ref = 1 /\ e.ip = t.ip /\ e.type = "inode" /\ e.w = (t.call.mode # "r") /\ DOMAIN e = DOMAIN NoFile
    BY <1>1 DEF NoFile
  <2>5. IsFile(e)
    <3>1. t.ip \in 0..NInodes /\ t.ip # 0
      BY <1>4, InoIs
    <3>2. e.w \in BOOLEAN
      BY <2>4
    <3> QED
      BY <2>4, <3>1, <3>2 DEF IsFile
  <2>6. inode[t.ip].type # "free" /\ (e.w => inode[t.ip].type # "dir")
    <3>1. t.pc = "open2" => inode[t.ip].type = "file"
      BY <1>3 DEF Kinds
    <3>2. t.pc = "open1" => inode[t.ip].type # "free"
      <4>1. t.pc = "open1" => NextLock(p) = t.ip
        BY <1>0, <1>3 DEF NextLock
      <4>2. NextLock(p) # 0 => inode[NextLock(p)].type # "free"
        BY <1>2 DEF At
      <4> QED
        BY <1>4, <4>1, <4>2, InoIs
    <3> QED
      BY <1>3, <1>7, <2>4, <3>1, <3>2
  <2>7. Refers(p, d, f, f, e)
    <3>1. ~(ftable[f].ref > One(proc[p].ofile[d] = f))
      BY <2>2 DEF One
    <3> QED
      BY <2>1, <2>2, <2>4, <2>5, <2>6, <3>1 DEF Refers
  <2>8. proc' = [proc EXCEPT ![p] = Having(proc[p], d, f)]
    BY <1>7 DEF Having
  <2>9. proc[p].state = "run" /\ proc[p].cwd # 0
    BY <1>0, <1>3, InCall, InoIs
  <2>10. /\ IsThread(u) /\ Locals(u) /\ Kinds(u) /\ u.pc \in {"user", "exit"}
         /\ \A c, i : i \in Ino => Count(u, c, i) = One(c = i) + PutCount(<<>>, i)
    <3>1. <<>> \in Puts
      BY PutsFrom
    <3> QED
      BY <1>1, <3>1, ReturnIs
  <2>11. Moves(p, u, f, e)
    <3> SUFFICES ASSUME NEW i \in Ino
                 PROVE  icache[i].ref + One(ftable[f].ip = i) + Count(t, proc[p].cwd, i) =
                        icache[i].ref + One(e.ip = i) + Count(u, proc[p].cwd, i)
      BY <1>0, <1>5 DEF Moves
    <3>1. Count(u, proc[p].cwd, i) = One(proc[p].cwd = i)
      BY <2>10, PutCountIs DEF One
    <3>2. One(ftable[f].ip = i) = 0 /\ e.ip = t.ip
      BY <2>3, <2>4, InoIs DEF One
    <3>3. Count(t, proc[p].cwd, i) = One(proc[p].cwd = i) + One(t.ip = i)
      BY <1>3, <1>4, InoIs DEF One
    <3>4. icache[i].ref \in Nat
      BY <1>3, ShapeIs
    <3> QED
      BY <3>1, <3>2, <3>3, <3>4 DEF One
  <2> QED
    BY <1>2, <1>5, <1>7, <2>1, <2>2, <2>7, <2>8, <2>9, <2>10, <2>11, Filed, Zenon
<1> QED
  BY <1>2, <1>6, <1>7

\* exit(): the first descriptor that is open is closed.
LEMMA ExitCloses ==
  ASSUME IndInv, NEW p \in Proc, At(p, {"exit"}), NEW d \in Fd, proc[p].ofile[d] # 0, NEW f, f = proc[p].ofile[d],
         ftable' = Fileclose(ftable, f), proc' = [proc EXCEPT ![p].ofile[d] = 0],
         th' = [th EXCEPT ![p].puts = ClosePuts(f)], inode' = inode, icache' = icache
  PROVE  IndInv'
<1>0. PICK t, e : t = th[p] /\ e = Fileclose(ftable, f)[f]
  OBVIOUS
<1>1. PICK u : u = [t EXCEPT !.puts = ClosePuts(f)]
  OBVIOUS
<1>2. th' = [th EXCEPT ![p] = u]
  BY <1>0, <1>1
<1>3. /\ f \in 1..NFILE /\ ftable' = [ftable EXCEPT ![f] = e]
      /\ Refers(p, d, 0, f, e) /\ ClosePuts(f) \in Puts
      /\ \A i \in Ino : One(ftable[f].ip = i) = One(e.ip = i) + PutCount(ClosePuts(f), i)
  BY <1>0, Closed
<1>4. proc' = [proc EXCEPT ![p] = Having(proc[p], d, 0)]
  BY DEF Having
<1>5. /\ Shape /\ icache \in Cache /\ t.pc = "exit" /\ t.puts = <<>>
      /\ IsThread(t) /\ Locals(t) /\ Kinds(t)
  BY <1>0, AtIs
<1>6. proc[p].state = "run" /\ proc[p].cwd # 0
  BY <1>0, <1>5, InCall, InoIs
<1>7. Like(u, t, t.pc, t.at, t.path, t.ip, t.dp, ClosePuts(f))
  <2>1. DOMAIN t = {"pc", "call", "at", "path", "ip", "dp", "f", "done", "puts", "dropping", "ret", "buf"}
    BY <1>5, ThreadFields DEF IsThread
  <2> QED
    BY <1>1, <2>1, ThreadFields DEF Like
<1>8. IsThread(u) /\ u.pc \in {"user", "exit"}
  BY <1>3, <1>5, <1>7 DEF Like, IsThread
<1>9. Locals(u) /\ Kinds(u)
  BY <1>5, <1>7 DEF Like, Locals, Kinds, HasIp, HasDp, HasAt
<1>10. Moves(p, u, f, e)
  <2> SUFFICES ASSUME NEW i \in Ino
               PROVE  icache[i].ref + One(ftable[f].ip = i) + Count(t, proc[p].cwd, i) =
                      icache[i].ref + One(e.ip = i) + Count(u, proc[p].cwd, i)
    BY <1>0 DEF Moves
  <2>1. PutCount(t.puts, i) = 0 /\ PutCount(ClosePuts(f), i) \in Nat
    BY <1>5, PutCountIs DEF PutCount, One
  <2>2. Count(t, proc[p].cwd, i) \in Nat /\ Count(u, proc[p].cwd, i) = Count(t, proc[p].cwd, i) + PutCount(ClosePuts(f), i)
    BY <1>7, <2>1 DEF Like, Count, One
  <2>3. One(e.ip = i) \in Nat /\ icache[i].ref \in Nat
    BY <1>5, ShapeIs DEF One
  <2> QED
    BY <1>3, <2>1, <2>2, <2>3
<1>11. icache' \in Cache
  BY <1>5
<1> QED
  BY <1>2, <1>3, <1>4, <1>6, <1>8, <1>9, <1>10, <1>11, Filed, Zenon

\* exit(): the current directory is put.
LEMMA ExitLeaves ==
  ASSUME IndInv, NEW p \in Proc, At(p, {"exit"}), \A d \in Fd : proc[p].ofile[d] = 0,
         th' = [th EXCEPT ![p] = Goto(@, "zombie", <<proc[p].cwd>>)], proc' = [proc EXCEPT ![p].cwd = 0],
         inode' = inode, icache' = icache, ftable' = ftable
  PROVE  IndInv'
<1>0. PICK t, c : t = th[p] /\ c = proc[p].cwd
  OBVIOUS
<1>1. PICK u, s : u = Goto(t, "zombie", <<c>>) /\ s = [proc[p] EXCEPT !.cwd = 0]
  OBVIOUS
<1>2. th' = [th EXCEPT ![p] = u] /\ proc' = [proc EXCEPT ![p] = s]
  BY <1>0, <1>1
<1>3. /\ Shape /\ t.pc = "exit" /\ t.puts = <<>> /\ IsThread(t) /\ Locals(t) /\ Kinds(t)
  BY <1>0, AtIs
<1>4. proc[p].state = "run" /\ c \in Ino /\ IsProc(proc[p])
  BY <1>0, <1>3, InCall, ShapeIs
<1>5. Like(u, t, "zombie", t.at, t.path, t.ip, t.dp, <<c>>)
  BY <1>1, <1>3, GotoIs, Zenon
<1>6. IsThread(u)
  BY <1>3, <1>4, <1>5, PutsFrom DEF Like, IsThread
<1>7. Locals(u) /\ Kinds(u)
  BY <1>3, <1>5 DEF Like, Locals, Kinds, HasIp, HasDp, HasAt
<1>8. IsProc(s) /\ s.state = "run" /\ s.cwd = 0 /\ s.ofile = proc[p].ofile
  <2>1. DOMAIN proc[p] = {"state", "parent", "cwd", "ofile"}
    BY <1>4 DEF IsProc, NoProc
  <2>2. DOMAIN s = DOMAIN proc[p] /\ s.state = proc[p].state /\ s.cwd = 0 /\ s.ofile = proc[p].ofile
    BY <1>1, <2>1
  <2> QED
    BY <1>4, <2>2, InoIs DEF IsProc
<1>9. Uses(u, s) /\ Lives(u, s)
  BY <1>5, <1>8 DEF Like, Uses, Lives
<1>10. ASSUME NEW i \in Ino PROVE Count(u, s.cwd, i) = Count(th[p], proc[p].cwd, i)
  <2>1. PutCount(t.puts, i) = 0 /\ PutCount(u.puts, i) = One(c = i)
    BY <1>3, <1>5, PutCountIs DEF Like
  <2>2. u.pc = "zombie" /\ u.ip = t.ip /\ u.dp = t.dp /\ u.at = t.at
    BY <1>5 DEF Like
  <2> QED
    BY <1>0, <1>3, <1>8, <2>1, <2>2, InoIs DEF Count, One
<1> QED
  BY <1>2, <1>6, <1>7, <1>8, <1>9, <1>10, Quiet, Zenon

\* exit(): the process becomes a zombie, and holds nothing.
LEMMA ExitDies ==
  ASSUME IndInv, NEW p \in Proc, At(p, {"zombie"}),
         th' = [th EXCEPT ![p] = NewThread], proc' = [proc EXCEPT ![p].state = "zombie"],
         inode' = inode, icache' = icache, ftable' = ftable
  PROVE  IndInv'
<1>0. PICK t : t = th[p]
  OBVIOUS
<1>1. PICK u, s : u = NewThread /\ s = [proc[p] EXCEPT !.state = "zombie"]
  OBVIOUS
<1>2. th' = [th EXCEPT ![p] = u] /\ proc' = [proc EXCEPT ![p] = s]
  BY <1>1
<1>3. /\ Shape /\ t.pc = "zombie" /\ t.puts = <<>> /\ IsThread(t) /\ Locals(t) /\ Lives(t, proc[p])
      /\ \A i \in Ino : Count(t, proc[p].cwd, i) =
              One(proc[p].cwd = i /\ t.pc # "chdir2") + One(t.ip = i) + One(t.dp = i) + One(t.at = i)
  BY <1>0, AtIs
<1>4. proc[p].state = "run" /\ IsProc(proc[p]) /\ proc[p].cwd = 0 /\ \A d \in Fd : proc[p].ofile[d] = 0
  <2>1. proc[p].state = "run" /\ IsProc(proc[p])
    BY <1>0, <1>3, InCall, ShapeIs
  <2> QED
    BY <1>3, <2>1 DEF Lives
<1>5. t.ip = 0 /\ t.dp = 0 /\ t.at = 0
  BY <1>3 DEF Locals, HasIp, HasDp, HasAt
<1>6. /\ IsThread(u) /\ u.pc = "user" /\ u.call = NoCall /\ u.at = 0 /\ u.ip = 0 /\ u.dp = 0 /\ u.puts = <<>>
  BY <1>1, NewThreadIs
<1>7. Locals(u) /\ Kinds(u)
  BY <1>6 DEF Locals, Kinds, HasIp, HasDp, HasAt, NoCall
<1>8. IsProc(s) /\ s.state = "zombie" /\ s.cwd = 0 /\ s.ofile = proc[p].ofile
  <2>1. DOMAIN proc[p] = {"state", "parent", "cwd", "ofile"}
    BY <1>4 DEF IsProc, NoProc
  <2>2. DOMAIN s = DOMAIN proc[p] /\ s.state = "zombie" /\ s.cwd = proc[p].cwd /\ s.ofile = proc[p].ofile
    BY <1>1, <2>1
  <2> QED
    BY <1>4, <2>2 DEF IsProc
<1>9. Uses(u, s) /\ Lives(u, s)
  BY <1>4, <1>6, <1>8 DEF Uses, Lives
<1>10. ASSUME NEW i \in Ino PROVE Count(u, s.cwd, i) = Count(th[p], proc[p].cwd, i)
  <2>1. PutCount(u.puts, i) = 0
    BY <1>6, PutCountIs
  <2>2. Count(t, proc[p].cwd, i) = 0
    BY <1>3, <1>4, <1>5, InoIs DEF One
  <2>3. Count(u, s.cwd, i) = 0
    BY <1>6, <1>8, <2>1, InoIs DEF Count, One
  <2> QED
    BY <1>0, <2>2, <2>3
<1> QED
  BY <1>2, <1>6, <1>7, <1>8, <1>9, <1>10, Quiet, Zenon

\* A step of exit().
LEMMA ExitKeeps ==
  ASSUME IndInv, NEW p \in Proc, Exit(p)
  PROVE  IndInv'
<1>0. PICK O : O = {d \in Fd : proc[p].ofile[d] # 0}
  OBVIOUS
<1>1. PICK d : d = CHOOSE e \in O : \A g \in O : e <= g
  OBVIOUS
<1>2. PICK f : f = proc[p].ofile[d]
  OBVIOUS
<1>3. /\ inode' = inode /\ icache' = icache
      /\ \/ /\ At(p, {"exit"}) /\ O # {} /\ ftable' = Fileclose(ftable, f)
            /\ proc' = [proc EXCEPT ![p].ofile[d] = 0] /\ th' = [th EXCEPT ![p].puts = ClosePuts(f)]
         \/ /\ At(p, {"exit"}) /\ O = {} /\ ftable' = ftable
            /\ th' = [th EXCEPT ![p] = Goto(@, "zombie", <<proc[p].cwd>>)] /\ proc' = [proc EXCEPT ![p].cwd = 0]
         \/ /\ At(p, {"zombie"}) /\ ftable' = ftable
            /\ proc' = [proc EXCEPT ![p].state = "zombie"] /\ th' = [th EXCEPT ![p] = NewThread]
  BY <1>0, <1>1, <1>2, Zenon DEF Exit, disk
<1>4. O # {} => d \in Fd /\ proc[p].ofile[d] # 0
  <2> SUFFICES ASSUME O # {} PROVE d \in Fd /\ proc[p].ofile[d] # 0
    OBVIOUS
  <2>1. O \in SUBSET Nat
    BY <1>0, Sizes DEF Fd
  <2>2. \E e \in O : \A g \in O : e <= g
    BY <2>1, LeastNat
  <2>3. d \in O
    BY <1>1, <2>2
  <2> QED
    BY <1>0, <2>3
<1>5. CASE /\ At(p, {"exit"}) /\ O # {} /\ ftable' = Fileclose(ftable, f)
           /\ proc' = [proc EXCEPT ![p].ofile[d] = 0] /\ th' = [th EXCEPT ![p].puts = ClosePuts(f)]
  BY <1>2, <1>3, <1>4, <1>5, ExitCloses, Zenon
<1>6. CASE /\ At(p, {"exit"}) /\ O = {} /\ ftable' = ftable
           /\ th' = [th EXCEPT ![p] = Goto(@, "zombie", <<proc[p].cwd>>)] /\ proc' = [proc EXCEPT ![p].cwd = 0]
  <2>1. \A e \in Fd : proc[p].ofile[e] = 0
    BY <1>0, <1>6
  <2> QED
    BY <1>3, <1>6, <2>1, ExitLeaves, Zenon
<1>7. CASE /\ At(p, {"zombie"}) /\ ftable' = ftable
           /\ proc' = [proc EXCEPT ![p].state = "zombie"] /\ th' = [th EXCEPT ![p] = NewThread]
  BY <1>3, <1>7, ExitDies, Zenon
<1> QED
  BY <1>3, <1>5, <1>6, <1>7, Zenon

\* pipe() that finds two files f and g, which become x and y, and two
\* descriptors d and b.
TwoFiles(f, g, x, y) ==
  /\ f # g /\ ftable[f].ref = 0 /\ ftable[g].ref = 0
  /\ IsFile(x) /\ x.ref = 1 /\ x.ip = 0
  /\ IsFile(y) /\ y.ref = 1 /\ y.ip = 0
  /\ ftable' = [h \in 1..NFILE |-> IF h = g THEN y ELSE IF h = f THEN x ELSE ftable[h]]
TwoFds(p, d, b) == d # b /\ proc[p].ofile[d] = 0 /\ proc[p].ofile[b] = 0

\* Such a step keeps the invariant.
LEMMA PipeOpens ==
  ASSUME IndInv, NEW p \in Proc, Idle(p), NEW f \in 1..NFILE, NEW g \in 1..NFILE, NEW x, NEW y, TwoFiles(f, g, x, y),
         NEW d \in Fd, NEW b \in Fd, TwoFds(p, d, b),
         proc' = [proc EXCEPT ![p] = Having(Having(proc[p], d, f), b, g)],
         th' = [th EXCEPT ![p] = Return(th[p], 0, <<>>)], inode' = inode, icache' = icache
  PROVE  IndInv'
<1>a. PICK r, u : r = Having(proc[p], d, f) /\ u = Return(th[p], 0, <<>>)
  OBVIOUS
<1>b. PICK s : s = Having(r, b, g)
  OBVIOUS
<1>c. proc' = [proc EXCEPT ![p] = s] /\ th' = [th EXCEPT ![p] = u]
  BY <1>a, <1>b
<1>d. /\ f # g /\ ftable[f].ref = 0 /\ ftable[g].ref = 0
      /\ IsFile(x) /\ x.ref = 1 /\ x.ip = 0 /\ IsFile(y) /\ y.ref = 1 /\ y.ip = 0
      /\ \A h \in 1..NFILE : ftable'[h] = IF h = g THEN y ELSE IF h = f THEN x ELSE ftable[h]
      /\ ftable' = [h \in 1..NFILE |-> ftable'[h]]
      /\ d # b /\ proc[p].ofile[d] = 0 /\ proc[p].ofile[b] = 0
  BY DEF TwoFiles, TwoFds
<1>0. /\ Shape /\ icache \in Cache /\ proc[p].state = "run" /\ proc[p].cwd # 0
      /\ \A i \in Ino : Count(th[p], proc[p].cwd, i) = One(proc[p].cwd = i)
  BY IdleIs, InoIs
<1>1. f \in 0..NFILE /\ g \in 0..NFILE /\ f # 0 /\ g # 0
  BY Sizes
<1>2. /\ IsProc(r) /\ r.state = proc[p].state /\ r.cwd = proc[p].cwd
      /\ r.ofile[d] = f /\ \A e \in Fd : e # d => r.ofile[e] = proc[p].ofile[e]
  BY <1>0, <1>1, <1>a, ShapeIs, HavingIs
<1>3. /\ IsProc(s) /\ s.state = r.state /\ s.cwd = r.cwd
      /\ s.ofile[b] = g /\ \A e \in Fd : e # b => s.ofile[e] = r.ofile[e]
  BY <1>1, <1>2, <1>b, HavingIs
<1>4. FilesCounted'
  <2> SUFFICES ASSUME NEW h \in 1..NFILE PROVE ftable'[h].ref = Cardinality(Users(proc', h))
    BY DEF FilesCounted, Users
  <2>1. ftable[h].ref = Cardinality(Users(proc, h)) /\ ftable[h].ref \in Nat
    BY <1>0, ShapeIs DEF IndInv, FilesCounted, Users, IsFile
  <2>2. PICK P, Q, R : P = proc /\ Q = [proc EXCEPT ![p] = r] /\ R = proc'
    OBVIOUS
  <2>3. /\ P[p] = proc[p] /\ Q[p] = r /\ R[p] = s
        /\ \A q \in Proc : q # p => Q[q] = P[q] /\ R[q] = Q[q]
    BY <1>0, <1>c, <2>2, ShapeIs
  <2>4. Apart(P, Q, p, d)
    BY <1>2, <2>3 DEF Apart
  <2>5. Apart(Q, R, p, b)
    BY <1>3, <2>3 DEF Apart
  <2>6. Recounted(P, Q, p, d, h)
    BY <2>4, UsersIs, Zenon
  <2>7. Recounted(Q, R, p, b, h)
    BY <2>5, UsersIs, Zenon
  <2>8. Cardinality(Users(P, h)) \in Nat /\ Cardinality(Users(Q, h)) \in Nat /\ Cardinality(Users(R, h)) \in Nat
    BY UsersFinite
  <2>9. /\ P[p].ofile[d] = 0 /\ Q[p].ofile[d] = f /\ Q[p].ofile[b] = 0 /\ R[p].ofile[b] = g
    BY <1>2, <1>3, <1>d, <2>3
  <2>10. h # 0
    BY Sizes
  <2>11. Cardinality(Users(Q, h)) = Cardinality(Users(P, h)) + One(f = h)
    BY <2>6, <2>8, <2>9, <2>10 DEF One, Recounted
  <2>12. Cardinality(Users(R, h)) = Cardinality(Users(Q, h)) + One(g = h)
    BY <2>7, <2>8, <2>9, <2>10 DEF One, Recounted
  <2>13. ftable'[h].ref = ftable[h].ref + One(f = h) + One(g = h)
    BY <1>d, <2>1 DEF One
  <2> QED
    BY <2>1, <2>2, <2>8, <2>11, <2>12, <2>13 DEF One
<1>5. \A h \in 1..NFILE : ftable'[h].ip = ftable[h].ip
  <2>1. ftable[f].ip = 0 /\ ftable[g].ip = 0
    BY <1>0, <1>d, ShapeIs DEF IsFile
  <2> QED
    BY <1>d, <2>1
<1>6. Tables'
  <2>1. inode' = [i \in Ino |-> inode'[i]] /\ \A i \in Ino : IsInode(inode'[i])
    BY <1>0 DEF Shape
  <2>2. \A h \in 1..NFILE : IsFile(ftable'[h])
    BY <1>0, <1>d, ShapeIs
  <2>3. FilesInv'
    <3> SUFFICES ASSUME NEW h \in 1..NFILE, ftable'[h].ip # 0
                 PROVE  inode[ftable'[h].ip].type # "free" /\ (ftable'[h].w => inode[ftable'[h].ip].type # "dir")
      BY DEF FilesInv
    <3>1. ftable'[h] = ftable[h]
      BY <1>d
    <3>2. FilesInv
      BY DEF IndInv
    <3> QED
      BY <3>1, <3>2 DEF FilesInv
  <2>4. icache' \in Cache
    BY <1>0
  <2> QED
    BY <1>4, <1>d, <2>1, <2>2, <2>3, <2>4 DEF Tables
<1>7. /\ IsThread(u) /\ Locals(u) /\ Kinds(u) /\ u.pc = "user"
      /\ \A c, i : i \in Ino => Count(u, c, i) = One(c = i) + PutCount(<<>>, i)
  <2>1. <<>> \in Puts
    BY PutsFrom
  <2> QED
    BY <1>a, <2>1, ReturnIs
<1>8. Well(inode, ftable', u, s)
  <2>1. KindsIn(inode, u) /\ UsesIn(ftable', u, s)
    BY <1>7 DEF Kinds, KindsIn, UsesIn
  <2>2. Lives(u, s)
    BY <1>0, <1>2, <1>3, <1>7 DEF Lives
  <2> QED
    BY <1>3, <1>7, <2>1, <2>2 DEF Well
<1>9. Balance(p, u, s)
  <2> SUFFICES ASSUME NEW i \in Ino
               PROVE  icache'[i].ref + Cardinality(InFiles(ftable, i)) + Count(th[p], proc[p].cwd, i) =
                      icache[i].ref + Cardinality(InFiles(ftable', i)) + Count(u, s.cwd, i)
    BY DEF Balance
  <2>1. InFiles(ftable', i) = InFiles(ftable, i)
    BY <1>5 DEF InFiles
  <2>2. Count(u, s.cwd, i) = One(proc[p].cwd = i)
    BY <1>2, <1>3, <1>7, PutCountIs DEF One
  <2> QED
    BY <1>0, <2>1, <2>2
<1>10. ASSUME NEW q \in Proc \ {p}, NEW e \in Fd, NEW h \in 1..NFILE, proc[q].ofile[e] = h
       PROVE  ftable'[h].type = ftable[h].type /\ ftable'[h].w = ftable[h].w
  <2>1. h # 0
    BY Sizes
  <2>2. ftable[h].ref >= 1
    BY <1>10, <2>1, UsedIs
  <2> QED
    BY <1>d, <2>2
<1> QED
  BY <1>6, <1>8, <1>9, <1>10, <1>c, Refiled, Zenon

\* pipe()
LEMMA PipeKeeps ==
  ASSUME IndInv, NEW p \in Proc, Idle(p), Pipe(p)
  PROVE  IndInv'
<1>0. PICK f, of, x, y : /\ f = FreeFile(ftable) /\ of = proc[p].ofile
                         /\ x = [NoFile EXCEPT !.ref = 1, !.type = "pipe", !.r = TRUE]
                         /\ y = [NoFile EXCEPT !.ref = 1, !.type = "pipe", !.w = TRUE]
  OBVIOUS
<1>1. PICK ft, d : ft = [ftable EXCEPT ![f] = x] /\ d = FreeFd(of)
  OBVIOUS
<1>2. PICK g, of1 : g = FreeFile(ft) /\ of1 = [of EXCEPT ![d] = f]
  OBVIOUS
<1>3. PICK b, u : b = FreeFd(of1) /\ u = Return(th[p], 0, <<>>)
  OBVIOUS
<1>4. /\ inode' = inode /\ icache' = icache
      /\ \/ /\ f # 0 /\ d # -1 /\ g # 0 /\ b # -1
            /\ ftable' = [ft EXCEPT ![g] = y] /\ proc' = [proc EXCEPT ![p].ofile = [of1 EXCEPT ![b] = g]]
            /\ th' = [th EXCEPT ![p] = u]
         \/ th' = [th EXCEPT ![p] = Return(th[p], -1, <<>>)] /\ ftable' = ftable /\ proc' = proc
  BY <1>0, <1>1, <1>2, <1>3 DEF Pipe, disk
<1>5. CASE th' = [th EXCEPT ![p] = Return(th[p], -1, <<>>)] /\ ftable' = ftable /\ proc' = proc
  BY <1>4, <1>5, IdleReturns, Zenon
<1>6. CASE /\ f # 0 /\ d # -1 /\ g # 0 /\ b # -1
           /\ ftable' = [ft EXCEPT ![g] = y] /\ proc' = [proc EXCEPT ![p].ofile = [of1 EXCEPT ![b] = g]]
           /\ th' = [th EXCEPT ![p] = u]
  <2>0. Shape /\ DOMAIN ftable = 1..NFILE /\ IsProc(proc[p]) /\ of \in [Fd -> 0..NFILE]
    BY <1>0, IdleIs, ShapeIs DEF IsProc
  <2>1. /\ IsFile(x) /\ x.ref = 1 /\ x.ip = 0 /\ IsFile(y) /\ y.ref = 1 /\ y.ip = 0
    BY <1>0, InoIs DEF IsFile, NoFile
  <2>2. f \in 1..NFILE /\ ftable[f].ref = 0
    <3>1. \A h \in 1..NFILE : ftable[h].ref \in Nat
      BY <2>0, ShapeIs DEF IsFile
    <3> QED
      BY <1>0, <1>6, <3>1, FreeFileIs
  <2>3. /\ DOMAIN ft = 1..NFILE /\ \A h \in 1..NFILE : ft[h] = IF h = f THEN x ELSE ftable[h]
    BY <1>1, <2>0, <2>2
  <2>4. g \in 1..NFILE /\ ft[g].ref = 0
    <3>1. \A h \in 1..NFILE : ft[h].ref \in Nat
      BY <2>0, <2>1, <2>3, ShapeIs DEF IsFile
    <3> QED
      BY <1>2, <1>6, <3>1, FreeFileIs
  <2>5. f # g /\ ftable[g].ref = 0
    BY <2>1, <2>3, <2>4
  <2>6. d \in Fd /\ of[d] = 0
    BY <1>1, <1>6, FreeFdIs
  <2>7. b \in Fd /\ of1[b] = 0
    BY <1>3, <1>6, FreeFdIs
  <2>8. d # b /\ of[b] = 0
    BY <1>2, <1>6, <2>0, <2>6, <2>7
  <2>9. TwoFiles(f, g, x, y) /\ TwoFds(p, d, b)
    <3>1. ftable' = [h \in 1..NFILE |-> IF h = g THEN y ELSE IF h = f THEN x ELSE ftable[h]]
      BY <1>6, <2>3, <2>4
    <3> QED
      BY <1>0, <2>1, <2>2, <2>5, <2>6, <2>8, <3>1 DEF TwoFiles, TwoFds
  <2>10. PICK r : r = Having(proc[p], d, f)
    OBVIOUS
  <2>11. PICK s : s = Having(r, b, g)
    OBVIOUS
  <2>12. s = [proc[p] EXCEPT !.ofile = [of1 EXCEPT ![b] = g]]
    <3>1. DOMAIN proc[p] = {"state", "parent", "cwd", "ofile"}
      BY <2>0 DEF IsProc, NoProc
    <3>2. r = [proc[p] EXCEPT !.ofile = of1]
      BY <1>0, <1>2, <2>10, <3>1 DEF Having
    <3>3. PICK of2 : of2 = [of1 EXCEPT ![b] = g]
      OBVIOUS
    <3>4. r.ofile = of1 /\ DOMAIN r = {"state", "parent", "cwd", "ofile"}
      BY <3>1, <3>2
    <3>5. s = [r EXCEPT !.ofile = of2]
      BY <2>11, <3>3, <3>4 DEF Having
    <3>6. [r EXCEPT !.ofile = of2] = [proc[p] EXCEPT !.ofile = of2]
      BY <3>1, <3>2
    <3> QED
      BY <3>3, <3>5, <3>6
  <2>13. proc' = [proc EXCEPT ![p] = Having(Having(proc[p], d, f), b, g)]
    BY <1>6, <2>10, <2>11, <2>12
  <2>14. th' = [th EXCEPT ![p] = Return(th[p], 0, <<>>)]
    BY <1>3, <1>6
  <2> QED
    BY <1>4, <2>2, <2>4, <2>6, <2>7, <2>9, <2>13, <2>14, PipeOpens, Zenon
<1> QED
  BY <1>4, <1>5, <1>6

\* wait() frees a child that holds nothing.
LEMMA WaitReaps ==
  ASSUME IndInv, NEW p \in Proc, Idle(p), NEW q \in Proc, proc[q].state = "zombie",
         proc' = [proc EXCEPT ![q] = NoProc], NEW u, u = Return(NewThread, q, <<>>), th' = [th EXCEPT ![p] = u],
         inode' = inode, icache' = icache, ftable' = ftable
  PROVE  IndInv'
<1>0. /\ Shape /\ icache \in Cache /\ proc[p].state = "run" /\ proc[p].cwd # 0
      /\ \A i \in Ino : Count(th[p], proc[p].cwd, i) = One(proc[p].cwd = i)
  BY IdleIs, InoIs
<1>1. p # q /\ DOMAIN proc = Proc /\ DOMAIN th = Proc
  BY <1>0, ShapeIs
<1>2. /\ proc'[q] = NoProc /\ \A r \in Proc : r # q => proc'[r] = proc[r]
      /\ th'[p] = u /\ \A r \in Proc : r # p => th'[r] = th[r]
      /\ th' = [r \in Proc |-> th'[r]] /\ proc' = [r \in Proc |-> proc'[r]]
  BY <1>1
<1>3. PICK t : t = th[q]
  OBVIOUS
<1>4. /\ Well(inode, ftable, t, proc[q]) /\ t.pc = "user" /\ t.puts = <<>> /\ proc[q].cwd = 0
      /\ \A d \in Fd : proc[q].ofile[d] = 0
  <2>1. Well(inode, ftable, t, proc[q])
    BY <1>3, WellNow
  <2> QED
    BY <2>1 DEF Well, Lives
<1>5. IsProc(NoProc) /\ NoProc.state = "unused" /\ NoProc.cwd = 0 /\ NoProc.ofile = [d \in Fd |-> 0]
  <2>1. [d \in Fd |-> 0] \in [Fd -> 0..NFILE] /\ 0 \in 0..NInodes
    BY Sizes
  <2> QED
    BY <2>1 DEF IsProc, NoProc
<1>6. proc[q].ofile = NoProc.ofile
  <2>1. proc[q].ofile \in [Fd -> 0..NFILE]
    BY <1>0, ShapeIs DEF IsProc
  <2> QED
    BY <1>4, <1>5, <2>1
<1>7. Tables'
  <2>1. \A r \in Proc : proc'[r].ofile = proc[r].ofile
    BY <1>2, <1>6
  <2>2. /\ inode' = [i \in Ino |-> inode'[i]] /\ \A i \in Ino : IsInode(inode'[i])
        /\ \A f \in 1..NFILE : ftable[f].ip \in Ino => inode'[ftable[f].ip].type = inode[ftable[f].ip].type
    BY <1>0 DEF Shape
  <2>3. icache' \in Cache
    BY <1>0
  <2> QED
    BY <2>1, <2>2, <2>3, TablesKept, Zenon
<1>8. /\ IsThread(u) /\ Locals(u) /\ Kinds(u) /\ u.pc = "user"
      /\ \A c, i : i \in Ino => Count(u, c, i) = One(c = i) + PutCount(<<>>, i)
  <2>1. <<>> \in Puts
    BY PutsFrom
  <2> QED
    BY <2>1, ReturnIs
<1>9. Well(inode, ftable, t, NoProc)
  <2>1. UsesIn(ftable, t, NoProc) /\ Lives(t, NoProc)
    BY <1>4, <1>5 DEF UsesIn, Lives
  <2> QED
    BY <1>4, <1>5, <2>1 DEF Well
<1>10. Well(inode, ftable, u, proc[p])
  <2>1. KindsIn(inode, u) /\ UsesIn(ftable, u, proc[p]) /\ Lives(u, proc[p]) /\ IsProc(proc[p])
    BY <1>0, <1>8, ShapeIs DEF Kinds, KindsIn, UsesIn, Lives
  <2> QED
    BY <1>8, <2>1 DEF Well
<1>11. ASSUME NEW r \in Proc PROVE Well(inode', ftable', th'[r], proc'[r])
  <2>1. CASE r = p
    <3>1. th'[r] = u /\ proc'[r] = proc[p]
      BY <1>1, <1>2, <2>1
    <3> QED
      BY <1>10, <3>1
  <2>2. CASE r = q
    <3>1. th'[r] = t /\ proc'[r] = NoProc
      BY <1>1, <1>2, <1>3, <2>2
    <3> QED
      BY <1>9, <3>1
  <2>3. CASE r # p /\ r # q
    <3>1. th'[r] = th[r] /\ proc'[r] = proc[r]
      BY <1>2, <2>3
    <3> QED
      BY <3>1, WellNow
  <2> QED
    BY <2>1, <2>2, <2>3
<1>12. Balance(p, th'[p], proc'[p])
  <2>1. th'[p] = u /\ proc'[p] = proc[p]
    BY <1>1, <1>2
  <2>2. \A i \in Ino : Count(u, proc[p].cwd, i) = One(proc[p].cwd = i)
    BY <1>8, PutCountIs DEF One
  <2> QED
    BY <1>0, <2>1, <2>2 DEF Balance
<1>13. ASSUME NEW r \in Proc \ {p}, NEW i \in Ino
       PROVE  Mine(r, th'[r], proc'[r].cwd, i) = Mine(r, th[r], proc[r].cwd, i)
  <2>1. th'[r] = th[r] /\ proc'[r].cwd = proc[r].cwd
    BY <1>2, <1>4, <1>5
  <2> QED
    BY <2>1
<1> QED
  BY <1>2, <1>7, <1>11, <1>12, <1>13, Shown, Zenon

\* wait()
LEMMA WaitKeeps ==
  ASSUME IndInv, NEW p \in Proc, Idle(p), Wait(p)
  PROVE  IndInv'
<1>1. /\ inode' = inode /\ icache' = icache /\ ftable' = ftable
      /\ \/ th' = [th EXCEPT ![p] = Return(NewThread, -1, <<>>)] /\ proc' = proc
         \/ \E q \in Proc : /\ proc[q].state = "zombie" /\ proc' = [proc EXCEPT ![q] = NoProc]
                            /\ th' = [th EXCEPT ![p] = Return(NewThread, q, <<>>)]
  BY DEF Wait, disk
<1>2. CASE th' = [th EXCEPT ![p] = Return(NewThread, -1, <<>>)] /\ proc' = proc
  BY <1>1, <1>2, IdleReturns, Zenon
<1>3. ASSUME NEW q \in Proc, proc[q].state = "zombie", proc' = [proc EXCEPT ![q] = NoProc],
             th' = [th EXCEPT ![p] = Return(NewThread, q, <<>>)]
      PROVE  IndInv'
  <2>1. PICK u : u = Return(NewThread, q, <<>>)
    OBVIOUS
  <2>2. th' = [th EXCEPT ![p] = u]
    BY <1>3, <2>1
  <2> QED
    BY <1>1, <1>3, <2>1, <2>2, WaitReaps, Zenon
<1> QED
  BY <1>1, <1>2, <1>3, Zenon

\* fork() finds a free process.
LEMMA ChildIs ==
  ASSUME Unused # {}
  PROVE  Child \in Proc /\ proc[Child].state = "unused"
<1>1. Unused \in SUBSET Nat /\ \A q \in Unused : q \in Proc /\ proc[q].state = "unused"
  BY Sizes DEF Unused, Proc
<1>2. \E q \in Unused : \A r \in Unused : q <= r
  BY <1>1, LeastNat
<1>3. Child \in Unused
  BY <1>2 DEF Child
<1> QED
  BY <1>1, <1>3

\* The users of a file when a process c without open files gets those of.
Given(P, Q, c, of) ==
  /\ \A q \in Proc : q # c => Q[q].ofile = P[q].ofile
  /\ Q[c].ofile = of
  /\ \A d \in Fd : P[c].ofile[d] = 0
Gains(P, Q, of, f) == Cardinality(Users(Q, f)) = Cardinality(Users(P, f)) + Cardinality({d \in Fd : of[d] = f})

\* Each file gains as many users as the descriptors it has in of.
LEMMA ForkUsers ==
  ASSUME NEW P, NEW Q, NEW c \in Proc, NEW of, NEW f, f # 0, Given(P, Q, c, of)
  PROVE  Gains(P, Q, of, f)
<1> DEFINE D == {d \in Fd : of[d] = f}
           h == [d \in D |-> <<c, d>>]
           T == {h[d] : d \in D}
<1>1. IsFiniteSet(D)
  <2>1. NOFILE - 1 \in Int /\ 0 \in Int
    BY Sizes
  <2>2. IsFiniteSet(Fd)
    BY <2>1, FS_Interval, Zenon DEF Fd
  <2> QED
    BY <2>2, FS_Subset
<1>2. IsFiniteSet(T) /\ Cardinality(T) = Cardinality(D)
  <2>1. h \in [D -> T] /\ (\A y \in T : \E d \in D : h[d] = y) /\ \A d, e \in D : h[d] = h[e] => d = e
    OBVIOUS
  <2> HIDE DEF D, h, T
  <2>2. h \in Surjection(D, T) /\ h \in Injection(D, T)
    BY <2>1, Zenon DEF Surjection, Injection, IsInjective
  <2> QED
    BY <1>1, <2>2, FS_Surjection, Zenon
<1>a. T \subseteq Proc \X Fd /\ \A y : y \in T => \E d \in Fd : y = <<c, d>>
  <2>1. \A y : y \in T => \E d \in Fd : y = <<c, d>>
    <3> SUFFICES ASSUME NEW y \in T PROVE \E d \in Fd : y = <<c, d>>
      OBVIOUS
    <3>1. PICK d \in D : y = h[d]
      OBVIOUS
    <3> QED
      BY <3>1
  <2> HIDE DEF D, h, T
  <2>2. T \subseteq Proc \X Fd
    BY <2>1
  <2> QED
    BY <2>1, <2>2
<1>3. Users(Q, f) = Users(P, f) \cup T
  <2>1. ASSUME NEW y \in Proc \X Fd PROVE y \in Users(Q, f) <=> y \in Users(P, f) \/ y \in T
    <3>1. PICK q \in Proc, e \in Fd : y = <<q, e>>
      BY <2>1
    <3>2. (y \in Users(Q, f) <=> Q[q].ofile[e] = f) /\ (y \in Users(P, f) <=> P[q].ofile[e] = f)
      BY <3>1 DEF Users
    <3>3. y \in T <=> q = c /\ of[e] = f
      BY <3>1
    <3> QED
      BY <3>2, <3>3 DEF Given
  <2>2. Users(Q, f) \subseteq Proc \X Fd /\ Users(P, f) \subseteq Proc \X Fd /\ T \subseteq Proc \X Fd
    BY <1>a DEF Users
  <2> HIDE DEF T
  <2> QED
    BY <2>1, <2>2
<1>4. Users(P, f) \cap T = {}
  <2> HIDE DEF D, h, T
  <2> QED
    BY <1>a DEF Users, Given
<1> HIDE DEF D, h, T
<1>5. IsFiniteSet(Users(P, f)) /\ Cardinality(Users(P, f)) \in Nat
  BY UsersFinite
<1>6. Cardinality(Users(P, f) \cap T) = 0
  BY <1>4, FS_EmptySet
<1>7. Cardinality(Users(P, f) \cup T) = Cardinality(Users(P, f)) + Cardinality(T) - Cardinality(Users(P, f) \cap T)
  BY <1>2, <1>5, FS_Union
<1>8. Cardinality(D) \in Nat
  BY <1>1, FS_CardinalityType
<1>9. Cardinality(Users(Q, f)) = Cardinality(Users(P, f)) + Cardinality(D)
  BY <1>2, <1>3, <1>5, <1>6, <1>7, <1>8
<1> QED
  BY <1>9 DEF D, Gains

\* filedup() of every open file of p.
LEMMA FiledupIs ==
  ASSUME IndInv, NEW p \in Proc, ftable' = Filedup(proc[p].ofile)
  PROVE  /\ ftable' = [f \in 1..NFILE |-> ftable'[f]]
         /\ \A f \in 1..NFILE :
              /\ IsFile(ftable'[f])
              /\ ftable'[f].ref = ftable[f].ref + Cardinality({d \in Fd : proc[p].ofile[d] = f})
              /\ ftable'[f].ip = ftable[f].ip /\ ftable'[f].type = ftable[f].type /\ ftable'[f].w = ftable[f].w
<1>0. Shape
  BY DEF IndInv
<1>1. ftable' = [f \in 1..NFILE |-> ftable'[f]]
  BY DEF Filedup
<1>2. ASSUME NEW f \in 1..NFILE
      PROVE  /\ IsFile(ftable'[f])
             /\ ftable'[f].ref = ftable[f].ref + Cardinality({d \in Fd : proc[p].ofile[d] = f})
             /\ ftable'[f].ip = ftable[f].ip /\ ftable'[f].type = ftable[f].type /\ ftable'[f].w = ftable[f].w
  <2>1. PICK D : D = {d \in Fd : proc[p].ofile[d] = f}
    OBVIOUS
  <2>2. PICK a, k : a = ftable[f] /\ k = Cardinality(D)
    OBVIOUS
  <2>3. IsFile(a) /\ DOMAIN a = {"ref", "type", "ip", "off", "r", "w"}
    BY <1>0, <2>2, ShapeIs DEF IsFile, NoFile
  <2>4. ftable'[f] = [a EXCEPT !.ref = a.ref + k]
    BY <2>1, <2>2 DEF Filedup
  <2>5. PICK e : e = [a EXCEPT !.ref = a.ref + k]
    OBVIOUS
  <2>6. DOMAIN e = DOMAIN a /\ e.ref = a.ref + k /\ e.type = a.type /\ e.ip = a.ip /\ e.w = a.w
    BY <2>3, <2>5
  <2>7. k \in Nat
    <3>1. NOFILE - 1 \in Int /\ 0 \in Int
      BY Sizes
    <3>2. IsFiniteSet(Fd)
      BY <3>1, FS_Interval, Zenon DEF Fd
    <3>3. IsFiniteSet(D)
      BY <2>1, <3>2, FS_Subset
    <3> QED
      BY <2>2, <3>3, FS_CardinalityType
  <2>8. a.ref = 0 => k = 0
    <3> SUFFICES ASSUME a.ref = 0 PROVE k = 0
      OBVIOUS
    <3>1. ASSUME NEW d \in D PROVE FALSE
      <4>1. d \in Fd /\ proc[p].ofile[d] = f /\ f # 0
        BY <2>1, <3>1, Sizes
      <4>2. ftable[f].ref >= 1
        BY <4>1, UsedIs
      <4> QED
        BY <2>2, <4>2
    <3>2. D = {}
      BY <3>1
    <3> QED
      BY <2>2, <3>2, FS_EmptySet
  <2>9. IsFile(e)
    BY <2>3, <2>6, <2>7, <2>8 DEF IsFile
  <2>10. ftable'[f] = e
    BY <2>4, <2>5
  <2> QED
    BY <2>1, <2>2, <2>6, <2>9, <2>10
<1> QED
  BY <1>1, <1>2

\* fork() gives the child what the parent has, and counts it.
LEMMA ForkMakes ==
  ASSUME IndInv, NEW p \in Proc, Idle(p), NEW c \in Proc, proc[c].state = "unused",
         NEW s, s = [state |-> "run", parent |-> p, cwd |-> proc[p].cwd, ofile |-> proc[p].ofile],
         NEW u, u = Return(NewThread, c, <<>>),
         proc' = [proc EXCEPT ![c] = s], th' = [th EXCEPT ![p] = u, ![c] = NewThread],
         inode' = inode, icache' = Idup(icache, proc[p].cwd), ftable' = Filedup(proc[p].ofile)
  PROVE  IndInv'
<1>0. /\ Shape /\ icache \in Cache /\ proc[p].state = "run" /\ proc[p].cwd \in Ino /\ proc[p].cwd # 0
      /\ th[p].pc = "user" /\ th[p].puts = <<>> /\ th[p].ip = 0 /\ th[p].dp = 0 /\ th[p].at = 0
  BY IdleIs, InoIs
<1>1. p # c /\ DOMAIN proc = Proc /\ DOMAIN th = Proc
  BY <1>0, ShapeIs
<1>2. PICK n : n = NewThread
  OBVIOUS
<1>3. /\ proc'[c] = s /\ \A r \in Proc : r # c => proc'[r] = proc[r]
      /\ th'[p] = u /\ th'[c] = n /\ \A r \in Proc : r # p /\ r # c => th'[r] = th[r]
      /\ th' = [r \in Proc |-> th'[r]] /\ proc' = [r \in Proc |-> proc'[r]]
  BY <1>1, <1>2
<1>4. PICK t : t = th[c]
  OBVIOUS
<1>5. /\ Well(inode, ftable, t, proc[c]) /\ t.pc = "user" /\ t.puts = <<>> /\ proc[c].cwd = 0
      /\ t.ip = 0 /\ t.dp = 0 /\ t.at = 0 /\ \A d \in Fd : proc[c].ofile[d] = 0
  <2>1. Well(inode, ftable, t, proc[c])
    BY <1>4, WellNow
  <2>2. t.pc = "user" /\ t.puts = <<>> /\ proc[c].cwd = 0 /\ \A d \in Fd : proc[c].ofile[d] = 0
    BY <2>1 DEF Well, Lives
  <2> QED
    BY <2>1, <2>2 DEF Well, Locals, HasIp, HasDp, HasAt
<1>6. IsProc(s) /\ s.state = "run" /\ s.cwd = proc[p].cwd /\ s.ofile = proc[p].ofile
  <2>1. IsProc(proc[p])
    BY <1>0, ShapeIs
  <2>2. DOMAIN s = DOMAIN NoProc /\ s.state = "run" /\ s.cwd = proc[p].cwd /\ s.ofile = proc[p].ofile
    BY DEF NoProc
  <2> QED
    BY <2>1, <2>2 DEF IsProc
<1>7. /\ ftable' = [f \in 1..NFILE |-> ftable'[f]]
      /\ \A f \in 1..NFILE :
           /\ IsFile(ftable'[f])
           /\ ftable'[f].ref = ftable[f].ref + Cardinality({d \in Fd : proc[p].ofile[d] = f})
           /\ ftable'[f].ip = ftable[f].ip /\ ftable'[f].type = ftable[f].type /\ ftable'[f].w = ftable[f].w
  BY FiledupIs
<1>8. icache' \in Cache /\ \A i \in Ino : icache'[i].ref = icache[i].ref + One(proc[p].cwd = i)
  BY <1>0, IdupIs
<1>9. FilesCounted'
  <2> SUFFICES ASSUME NEW f \in 1..NFILE PROVE ftable'[f].ref = Cardinality(Users(proc', f))
    BY DEF FilesCounted, Users
  <2>1. ftable[f].ref = Cardinality(Users(proc, f))
    BY DEF IndInv, FilesCounted, Users
  <2>2. PICK P, Q, of : P = proc /\ Q = proc' /\ of = proc[p].ofile
    OBVIOUS
  <2>3. f # 0 /\ Given(P, Q, c, of)
    BY <1>3, <1>5, <1>6, <2>2, Sizes DEF Given
  <2>4. Gains(P, Q, of, f)
    BY <2>3, ForkUsers, Zenon
  <2> QED
    BY <1>7, <2>1, <2>2, <2>4 DEF Gains
<1>10. Tables'
  <2>1. inode' = [i \in Ino |-> inode'[i]] /\ \A i \in Ino : IsInode(inode'[i])
    BY <1>0 DEF Shape
  <2>2. FilesInv'
    <3>1. FilesInv
      BY DEF IndInv
    <3> QED
      BY <1>7, <3>1 DEF FilesInv
  <2>3. \A f \in 1..NFILE : IsFile(ftable'[f])
    BY <1>7
  <2> QED
    BY <1>7, <1>8, <1>9, <2>1, <2>2, <2>3 DEF Tables
<1>11. /\ IsThread(u) /\ Locals(u) /\ Kinds(u)
       /\ u.pc = "user" /\ u.puts = <<>> /\ u.ip = 0 /\ u.dp = 0 /\ u.at = 0
  <2>1. <<>> \in Puts
    BY PutsFrom
  <2>2. IsThread(u) /\ Locals(u) /\ Kinds(u) /\ u.pc = "user" /\ u.puts = <<>>
    BY <2>1, ReturnIs
  <2> QED
    BY <2>2 DEF Locals, HasIp, HasDp, HasAt
<1>12. /\ IsThread(n) /\ Locals(n) /\ Kinds(n)
       /\ n.pc = "user" /\ n.puts = <<>> /\ n.ip = 0 /\ n.dp = 0 /\ n.at = 0
  <2>1. IsThread(n) /\ n.pc = "user" /\ n.call = NoCall /\ n.puts = <<>> /\ n.ip = 0 /\ n.dp = 0 /\ n.at = 0
    BY <1>2, NewThreadIs
  <2> QED
    BY <2>1 DEF Locals, Kinds, HasIp, HasDp, HasAt, NoCall
<1>13. Well(inode, ftable', u, proc[p])
  <2>1. KindsIn(inode, u) /\ UsesIn(ftable', u, proc[p]) /\ Lives(u, proc[p]) /\ IsProc(proc[p])
    BY <1>0, <1>11, ShapeIs DEF Kinds, KindsIn, UsesIn, Lives
  <2> QED
    BY <1>11, <2>1 DEF Well
<1>14. Well(inode, ftable', n, s)
  <2>1. KindsIn(inode, n) /\ UsesIn(ftable', n, s) /\ Lives(n, s)
    BY <1>0, <1>6, <1>12 DEF Kinds, KindsIn, UsesIn, Lives
  <2> QED
    BY <1>6, <1>12, <2>1 DEF Well
<1>15. ASSUME NEW r \in Proc PROVE Well(inode', ftable', th'[r], proc'[r])
  <2>1. CASE r = p
    <3>1. th'[r] = u /\ proc'[r] = proc[p]
      BY <1>1, <1>3, <2>1
    <3> QED
      BY <1>13, <3>1
  <2>2. CASE r = c
    <3>1. th'[r] = n /\ proc'[r] = s
      BY <1>3, <2>2
    <3> QED
      BY <1>14, <3>1
  <2>3. CASE r # p /\ r # c
    <3>1. PICK a, b : a = th[r] /\ b = proc[r]
      OBVIOUS
    <3>2. th'[r] = a /\ proc'[r] = b
      BY <1>3, <2>3, <3>1
    <3>3. Well(inode, ftable, a, b)
      BY <3>1, WellNow
    <3>4. UsesIn(ftable', a, b)
      BY <1>7, <3>3 DEF Well, UsesIn
    <3>5. Well(inode', ftable', a, b)
      BY <3>3, <3>4 DEF Well
    <3> QED
      BY <3>2, <3>5
  <2> QED
    BY <2>1, <2>2, <2>3
<1>16. Balance(c, th'[c], proc'[c])
  <2> SUFFICES ASSUME NEW i \in Ino
               PROVE  icache'[i].ref + Cardinality(InFiles(ftable, i)) + Count(t, proc[c].cwd, i) =
                      icache[i].ref + Cardinality(InFiles(ftable', i)) + Count(n, s.cwd, i)
    BY <1>3, <1>4 DEF Balance
  <2>1. InFiles(ftable', i) = InFiles(ftable, i)
    BY <1>7 DEF InFiles
  <2>2. PutCount(t.puts, i) = 0 /\ PutCount(n.puts, i) = 0
    BY <1>5, <1>12, PutCountIs
  <2>3. Count(t, proc[c].cwd, i) = 0
    BY <1>5, <2>2, InoIs DEF Count, One
  <2>4. Count(n, s.cwd, i) = One(proc[p].cwd = i)
    BY <1>6, <1>12, <2>2, InoIs DEF Count, One
  <2>5. Cardinality(InFiles(ftable, i)) \in Nat /\ icache[i].ref \in Nat /\ One(proc[p].cwd = i) \in Nat
    BY Numbers DEF One
  <2> QED
    BY <1>8, <2>1, <2>3, <2>4, <2>5
<1>17. ASSUME NEW r \in Proc \ {c}, NEW i \in Ino
       PROVE  Mine(r, th'[r], proc'[r].cwd, i) = Mine(r, th[r], proc[r].cwd, i)
  <2>1. CASE r = p
    <3>1. Mine(p, u, proc[p].cwd, i) = Mine(p, th[p], proc[p].cwd, i)
      <4>1. PICK a, b : a = th[p] /\ b = proc[p].cwd
        OBVIOUS
      <4>2. u.pc = a.pc /\ u.puts = a.puts /\ u.ip = a.ip /\ u.dp = a.dp /\ u.at = a.at
        BY <1>0, <1>11, <4>1
      <4>3. Mine(p, u, b, i) = Mine(p, a, b, i)
        BY <4>2 DEF Mine
      <4> QED
        BY <4>1, <4>3
    <3> QED
      BY <1>1, <1>3, <2>1, <3>1
  <2>2. CASE r # p
    BY <1>3, <2>2
  <2> QED
    BY <2>1, <2>2
<1> QED
  BY <1>3, <1>10, <1>15, <1>16, <1>17, Shown, Zenon

\* fork()
LEMMA ForkKeeps ==
  ASSUME IndInv, NEW p \in Proc, Idle(p), Fork(p)
  PROVE  IndInv'
<1>1. CASE Unused = {}
  <2>1. th' = [th EXCEPT ![p] = Return(NewThread, -1, <<>>)] /\ proc' = proc /\ ftable' = ftable /\ inode' = inode /\ icache' = icache
    BY <1>1 DEF Fork, disk
  <2> QED
    BY <2>1, IdleReturns, Zenon
<1>2. CASE Unused # {}
  <2>1. PICK c : c = Child
    OBVIOUS
  <2>2. PICK s, u : /\ s = [state |-> "run", parent |-> p, cwd |-> proc[p].cwd, ofile |-> proc[p].ofile]
                    /\ u = Return(NewThread, c, <<>>)
    OBVIOUS
  <2>3. c \in Proc /\ proc[c].state = "unused"
    BY <1>2, <2>1, ChildIs
  <2>4. /\ proc' = [proc EXCEPT ![c] = s] /\ th' = [th EXCEPT ![p] = u, ![c] = NewThread]
        /\ inode' = inode /\ icache' = Idup(icache, proc[p].cwd) /\ ftable' = Filedup(proc[p].ofile)
    BY <1>2, <2>1, <2>2 DEF Fork, disk
  <2> QED
    BY <2>2, <2>3, <2>4, ForkMakes, Zenon
<1> QED
  BY <1>1, <1>2

-----------------------------------------------------------------------------
\* create() of a new name

\* ialloc() finds a free inode.
LEMMA IallocIs ==
  ASSUME Ialloc # 0
  PROVE  Ialloc \in Ino /\ inode[Ialloc].type = "free"
<1> DEFINE T == {i \in Ino : inode[i].type = "free"}
<1>1. T # {} /\ T \in SUBSET Nat
  BY Sizes DEF Ialloc, Ino
<1>2. PICK m \in T : \A g \in T : m <= g
  BY <1>1, LeastNat
<1>3. m \in Ino /\ inode[m].type = "free" /\ \A j \in 1..m-1 : inode[j].type # "free"
  BY <1>2, Sizes DEF Ino
<1> QED
  BY <1>1, <1>3 DEF Ialloc

\* A first write to an inode that has no content.
LEMMA FirstWrite ==
  ASSUME NEW n, IsInode(n), Len(n.data) = 0, NEW us \in Seq(DirSlots), NEW u
  PROVE  IsInode(Writei(u, n, 0, us).ino) /\ Writei(u, n, 0, us).ino.type = n.type
<1>1. PICK off : off = 0
  OBVIOUS
<1>2. off \in Int /\ off <= Len(n.data)
  BY <1>1
<1>3. n.type = "dir" => us \in Seq(DirSlots) /\ off <= Len(n.data)
  BY <1>2
<1>4. IsInode(Writei(u, n, off, us).ino) /\ Writei(u, n, off, us).ino.type = n.type
  BY <1>2, <1>3, WriteiIs, Zenon
<1> QED
  BY <1>1, <1>4

\* The inode create() initialises.
LEMMA BareIs ==
  ASSUME NEW ty \in {"dir", "dev", "file"}, NEW b, b = [NoInode EXCEPT !.type = ty, !.nlink = 1]
  PROVE  IsInode(b) /\ b.type = ty /\ Len(b.data) = 0
<1>1. DOMAIN b = DOMAIN NoInode /\ b.type = ty /\ b.data = <<>>
  BY DEF NoInode
<1>2. <<>> \in Seq(DirSlots) /\ Len(<<>>) = 0
  OBVIOUS
<1>3. IsInode(b)
  BY <1>1, <1>2 DEF IsInode
<1> QED
  BY <1>1, <1>2, <1>3

\* The dots of a new directory.
LEMMA DotsAre ==
  ASSUME NEW ip \in Ino, NEW dp \in Ino
  PROVE  <<Slot(".", ip), Slot("..", dp)>> \in Seq(DirSlots)
<1>1. "." \in {"", ".", ".."} /\ ".." \in {"", ".", ".."} /\ ip \in 0..NInodes /\ dp \in 0..NInodes
  BY InoIs
<1>2. Slot(".", ip) \in DirSlots /\ Slot("..", dp) \in DirSlots
  BY <1>1, DotIs, Zenon
<1> QED
  BY <1>2

\* The inode create() makes, a directory with its dots.
IsNew(ip, dp, ty, b, a) ==
  /\ b = [NoInode EXCEPT !.type = ty, !.nlink = 1]
  /\ a = b \/ a = Writei(used, b, 0, <<Slot(".", ip), Slot("..", dp)>>).ino

\* It has its type, and its content is slots.
LEMMA NewInodeIs ==
  ASSUME NEW ip \in Ino, NEW dp \in Ino, NEW ty \in {"dir", "dev", "file"}, NEW b, NEW a, IsNew(ip, dp, ty, b, a)
  PROVE  IsInode(a) /\ a.type = ty
<1>1. IsInode(b) /\ b.type = ty /\ Len(b.data) = 0
  BY BareIs, Zenon DEF IsNew
<1>2. PICK us : us = <<Slot(".", ip), Slot("..", dp)>>
  OBVIOUS
<1>3. us \in Seq(DirSlots)
  BY <1>2, DotsAre, Zenon
<1>4. PICK n : n = Writei(used, b, 0, us).ino
  OBVIOUS
<1>5. IsInode(n) /\ n.type = b.type
  BY <1>1, <1>3, <1>4, FirstWrite, Zenon
<1>6. a = b \/ a = n
  BY <1>2, <1>4, Zenon DEF IsNew
<1> QED
  BY <1>1, <1>5, <1>6, Zenon

\* What create() does to the inodes: the new one is the only one whose type
\* changes, and it was free.
Creates(ip, dp, a, e) ==
  /\ ip \in Ino /\ dp \in Ino
  /\ inode[ip].type = "free" /\ inode[dp].type = "dir"
  /\ IsInode(a) /\ IsInode(e) /\ e.type = "dir"
  /\ inode' = [inode EXCEPT ![ip] = a, ![dp] = e]

\* The inodes after create().
LEMMA CreatedInodes ==
  ASSUME Shape, NEW ip, NEW dp, NEW a, NEW e, Creates(ip, dp, a, e)
  PROVE  /\ inode' = [i \in Ino |-> inode'[i]]
         /\ \A i \in Ino : IsInode(inode'[i]) /\ (i # ip => inode'[i].type = inode[i].type)
         /\ inode'[ip] = a
<1>1. DOMAIN inode = Ino /\ \A i \in Ino : IsInode(inode[i])
  BY ShapeIs
<1>2. ip # dp
  BY DEF Creates
<1>3. inode' = [i \in Ino |-> inode'[i]] /\ \A i \in Ino : inode'[i] = IF i = dp THEN e ELSE IF i = ip THEN a ELSE inode[i]
  BY <1>1, <1>2 DEF Creates
<1> QED
  BY <1>1, <1>2, <1>3 DEF Creates

\* The step of create() with the new inode ip.
Created(p, t, ip) ==
  /\ At(p, {"create1"}) /\ ftable' = ftable /\ proc' = proc
  /\ \E l : /\ l = (IF t.call.op = "open" THEN "open2" ELSE "made")
            /\ th' = [th EXCEPT ![p] = [Goto(t, l, <<t.dp>>) EXCEPT !.ip = ip, !.dp = 0]]
  /\ icache' = Ilock(Iget(Visit(icache, t.dp), ip), ip, p)
  /\ \E a, e : Creates(ip, t.dp, a, e) /\ a.type = TypeOf(t.call.op)

\* What create() writes.
LEMMA CreateWrites ==
  ASSUME IndInv, NEW p \in Proc, CreateNew(p), NEW t, t = th[p], NEW ip, ip = Ialloc
  PROVE  Created(p, t, ip)
<1>1. PICK dp, ty, n : dp = t.dp /\ ty = TypeOf(t.call.op) /\ n = Head(t.path)
  OBVIOUS
<1>2. PICK b : b = [NoInode EXCEPT !.type = ty, !.nlink = 1]
  OBVIOUS
<1>3. PICK dots : dots = IF ty = "dir" THEN Writei(used, b, 0, <<Slot(".", ip), Slot("..", dp)>>)
                         ELSE [fits |-> TRUE, ino |-> b, used |-> used]
  OBVIOUS
<1>4. PICK ent : ent = Dirlink(dots.used, dp, n, ip)
  OBVIOUS
<1>5. PICK a, m : a = dots.ino /\ m = ent.ino
  OBVIOUS
<1>6. PICK e : e = [m EXCEPT !.nlink = DotDot(@, ty)]
  OBVIOUS
<1>7. /\ At(p, {"create1"}) /\ ip # 0 /\ ftable' = ftable /\ proc' = proc
      /\ inode' = [inode EXCEPT ![ip] = a, ![dp] = e]
      /\ icache' = Ilock(Iget(Visit(icache, dp), ip), ip, p)
      /\ th' = [th EXCEPT ![p] = [Goto(t, IF t.call.op = "open" THEN "open2" ELSE "made", <<dp>>)
                                   EXCEPT !.ip = ip, !.dp = 0]]
  BY <1>1, <1>2, <1>3, <1>4, <1>5, <1>6, Zenon DEF CreateNew
<1>8. Shape /\ t.pc = "create1" /\ IsThread(t) /\ Locals(t) /\ Kinds(t)
  BY <1>7, AtIs
<1>9. dp \in Ino /\ inode[dp].type = "dir" /\ t.path # <<>>
  BY <1>1, <1>8, InoIs DEF Locals, HasDp, IsThread, Kinds
<1>10. ip \in Ino /\ inode[ip].type = "free" /\ ip \in 0..NInodes
  BY <1>7, IallocIs, InoIs
<1>11. ty \in {"dir", "dev", "file"}
  BY <1>1 DEF TypeOf
<1>12. IsNew(ip, dp, ty, b, a)
  <2>1. CASE ty = "dir"
    BY <1>2, <1>3, <1>5, <2>1 DEF IsNew
  <2>2. CASE ty # "dir"
    BY <1>2, <1>3, <1>5, <2>2 DEF IsNew
  <2> QED
    BY <2>1, <2>2
<1>13. IsInode(a) /\ a.type = ty
  BY <1>9, <1>10, <1>11, <1>12, NewInodeIs
<1>14. n \in STRING
  BY <1>1, <1>8, <1>9 DEF IsThread, Paths
<1>15. IsInode(m) /\ m.type = "dir"
  BY <1>4, <1>5, <1>8, <1>9, <1>10, <1>14, DirlinkIs, Zenon
<1>16. IsInode(e) /\ e.type = "dir"
  BY <1>6, <1>15, NlinkIs
<1>17. Creates(ip, dp, a, e)
  BY <1>7, <1>9, <1>10, <1>13, <1>16 DEF Creates
<1> QED
  BY <1>1, <1>7, <1>13, <1>17, Zenon DEF Created

\* create() of a new name: the new inode takes the place of the parent.
LEMMA CreateNewKeeps ==
  ASSUME IndInv, NEW p \in Proc, CreateNew(p)
  PROVE  IndInv'
<1>0. PICK t, s, ip : t = th[p] /\ s = proc[p] /\ ip = Ialloc
  OBVIOUS
<1>c. Created(p, t, ip)
  BY <1>0, CreateWrites, Zenon
<1>1. /\ At(p, {"create1"}) /\ ftable' = ftable /\ proc' = proc
      /\ icache' = Ilock(Iget(Visit(icache, t.dp), ip), ip, p)
  BY <1>c DEF Created
<1>2. PICK l : /\ l = (IF t.call.op = "open" THEN "open2" ELSE "made")
               /\ th' = [th EXCEPT ![p] = [Goto(t, l, <<t.dp>>) EXCEPT !.ip = ip, !.dp = 0]]
  BY <1>c, Zenon DEF Created
<1>3. PICK u : u = [Goto(t, l, <<t.dp>>) EXCEPT !.ip = ip, !.dp = 0]
  OBVIOUS
<1>4. PICK a, e : Creates(ip, t.dp, a, e) /\ a.type = TypeOf(t.call.op)
  BY <1>c, Zenon DEF Created
<1>5. Shape /\ icache \in Cache /\ t.pc = "create1" /\ Well(inode, ftable, t, s)
  BY <1>0, <1>1, AtIs, WellNow
<1>6. IsThread(t) /\ Locals(t) /\ IsProc(s) /\ Lives(t, s)
  BY <1>5 DEF Well
<1>7. ip \in Ino /\ t.dp \in Ino /\ inode[ip].type = "free"
  BY <1>4 DEF Creates
<1>8. t.ip = 0 /\ t.at = 0
  BY <1>5, <1>6 DEF Locals, HasIp, HasAt
<1>9. /\ inode' = [i \in Ino |-> inode'[i]]
      /\ \A i \in Ino : IsInode(inode'[i]) /\ (i # ip => inode'[i].type = inode[i].type)
      /\ inode'[ip] = a
  BY <1>4, <1>5, CreatedInodes, Zenon
<1>10. Like(u, t, l, t.at, t.path, ip, 0, <<t.dp>>)
  BY <1>3, <1>6, GotoIs, Zenon
<1>11. <<t.dp>> \in Puts /\ t.path \in Paths /\ 0 \in 0..NInodes /\ t.at \in 0..NInodes /\ ip \in 0..NInodes
  BY <1>6, <1>7, PutsFrom, InoIs DEF IsThread
<1>12. Well(inode', ftable', u, s)
  <2>1. IsThread(u)
    BY <1>6, <1>10, <1>11, LikeIs
  <2>2. l \in {"open2", "made"} /\ (l = "open2" => t.call.op = "open")
    BY <1>2
  <2>3. Locals(u)
    BY <1>5, <1>6, <1>7, <1>8, <1>10, <2>2, InoIs DEF Like, Locals, HasIp, HasDp, HasAt
  <2>4. KindsIn(inode', u)
    <3>1. l = "open2" => a.type = "file"
      BY <1>4, <2>2 DEF TypeOf
    <3> QED
      BY <1>9, <1>10, <3>1 DEF Like, KindsIn
  <2>5. UsesIn(ftable', u, s)
    BY <1>10, <2>2 DEF Like, UsesIn
  <2>6. Lives(u, s)
    BY <1>5, <1>6, <1>10, <2>2 DEF Like, Lives
  <2> QED
    BY <1>6, <2>1, <2>3, <2>4, <2>5, <2>6 DEF Well
<1>13. ASSUME NEW w, NEW r, Well(inode, ftable, w, r) PROVE Well(inode', ftable', w, r)
  <2>1. (w.dp # 0 => w.dp \in Ino) /\ (w.pc = "open2" => w.ip \in Ino)
    BY <1>13, InoIs DEF Well, IsThread, Locals, HasIp
  <2>2. (w.dp # 0 => w.dp # ip) /\ (w.pc = "open2" => w.ip # ip)
    BY <1>7, <1>13 DEF Well, KindsIn
  <2>3. KindsIn(inode', w)
    BY <1>9, <1>13, <2>1, <2>2 DEF Well, KindsIn
  <2>4. UsesIn(ftable', w, r)
    BY <1>1, <1>13 DEF Well, UsesIn
  <2> QED
    BY <1>13, <2>3, <2>4 DEF Well
<1>14. \A q \in Proc \ {p} : Well(inode', ftable', th[q], proc[q])
  BY <1>13, WellNow
<1>15. icache' \in Cache /\ \A i \in Ino : icache'[i].ref = icache[i].ref + One(ip = i)
  <2>1. PICK c : c = Iget(Visit(icache, t.dp), ip)
    OBVIOUS
  <2>2. c \in Cache /\ \A i \in Ino : c[i].ref = icache[i].ref + One(ip = i)
    BY <1>5, <1>7, <2>1, LookupIs
  <2>3. Ilock(c, ip, p) \in Cache /\ \A i \in Ino : Ilock(c, ip, p)[i].ref = c[i].ref
    BY <2>2, IlockIs
  <2> QED
    BY <1>1, <2>1, <2>2, <2>3
<1>16. Tables'
  <2>1. \A f \in 1..NFILE : ftable[f].ip \in Ino => inode'[ftable[f].ip].type = inode[ftable[f].ip].type
    BY <1>7, <1>9, InoIs DEF IndInv, FilesInv
  <2>2. \A q \in Proc : proc'[q].ofile = proc[q].ofile
    BY <1>1
  <2>3. \A i \in Ino : IsInode(inode'[i])
    BY <1>9
  <2> QED
    BY <1>1, <1>9, <1>15, <2>1, <2>2, <2>3, TablesKept, Zenon
<1>17. Balance(p, u, s)
  <2> SUFFICES ASSUME NEW i \in Ino
               PROVE  icache'[i].ref + Cardinality(InFiles(ftable, i)) + Count(th[p], proc[p].cwd, i) =
                      icache[i].ref + Cardinality(InFiles(ftable', i)) + Count(u, s.cwd, i)
    BY DEF Balance
  <2>1. PICK c : c = s.cwd
    OBVIOUS
  <2>2. Count(t, c, i) = One(c = i) + One(t.dp = i)
    BY <1>0, <1>1, <1>5, <1>7, <1>8, <2>1, AtIs, InoIs DEF One
  <2>3. Count(u, c, i) = One(c = i) + One(ip = i) + One(t.dp = i)
    <3>1. PutCount(<<t.dp>>, i) = One(t.dp = i)
      BY PutCountIs
    <3>2. u.pc # "chdir2" /\ u.ip = ip /\ u.dp = 0 /\ u.at = 0 /\ u.puts = <<t.dp>>
      BY <1>2, <1>8, <1>10 DEF Like
    <3> QED
      BY <3>1, <3>2, InoIs DEF Count, One
  <2>4. Cardinality(InFiles(ftable, i)) \in Nat /\ icache[i].ref \in Nat
    BY Numbers
  <2>5. icache'[i].ref = icache[i].ref + One(ip = i) /\ InFiles(ftable', i) = InFiles(ftable, i)
    BY <1>1, <1>15
  <2> QED
    BY <1>0, <2>1, <2>2, <2>3, <2>4, <2>5 DEF One
<1>18. proc' = [proc EXCEPT ![p] = s] /\ th' = [th EXCEPT ![p] = u]
  <2>1. DOMAIN proc = Proc /\ proc = [q \in Proc |-> proc[q]]
    BY <1>5, ShapeIs DEF Shape
  <2> QED
    BY <1>0, <1>1, <1>2, <1>3, <2>1
<1> QED
  BY <1>12, <1>14, <1>16, <1>17, <1>18, Step, Zenon

-----------------------------------------------------------------------------
\* Every step keeps the invariant

\* A step of the kernel keeps it.
LEMMA KernelKeeps ==
  ASSUME IndInv, NEW p \in Proc, Kernel(p)
  PROVE  IndInv'
<1>1. CASE Iput(p) \/ Drop(p) \/ Namex(p)
  BY <1>1, IputKeeps, DropKeeps, NamexKeeps, Zenon
<1>2. CASE Open(p) \/ Read(p) \/ Write(p) \/ Fstat(p)
  BY <1>2, OpenKeeps, ReadKeeps, WriteKeeps, FstatKeeps, Zenon
<1>3. CASE CreateExisting(p) \/ CreateKeep(p) \/ CreateNew(p) \/ Made(p)
  BY <1>3, CreateExistingKeeps, CreateKeepKeeps, CreateNewKeeps, MadeKeeps, Zenon
<1>4. CASE UnlinkFind(p) \/ UnlinkErase(p) \/ UnlinkCount(p) \/ UnlinkBad(p)
  BY <1>4, UnlinkFindKeeps, UnlinkEraseKeeps, UnlinkCountKeeps, UnlinkBadKeeps, Zenon
<1>5. CASE LinkCount(p) \/ LinkEntry(p) \/ LinkExists(p) \/ LinkBad(p)
  BY <1>5, LinkCountKeeps, LinkEntryKeeps, LinkExistsKeeps, LinkBadKeeps, Zenon
<1>6. CASE ChdirCheck(p) \/ ChdirSet(p) \/ Exec(p) \/ Exit(p)
  BY <1>6, ChdirCheckKeeps, ChdirSetKeeps, ExecKeeps, ExitKeeps, Zenon
<1> QED
  BY <1>1, <1>2, <1>3, <1>4, <1>5, <1>6, Zenon DEF Kernel

\* A system call that enters the kernel keeps it.
LEMMA CallKeeps ==
  ASSUME IndInv, NEW p \in Proc, NEW c \in SysCalls, Call(p, c)
  PROVE  IndInv'
<1>1. Idle(p)
  BY DEF Call
<1>2. CASE c.op \in {"open", "mkdir", "mknod", "unlink", "link", "chdir", "exec"} /\ PathCall(p, c)
  BY <1>1, <1>2, PathCallKeeps
<1>3. CASE c.op \in {"read", "write", "fstat"} /\ FdCall(p, c)
  BY <1>1, <1>3, FdCallKeeps
<1>4. CASE Dup(p, c.fd) \/ Close(p, c.fd) \/ Pipe(p) \/ Fork(p) \/ Wait(p)
  BY <1>1, <1>4, DupKeeps, CloseKeeps, PipeKeeps, ForkKeeps, WaitKeeps, Zenon
<1>5. CASE th' = [th EXCEPT ![p] = [NewThread EXCEPT !.pc = "exit"]] /\ UNCHANGED <<disk, icache, ftable, proc>>
  BY <1>1, <1>5, ExitCallKeeps DEF disk
<1> QED
  BY <1>2, <1>3, <1>4, <1>5, Zenon DEF Call

\* Every step keeps it.
LEMMA NextKeeps ==
  ASSUME IndInv, [FilesNext]_vars
  PROVE  IndInv'
<1>1. CASE FilesNext
  BY <1>1, KernelKeeps, CallKeeps, Zenon DEF FilesNext
<1>2. CASE UNCHANGED vars
  <2>1. /\ inode' = inode /\ icache' = icache /\ ftable' = ftable /\ proc' = proc /\ th' = th
    BY <1>2 DEF vars
  <2>2. Shape'
    BY <2>1 DEF IndInv, Shape, IsInode, IsFile, IsThread, IsProc
  <2>3. FilesInv' /\ FilesCounted'
    BY <2>1 DEF IndInv, FilesInv, FilesCounted
  <2>4. ThreadsInv'
    BY <2>1 DEF IndInv, ThreadsInv, Kinds, Uses, Locals, HasAt, HasIp, HasDp, Lives
  <2>5. RefCounts'
    BY <2>1 DEF IndInv, RefCounts, Pointers
  <2> QED
    BY <2>2, <2>3, <2>4, <2>5 DEF IndInv
<1> QED
  BY <1>1, <1>2

-----------------------------------------------------------------------------
\* The first state

\* A function on 1..m is a sequence.
LEMMA SeqOf ==
  ASSUME NEW S, NEW m \in Nat, NEW f \in [1..m -> S]
  PROVE  f \in Seq(S)
  OBVIOUS

\* The content of the root directory that mkfs writes.
RootData ==
  LET n    == Len(Image) + 2
      root == [k \in 1..n |-> IF k = 1 THEN Slot(".", ROOTINO)
                              ELSE IF k = 2 THEN Slot("..", ROOTINO)
                              ELSE Slot(Image[k - 2].name, k - 1)]
      size == ((n \div BSIZE) + 1) * BSIZE
  IN [k \in 1..size |-> IF k <= n THEN root[k] ELSE NoSlot]

\* It is slots.
LEMMA RootIs == RootData \in Seq(DirSlots)
<1> DEFINE n    == Len(Image) + 2
           root == [k \in 1..n |-> IF k = 1 THEN Slot(".", ROOTINO)
                                   ELSE IF k = 2 THEN Slot("..", ROOTINO)
                                   ELSE Slot(Image[k - 2].name, k - 1)]
           size == ((n \div BSIZE) + 1) * BSIZE
<1>0. Len(Image) \in Nat /\ DOMAIN Image = 1..Len(Image) /\ Len(Image) < NInodes
  BY FilesAssumption, Zenon
<1>1. n \in Nat /\ n < NInodes + 2 /\ BSIZE \in Nat \ {0} /\ NInodes \in Nat
  BY <1>0, Sizes
<1>2. size \in Nat
  <2>1. PICK b \in Nat : b = (n \div BSIZE) + 1
    BY <1>1
  <2>2. b * BSIZE \in Nat
    BY <1>1, <2>1
  <2> QED
    BY <2>1, <2>2
<1>3. ROOTINO \in 0..NInodes /\ 0 \in 0..NInodes
  BY FilesAssumption DEF ROOTINO
<1>4. "" \in {"", ".", ".."} /\ "." \in {"", ".", ".."} /\ ".." \in {"", ".", ".."}
  OBVIOUS
<1>5. NoSlot \in DirSlots /\ Slot(".", ROOTINO) \in DirSlots /\ Slot("..", ROOTINO) \in DirSlots
  BY <1>3, <1>4, DotIs, Zenon DEF NoSlot
<1>6. ASSUME NEW k \in 1..n, k # 1, k # 2 PROVE Slot(Image[k - 2].name, k - 1) \in DirSlots
  <2>1. k - 2 \in DOMAIN Image /\ k - 1 \in 0..NInodes
    BY <1>0, <1>1, <1>6
  <2>2. Image[k - 2].name \in STRING
    BY <2>1, FilesAssumption
  <2> QED
    BY <2>1, <2>2, SlotIs, Zenon
<1> HIDE DEF size, n
<1>7. \A k \in 1..n : root[k] \in DirSlots
  BY <1>5, <1>6
<1> DEFINE data == [k \in 1..size |-> IF k <= n THEN root[k] ELSE NoSlot]
<1>8. \A k \in 1..size : data[k] \in DirSlots
  BY <1>1, <1>2, <1>5, <1>7
<1> HIDE DEF root
<1>9. DOMAIN data = 1..size /\ data = [k \in 1..size |-> data[k]]
  OBVIOUS
<1> HIDE DEF data
<1>10. data \in [1..size -> DirSlots]
  BY <1>8, <1>9, Zenon
<1>11. data \in Seq(DirSlots)
  BY <1>2, <1>10, SeqOf
<1> QED
  BY <1>11 DEF data, root, size, n, RootData

\* The inodes that mkfs writes.
LEMMA MkfsIs ==
  ASSUME Mkfs
  PROVE  inode = [i \in Ino |-> inode[i]] /\ \A i \in Ino : IsInode(inode[i])
<1> DEFINE n    == Len(Image) + 2
           more == IF Blocks(n) > NDIRECT THEN 1 ELSE 0
           meta == Blocks(n) + more
           ino  == [type |-> "file", nlink |-> 1, data |-> <<>>, blks |-> <<>>, ind |-> 0]
           x    == [ino EXCEPT !.type = "dir", !.blks = Iappend(n), !.ind = IF more = 1 THEN NDIRECT + 1 ELSE 0,
                               !.data = RootData]
           y(i) == [ino EXCEPT !.data = Image[i - 1].data, !.blks = <<meta + i - 1>>]
<1>5. inode = [i \in Ino |-> IF i = ROOTINO THEN x ELSE IF i - 1 \in DOMAIN Image THEN y(i) ELSE NoInode]
  BY Zenon DEF Mkfs, RootData
<1> HIDE DEF n, more, meta
<1>7. IsInode(x)
  <2>1. DOMAIN x = DOMAIN NoInode /\ x.type = "dir" /\ x.data = RootData
    BY DEF NoInode
  <2> HIDE DEF x
  <2> QED
    BY <2>1, RootIs DEF IsInode
<1>8. \A i : IsInode(y(i))
  BY DEF IsInode, NoInode
<1> HIDE DEF x, y
<1>9. IsInode(NoInode)
  BY DEF IsInode, NoInode
<1>10. inode = [i \in Ino |-> inode[i]]
  BY <1>5, Zenon
<1> QED
  BY <1>5, <1>7, <1>8, <1>9, <1>10

\* The pointers of the first state: the current directory of the first process.
LEMMA FirstPointers ==
  ASSUME Init, NEW i \in Ino
  PROVE  icache[i].ref = Cardinality(Pointers(i))
<1>1. 1 \in Proc /\ 0 \notin Ino
  BY Sizes DEF Proc, Ino
<1>2. \A f \in 1..NFILE : ~(ftable[f].ref > 0)
  BY DEF Init, NoFile
<1>3. \A q \in Proc : /\ th[q].ip = 0 /\ th[q].dp = 0 /\ th[q].at = 0 /\ th[q].puts = <<>> /\ th[q].pc = "user"
                      /\ proc[q].cwd = IF q = 1 THEN ROOTINO ELSE 0
  BY DEF Init, NewThread, NoProc
<1>4. \A q \in Proc : DOMAIN th[q].puts = {}
  BY <1>3
<1>5. Pointers(i) = {<<"cwd", q, 0>> : q \in {r \in Proc : proc[r].cwd = i /\ th[r].pc # "chdir2"}}
  BY <1>1, <1>2, <1>3, <1>4 DEF Pointers
<1>6. CASE i = ROOTINO
  <2>1. {r \in Proc : proc[r].cwd = i /\ th[r].pc # "chdir2"} = {1}
    BY <1>1, <1>3, <1>6
  <2>2. Pointers(i) = {<<"cwd", 1, 0>>}
    BY <1>5, <2>1
  <2>3. icache[i].ref = 1
    BY <1>6 DEF Init
  <2> QED
    BY <2>2, <2>3, FS_Singleton
<1>7. CASE i # ROOTINO
  <2>1. {r \in Proc : proc[r].cwd = i /\ th[r].pc # "chdir2"} = {}
    BY <1>1, <1>3, <1>7
  <2>2. Pointers(i) = {}
    BY <1>5, <2>1
  <2>3. icache[i].ref = 0
    BY <1>7 DEF Init
  <2> QED
    BY <2>2, <2>3, FS_EmptySet
<1> QED
  BY <1>6, <1>7

\* The first state satisfies the invariant.
LEMMA InitIs ==
  ASSUME Init
  PROVE  IndInv
<1>1. /\ Mkfs
      /\ icache = [i \in Ino |-> [ref |-> IF i = ROOTINO THEN 1 ELSE 0, valid |-> FALSE, lock |-> 0]]
      /\ ftable = [f \in 1..NFILE |-> NoFile]
      /\ proc = [p \in Proc |-> IF p = 1 THEN [NoProc EXCEPT !.state = "run", !.cwd = ROOTINO] ELSE NoProc]
      /\ th = [p \in Proc |-> NewThread]
  BY DEF Init
<1>2. ROOTINO \in Ino /\ 0 \in 0..NInodes /\ ROOTINO \in 0..NInodes /\ 0 \in 0..NPROC /\ 0 \in 0..NFILE /\ ROOTINO # 0
  BY InoIs, Sizes
<1>3. IsThread(NewThread) /\ Locals(NewThread) /\ Kinds(NewThread)
  <2>1. <<>> \in Paths /\ <<>> \in Puts
    BY PutsFrom DEF Paths
  <2> QED
    BY <1>2, <2>1 DEF NewThread, NoCall, IsThread, Locals, Kinds, HasAt, HasIp, HasDp
<1>4. IsFile(NoFile)
  BY <1>2 DEF IsFile, NoFile
<1>5. IsProc(NoProc) /\ IsProc([NoProc EXCEPT !.state = "run", !.cwd = ROOTINO])
  BY <1>2 DEF IsProc, NoProc
<1>6. Shape
  <2>1. icache \in [Ino -> [ref : Nat, valid : BOOLEAN, lock : 0..NPROC]]
    BY <1>1, <1>2
  <2>2. inode = [i \in Ino |-> inode[i]] /\ \A i \in Ino : IsInode(inode[i])
    BY <1>1, MkfsIs
  <2>3. ftable = [f \in 1..NFILE |-> ftable[f]] /\ \A f \in 1..NFILE : IsFile(ftable[f])
    BY <1>1, <1>4
  <2>4. proc = [p \in Proc |-> proc[p]] /\ \A p \in Proc : IsProc(proc[p])
    BY <1>1, <1>5
  <2>5. th = [p \in Proc |-> th[p]] /\ \A p \in Proc : IsThread(th[p])
    BY <1>1, <1>3
  <2> QED
    BY <2>1, <2>2, <2>3, <2>4, <2>5 DEF Shape
<1>7. ThreadsInv
  <2> SUFFICES ASSUME NEW p \in Proc
               PROVE  Locals(th[p]) /\ Kinds(th[p]) /\ Uses(th[p], proc[p]) /\ Lives(th[p], proc[p])
    BY DEF ThreadsInv
  <2>1. th[p] = NewThread /\ NewThread.pc = "user" /\ NewThread.puts = <<>>
    BY <1>1 DEF NewThread
  <2>2. /\ proc[p].state = "run" => proc[p].cwd = ROOTINO
        /\ proc[p].state # "run" => proc[p].cwd = 0
        /\ \A d \in Fd : proc[p].ofile[d] = 0
    BY <1>1 DEF NoProc
  <2>3. Uses(th[p], proc[p])
    BY <2>1 DEF Uses
  <2>4. Lives(th[p], proc[p])
    BY <1>2, <2>1, <2>2 DEF Lives
  <2> QED
    BY <1>3, <2>1, <2>3, <2>4
<1>8. FilesInv
  BY <1>1 DEF FilesInv, NoFile
<1>9. FilesCounted
  <2> SUFFICES ASSUME NEW f \in 1..NFILE
               PROVE  ftable[f].ref = Cardinality({pd \in Proc \X Fd : proc[pd[1]].ofile[pd[2]] = f})
    BY DEF FilesCounted
  <2>1. ftable[f].ref = 0 /\ f # 0
    BY <1>1 DEF NoFile
  <2>2. \A q \in Proc, d \in Fd : proc[q].ofile[d] = 0
    BY <1>1 DEF NoProc
  <2>3. {pd \in Proc \X Fd : proc[pd[1]].ofile[pd[2]] = f} = {}
    BY <2>1, <2>2
  <2> QED
    BY <2>1, <2>3, FS_EmptySet
<1>10. RefCounts
  BY FirstPointers DEF RefCounts
<1> QED
  BY <1>6, <1>7, <1>8, <1>9, <1>10 DEF IndInv

-----------------------------------------------------------------------------
\* The theorems, for any programs

\* The invariant holds in every reachable state, whatever calls the processes
\* make and however their steps interleave.
THEOREM Invariance == FilesSpec => []IndInv
<1>1. Init => IndInv
  BY InitIs
<1>2. IndInv /\ [FilesNext]_vars => IndInv'
  BY NextKeeps
<1> QED
  BY <1>1, <1>2, PTL DEF FilesSpec

\* The reference count of an open file is the number of descriptors that all
\* processes have for it (file.c, fork(), exit(), sys_dup(), sys_pipe()).
THEOREM FilesCountedHolds == FilesSpec => []FilesCounted
<1>1. IndInv => FilesCounted
  BY DEF IndInv
<1> QED
  BY <1>1, Invariance, PTL

\* The reference count of a cached inode is the number of pointers to it: no
\* path through a system call leaks or loses a reference (fs.c).
THEOREM RefCountsHold == FilesSpec => []RefCounts
<1>1. IndInv => RefCounts
  BY DEF IndInv
<1> QED
  BY <1>1, Invariance, PTL

-----------------------------------------------------------------------------
\* balloc()

\* A finite set of numbers with k - 1 elements below one of them, for each k
\* up to its size.
LEMMA Ranked ==
  ASSUME NEW S \in SUBSET Nat, IsFiniteSet(S), NEW k \in Nat, k < Cardinality(S)
  PROVE  \E b \in S : Cardinality({c \in S : c < b}) = k
<1> DEFINE Below(b) == {c \in S : c < b}
           Bad == {j \in Nat : j < Cardinality(S) /\ \A b \in S : Cardinality(Below(b)) # j}
<1>1. SUFFICES ASSUME Bad # {} PROVE FALSE
  OBVIOUS
<1>2. \A b \in S : IsFiniteSet(Below(b))
  BY FS_Subset
<1>3. Cardinality(S) \in Nat /\ \A b \in S : Cardinality(Below(b)) \in Nat
  BY <1>2, FS_CardinalityType
<1>4. Bad \in SUBSET Nat
  OBVIOUS
<1>5. PICK j \in Bad : \A i \in Bad : j <= i
  BY <1>1, <1>4, LeastNat
<1>6. j \in Nat /\ j < Cardinality(S) /\ \A b \in S : Cardinality(Below(b)) # j
  BY <1>5
\* The elements above the one of rank j - 1, or all of them.
<1>7. \E T \in SUBSET S : /\ T # {} /\ \A c \in S : c \notin T => \A d \in T : c < d
                          /\ IsFiniteSet(S \ T) /\ Cardinality(S \ T) = j
  <2>1. CASE j = 0
    <3>1. S # {}
      BY <1>6, <2>1, FS_EmptySet
    <3>2. S \ S = {}
      OBVIOUS
    <3> QED
      BY <2>1, <3>1, <3>2, FS_EmptySet
  <2>2. CASE j # 0
    <3>1. j - 1 \in Nat /\ j - 1 < Cardinality(S) /\ j - 1 \notin Bad
      BY <1>3, <1>5, <1>6, <2>2
    <3>2. PICK b \in S : Cardinality(Below(b)) = j - 1
      BY <3>1
    <3> DEFINE T == {c \in S : b < c}
    <3>3. S \ T = Below(b) \cup {b} /\ b \notin Below(b)
      <4>1. \A c \in S : c \in Nat /\ (~(b < c) <=> c < b \/ c = b) /\ ~(b < b)
        OBVIOUS
      <4> QED
        BY <4>1
    <3>4. IsFiniteSet(S \ T) /\ Cardinality(S \ T) = j
      <4>1. PICK B : B = Below(b)
        OBVIOUS
      <4>2. IsFiniteSet(B) /\ Cardinality(B) = j - 1 /\ S \ T = B \cup {b} /\ b \notin B
        BY <1>2, <3>2, <3>3, <4>1
      <4>3. IsFiniteSet(B \cup {b}) /\ Cardinality(B \cup {b}) = Cardinality(B) + 1
        BY <4>2, FS_AddElement
      <4> QED
        BY <1>6, <4>2, <4>3
    <3>5. T # {}
      <4>1. T = {} => S \ T = S
        OBVIOUS
      <4> QED
        BY <1>6, <3>4, <4>1
    <3>6. \A c \in S : c \notin T => \A d \in T : c < d
      OBVIOUS
    <3> QED
      BY <3>4, <3>5, <3>6
  <2> QED
    BY <2>1, <2>2
<1>8. PICK T \in SUBSET S : /\ T # {} /\ \A c \in S : c \notin T => \A d \in T : c < d
                            /\ IsFiniteSet(S \ T) /\ Cardinality(S \ T) = j
  BY <1>7
<1>9. T \in SUBSET Nat
  OBVIOUS
<1>10. PICK m \in T : \A d \in T : m <= d
  BY <1>8, <1>9, LeastNat
<1>11. m \in S /\ Below(m) = S \ T
  <2>1. \A c \in S : c < m <=> c \notin T
    <3>1. ASSUME NEW c \in S PROVE c \in Nat /\ m \in Nat /\ (c \in T => m <= c) /\ (c \notin T => c < m)
      BY <1>8, <1>9, <1>10
    <3> QED
      BY <3>1
  <2> QED
    BY <1>10, <2>1
<1> QED
  BY <1>6, <1>8, <1>11

\* The free blocks of a map.
FreeBlocks(u) == Blk \ u

\* They are finitely many.
LEMMA FreeBlocksIs ==
  ASSUME NEW u
  PROVE  IsFiniteSet(FreeBlocks(u)) /\ FreeBlocks(u) \in SUBSET Nat /\ Cardinality(FreeBlocks(u)) \in Nat
<1>1. NBLOCKS \in Int /\ 1 \in Int
  BY Sizes
<1>2. IsFiniteSet(Blk) /\ Blk \in SUBSET Nat
  BY <1>1, FS_Interval DEF Blk
<1> QED
  BY <1>2, FS_Subset, FS_CardinalityType DEF FreeBlocks

\* balloc() finds the kth free block while there are so many, and another one
\* for every k.
LEMMA BallocIs ==
  ASSUME NEW u, NEW k \in Nat \ {0}, k <= Cardinality(FreeBlocks(u))
  PROVE  /\ Balloc(u, k) \in FreeBlocks(u)
         /\ Cardinality({c \in FreeBlocks(u) : c < Balloc(u, k)}) = k - 1
<1>1. IsFiniteSet(FreeBlocks(u)) /\ FreeBlocks(u) \in SUBSET Nat /\ Cardinality(FreeBlocks(u)) \in Nat
  BY FreeBlocksIs
<1>2. k - 1 \in Nat /\ k - 1 < Cardinality(FreeBlocks(u))
  BY <1>1
<1>3. PICK j : j = k - 1
  OBVIOUS
<1>4. \E b \in FreeBlocks(u) : Cardinality({c \in FreeBlocks(u) : c < b}) = j
  BY <1>1, <1>2, <1>3, Ranked
<1>5. Balloc(u, k) = CHOOSE b \in FreeBlocks(u) : Cardinality({c \in FreeBlocks(u) : c < b}) = j
  BY <1>3 DEF Balloc, FreeBlocks
<1> QED
  BY <1>3, <1>4, <1>5

\* A function that maps 1..k to different values.
OneToOne(f, k) == \A i, j \in 1..k : f[i] = f[j] => i = j

\* The values of a function on 1..k.
IsImage(D, f, k) == D = {f[j] : j \in 1..k}

\* They are k values.
LEMMA Distinct ==
  ASSUME NEW k \in Nat, NEW f, NEW D, IsImage(D, f, k), OneToOne(f, k)
  PROVE  IsFiniteSet(D) /\ Cardinality(D) = k
<1>1. IsFiniteSet(1..k) /\ Cardinality(1..k) = k
  <2>1. k \in Int /\ 1 \in Int
    OBVIOUS
  <2> QED
    BY <2>1, FS_Interval
<1> DEFINE g == [j \in 1..k |-> f[j]]
<1>2. g \in [1..k -> D]
  BY DEF IsImage
<1>3. \A i, j \in 1..k : g[i] = g[j] => i = j
  BY DEF OneToOne
<1>4. \A d \in D : \E j \in 1..k : g[j] = d
  BY DEF IsImage
<1>5. g \in Bijection(1..k, D)
  BY <1>2, <1>3, <1>4, Zenon DEF Bijection, Injection, Surjection, IsInjective
<1>6. PICK K : K = 1..k
  OBVIOUS
<1>7. g \in Bijection(K, D) /\ IsFiniteSet(K) /\ Cardinality(K) = k
  BY <1>1, <1>5, <1>6
<1> HIDE DEF g
<1>8. IsFiniteSet(D) /\ Cardinality(D) = Cardinality(K)
  <2>1. ExistsBijection(K, D)
    BY <1>7, Zenon DEF ExistsBijection
  <2> QED
    BY <1>7, <2>1, FS_Bijection, Zenon
<1> QED
  BY <1>7, <1>8

\* The blocks balloc() returns for 1..k.
Allocs(new, u, k) == new = [j \in 1..k |-> Balloc(u, j)]

\* k blocks that are free and all different.
AreFree(new, u, k) ==
  /\ new \in Seq(Nat) /\ Len(new) = k
  /\ {new[j] : j \in 1..k} = {Balloc(u, j) : j \in 1..k}
  /\ \A j \in 1..k : new[j] \in Blk \ u
  /\ IsFiniteSet({new[j] : j \in 1..k}) /\ Cardinality({new[j] : j \in 1..k}) = k

\* balloc() returns such blocks.
LEMMA NewBlocks ==
  ASSUME NEW u, NEW k \in Nat, k <= Cardinality(Blk \ u), NEW new, Allocs(new, u, k)
  PROVE  AreFree(new, u, k)
<1>0. Cardinality(FreeBlocks(u)) \in Nat /\ FreeBlocks(u) = Blk \ u
  BY FreeBlocksIs DEF FreeBlocks
<1>1. \A j \in 1..k : new[j] = Balloc(u, j) /\ j \in Nat \ {0} /\ j <= Cardinality(FreeBlocks(u))
  BY <1>0 DEF Allocs
<1>2. ASSUME NEW j \in 1..k
      PROVE  new[j] \in FreeBlocks(u) /\ Cardinality({c \in FreeBlocks(u) : c < new[j]}) = j - 1
  BY <1>1, BallocIs
<1>3. \A j \in 1..k : new[j] \in Blk \ u /\ new[j] \in Nat
  BY <1>2, FreeBlocksIs DEF FreeBlocks
<1>4. ASSUME NEW i \in 1..k, NEW j \in 1..k, new[i] = new[j] PROVE i = j
  <2>1. i - 1 = j - 1
    BY <1>2, <1>4
  <2> QED
    BY <2>1
<1>5. {new[j] : j \in 1..k} = {Balloc(u, j) : j \in 1..k}
  BY <1>1
<1>6. PICK D : D = {new[j] : j \in 1..k}
  OBVIOUS
<1>7. IsFiniteSet(D) /\ Cardinality(D) = k
  <2>1. OneToOne(new, k) /\ IsImage(D, new, k)
    BY <1>4, <1>6 DEF OneToOne, IsImage
  <2> QED
    BY <2>1, Distinct, Zenon
<1>8. new \in [1..k -> Nat] /\ DOMAIN new = 1..k
  BY <1>3 DEF Allocs
<1>9. new \in Seq(Nat) /\ Len(new) = k
  BY <1>8, SeqOf
<1> QED
  BY <1>3, <1>5, <1>6, <1>7, <1>9 DEF AreFree

\* The values of a sequence.
Vals(s) == {s[k] : k \in DOMAIN s}

\* Those of two sequences one after the other.
LEMMA ValsCat ==
  ASSUME NEW s \in Seq(Nat), NEW t \in Seq(Nat)
  PROVE  s \o t \in Seq(Nat) /\ Len(s \o t) = Len(s) + Len(t) /\ Vals(s \o t) = Vals(s) \cup Vals(t)
<1>1. s \o t \in Seq(Nat) /\ Len(s \o t) = Len(s) + Len(t)
  OBVIOUS
<1>2. Len(s) \in Nat /\ Len(t) \in Nat /\ DOMAIN s = 1..Len(s) /\ DOMAIN t = 1..Len(t) /\ DOMAIN (s \o t) = 1..Len(s)+Len(t)
  OBVIOUS
<1>3. /\ \A k \in 1..Len(s) : (s \o t)[k] = s[k] /\ k \in 1..Len(s)+Len(t)
      /\ \A k \in 1..Len(t) : (s \o t)[Len(s) + k] = t[k] /\ Len(s) + k \in 1..Len(s)+Len(t)
      /\ \A k \in 1..Len(s)+Len(t) : k \in 1..Len(s) \/ (k - Len(s) \in 1..Len(t) /\ (s \o t)[k] = t[k - Len(s)])
  OBVIOUS
<1>4. PICK c : c = s \o t
  OBVIOUS
<1>5. Vals(c) \subseteq Vals(s) \cup Vals(t)
  BY <1>2, <1>3, <1>4 DEF Vals
<1>6. Vals(s) \subseteq Vals(c) /\ Vals(t) \subseteq Vals(c)
  <2>1. ASSUME NEW k \in 1..Len(s) PROVE s[k] \in Vals(c)
    BY <1>2, <1>3, <1>4 DEF Vals
  <2>2. ASSUME NEW k \in 1..Len(t) PROVE t[k] \in Vals(c)
    BY <1>2, <1>3, <1>4 DEF Vals
  <2> QED
    BY <1>2, <2>1, <2>2 DEF Vals
<1> QED
  BY <1>1, <1>4, <1>5, <1>6

\* The length of a part of a sequence.
LEMMA SubSeqLen ==
  ASSUME NEW s, NEW m \in Nat, NEW n \in Nat, m <= n + 1
  PROVE  Len(SubSeq(s, m, n)) = n - m + 1
  OBVIOUS

\* The elements of a sequence behind position a.
LEMMA Behind ==
  ASSUME NEW s \in Seq(Nat), NEW a \in 1..Len(s), NEW y, y = SubSeq(s, a + 1, Len(s))
  PROVE  y \in Seq(Nat) /\ Len(y) = Len(s) - a /\ \A k \in 1..Len(s)-a : y[k] = s[a + k]
<1>1. PICK m, n : m = a + 1 /\ n = Len(s)
  OBVIOUS
<1>2. m \in Nat /\ n \in Nat /\ m <= n + 1 /\ 1 <= m /\ a = m - 1 /\ n - a \in Nat
  BY <1>1
<1>3. DOMAIN s = 1..n /\ (\A k \in 1..n : s[k] \in Nat) /\ y = SubSeq(s, m, n)
  BY <1>1
<1>4. Len(y) = n - m + 1
  BY <1>2, <1>3, SubSeqLen, Zenon
<1>5. \A k \in 1..n-m+1 : y[k] = s[m + k - 1]
  BY <1>2, <1>3
<1>6. y \in Seq(Nat)
  BY <1>2, <1>3
<1>7. \A k \in 1..n-a : y[k] = s[a + k]
  <2> SUFFICES ASSUME NEW k \in 1..n-a PROVE y[k] = s[a + k]
    OBVIOUS
  <2>1. k \in 1..n-m+1 /\ a + k = m + k - 1
    BY <1>2
  <2> QED
    BY <1>5, <2>1
<1>8. Len(y) = n - a
  BY <1>2, <1>4
<1> QED
  BY <1>1, <1>6, <1>7, <1>8, Zenon

\* The elements of a sequence before position a.
LEMMA Before ==
  ASSUME NEW s \in Seq(Nat), NEW a \in 1..Len(s), NEW x, x = SubSeq(s, 1, a - 1)
  PROVE  x \in Seq(Nat) /\ Len(x) = a - 1 /\ \A k \in 1..a-1 : x[k] = s[k]
<1>1. PICK n : n = a - 1
  OBVIOUS
<1>2. 1 \in Nat /\ n \in Nat /\ 1 <= n + 1 /\ n <= Len(s) /\ Len(s) \in Nat
  BY <1>1
<1>3. x = SubSeq(s, 1, n)
  BY <1>1
<1>4. ASSUME NEW k \in 1..n PROVE s[k] \in Nat
  <2>1. k \in 1..Len(s)
    BY <1>2
  <2> QED
    BY <2>1
<1>5. Len(x) = n - 1 + 1
  BY <1>2, <1>3, SubSeqLen, Zenon
<1>6. Len(x) = n
  BY <1>2, <1>5
<1>7. \A k \in 1..n : x[k] = s[k]
  BY <1>2, <1>3
<1>8. x \in Seq(Nat)
  BY <1>2, <1>3, <1>4
<1> QED
  BY <1>1, <1>6, <1>7, <1>8, Zenon

\* A sequence without its element at position a.
LEMMA ValsCut ==
  ASSUME NEW s \in Seq(Nat), NEW a \in 1..Len(s), NEW r, r = SubSeq(s, 1, a - 1) \o SubSeq(s, a + 1, Len(s))
  PROVE  r \in Seq(Nat) /\ Len(r) = Len(s) - 1 /\ Vals(r) \cup {s[a]} = Vals(s)
<1>1. Len(s) \in Nat /\ DOMAIN s = 1..Len(s)
  OBVIOUS
<1>2. PICK x, y : x = SubSeq(s, 1, a - 1) /\ y = SubSeq(s, a + 1, Len(s))
  OBVIOUS
<1>3. x \in Seq(Nat) /\ Len(x) = a - 1 /\ \A k \in 1..a-1 : x[k] = s[k]
  BY <1>2, Before, Zenon
<1>4. y \in Seq(Nat) /\ Len(y) = Len(s) - a /\ \A k \in 1..Len(s)-a : y[k] = s[a + k]
  BY <1>2, Behind, Zenon
<1>5. r \in Seq(Nat) /\ Len(r) = Len(x) + Len(y) /\ Vals(r) = Vals(x) \cup Vals(y)
  BY <1>2, <1>3, <1>4, ValsCat
<1>6. Vals(x) = {s[k] : k \in 1..a-1}
  <2>1. DOMAIN x = 1..a-1
    BY <1>3
  <2> QED
    BY <1>3, <2>1, Zenon DEF Vals
<1>7. Vals(y) = {s[k] : k \in a+1..Len(s)}
  <2>1. DOMAIN y = 1..Len(s)-a
    BY <1>4
  <2>2. \A k \in a+1..Len(s) : k - a \in 1..Len(s)-a /\ y[k - a] = s[k]
    BY <1>1, <1>4
  <2>3. \A k \in 1..Len(s)-a : a + k \in a+1..Len(s) /\ y[k] = s[a + k]
    BY <1>1, <1>4
  <2>4. Vals(y) = {y[k] : k \in 1..Len(s)-a}
    BY <2>1 DEF Vals
  <2>5. \A v : (\E k \in 1..Len(s)-a : v = y[k]) <=> (\E k \in a+1..Len(s) : v = s[k])
    BY <2>2, <2>3
  <2> QED
    BY <2>4, <2>5
<1>8. \A k \in 1..Len(s) : k \in 1..a-1 \/ k = a \/ k \in a+1..Len(s)
  BY <1>1
<1>9. Vals(r) \cup {s[a]} = Vals(s)
  <2>1. \A k \in 1..a-1 : k \in 1..Len(s)
    BY <1>1
  <2>2. \A k \in a+1..Len(s) : k \in 1..Len(s)
    BY <1>1
  <2> QED
    BY <1>1, <1>5, <1>6, <1>7, <1>8, <2>1, <2>2 DEF Vals
<1>10. Len(r) = Len(s) - 1
  <2>0. Len(s) \in Int /\ a - 1 \in Int /\ Len(s) - a \in Int
    BY <1>1
  <2>1. PICK h, i, j \in Int : h = Len(s) /\ i = Len(x) /\ j = Len(y)
    BY <1>3, <1>4, <2>0, Zenon
  <2>2. i = a - 1 /\ j = h - a /\ Len(r) = i + j
    BY <1>3, <1>4, <1>5, <2>1, Zenon
  <2>3. i + j = h - 1
    BY <2>2
  <2> QED
    BY <2>1, <2>2, <2>3, Zenon
<1> QED
  BY <1>5, <1>9, <1>10

-----------------------------------------------------------------------------
\* bmap() and writei()

\* The blocks of an inode with addresses b and indirect block x.
Held2(b, x) == Vals(b) \cup ({x} \ {0})

\* An inode that has as many blocks as addresses.
Exact(n) == IsFiniteSet(Addrs(n)) /\ Cardinality(Addrs(n)) = Len(n.blks) + (IF n.ind = 0 THEN 0 ELSE 1)

\* The map m adds k blocks that were free to those of n, which become nb.
Mapped(m, u, n, nb) ==
  /\ m.k \in Nat /\ m.blks \in Seq(Nat) /\ Len(m.blks) = nb /\ m.ind \in Nat
  /\ m.ind = 0 => nb <= NDIRECT
  /\ \E D : /\ D = {Balloc(u, j) : j \in 1..m.k} /\ D \subseteq Blk \ u
            /\ IsFiniteSet(D) /\ Cardinality(D) = m.k
            /\ Held2(m.blks, m.ind) = Held2(n.blks, n.ind) \cup D
  /\ nb + (IF m.ind = 0 THEN 0 ELSE 1) = Len(n.blks) + (IF n.ind = 0 THEN 0 ELSE 1) + m.k

\* bmap() does that.
LEMMA BmapIs ==
  ASSUME NEW u, NEW n, HasBlocks(n), NEW nb \in Nat, Len(n.blks) <= nb, NEW m, m = Bmap(u, n, nb), m.fits
  PROVE  Mapped(m, u, n, nb)
<1> DEFINE needs == nb > NDIRECT /\ n.ind = 0
           old == Len(n.blks)
           one == IF needs THEN 1 ELSE 0
           at == NDIRECT - old + 1
           k == nb - old + one
           new == [j \in 1..k |-> Balloc(u, j)]
           fits == k <= Cardinality(Blk \ u) /\ nb <= MAXFILE
           ind == IF needs THEN new[at] ELSE n.ind
           blks == n.blks \o IF needs THEN SubSeq(new, 1, at - 1) \o SubSeq(new, at + 1, k) ELSE new
<1>1. m = [fits |-> fits, k |-> k, ind |-> ind, blks |-> blks]
  BY Zenon DEF Bmap
<1> HIDE DEF fits, k, ind, blks
<1>2. m.fits = fits /\ m.k = k /\ m.ind = ind /\ m.blks = blks
  BY <1>1
<1>3. fits
  BY <1>2, Zenon
<1>4. k <= Cardinality(Blk \ u)
  BY <1>3 DEF fits
<1>5. m.k = k /\ m.ind = (IF needs THEN new[at] ELSE n.ind)
      /\ m.blks = n.blks \o IF needs THEN SubSeq(new, 1, at - 1) \o SubSeq(new, at + 1, k) ELSE new
  BY <1>2, Zenon DEF ind, blks
<1> HIDE DEF new, needs, at, old, one
<1>6. /\ n.blks \in Seq(Nat) /\ n.ind \in Nat /\ (n.ind = 0 => old <= NDIRECT) /\ old \in Nat
      /\ old <= nb /\ NDIRECT \in Nat
  BY Sizes DEF HasBlocks, old
<1>7. k \in Nat /\ k = nb - old + one
  BY <1>6 DEF k, one
<1>8. /\ new \in Seq(Nat) /\ Len(new) = k
      /\ {new[j] : j \in 1..k} = {Balloc(u, j) : j \in 1..k}
      /\ \A j \in 1..k : new[j] \in Blk \ u
      /\ IsFiniteSet({new[j] : j \in 1..k}) /\ Cardinality({new[j] : j \in 1..k}) = k
  <2>1. Allocs(new, u, k)
    BY DEF new, Allocs
  <2>2. AreFree(new, u, k)
    BY <1>4, <1>7, <2>1, NewBlocks, Zenon
  <2> QED
    BY <2>2, Zenon DEF AreFree
<1>9. PICK D : D = {Balloc(u, j) : j \in 1..k}
  OBVIOUS
<1>10. D \subseteq Blk \ u /\ IsFiniteSet(D) /\ Cardinality(D) = k /\ Vals(new) = D
  <2>1. Vals(new) = {new[j] : j \in 1..k}
    BY <1>8 DEF Vals
  <2> QED
    BY <1>8, <1>9, <2>1
<1>11. CASE ~needs
  <2>1. m.ind = n.ind /\ m.blks = n.blks \o new /\ one = 0
    BY <1>5, <1>11 DEF one
  <2>2. m.blks \in Seq(Nat) /\ Len(m.blks) = old + k /\ Vals(m.blks) = Vals(n.blks) \cup D
    BY <1>6, <1>8, <1>10, <2>1, ValsCat DEF old
  <2>3. Len(m.blks) = nb
    BY <1>6, <1>7, <2>1, <2>2
  <2>4. Held2(m.blks, m.ind) = Held2(n.blks, n.ind) \cup D
    BY <2>1, <2>2 DEF Held2
  <2>5. m.ind = 0 => nb <= NDIRECT
    BY <1>6, <1>11, <2>1 DEF needs
  <2>6. nb + (IF m.ind = 0 THEN 0 ELSE 1) = old + (IF n.ind = 0 THEN 0 ELSE 1) + k
    BY <1>6, <1>7, <2>1
  <2> QED
    BY <1>5, <1>6, <1>7, <1>9, <1>10, <2>1, <2>2, <2>3, <2>4, <2>5, <2>6 DEF old, Mapped
<1>12. CASE needs
  <2>1. PICK r : r = SubSeq(new, 1, at - 1) \o SubSeq(new, at + 1, k)
    OBVIOUS
  <2>2. m.ind = new[at] /\ m.blks = n.blks \o r /\ one = 1 /\ n.ind = 0
    BY <1>5, <1>12, <2>1 DEF one, needs
  <2>3. at \in 1..k
    BY <1>6, <1>7, <1>12, <2>2 DEF at, needs
  <2>4. r \in Seq(Nat) /\ Len(r) = k - 1 /\ Vals(r) \cup {new[at]} = D
    BY <1>8, <1>10, <2>1, <2>3, ValsCut
  <2>5. m.blks \in Seq(Nat) /\ Len(m.blks) = old + (k - 1) /\ Vals(m.blks) = Vals(n.blks) \cup Vals(r)
    BY <1>6, <2>2, <2>4, ValsCat DEF old
  <2>6. Len(m.blks) = nb
    BY <1>6, <1>7, <2>2, <2>5
  <2>7. m.ind \in Nat /\ m.ind # 0
    BY <1>8, <2>2, <2>3, Sizes DEF Blk
  <2>8. Held2(m.blks, m.ind) = Held2(n.blks, n.ind) \cup D
    BY <2>2, <2>4, <2>5, <2>7 DEF Held2
  <2>9. nb + (IF m.ind = 0 THEN 0 ELSE 1) = old + (IF n.ind = 0 THEN 0 ELSE 1) + k
    BY <1>6, <1>7, <2>2, <2>7
  <2> QED
    BY <1>5, <1>7, <1>9, <1>10, <2>5, <2>6, <2>7, <2>8, <2>9 DEF old, Mapped
<1> QED
  BY <1>11, <1>12

\* The number of blocks for so many units.
LEMMA BlocksIs ==
  ASSUME NEW l \in Nat
  PROVE  Blocks(l) \in Nat
<1>1. BSIZE \in Nat \ {0} /\ l + BSIZE - 1 \in Nat
  BY Sizes
<1>2. PICK a \in Nat : a = l + BSIZE - 1
  BY <1>1
<1>3. a \div BSIZE \in Nat
  BY <1>1
<1> QED
  BY <1>2, <1>3 DEF Blocks

\* The inode n becomes m and the free map u becomes v: blocks that were free
\* are added to both.
Grows(u, n, v, m) ==
  /\ HasBlocks(m)
  /\ \E D : /\ D \cap u = {} /\ v = u \cup D /\ Addrs(m) = Addrs(n) \cup D /\ IsFiniteSet(D)
            /\ Len(m.blks) + (IF m.ind = 0 THEN 0 ELSE 1) = Len(n.blks) + (IF n.ind = 0 THEN 0 ELSE 1) + Cardinality(D)

\* writei() that finds room does that.
LEMMA WriteiGrows ==
  ASSUME NEW u, NEW n, IsInode(n), HasBlocks(n), n.type # "free", NEW off \in Int, NEW us, Len(us) \in Nat,
         NEW w, w = Writei(u, n, off, us), w.fits
  PROVE  Grows(u, n, w.used, w.ino)
<1> DEFINE len == IF off + Len(us) > Len(n.data) THEN off + Len(us) ELSE Len(n.data)
           nb == IF Blocks(len) > Len(n.blks) THEN Blocks(len) ELSE Len(n.blks)
           m == Bmap(u, n, nb)
           data == [j \in 1..len |-> IF j \in off+1..off+Len(us) THEN us[j - off] ELSE n.data[j]]
           D == {Balloc(u, j) : j \in 1..m.k}
           v == IF m.fits THEN u \cup D ELSE u
           x == IF m.fits THEN [n EXCEPT !.blks = m.blks, !.ind = m.ind, !.data = data] ELSE n
           fits == m.fits
<1>1. w = [fits |-> fits, used |-> v, ino |-> x]
  BY Zenon DEF Writei
<1>2. n.blks \in Seq(Nat) /\ n.ind \in Nat /\ Len(n.data) \in Nat /\ Len(n.blks) \in Nat
  BY DEF HasBlocks
<1>3. len \in Nat /\ Blocks(len) \in Nat
  <2>1. len \in Nat
    BY <1>2
  <2> QED
    BY <2>1, BlocksIs
<1> HIDE DEF fits, v, x
<1>4. w.fits = fits /\ w.used = v /\ w.ino = x
  BY <1>1
<1>5. fits
  BY <1>4, Zenon
<1>6. m.fits
  BY <1>5 DEF fits
<1>7. w.used = u \cup D /\ w.ino = [n EXCEPT !.blks = m.blks, !.ind = m.ind, !.data = data]
  BY <1>4, <1>6, Zenon DEF v, x
<1> HIDE DEF len, data, m
<1>8. nb \in Nat /\ Len(n.blks) <= nb /\ Blocks(len) <= nb
  BY <1>2, <1>3
<1> HIDE DEF nb
<1>9. Mapped(m, u, n, nb)
  <2>1. m = Bmap(u, n, nb)
    BY DEF m
  <2> QED
    BY <1>6, <1>8, <2>1, BmapIs, Zenon
<1> HIDE DEF D
<1>10. PICK E : /\ E = D /\ E \subseteq Blk \ u /\ IsFiniteSet(E) /\ Cardinality(E) = m.k
                /\ Held2(m.blks, m.ind) = Held2(n.blks, n.ind) \cup E
  BY <1>9 DEF D, Mapped
<1>11. PICK i : i = w.ino
  OBVIOUS
<1>12. i.blks = m.blks /\ i.ind = m.ind /\ i.data = data /\ i.type = n.type
  <2>1. DOMAIN n = {"type", "nlink", "data", "blks", "ind"}
    BY DEF IsInode, NoInode
  <2> QED
    BY <1>7, <1>11, <2>1
<1>13. Len(data) = len
  BY <1>3 DEF data
<1>14. HasBlocks(i)
  BY <1>3, <1>8, <1>9, <1>12, <1>13 DEF HasBlocks, Mapped
<1>15. Addrs(i) = Addrs(n) \cup E
  BY <1>10, <1>12 DEF Addrs, Held2, Vals
<1>16. Len(i.blks) + (IF i.ind = 0 THEN 0 ELSE 1) = Len(n.blks) + (IF n.ind = 0 THEN 0 ELSE 1) + Cardinality(E)
  BY <1>9, <1>10, <1>12 DEF Mapped
<1>17. E \cap u = {} /\ w.used = u \cup E
  BY <1>7, <1>10
<1> QED
  BY <1>10, <1>11, <1>14, <1>15, <1>16, <1>17, Zenon DEF Grows

\* A write inside an inode's content leaves its blocks alone.
SameBlks(n, m) == m.blks = n.blks /\ m.ind = n.ind /\ m.type = n.type /\ Len(m.data) = Len(n.data)

\* bmap() of blocks that are all there.
LEMMA BmapNone ==
  ASSUME NEW u, NEW n, HasBlocks(n), NEW nb, nb = Len(n.blks), NEW m, m = Bmap(u, n, nb)
  PROVE  m.blks = n.blks /\ m.ind = n.ind
<1> DEFINE needs == nb > NDIRECT /\ n.ind = 0
           old == Len(n.blks)
           at == NDIRECT - old + 1
           k == nb - old + (IF needs THEN 1 ELSE 0)
           new == [j \in 1..k |-> Balloc(u, j)]
           fits == k <= Cardinality(Blk \ u) /\ nb <= MAXFILE
           ind == IF needs THEN new[at] ELSE n.ind
           blks == n.blks \o IF needs THEN SubSeq(new, 1, at - 1) \o SubSeq(new, at + 1, k) ELSE new
<1>1. m = [fits |-> fits, k |-> k, ind |-> ind, blks |-> blks]
  BY Zenon DEF Bmap
<1>2. n.blks \in Seq(Nat) /\ old \in Nat /\ (n.ind = 0 => old <= NDIRECT) /\ NDIRECT \in Nat
  BY Sizes DEF HasBlocks
<1>3. ~needs
  BY <1>2
<1>4. k = 0
  BY <1>2, <1>3
<1>5. new = <<>>
  BY <1>4
<1> HIDE DEF fits, k, ind, blks, new, at
<1>6. m.ind = ind /\ m.blks = blks
  BY <1>1
<1>7. blks = n.blks \o new /\ ind = n.ind
  BY <1>3 DEF blks, ind
<1> QED
  BY <1>2, <1>5, <1>6, <1>7

\* writei() inside the content.
LEMMA WriteiInside ==
  ASSUME NEW u, NEW n, IsInode(n), HasBlocks(n), NEW off \in Int, NEW us, Len(us) \in Nat, off + Len(us) <= Len(n.data),
         NEW x, x = Writei(u, n, off, us).ino
  PROVE  SameBlks(n, x)
<1> DEFINE len == IF off + Len(us) > Len(n.data) THEN off + Len(us) ELSE Len(n.data)
           nb == IF Blocks(len) > Len(n.blks) THEN Blocks(len) ELSE Len(n.blks)
           m == Bmap(u, n, nb)
           data == [j \in 1..len |-> IF j \in off+1..off+Len(us) THEN us[j - off] ELSE n.data[j]]
           v == IF m.fits THEN u \cup {Balloc(u, j) : j \in 1..m.k} ELSE u
           y == IF m.fits THEN [n EXCEPT !.blks = m.blks, !.ind = m.ind, !.data = data] ELSE n
           fits == m.fits
<1>1. Writei(u, n, off, us) = [fits |-> fits, used |-> v, ino |-> y]
  BY Zenon DEF Writei
<1>2. n.blks \in Seq(Nat) /\ Len(n.data) \in Nat /\ Len(n.blks) \in Nat /\ Blocks(Len(n.data)) <= Len(n.blks)
  BY DEF HasBlocks
<1>3. len = Len(n.data)
  BY <1>2
<1>4. nb = Len(n.blks)
  <2>1. PICK l \in Nat : l = Len(n.data)
    BY <1>2
  <2>2. Blocks(l) \in Nat
    BY BlocksIs
  <2>3. PICK c, d \in Nat : c = Blocks(l) /\ d = Len(n.blks)
    BY <1>2, <2>2
  <2>4. c <= d /\ nb = IF c > d THEN c ELSE d
    BY <1>2, <1>3, <2>1, <2>3, Zenon
  <2> QED
    BY <2>3, <2>4
<1>5. m.blks = n.blks /\ m.ind = n.ind
  BY <1>4, BmapNone
<1>6. x = y
  <2> HIDE DEF fits, v, y
  <2> QED
    BY <1>1
<1>7. Len(data) = Len(n.data)
  BY <1>2, <1>3
<1> HIDE DEF m, data
<1>8. DOMAIN n = {"type", "nlink", "data", "blks", "ind"}
  BY DEF IsInode, NoInode
<1>9. CASE m.fits
  <2>1. x = [n EXCEPT !.blks = m.blks, !.ind = m.ind, !.data = data]
    BY <1>6, <1>9
  <2>2. x.blks = m.blks /\ x.ind = m.ind /\ x.data = data /\ x.type = n.type
    BY <1>8, <2>1
  <2> QED
    BY <1>5, <1>7, <2>2 DEF SameBlks
<1>10. CASE ~m.fits
  <2>1. x = n
    BY <1>6, <1>10
  <2> QED
    BY <2>1 DEF SameBlks
<1> QED
  BY <1>9, <1>10

-----------------------------------------------------------------------------
\* Owning blocks

\* BlocksOwned with inodes I and free map u, and what is known of each inode.
Owned(I, u) ==
  /\ u = UNION {Addrs(I[i]) : i \in Ino}
  /\ \A i, j \in Ino : i # j => Addrs(I[i]) \cap Addrs(I[j]) = {}
  /\ \A i \in Ino : HasBlocks(I[i]) /\ Exact(I[i])

\* An inode has finitely many blocks.
LEMMA AddrsFinite ==
  ASSUME NEW n, HasBlocks(n)
  PROVE  IsFiniteSet(Addrs(n))
<1>1. n.blks \in Seq(Nat) /\ DOMAIN n.blks = 1..Len(n.blks) /\ Len(n.blks) \in Nat
  BY DEF HasBlocks
<1>2. IsFiniteSet(1..Len(n.blks))
  <2>1. Len(n.blks) \in Int /\ 1 \in Int
    BY <1>1
  <2> QED
    BY <2>1, FS_Interval
<1>3. PICK b, K : b = n.blks /\ K = 1..Len(n.blks)
  OBVIOUS
<1>4. IsFiniteSet({b[k] : k \in K})
  BY <1>2, <1>3, FiniteImage
<1>5. IsFiniteSet({n.ind})
  BY FS_Singleton
<1>6. IsFiniteSet({n.ind} \ {0})
  BY <1>5, FS_Subset
<1>7. Addrs(n) = {b[k] : k \in K} \cup ({n.ind} \ {0})
  BY <1>1, <1>3 DEF Addrs
<1>8. PICK A, B : A = {b[k] : k \in K} /\ B = {n.ind} \ {0}
  OBVIOUS
<1>9. IsFiniteSet(A \cup B)
  BY <1>4, <1>6, <1>8, FS_Union
<1> QED
  BY <1>7, <1>8, <1>9

\* It is the invariant's part about blocks.
LEMMA OwnedIs ==
  ASSUME NEW I, NEW u
  PROVE  Owned(I, u) <=>
           /\ u = UNION {Addrs(I[i]) : i \in Ino}
           /\ \A i, j \in Ino : i # j => Addrs(I[i]) \cap Addrs(I[j]) = {}
           /\ \A i \in Ino : Cardinality(Addrs(I[i])) = Len(I[i].blks) + (IF I[i].ind = 0 THEN 0 ELSE 1)
           /\ \A i \in Ino : HasBlocks(I[i])
  BY AddrsFinite DEF Owned, Exact

\* One inode of I is set to m.
OneSet(I, J, i, m) == i \in Ino /\ \A j \in Ino : J[j] = IF j = i THEN m ELSE I[j]

\* Inodes that grow by free blocks own theirs.
LEMMA GrowsOwned ==
  ASSUME NEW I, NEW J, NEW u, NEW v, NEW i, NEW m, Owned(I, u), OneSet(I, J, i, m), Grows(u, I[i], v, m)
  PROVE  Owned(J, v)
<1>1. PICK n : n = I[i]
  OBVIOUS
<1>2. /\ i \in Ino /\ J[i] = m /\ \A j \in Ino : j # i => J[j] = I[j]
      /\ HasBlocks(m) /\ HasBlocks(n) /\ Exact(n)
  BY <1>1 DEF Owned, OneSet, Grows
<1>3. PICK D : /\ D \cap u = {} /\ v = u \cup D /\ Addrs(m) = Addrs(n) \cup D /\ IsFiniteSet(D)
               /\ Len(m.blks) + (IF m.ind = 0 THEN 0 ELSE 1) = Len(n.blks) + (IF n.ind = 0 THEN 0 ELSE 1) + Cardinality(D)
  BY <1>1 DEF Grows
<1>4. \A j \in Ino : Addrs(I[j]) \subseteq u
  BY DEF Owned
<1>5. \A j \in Ino : Addrs(J[j]) = IF j = i THEN Addrs(I[j]) \cup D ELSE Addrs(I[j])
  BY <1>1, <1>2, <1>3
<1>6. v = UNION {Addrs(J[j]) : j \in Ino}
  <2>1. \A x : x \in v <=> x \in D \/ \E j \in Ino : x \in Addrs(I[j])
    BY <1>3 DEF Owned
  <2>2. \A x : x \in UNION {Addrs(J[j]) : j \in Ino} <=> \E j \in Ino : x \in Addrs(J[j])
    OBVIOUS
  <2>3. \A x : (\E j \in Ino : x \in Addrs(J[j])) <=> x \in D \/ \E j \in Ino : x \in Addrs(I[j])
    BY <1>2, <1>5
  <2> QED
    BY <2>1, <2>2, <2>3
<1>7. \A j, k \in Ino : j # k => Addrs(J[j]) \cap Addrs(J[k]) = {}
  BY <1>3, <1>4, <1>5 DEF Owned
<1>8. Exact(m)
  <2>1. IsFiniteSet(Addrs(n)) /\ Cardinality(Addrs(n)) = Len(n.blks) + (IF n.ind = 0 THEN 0 ELSE 1)
    BY <1>2 DEF Exact
  <2>2. Addrs(n) \cap D = {}
    BY <1>1, <1>2, <1>3, <1>4
  <2>3. /\ IsFiniteSet(Addrs(n) \cup D)
        /\ Cardinality(Addrs(n) \cup D) = Cardinality(Addrs(n)) + Cardinality(D) - Cardinality(Addrs(n) \cap D)
    BY <1>3, <2>1, FS_Union
  <2>4. Cardinality(Addrs(n) \cap D) = 0 /\ Cardinality(D) \in Nat /\ Cardinality(Addrs(n)) \in Nat
    BY <1>3, <2>1, <2>2, FS_EmptySet, FS_CardinalityType
  <2>5. PICK a, b, c, d, e, f, g : /\ a = Cardinality(Addrs(n)) /\ b = Cardinality(D) /\ c = Len(n.blks)
                                  /\ d = (IF n.ind = 0 THEN 0 ELSE 1) /\ e = Len(m.blks)
                                  /\ f = (IF m.ind = 0 THEN 0 ELSE 1) /\ g = Cardinality(Addrs(m))
    OBVIOUS
  <2>6. a \in Nat /\ b \in Nat /\ a = c + d /\ e + f = c + d + b /\ g = a + b - 0
    BY <1>3, <2>1, <2>3, <2>4, <2>5
  <2>7. g = e + f
    BY <2>6
  <2>8. IsFiniteSet(Addrs(m))
    BY <1>3, <2>3
  <2> QED
    BY <2>5, <2>7, <2>8, Zenon DEF Exact
<1>9. \A j \in Ino : HasBlocks(J[j]) /\ Exact(J[j])
  BY <1>2, <1>8 DEF Owned
<1> QED
  BY <1>6, <1>7, <1>9 DEF Owned

\* An inode that is changed beside its blocks.
LEMMA SameGrows ==
  ASSUME NEW u, NEW n, NEW m, HasBlocks(n), SameBlks(n, m)
  PROVE  Grows(u, n, u, m)
<1>1. HasBlocks(m) /\ Addrs(m) = Addrs(n) \cup {} /\ n.blks \in Seq(Nat)
  BY DEF HasBlocks, SameBlks, Addrs
<1>2. IsFiniteSet({}) /\ Cardinality({}) = 0
  BY FS_EmptySet
<1>3. Len(m.blks) + (IF m.ind = 0 THEN 0 ELSE 1) = Len(n.blks) + (IF n.ind = 0 THEN 0 ELSE 1) + Cardinality({})
  <2>1. Len(n.blks) \in Nat /\ m.blks = n.blks /\ m.ind = n.ind
    BY <1>1 DEF SameBlks
  <2>2. PICK c, d, e : c = Len(n.blks) /\ d = (IF n.ind = 0 THEN 0 ELSE 1) /\ e = Cardinality({})
    OBVIOUS
  <2>3. c \in Nat /\ d \in Nat /\ e = 0
    BY <1>2, <2>1, <2>2
  <2>4. c + d = c + d + e
    BY <2>3
  <2> QED
    BY <2>1, <2>2, <2>4, Zenon
<1>4. {} \cap u = {} /\ u = u \cup {}
  OBVIOUS
<1> QED
  BY <1>1, <1>2, <1>3, <1>4, Zenon DEF Grows

\* A free inode has no block.
LEMMA NoInodeIs == Addrs(NoInode) = {} /\ HasBlocks(NoInode) /\ Exact(NoInode)
<1>1. Addrs(NoInode) = {}
  BY DEF Addrs, NoInode
<1>2. HasBlocks(NoInode)
  <2>1. Blocks(0) = 0
    BY Sizes DEF Blocks
  <2> QED
    BY <2>1, Sizes DEF HasBlocks, NoInode
<1>3. NoInode.ind = 0 /\ Len(NoInode.blks) = 0
  BY DEF NoInode
<1> QED
  BY <1>1, <1>2, <1>3, FS_EmptySet DEF Exact

\* An inode that is freed.
LEMMA FreedOwned ==
  ASSUME NEW I, NEW J, NEW u, NEW v, NEW i, Owned(I, u), OneSet(I, J, i, NoInode), v = u \ Addrs(I[i])
  PROVE  Owned(J, v)
<1>1. i \in Ino /\ J[i] = NoInode /\ \A j \in Ino : j # i => J[j] = I[j]
  BY DEF OneSet
<1>2. Addrs(NoInode) = {} /\ HasBlocks(NoInode) /\ Exact(NoInode)
  BY NoInodeIs
<1>3. \A j \in Ino : Addrs(J[j]) = IF j = i THEN {} ELSE Addrs(I[j])
  BY <1>1, <1>2
<1>4. v = UNION {Addrs(J[j]) : j \in Ino}
  BY <1>1, <1>3 DEF Owned
<1>5. \A j, k \in Ino : j # k => Addrs(J[j]) \cap Addrs(J[k]) = {}
  BY <1>3 DEF Owned
<1>6. \A j \in Ino : HasBlocks(J[j]) /\ Exact(J[j])
  BY <1>1, <1>2 DEF Owned
<1> QED
  BY <1>4, <1>5, <1>6 DEF Owned

-----------------------------------------------------------------------------
\* Owning blocks, action by action

\* What the invariant says of the disk, in a form that can be applied to the
\* next state.
LEMMA OwnedNow ==
  ASSUME BlocksInv
  PROVE  Owned(inode, used)
  BY OwnedIs DEF BlocksInv, BlocksOwned

\* It is the invariant's.
LEMMA OwnedNext ==
  ASSUME Owned(inode', used'), Offsets', \A p \in Proc : Transfers(th'[p])
  PROVE  BlocksInv'
<1>1. /\ used' = UNION {Addrs(inode'[i]) : i \in Ino}
      /\ \A i, j \in Ino : i # j => Addrs(inode'[i]) \cap Addrs(inode'[j]) = {}
      /\ \A i \in Ino : Cardinality(Addrs(inode'[i])) = Len(inode'[i].blks) + (IF inode'[i].ind = 0 THEN 0 ELSE 1)
      /\ \A i \in Ino : HasBlocks(inode'[i])
  BY OwnedIs
<1>2. BlocksOwned'
  BY <1>1 DEF BlocksOwned, Addrs
<1> QED
  BY <1>1, <1>2 DEF BlocksInv, HasBlocks, Blocks, Transfers

\* An inode of the next state.
LEMMA OneSetIs ==
  ASSUME Shape, NEW i \in Ino, NEW m, inode' = [inode EXCEPT ![i] = m]
  PROVE  OneSet(inode, inode', i, m)
<1>1. DOMAIN inode = Ino
  BY ShapeIs
<1> QED
  BY <1>1 DEF OneSet

\* An inode whose link count is set.
LEMMA NlinkSame ==
  ASSUME NEW n, IsInode(n), NEW x
  PROVE  SameBlks(n, [n EXCEPT !.nlink = x])
<1>1. DOMAIN n = {"type", "nlink", "data", "blks", "ind"}
  BY DEF IsInode, NoInode
<1> QED
  BY <1>1 DEF SameBlks

\* A step that only sets a link count.
LEMMA LinksOwned ==
  ASSUME IndInv, BlocksInv, NEW i \in Ino, NEW x, inode' = [inode EXCEPT ![i].nlink = x], used' = used
  PROVE  Owned(inode', used')
<1>1. Shape /\ Owned(inode, used) /\ IsInode(inode[i]) /\ HasBlocks(inode[i])
  BY OwnedNow, ShapeIs DEF IndInv, BlocksInv
<1>2. PICK m : m = [inode[i] EXCEPT !.nlink = x]
  OBVIOUS
<1>3. SameBlks(inode[i], m)
  BY <1>1, <1>2, NlinkSame, Zenon
<1>4. inode' = [inode EXCEPT ![i] = m]
  BY <1>2
<1>5. OneSet(inode, inode', i, m)
  BY <1>1, <1>4, OneSetIs, Zenon
<1>6. Grows(used, inode[i], used, m)
  BY <1>1, <1>3, SameGrows, Zenon
<1>7. Owned(inode', used)
  BY <1>1, <1>5, <1>6, GrowsOwned, Zenon
<1> QED
  BY <1>7

\* The first half of iput().
LEMMA IputOwned ==
  ASSUME IndInv, BlocksInv, NEW p \in Proc, Iput(p)
  PROVE  Owned(inode', used')
<1>1. PICK h : h = Head(th[p].puts)
  OBVIOUS
<1>2. /\ th[p].puts # <<>>
      /\ inode' = IF IsLast(h) THEN [inode EXCEPT ![h] = NoInode] ELSE inode
      /\ used' = IF IsLast(h) THEN used \ Addrs(inode[h]) ELSE used
  BY <1>1, Zenon DEF Iput, Itrunc
<1>3. Shape /\ Owned(inode, used)
  BY OwnedNow DEF IndInv
<1>4. h \in Ino
  BY <1>1, <1>2, <1>3, ShapeIs, PutCountTail DEF IsThread
<1>5. CASE IsLast(h)
  <2>1. inode' = [inode EXCEPT ![h] = NoInode] /\ used' = used \ Addrs(inode[h])
    BY <1>2, <1>5
  <2>2. OneSet(inode, inode', h, NoInode)
    BY <1>3, <1>4, <2>1, OneSetIs, Zenon
  <2> QED
    BY <1>3, <2>1, <2>2, FreedOwned, Zenon
<1>6. CASE ~IsLast(h)
  <2>1. inode' = inode /\ used' = used
    BY <1>2, <1>6
  <2> QED
    BY <1>3, <2>1
<1> QED
  BY <1>5, <1>6

\* The units one transaction of write() takes.
LEMMA UnitsIs ==
  ASSUME NEW d, Len(d) \in Nat, NEW k \in 0..Len(d), NEW us, us = SubSeq(d, k + 1, Min2(k + WMAX, Len(d)))
  PROVE  Len(us) \in Nat /\ k + Len(us) \in 0..Len(d)
<1>1. PICK l \in Nat, w \in Nat : l = Len(d) /\ w = WMAX
  BY FilesAssumption
<1>2. PICK n : n = Min2(k + WMAX, Len(d))
  OBVIOUS
<1>3. n \in Nat /\ k <= n /\ n <= l
  BY <1>1, <1>2 DEF Min2
<1>4. PICK m \in Nat : m = k + 1
  BY <1>1
<1>5. m <= n + 1
  BY <1>1, <1>3, <1>4
<1>6. Len(us) = n - m + 1
  <2>1. us = SubSeq(d, m, n)
    BY <1>2, <1>4
  <2>2. m \in Nat /\ n \in Nat /\ m <= n + 1
    BY <1>3, <1>4, <1>5
  <2>3. Len(SubSeq(d, m, n)) = n - m + 1
    BY <2>2, SubSeqLen, Zenon
  <2> QED
    BY <2>1, <2>3, Zenon
<1>7. n - m + 1 = n - k /\ n - k \in Nat /\ k + (n - k) \in 0..l
  BY <1>1, <1>3, <1>4
<1>8. Len(us) = n - k
  BY <1>6, <1>7, Zenon
<1> QED
  BY <1>1, <1>7, <1>8, Zenon

\* The inode of the open file that p reads or writes.
LEMMA FileOf ==
  ASSUME IndInv, NEW p \in Proc, NEW L, At(p, L), th[p].pc \in {"read", "write", "fstat"}
  PROVE  /\ th[p].f \in 1..NFILE /\ ftable[th[p].f].ip \in Ino
         /\ inode[ftable[th[p].f].ip].type # "free"
<1>1. Shape /\ Uses(th[p], proc[p])
  BY AtIs
<1>2. PICK d \in Fd : proc[p].ofile[d] = th[p].f /\ th[p].f \in 1..NFILE /\ ftable[th[p].f].type = "inode"
  BY <1>1 DEF Uses
<1>3. IsFile(ftable[th[p].f]) /\ ftable[th[p].f].ref >= 1
  <2>1. th[p].f # 0
    BY <1>2
  <2> QED
    BY <1>2, <2>1, UsedIs
<1>4. ftable[th[p].f].ip # 0 /\ ftable[th[p].f].ip \in 0..NInodes
  BY <1>2, <1>3 DEF IsFile
<1> QED
  BY <1>2, <1>4, InoIs DEF IndInv, FilesInv

\* One transaction of write().
LEMMA WriteOwned ==
  ASSUME IndInv, BlocksInv, NEW p \in Proc, Write(p)
  PROVE  Owned(inode', used')
<1>1. PICK t, f, i : t = th[p] /\ f = ftable[th[p].f] /\ i = ftable[th[p].f].ip
  OBVIOUS
<1>2. PICK us : us = SubSeq(t.call.data, t.done + 1, Min2(t.done + WMAX, Len(t.call.data)))
  OBVIOUS
<1>3. PICK w : w = Writei(used, inode[i], f.off, us)
  OBVIOUS
<1>4. /\ At(p, {"write"})
      /\ \/ inode' = inode /\ used' = used
         \/ w.fits /\ inode' = [inode EXCEPT ![i] = w.ino] /\ used' = w.used
  BY <1>1, <1>2, <1>3, Zenon DEF Write, disk
<1>5. Shape /\ t.pc = "write" /\ Owned(inode, used)
  BY <1>1, <1>4, AtIs, OwnedNow
<1>6. t.f \in 1..NFILE /\ i \in Ino /\ inode[i].type # "free"
  BY <1>1, <1>4, <1>5, FileOf
<1>7. IsInode(inode[i]) /\ HasBlocks(inode[i]) /\ f.off \in Int
  BY <1>1, <1>5, <1>6, ShapeIs DEF BlocksInv, Offsets
<1>8. Len(us) \in Nat
  <2>1. Len(t.call.data) \in Nat /\ t.done \in 0..Len(t.call.data)
    BY <1>1, <1>5 DEF BlocksInv, Transfers
  <2> QED
    BY <1>2, <2>1, UnitsIs
<1>9. CASE w.fits /\ inode' = [inode EXCEPT ![i] = w.ino] /\ used' = w.used
  <2>1. PICK n, m, o : n = inode[i] /\ m = w.ino /\ o = f.off
    OBVIOUS
  <2>2. Grows(used, n, w.used, m)
    <3>1. w = Writei(used, n, o, us) /\ IsInode(n) /\ HasBlocks(n) /\ n.type # "free" /\ o \in Int
      BY <1>3, <1>6, <1>7, <2>1
    <3> QED
      BY <1>8, <1>9, <2>1, <3>1, WriteiGrows
  <2>3. OneSet(inode, inode', i, m)
    BY <1>5, <1>6, <1>9, <2>1, OneSetIs
  <2> QED
    BY <1>5, <1>9, <2>1, <2>2, <2>3, GrowsOwned
<1>10. CASE inode' = inode /\ used' = used
  BY <1>5, <1>10
<1> QED
  BY <1>4, <1>9, <1>10

\* A new entry of a directory grows it.
LEMMA DirlinkGrows ==
  ASSUME Shape, NEW u, NEW d \in Ino, inode[d].type = "dir", HasBlocks(inode[d]), NEW n, NEW i,
         NEW w, w = Dirlink(u, d, n, i), w.fits
  PROVE  Grows(u, inode[d], w.used, w.ino)
<1>1. IsInode(inode[d]) /\ inode[d].data \in Seq(DirSlots)
  BY ShapeIs DEF IsInode
<1> DEFINE free == DOMAIN inode[d].data \ Entries(d)
           off == IF free = {} THEN Len(inode[d].data) ELSE (CHOOSE k \in free : \A h \in free : k <= h) - 1
<1>2. Len(inode[d].data) \in Nat /\ free \subseteq 1..Len(inode[d].data)
  BY <1>1
<1>3. w = Writei(u, inode[d], off, <<Slot(n, i)>>)
  BY DEF Dirlink
<1> HIDE DEF free
<1>4. off \in Int
  <2>1. CASE free = {}
    BY <1>2, <2>1
  <2>2. CASE free # {}
    <3>1. free \in SUBSET Nat
      BY <1>2
    <3>2. \E k \in free : \A h \in free : k <= h
      BY <2>2, <3>1, LeastNat
    <3>3. PICK c : c = CHOOSE k \in free : \A h \in free : k <= h
      OBVIOUS
    <3>4. c \in free
      BY <3>2, <3>3
    <3>5. off = c - 1
      BY <2>2, <3>3
    <3> QED
      BY <1>2, <3>4, <3>5
  <2> QED
    BY <2>1, <2>2
<1> HIDE DEF off
<1>5. PICK us, o, m : us = <<Slot(n, i)>> /\ o = off /\ m = inode[d]
  OBVIOUS
<1>6. Len(us) \in Nat /\ o \in Int /\ IsInode(m) /\ HasBlocks(m) /\ m.type # "free" /\ w = Writei(u, m, o, us)
  BY <1>1, <1>3, <1>4, <1>5
<1>7. Grows(u, m, w.used, w.ino)
  BY <1>6, WriteiGrows
<1> QED
  BY <1>5, <1>7

\* dirlink() of link().
LEMMA LinkEntryOwned ==
  ASSUME IndInv, BlocksInv, NEW p \in Proc, LinkEntry(p)
  PROVE  Owned(inode', used')
<1>1. PICK d, n, i : d = th[p].dp /\ n = Head(th[p].path) /\ i = th[p].ip
  OBVIOUS
<1>2. PICK w : w = Dirlink(used, d, n, i)
  OBVIOUS
<1>3. /\ At(p, {"link2"})
      /\ \/ inode' = inode /\ used' = used
         \/ w.fits /\ inode' = [inode EXCEPT ![d] = w.ino] /\ used' = w.used
  BY <1>1, <1>2, Zenon DEF LinkEntry, disk
<1>4. /\ Shape /\ Owned(inode, used) /\ th[p].pc = "link2" /\ IsThread(th[p]) /\ Locals(th[p]) /\ Kinds(th[p])
  BY <1>3, AtIs, OwnedNow
<1>5. d \in Ino /\ inode[d].type = "dir"
  BY <1>1, <1>4, InoIs DEF Locals, HasDp, IsThread, Kinds
<1>6. HasBlocks(inode[d])
  BY <1>5 DEF BlocksInv
<1>7. CASE w.fits /\ inode' = [inode EXCEPT ![d] = w.ino] /\ used' = w.used
  <2>1. PICK m : m = w.ino
    OBVIOUS
  <2>2. Grows(used, inode[d], w.used, m)
    BY <1>2, <1>4, <1>5, <1>6, <1>7, <2>1, DirlinkGrows
  <2>3. OneSet(inode, inode', d, m)
    BY <1>4, <1>5, <1>7, <2>1, OneSetIs
  <2> QED
    BY <1>4, <1>7, <2>2, <2>3, GrowsOwned
<1>8. CASE inode' = inode /\ used' = used
  BY <1>4, <1>8
<1> QED
  BY <1>3, <1>7, <1>8

\* The link counts of link() and unlink().
LEMMA CountsOwned ==
  ASSUME IndInv, BlocksInv, NEW p \in Proc, UnlinkCount(p) \/ LinkCount(p) \/ LinkBad(p)
  PROVE  Owned(inode', used')
<1>1. /\ At(p, {"unlink3", "link1", "linkbad"}) /\ used' = used
      /\ inode' = inode \/ \E x : inode' = [inode EXCEPT ![th[p].ip].nlink = x]
  BY DEF UnlinkCount, LinkCount, LinkBad, At
<1>2. th[p].ip \in Ino
  <2>1. Locals(th[p]) /\ IsThread(th[p]) /\ th[p].pc \in {"unlink3", "link1", "linkbad"}
    BY <1>1, AtIs
  <2> QED
    BY <2>1, InoIs DEF Locals, HasIp, IsThread
<1>3. CASE inode' = inode
  BY <1>1, <1>3, OwnedNow
<1>4. ASSUME NEW x, inode' = [inode EXCEPT ![th[p].ip].nlink = x] PROVE Owned(inode', used')
  BY <1>1, <1>2, <1>4, LinksOwned
<1> QED
  BY <1>1, <1>3, <1>4

\* The entry that unlink() clears.
LEMMA UnlinkEraseOwned ==
  ASSUME IndInv, BlocksInv, NEW p \in Proc, UnlinkErase(p)
  PROVE  Owned(inode', used')
<1>0. PICK t : t = th[p]
  OBVIOUS
<1>1. PICK off : off = Find(t.dp, Head(t.path)) - 1
  OBVIOUS
<1>2. PICK n, us : n = inode[t.dp] /\ us = <<NoSlot>>
  OBVIOUS
<1>3. PICK m : m = Writei(used, n, off, us).ino
  OBVIOUS
<1>4. /\ At(p, {"unlink2"}) /\ used' = used
      /\ inode' = inode \/ \E x : inode' = [inode EXCEPT ![t.dp] = [m EXCEPT !.nlink = x]]
  <2>1. /\ At(p, {"unlink2"}) /\ used' = used
        /\ \/ inode' = inode
           \/ inode' = [inode EXCEPT ![t.dp] = [m EXCEPT !.nlink = @ - (IF inode[t.ip].type = "dir" THEN 1 ELSE 0)]]
    BY <1>0, <1>1, <1>2, <1>3, Zenon DEF UnlinkErase
  <2> QED
    BY <2>1
<1>5. Shape /\ Owned(inode, used) /\ t.pc = "unlink2" /\ IsThread(t) /\ Locals(t) /\ Kinds(t)
  BY <1>0, <1>4, AtIs, OwnedNow
<1>6. t.dp \in Ino /\ n.type = "dir"
  BY <1>2, <1>5, InoIs DEF Locals, HasDp, IsThread, Kinds
<1>7. IsInode(n) /\ HasBlocks(n) /\ n.data \in Seq(DirSlots) /\ off \in Int /\ off + 1 <= Len(n.data) /\ Len(n.data) \in Nat
  <2>1. n.data \in Seq(DirSlots) /\ Find(t.dp, Head(t.path)) \in 0..Len(n.data)
    BY <1>2, <1>5, <1>6, DirlookupIs
  <2>2. Len(n.data) \in Nat
    BY <2>1
  <2>3. off \in Int /\ off + 1 <= Len(n.data)
    BY <1>1, <2>1, <2>2
  <2> QED
    BY <1>2, <1>5, <1>6, <2>1, <2>2, <2>3, ShapeIs DEF BlocksInv
<1>8. Len(us) \in Nat /\ off + Len(us) <= Len(n.data) /\ us \in Seq(DirSlots) /\ off <= Len(n.data)
  <2>1. NoSlot \in DirSlots
    <3>1. "" \in {"", ".", ".."} /\ 0 \in 0..NInodes
      BY InoIs
    <3> QED
      BY <3>1, DotIs, Zenon DEF NoSlot
  <2>2. Len(us) = 1 /\ us \in Seq(DirSlots)
    BY <1>2, <2>1
  <2> QED
    BY <1>7, <2>2
<1>9. SameBlks(n, m)
  BY <1>3, <1>7, <1>8, WriteiInside
<1>10. IsInode(m)
  BY <1>3, <1>7, <1>8, WriteiIs
<1>11. CASE inode' = inode
  BY <1>4, <1>5, <1>11
<1>12. ASSUME NEW x, inode' = [inode EXCEPT ![t.dp] = [m EXCEPT !.nlink = x]] PROVE Owned(inode', used')
  <2>1. PICK k : k = [m EXCEPT !.nlink = x]
    OBVIOUS
  <2>2. SameBlks(m, k)
    BY <1>10, <2>1, NlinkSame, Zenon
  <2>3. SameBlks(n, k)
    BY <1>9, <2>2 DEF SameBlks
  <2>4. Grows(used, n, used, k)
    BY <1>7, <2>3, SameGrows, Zenon
  <2>5. OneSet(inode, inode', t.dp, k)
    BY <1>5, <1>6, <1>12, <2>1, OneSetIs
  <2>6. Owned(inode', used)
    BY <1>2, <1>5, <2>4, <2>5, GrowsOwned
  <2> QED
    BY <1>4, <2>6
<1> QED
  BY <1>4, <1>11, <1>12

\* The inode create() initialises has no blocks, as the free one.
LEMMA BareGrows ==
  ASSUME NEW u, NEW n, HasBlocks(n), n.type = "free", NEW ty \in {"dir", "dev", "file"},
         NEW b, b = [NoInode EXCEPT !.type = ty, !.nlink = 1]
  PROVE  Grows(u, n, u, b) /\ HasBlocks(b)
<1>1. b.blks = <<>> /\ b.ind = 0 /\ b.data = <<>> /\ b.type = ty
  BY DEF NoInode
<1>2. n.blks = <<>> /\ n.ind = 0
  BY DEF HasBlocks
<1>3. HasBlocks(b)
  <2>1. Blocks(0) = 0 /\ NDIRECT \in Nat
    BY Sizes DEF Blocks
  <2>2. Len(<<>>) = 0 /\ <<>> \in Seq(Nat)
    OBVIOUS
  <2> QED
    BY <1>1, <2>1, <2>2 DEF HasBlocks
<1>4. Addrs(b) = Addrs(n) \cup {}
  BY <1>1, <1>2 DEF Addrs
<1>5. IsFiniteSet({}) /\ Cardinality({}) = 0 /\ {} \cap u = {} /\ u = u \cup {}
  BY FS_EmptySet
<1>6. Len(b.blks) + (IF b.ind = 0 THEN 0 ELSE 1) = Len(n.blks) + (IF n.ind = 0 THEN 0 ELSE 1) + Cardinality({})
  BY <1>1, <1>2, <1>5
<1> QED
  BY <1>3, <1>4, <1>5, <1>6, Zenon DEF Grows

\* What the new inode of create() is made of.
Dotted(ip, dp, ty, b, dots) ==
  dots = IF ty = "dir" THEN Writei(used, b, 0, <<Slot(".", ip), Slot("..", dp)>>)
         ELSE [fits |-> TRUE, ino |-> b, used |-> used]

\* The new inode grows by the blocks of its dots.
LEMMA DotsGrow ==
  ASSUME NEW ty \in {"dir", "dev", "file"}, NEW b, b = [NoInode EXCEPT !.type = ty, !.nlink = 1], HasBlocks(b),
         NEW ip, NEW dp, NEW dots, Dotted(ip, dp, ty, b, dots), dots.fits
  PROVE  Grows(used, b, dots.used, dots.ino)
<1>1. IsInode(b) /\ b.type # "free"
  BY BareIs
<1>2. CASE ty = "dir"
  <2>1. PICK us, o : us = <<Slot(".", ip), Slot("..", dp)>> /\ o = 0
    OBVIOUS
  <2>2. dots = Writei(used, b, o, us) /\ Len(us) \in Nat /\ o \in Int
    BY <1>2, <2>1 DEF Dotted
  <2> QED
    BY <1>1, <2>2, WriteiGrows
<1>3. CASE ty # "dir"
  <2>1. dots.used = used /\ dots.ino = b
    BY <1>3 DEF Dotted
  <2>2. SameBlks(b, b)
    BY DEF SameBlks
  <2>3. Grows(used, b, used, b)
    BY <2>2, SameGrows
  <2> QED
    BY <2>1, <2>3
<1> QED
  BY <1>2, <1>3

\* Two inodes of I are set.
TwoSet(I, J, i, j, a, e) ==
  i \in Ino /\ j \in Ino /\ i # j /\ \A k \in Ino : J[k] = IF k = j THEN e ELSE IF k = i THEN a ELSE I[k]

\* They grow one after the other.
LEMMA TwoGrow ==
  ASSUME NEW I, NEW J, NEW u, Owned(I, u), NEW i, NEW j,
         NEW b, NEW a, NEW m, NEW e, NEW v, NEW w,
         Grows(u, I[i], u, b), Grows(u, b, v, a), Grows(v, I[j], w, m), Grows(w, m, w, e),
         TwoSet(I, J, i, j, a, e)
  PROVE  Owned(J, w)
<1>1. PICK X, Y, Z : /\ X = [k \in Ino |-> IF k = i THEN b ELSE I[k]]
                     /\ Y = [k \in Ino |-> IF k = i THEN a ELSE I[k]]
                     /\ Z = [k \in Ino |-> IF k = i THEN a ELSE IF k = j THEN m ELSE I[k]]
  OBVIOUS
<1>2. OneSet(I, X, i, b) /\ OneSet(X, Y, i, a) /\ OneSet(Y, Z, j, m) /\ OneSet(Z, J, j, e)
  BY <1>1 DEF OneSet, TwoSet
<1>3. X[i] = b /\ Y[j] = I[j] /\ Z[j] = m
  BY <1>1 DEF TwoSet
<1>4. Owned(X, u)
  BY <1>2, GrowsOwned, Zenon
<1>5. Owned(Y, v)
  BY <1>2, <1>3, <1>4, GrowsOwned
<1>6. Owned(Z, w)
  BY <1>2, <1>3, <1>5, GrowsOwned
<1> QED
  BY <1>2, <1>3, <1>6, GrowsOwned

\* create() of a new name.
LEMMA CreateNewOwned ==
  ASSUME IndInv, BlocksInv, NEW p \in Proc, CreateNew(p)
  PROVE  Owned(inode', used')
<1>0. PICK t, ip : t = th[p] /\ ip = Ialloc
  OBVIOUS
<1>1. PICK dp, ty, n : dp = t.dp /\ ty = TypeOf(t.call.op) /\ n = Head(t.path)
  OBVIOUS
<1>2. PICK b : b = [NoInode EXCEPT !.type = ty, !.nlink = 1]
  OBVIOUS
<1>3. PICK dots : dots = IF ty = "dir" THEN Writei(used, b, 0, <<Slot(".", ip), Slot("..", dp)>>)
                         ELSE [fits |-> TRUE, ino |-> b, used |-> used]
  OBVIOUS
<1>4. PICK ent : ent = Dirlink(dots.used, dp, n, ip)
  OBVIOUS
<1>5. PICK a, m : a = dots.ino /\ m = ent.ino
  OBVIOUS
<1>6. PICK e : e = [m EXCEPT !.nlink = DotDot(@, ty)]
  OBVIOUS
<1>7. /\ At(p, {"create1"}) /\ ip # 0 /\ dots.fits /\ ent.fits
      /\ inode' = [inode EXCEPT ![ip] = a, ![dp] = e] /\ used' = ent.used
  BY <1>0, <1>1, <1>2, <1>3, <1>4, <1>5, <1>6, Zenon DEF CreateNew
<1>8. Shape /\ Owned(inode, used) /\ t.pc = "create1" /\ IsThread(t) /\ Locals(t) /\ Kinds(t)
  BY <1>0, <1>7, AtIs, OwnedNow
<1>9. dp \in Ino /\ inode[dp].type = "dir" /\ t.path # <<>>
  BY <1>1, <1>8, InoIs DEF Locals, HasDp, IsThread, Kinds
<1>10. ip \in Ino /\ inode[ip].type = "free" /\ ip \in 0..NInodes
  BY <1>0, <1>7, IallocIs, InoIs
<1>11. ty \in {"dir", "dev", "file"}
  BY <1>1 DEF TypeOf
<1>12. ip # dp /\ HasBlocks(inode[ip]) /\ HasBlocks(inode[dp])
  BY <1>9, <1>10 DEF BlocksInv
<1>13. Grows(used, inode[ip], used, b) /\ HasBlocks(b)
  BY <1>2, <1>10, <1>11, <1>12, BareGrows
<1>14. PICK v, w : v = dots.used /\ w = ent.used
  OBVIOUS
<1>15. Grows(used, b, v, a)
  <2>1. Dotted(ip, dp, ty, b, dots)
    BY <1>3, Zenon DEF Dotted
  <2> QED
    BY <1>2, <1>5, <1>7, <1>11, <1>13, <1>14, <2>1, DotsGrow
<1>16. Grows(v, inode[dp], w, m)
  BY <1>4, <1>5, <1>7, <1>8, <1>9, <1>12, <1>14, DirlinkGrows
<1>17. Grows(w, m, w, e)
  <2>1. n \in STRING
    BY <1>1, <1>8, <1>9 DEF IsThread, Paths
  <2>2. IsInode(m)
    BY <1>4, <1>5, <1>8, <1>9, <1>10, <2>1, DirlinkIs, Zenon
  <2>3. PICK x : e = [m EXCEPT !.nlink = x]
    BY <1>6
  <2>4. SameBlks(m, e)
    BY <2>2, <2>3, NlinkSame
  <2>5. HasBlocks(m)
    BY <1>16 DEF Grows
  <2> QED
    BY <2>4, <2>5, SameGrows, Zenon
<1>18. \A k \in Ino : inode'[k] = IF k = dp THEN e ELSE IF k = ip THEN a ELSE inode[k]
  <2>1. DOMAIN inode = Ino
    BY <1>8, ShapeIs
  <2> QED
    BY <1>7, <1>9, <1>10, <1>12, <2>1
<1>19. TwoSet(inode, inode', ip, dp, a, e)
  BY <1>9, <1>10, <1>12, <1>18 DEF TwoSet
<1>20. Owned(inode', w)
  BY <1>8, <1>13, <1>15, <1>16, <1>17, <1>19, TwoGrow, Zenon
<1> QED
  BY <1>7, <1>14, <1>20

\* Every step owns its blocks.
LEMMA KernelOwned ==
  ASSUME IndInv, BlocksInv, NEW p \in Proc, Kernel(p)
  PROVE  Owned(inode', used')
<1>1. CASE Iput(p) \/ Write(p) \/ CreateNew(p)
  BY <1>1, IputOwned, WriteOwned, CreateNewOwned, Zenon
<1>2. CASE UnlinkErase(p) \/ UnlinkCount(p) \/ LinkCount(p) \/ LinkEntry(p) \/ LinkBad(p)
  BY <1>2, UnlinkEraseOwned, CountsOwned, LinkEntryOwned, Zenon
<1>3. ASSUME inode' = inode /\ used' = used PROVE Owned(inode', used')
  BY <1>3, OwnedNow
<1>4. CASE Drop(p) \/ Namex(p) \/ Open(p) \/ Read(p) \/ Fstat(p) \/ CreateExisting(p) \/ CreateKeep(p) \/ Made(p)
  <2>1. inode' = inode /\ used' = used
    BY <1>4, Zenon DEF Drop, Namex, Open, Read, Fstat, CreateExisting, CreateKeep, Made, disk
  <2> QED
    BY <1>3, <2>1
<1>5. CASE UnlinkFind(p) \/ UnlinkBad(p) \/ LinkExists(p) \/ ChdirCheck(p) \/ ChdirSet(p) \/ Exec(p) \/ Exit(p)
  <2>1. inode' = inode /\ used' = used
    BY <1>5 DEF UnlinkFind, UnlinkBad, LinkExists, ChdirCheck, ChdirSet, Exec, Exit, disk
  <2> QED
    BY <1>3, <2>1
<1> QED
  BY <1>1, <1>2, <1>4, <1>5, Zenon DEF Kernel

\* A call that enters the kernel writes nothing yet.
LEMMA CallOwned ==
  ASSUME BlocksInv, NEW p \in Proc, NEW c, Call(p, c)
  PROVE  Owned(inode', used')
<1>1. inode' = inode /\ used' = used
  BY Zenon DEF Call, PathCall, FdCall, Dup, Close, Pipe, Fork, Wait, disk
<1> QED
  BY <1>1, OwnedNow

-----------------------------------------------------------------------------
\* The offsets of open files

\* One open file is set.
LEMMA OffsetOne ==
  ASSUME Offsets, NEW f, NEW e, e.off \in Nat, ftable' = [ftable EXCEPT ![f] = e]
  PROVE  Offsets'
  BY DEF Offsets

\* An open file is closed.
LEMMA CloseOffsets ==
  ASSUME IndInv, Offsets, NEW f \in 1..NFILE, ftable' = Fileclose(ftable, f)
  PROVE  Offsets'
<1>1. PICK x : x = ftable[f]
  OBVIOUS
<1>2. PICK e : e = IF x.ref > 1 THEN [x EXCEPT !.ref = x.ref - 1] ELSE NoFile
  OBVIOUS
<1>3. ftable' = [ftable EXCEPT ![f] = e]
  BY <1>1, <1>2, Zenon DEF Fileclose
<1>4. DOMAIN x = {"ref", "type", "ip", "off", "r", "w"} /\ x.off \in Nat
  BY <1>1, ShapeIs DEF IndInv, IsFile, NoFile, Offsets
<1>5. e.off \in Nat
  BY <1>2, <1>4 DEF NoFile
<1> QED
  BY <1>3, <1>5, OffsetOne, Zenon

\* An open file is moved.
LEMMA MovedOffsets ==
  ASSUME IndInv, Offsets, NEW f \in 1..NFILE, NEW k \in Nat,
         ftable' = [ftable EXCEPT ![f].off = Advance(@, k)]
  PROVE  Offsets'
<1>1. PICK x : x = ftable[f]
  OBVIOUS
<1>2. DOMAIN x = {"ref", "type", "ip", "off", "r", "w"} /\ x.off \in Nat /\ DOMAIN ftable = 1..NFILE
  BY <1>1, ShapeIs DEF IndInv, IsFile, NoFile, Offsets
<1>3. PICK e : e = [x EXCEPT !.off = Advance(x.off, k)]
  OBVIOUS
<1>4. e.off \in Nat
  BY <1>2, <1>3 DEF Advance
<1>5. ftable' = [ftable EXCEPT ![f] = e]
  BY <1>1, <1>2, <1>3
<1> QED
  BY <1>4, <1>5, OffsetOne, Zenon

\* open() starts at offset 0.
LEMMA OpenOffsets ==
  ASSUME IndInv, Offsets, NEW p \in Proc, Open(p)
  PROVE  Offsets'
<1> DEFINE r == th[p].call.mode # "w"
           w == th[p].call.mode # "r"
           e == [ref |-> 1, type |-> "inode", ip |-> th[p].ip, off |-> 0, r |-> r, w |-> w]
<1>1. ftable' = ftable \/ ftable' = [ftable EXCEPT ![FreeFile(ftable)] = e]
  BY Zenon DEF Open
<1> HIDE DEF r, w
<1>2. e.off \in Nat
  OBVIOUS
<1> HIDE DEF e
<1>3. CASE ftable' = ftable
  BY <1>3 DEF Offsets
<1>4. CASE ftable' = [ftable EXCEPT ![FreeFile(ftable)] = e]
  BY <1>2, <1>4, OffsetOne, Zenon
<1> QED
  BY <1>1, <1>3, <1>4

\* read() moves the offset by what it got.
LEMMA ReadOffsets ==
  ASSUME IndInv, BlocksInv, NEW p \in Proc, Read(p)
  PROVE  Offsets'
<1>1. PICK f, i : f = ftable[th[p].f] /\ i = ftable[th[p].f].ip
  OBVIOUS
<1>2. PICK got, d : d = inode[i].data /\ got = Readi(inode[i], f.off, th[p].call.n)
  OBVIOUS
<1>3. /\ At(p, {"read"})
      /\ \/ ftable' = ftable
         \/ /\ ~(f.off > Len(d))
            /\ ftable' = [ftable EXCEPT ![th[p].f].off = Advance(@, Len(got))]
  BY <1>1, <1>2, Zenon DEF Read
<1>4. Shape /\ th[p].pc = "read"
  BY <1>3, AtIs
<1>5. th[p].f \in 1..NFILE /\ i \in Ino
  BY <1>1, <1>3, <1>4, FileOf
<1>6. Offsets /\ f.off \in Nat /\ th[p].call.n \in Nat /\ Len(d) \in Nat
  BY <1>1, <1>2, <1>4, <1>5 DEF BlocksInv, Offsets, Transfers, HasBlocks
<1>7. CASE ftable' = ftable
  BY <1>6, <1>7 DEF Offsets
<1>8. CASE ~(f.off > Len(d)) /\ ftable' = [ftable EXCEPT ![th[p].f].off = Advance(@, Len(got))]
  <2>1. Len(got) \in Nat
    <3>1. PICK o, n, l, m, h : o = f.off /\ n = th[p].call.n /\ l = Len(d) /\ m = o + 1 /\ h = Min2(o + n, l)
      OBVIOUS
    <3>2. o \in Nat /\ n \in Nat /\ l \in Nat /\ o <= l
      BY <1>6, <1>8, <3>1
    <3>3. m \in Nat /\ h \in Nat /\ m <= h + 1 /\ h - m + 1 \in Nat
      <4>1. m = o + 1 /\ h = IF o + n < l THEN o + n ELSE l
        BY <3>1, Zenon DEF Min2
      <4> QED
        BY <3>2, <4>1
    <3>4. got = SubSeq(d, m, h)
      BY <1>2, <3>1, Zenon DEF Readi
    <3>5. Len(SubSeq(d, m, h)) = h - m + 1
      BY <3>3, SubSeqLen, Zenon
    <3> QED
      BY <3>3, <3>4, <3>5, Zenon
  <2> QED
    BY <1>5, <1>6, <1>8, <2>1, MovedOffsets, Zenon
<1> QED
  BY <1>3, <1>7, <1>8

\* write() moves the offset by what it took.
LEMMA WriteOffsets ==
  ASSUME IndInv, BlocksInv, NEW p \in Proc, Write(p)
  PROVE  Offsets'
<1>1. PICK t : t = th[p]
  OBVIOUS
<1>2. PICK us : us = SubSeq(t.call.data, t.done + 1, Min2(t.done + WMAX, Len(t.call.data)))
  OBVIOUS
<1>3. /\ At(p, {"write"})
      /\ ftable' = ftable \/ ftable' = [ftable EXCEPT ![t.f].off = Advance(@, Len(us))]
  BY <1>1, <1>2, Zenon DEF Write
<1>4. Shape /\ t.pc = "write" /\ t.f \in 1..NFILE /\ Offsets
  BY <1>1, <1>3, AtIs, FileOf DEF BlocksInv
<1>5. Len(us) \in Nat
  <2>1. Len(t.call.data) \in Nat /\ t.done \in 0..Len(t.call.data)
    BY <1>1, <1>4 DEF BlocksInv, Transfers
  <2> QED
    BY <1>2, <2>1, UnitsIs
<1>6. CASE ftable' = ftable
  BY <1>4, <1>6 DEF Offsets
<1>7. CASE ftable' = [ftable EXCEPT ![t.f].off = Advance(@, Len(us))]
  BY <1>4, <1>5, <1>7, MovedOffsets, Zenon
<1> QED
  BY <1>3, <1>6, <1>7

\* exit() closes files.
LEMMA ExitOffsets ==
  ASSUME IndInv, Offsets, NEW p \in Proc, Exit(p)
  PROVE  Offsets'
<1>1. \/ ftable' = ftable
      \/ \E f : /\ ftable' = Fileclose(ftable, f)
                /\ \E d : /\ {e \in Fd : proc[p].ofile[e] # 0} # {} /\ f = proc[p].ofile[d]
                          /\ d = CHOOSE e \in {g \in Fd : proc[p].ofile[g] # 0} :
                                   \A g \in {h \in Fd : proc[p].ofile[h] # 0} : e <= g
  BY Zenon DEF Exit
<1>2. CASE ftable' = ftable
  BY <1>2 DEF Offsets
<1>3. ASSUME NEW f, NEW d, {e \in Fd : proc[p].ofile[e] # 0} # {}, f = proc[p].ofile[d],
             d = CHOOSE e \in {g \in Fd : proc[p].ofile[g] # 0} : \A g \in {h \in Fd : proc[p].ofile[h] # 0} : e <= g,
             ftable' = Fileclose(ftable, f)
      PROVE  Offsets'
  <2>1. PICK S : S = {e \in Fd : proc[p].ofile[e] # 0}
    OBVIOUS
  <2>2. S # {} /\ S \in SUBSET Nat
    BY <1>3, <2>1, Sizes DEF Fd
  <2>3. \E e \in S : \A g \in S : e <= g
    BY <2>2, LeastNat
  <2>4. d \in S
    BY <1>3, <2>1, <2>3
  <2>5. d \in Fd /\ f # 0
    BY <1>3, <2>1, <2>4
  <2>6. f \in 1..NFILE
    BY <1>3, <2>5, UsedIs
  <2> QED
    BY <1>3, <2>6, CloseOffsets, Zenon
<1> QED
  BY <1>1, <1>2, <1>3, Zenon

\* dup(), close(), pipe() and fork().
LEMMA CallOffsets ==
  ASSUME IndInv, Offsets, NEW p \in Proc, NEW c, Call(p, c)
  PROVE  Offsets'
<1>0. Shape /\ DOMAIN ftable = 1..NFILE
  BY ShapeIs DEF IndInv
<1>a. \A f \in 1..NFILE : DOMAIN ftable[f] = {"ref", "type", "ip", "off", "r", "w"} /\ ftable[f].off \in Nat
  BY <1>0, ShapeIs DEF IsFile, NoFile, Offsets
<1>1. ASSUME ftable' = ftable PROVE Offsets'
  BY <1>1 DEF Offsets
<1>2. CASE Dup(p, c.fd)
  <2>1. PICK f : f = Argfd(p, c.fd)
    OBVIOUS
  <2>2. ftable' = ftable \/ ftable' = [ftable EXCEPT ![f].ref = @ + 1]
    BY <1>2, <2>1, Zenon DEF Dup
  <2>3. ASSUME ftable' = [ftable EXCEPT ![f].ref = @ + 1] PROVE Offsets'
    BY <1>0, <1>a, <2>3 DEF Offsets
  <2> QED
    BY <1>1, <2>2, <2>3
<1>3. CASE Close(p, c.fd)
  <2>1. PICK f : f = Argfd(p, c.fd)
    OBVIOUS
  <2>2. ftable' = IF f = 0 THEN ftable ELSE Fileclose(ftable, f)
    BY <1>3, <2>1, Zenon DEF Close
  <2>3. CASE f # 0
    <3>1. c.fd \in Fd /\ f = proc[p].ofile[c.fd]
      BY <2>1, <2>3 DEF Argfd
    <3>2. f \in 1..NFILE
      BY <2>3, <3>1, UsedIs
    <3>3. ftable' = Fileclose(ftable, f)
      BY <2>2, <2>3
    <3> QED
      BY <3>2, <3>3, CloseOffsets, Zenon
  <2> QED
    BY <1>1, <2>2, <2>3
<1>4. CASE Pipe(p)
  <2>1. PICK x, y : /\ x = [NoFile EXCEPT !.ref = 1, !.type = "pipe", !.r = TRUE]
                    /\ y = [NoFile EXCEPT !.ref = 1, !.type = "pipe", !.w = TRUE]
    OBVIOUS
  <2>2. \/ ftable' = ftable
        \/ \E f, g : ftable' = [[ftable EXCEPT ![f] = x] EXCEPT ![g] = y]
    BY <1>4, <2>1, Zenon DEF Pipe
  <2>3. x.off \in Nat /\ y.off \in Nat
    BY <2>1 DEF NoFile
  <2>4. ASSUME NEW f, NEW g, ftable' = [[ftable EXCEPT ![f] = x] EXCEPT ![g] = y] PROVE Offsets'
    BY <1>0, <1>a, <2>3, <2>4 DEF Offsets
  <2> QED
    BY <1>1, <2>2, <2>4
<1>5. CASE Fork(p)
  <2>1. ftable' = ftable \/ ftable' = Filedup(proc[p].ofile)
    BY <1>5, Zenon DEF Fork
  <2>2. ASSUME ftable' = Filedup(proc[p].ofile) PROVE Offsets'
    BY <1>a, <2>2 DEF Offsets, Filedup
  <2> QED
    BY <1>1, <2>1, <2>2
<1>6. CASE PathCall(p, c) \/ FdCall(p, c) \/ Wait(p) \/ UNCHANGED <<disk, icache, ftable, proc>>
  <2>1. ftable' = ftable
    BY <1>6, Zenon DEF PathCall, FdCall, Wait
  <2> QED
    BY <1>1, <2>1
<1> QED
  BY <1>2, <1>3, <1>4, <1>5, <1>6, Zenon DEF Call

\* A step of the kernel.
LEMMA KernelOffsets ==
  ASSUME IndInv, BlocksInv, NEW p \in Proc, Kernel(p)
  PROVE  Offsets'
<1>0. Offsets
  BY DEF BlocksInv
<1>1. CASE Open(p) \/ Read(p) \/ Write(p) \/ Exit(p)
  BY <1>0, <1>1, OpenOffsets, ReadOffsets, WriteOffsets, ExitOffsets, Zenon
<1>2. ASSUME ftable' = ftable PROVE Offsets'
  BY <1>0, <1>2 DEF Offsets
<1>3. CASE Iput(p) \/ Drop(p) \/ Namex(p) \/ Fstat(p) \/ CreateExisting(p) \/ CreateKeep(p) \/ CreateNew(p) \/ Made(p)
  <2>1. ftable' = ftable
    BY <1>3, Zenon DEF Iput, Drop, Namex, Fstat, CreateExisting, CreateKeep, CreateNew, Made
  <2> QED
    BY <1>2, <2>1
<1>4. CASE UnlinkFind(p) \/ UnlinkErase(p) \/ UnlinkCount(p) \/ UnlinkBad(p)
  <2>1. ftable' = ftable
    BY <1>4, Zenon DEF UnlinkFind, UnlinkErase, UnlinkCount, UnlinkBad
  <2> QED
    BY <1>2, <2>1
<1>5. CASE LinkCount(p) \/ LinkEntry(p) \/ LinkExists(p) \/ LinkBad(p) \/ ChdirCheck(p) \/ ChdirSet(p) \/ Exec(p)
  <2>1. ftable' = ftable
    BY <1>5, Zenon DEF LinkCount, LinkEntry, LinkExists, LinkBad, ChdirCheck, ChdirSet, Exec
  <2> QED
    BY <1>2, <2>1
<1> QED
  BY <1>1, <1>3, <1>4, <1>5, Zenon DEF Kernel

-----------------------------------------------------------------------------
\* What a thread has read or written

\* A thread that neither reads nor writes.
Calm(t) == t.pc \notin {"read", "write"} /\ t.done = 0

\* The threads of the next state.
NextTransfers == \A q \in Proc : Transfers(th'[q])

\* One thread moves.
LEMMA OneTransfers ==
  ASSUME IndInv, BlocksInv, NEW p \in Proc, NEW u, Transfers(u) \/ Calm(u), th' = [th EXCEPT ![p] = u]
  PROVE  NextTransfers
<1>1. DOMAIN th = Proc
  BY ShapeIs DEF IndInv
<1>2. Transfers(u)
  BY DEF Calm, Transfers
<1> QED
  BY <1>1, <1>2 DEF NextTransfers, BlocksInv

\* A thread returns.
LEMMA ReturnTransfers ==
  ASSUME IndInv, BlocksInv, NEW p \in Proc, NEW t, NEW v, NEW s, th' = [th EXCEPT ![p] = Return(t, v, s)]
  PROVE  NextTransfers
<1>1. PICK u : u = Return(t, v, s)
  OBVIOUS
<1>2. u.pc = "user" /\ u.done = 0
  BY <1>1 DEF Return, NewThread
<1>3. Calm(u)
  BY <1>2 DEF Calm
<1> QED
  BY <1>1, <1>3, OneTransfers, Zenon

\* A thread jumps.
LEMMA GotoCalm ==
  ASSUME NEW t, IsThread(t), t.done = 0, NEW l, l \notin {"read", "write"}, NEW s
  PROVE  /\ Calm(Goto(t, l, s)) /\ (\A x : Calm([Goto(t, l, s) EXCEPT !.ip = x]))
         /\ (\A y : Calm([Goto(t, l, s) EXCEPT !.dp = y]))
         /\ (\A x, y : Calm([Goto(t, l, s) EXCEPT !.ip = x, !.dp = y]))
         /\ (\A y, z : Calm([Goto(t, l, s) EXCEPT !.dp = y, !.path = z]))
<1>1. DOMAIN t = {"pc", "call", "at", "path", "ip", "dp", "f", "done", "puts", "dropping", "ret", "buf"}
  BY ThreadFields DEF IsThread
<1>2. PICK g : g = Goto(t, l, s)
  OBVIOUS
<1>3. DOMAIN g = DOMAIN t /\ g.pc = l /\ g.done = 0
  BY <1>1, <1>2 DEF Goto
<1>4. \A x, y, z : /\ Calm(g) /\ Calm([g EXCEPT !.ip = x]) /\ Calm([g EXCEPT !.dp = y])
                   /\ Calm([g EXCEPT !.ip = x, !.dp = y]) /\ Calm([g EXCEPT !.dp = y, !.path = z])
  BY <1>1, <1>3 DEF Calm
<1> QED
  BY <1>2, <1>4, Zenon

\* A thread that sets out on a path.
LEMMA WalkCalm ==
  ASSUME NEW p, NEW t, IsThread(t), t.done = 0, NEW path, NEW l, l \notin {"read", "write"}
  PROVE  Calm(Walk(p, t, path, l))
<1>1. DOMAIN t = {"pc", "call", "at", "path", "ip", "dp", "f", "done", "puts", "dropping", "ret", "buf"}
  BY ThreadFields DEF IsThread
<1> QED
  BY <1>1 DEF Calm, Walk

\* A thread whose walk is over.
LEMMA FoundCalm ==
  ASSUME NEW t, IsThread(t), Locals(t), t.pc \in {"namei", "nameiparent"}, t.done = 0, NEW i, NEW s
  PROVE  Calm(Found(t, i, s))
<1>1. DOMAIN t = {"pc", "call", "at", "path", "ip", "dp", "f", "done", "puts", "dropping", "ret", "buf"}
  BY ThreadFields DEF IsThread
<1>2. PICK u : u = [t EXCEPT !.at = 0]
  OBVIOUS
<1>3. IsThread(u) /\ u.done = 0
  BY <1>1, <1>2, InoIs, ThreadFields DEF IsThread
<1>4. \A v : Calm(Return(u, v, s))
  BY DEF Calm, Return, NewThread
<1>5. CASE t.pc = "namei"
  <2>1. t.call.op \in {"open", "link", "chdir", "exec"}
    BY <1>5 DEF Locals
  <2>2. PICK l : l = CASE t.call.op = "open"  -> "open1"
                       [] t.call.op = "link"  -> "link1"
                       [] t.call.op = "chdir" -> "chdir1"
                       [] t.call.op = "exec"  -> "exec1"
    OBVIOUS
  <2>3. l \notin {"read", "write"}
    BY <2>1, <2>2
  <2>4. i = 0 => Found(t, i, s) = Return(u, -1, s)
    BY <1>2, <1>5, Zenon DEF Found
  <2>5. i # 0 => Found(t, i, s) = [Goto(u, l, s) EXCEPT !.ip = i]
    BY <1>2, <1>5, <2>2, Zenon DEF Found
  <2>6. Calm([Goto(u, l, s) EXCEPT !.ip = i])
    BY <1>3, <2>3, GotoCalm, Zenon
  <2> QED
    BY <1>4, <2>4, <2>5, <2>6, Zenon
<1>6. CASE t.pc = "nameiparent"
  <2>1. t.call.op \in {"open", "mkdir", "mknod", "unlink", "link"}
    BY <1>6 DEF Locals
  <2>2. PICK l : l = CASE t.call.op = "link"   -> "link2"
                       [] t.call.op = "unlink" -> "unlink1"
                       [] OTHER                -> "create1"
    OBVIOUS
  <2>3. l \notin {"read", "write"}
    BY <2>1, <2>2
  <2>4. t.pc # "namei"
    BY <1>6
  <2>5. Found(t, i, s) = CASE i = 0 /\ t.call.op = "link" -> Goto(u, "linkbad", s)
                           [] i = 0 /\ t.call.op # "link" -> Return(u, -1, s)
                           [] OTHER -> [Goto(u, l, s) EXCEPT !.dp = i, !.path = <<Elem(Head(t.path))>>]
    BY <1>2, <2>2, <2>4, Zenon DEF Found
  <2>6. PICK a, b, c : /\ a = Goto(u, "linkbad", s) /\ b = Return(u, -1, s)
                       /\ c = [Goto(u, l, s) EXCEPT !.dp = i, !.path = <<Elem(Head(t.path))>>]
    OBVIOUS
  <2>7. Calm(c)
    BY <1>3, <2>3, <2>6, GotoCalm, Zenon
  <2>8. Calm(a)
    <3>1. "linkbad" \notin {"read", "write"}
      OBVIOUS
    <3> QED
      BY <1>3, <2>6, <3>1, GotoCalm, Zenon
  <2>9. Calm(b)
    BY <1>4, <2>6, Zenon
  <2>10. Found(t, i, s) = CASE i = 0 /\ t.call.op = "link" -> a
                            [] i = 0 /\ t.call.op # "link" -> b
                            [] OTHER -> c
    BY <2>5, <2>6, Zenon
  <2>11. Found(t, i, s) = a \/ Found(t, i, s) = b \/ Found(t, i, s) = c
    BY <2>10
  <2> QED
    BY <2>7, <2>8, <2>9, <2>11, Zenon
<1> QED
  BY <1>5, <1>6

\* The calls in iput(), and what the last of them leaves.
LEMMA PutsTransfers ==
  ASSUME IndInv, BlocksInv, NEW p \in Proc, Iput(p) \/ Drop(p)
  PROVE  NextTransfers
<1>1. DOMAIN th[p] = {"pc", "call", "at", "path", "ip", "dp", "f", "done", "puts", "dropping", "ret", "buf"} /\ Transfers(th[p])
  BY ShapeIs, ThreadFields DEF IndInv, IsThread, BlocksInv
<1>2. \/ th' = [th EXCEPT ![p] = [th[p] EXCEPT !.dropping = TRUE]]
      \/ th' = [th EXCEPT ![p] = [th[p] EXCEPT !.puts = Tail(@), !.dropping = FALSE]]
  BY DEF Iput, Drop
<1>3. ASSUME NEW x, x = [th[p] EXCEPT !.dropping = TRUE] \/ x = [th[p] EXCEPT !.puts = Tail(@), !.dropping = FALSE]
      PROVE  Transfers(x)
  <2>1. x.pc = th[p].pc /\ x.call = th[p].call /\ x.done = th[p].done
    BY <1>1, <1>3
  <2> QED
    BY <1>1, <2>1 DEF Transfers
<1> QED
  BY <1>2, <1>3, OneTransfers

\* What is known of a thread that does not write.
LEMMA NotWriting ==
  ASSUME IndInv, BlocksInv, NEW p \in Proc, th[p].pc # "write"
  PROVE  IsThread(th[p]) /\ th[p].done = 0 /\ Locals(th[p])
  BY ShapeIs DEF IndInv, ThreadsInv, BlocksInv, Transfers

\* A walk along a path.
LEMMA NamexTransfers ==
  ASSUME IndInv, BlocksInv, NEW p \in Proc, Namex(p)
  PROVE  NextTransfers
<1>1. PICK t : t = th[p]
  OBVIOUS
<1>2. t.pc \in {"namei", "nameiparent"}
  BY <1>1 DEF Namex, At
<1>3. IsThread(t) /\ t.done = 0 /\ Locals(t)
  BY <1>1, <1>2, NotWriting
<1>4. \/ \E i, s : th' = [th EXCEPT ![p] = Found(t, i, s)]
      \/ \E i : th' = [th EXCEPT ![p].at = i, ![p].path = Tail(@), ![p].puts = <<t.at>>]
  <2>1. \/ th' = [th EXCEPT ![p] = NoElement(t)]
        \/ th' = [th EXCEPT ![p] = Found(t, t.at, <<>>)]
        \/ th' = [th EXCEPT ![p] = Found(t, 0, <<t.at>>)]
        \/ \E i : th' = [th EXCEPT ![p].at = i, ![p].path = Tail(@), ![p].puts = <<t.at>>]
    BY <1>1, Zenon DEF Namex
  <2>2. NoElement(t) = Found(t, 0, <<t.at>>) \/ NoElement(t) = Found(t, t.at, <<>>)
    BY DEF NoElement
  <2>3. CASE th' = [th EXCEPT ![p] = NoElement(t)]
    <3>1. \/ th' = [th EXCEPT ![p] = Found(t, t.at, <<>>)]
          \/ th' = [th EXCEPT ![p] = Found(t, 0, <<t.at>>)]
      BY <2>2, <2>3
    <3> QED
      BY <3>1, Zenon
  <2>4. CASE th' = [th EXCEPT ![p] = Found(t, t.at, <<>>)]
    BY <2>4, Zenon
  <2>5. CASE th' = [th EXCEPT ![p] = Found(t, 0, <<t.at>>)]
    BY <2>5, Zenon
  <2> QED
    BY <2>1, <2>3, <2>4, <2>5, Zenon
<1>5. ASSUME NEW i, NEW s, th' = [th EXCEPT ![p] = Found(t, i, s)] PROVE NextTransfers
  <2>1. Calm(Found(t, i, s))
    BY <1>2, <1>3, FoundCalm, Zenon
  <2> QED
    BY <1>5, <2>1, OneTransfers, Zenon
<1>6. ASSUME NEW i, th' = [th EXCEPT ![p].at = i, ![p].path = Tail(@), ![p].puts = <<t.at>>] PROVE NextTransfers
  <2>1. PICK u : u = [t EXCEPT !.at = i, !.path = Tail(@), !.puts = <<t.at>>]
    OBVIOUS
  <2>2. DOMAIN t = {"pc", "call", "at", "path", "ip", "dp", "f", "done", "puts", "dropping", "ret", "buf"}
    BY <1>3, ThreadFields DEF IsThread
  <2>3. u.pc = t.pc /\ u.done = 0
    BY <1>3, <2>1, <2>2
  <2>4. Calm(u)
    BY <1>2, <2>3 DEF Calm
  <2>5. th' = [th EXCEPT ![p] = u]
    BY <1>1, <1>6, <2>1
  <2> QED
    BY <2>4, <2>5, OneTransfers, Zenon
<1> QED
  BY <1>4, <1>5, <1>6, Zenon

\* One transaction of write().
LEMMA WriteTransfers ==
  ASSUME IndInv, BlocksInv, NEW p \in Proc, Write(p)
  PROVE  NextTransfers
<1>1. PICK t : t = th[p]
  OBVIOUS
<1>2. PICK us, done : us = SubSeq(t.call.data, t.done + 1, Min2(t.done + WMAX, Len(t.call.data))) /\ done = t.done + Len(us)
  OBVIOUS
<1>3. PICK u : u = [t EXCEPT !.done = done]
  OBVIOUS
<1>4. /\ At(p, {"write"})
      /\ \/ th' = [th EXCEPT ![p] = Return(t, -1, <<>>)]
         \/ th' = [th EXCEPT ![p] = IF done = Len(t.call.data) THEN Return(t, done, <<>>) ELSE u]
  BY <1>1, <1>2, <1>3, Zenon DEF Write
<1>5. t.pc = "write" /\ IsThread(t)
  BY <1>1, <1>4, AtIs
<1>6. Len(t.call.data) \in Nat /\ t.done \in 0..Len(t.call.data)
  BY <1>1, <1>5 DEF BlocksInv, Transfers
<1>7. done \in 0..Len(t.call.data)
  BY <1>2, <1>6, UnitsIs
<1>8. Transfers(u)
  <2>1. DOMAIN t = {"pc", "call", "at", "path", "ip", "dp", "f", "done", "puts", "dropping", "ret", "buf"}
    BY <1>5, ThreadFields DEF IsThread
  <2>2. u.pc = t.pc /\ u.call = t.call /\ u.done = done
    BY <1>3, <2>1
  <2> QED
    BY <1>5, <1>6, <1>7, <2>2 DEF Transfers
<1>9. \/ th' = [th EXCEPT ![p] = Return(t, -1, <<>>)]
      \/ th' = [th EXCEPT ![p] = Return(t, done, <<>>)]
      \/ th' = [th EXCEPT ![p] = u]
  BY <1>4
<1> QED
  BY <1>8, <1>9, ReturnTransfers, OneTransfers, Zenon

\* The calls on open files and inodes that return.
LEMMA ReturningTransfers ==
  ASSUME IndInv, BlocksInv, NEW p \in Proc,
         Open(p) \/ Read(p) \/ Fstat(p) \/ Made(p) \/ UnlinkCount(p) \/ UnlinkBad(p) \/ LinkBad(p) \/ ChdirSet(p) \/ Exec(p)
  PROVE  NextTransfers
<1>1. CASE Open(p)
  <2>1. PICK fd : \/ th' = [th EXCEPT ![p] = Return(th[p], -1, <<th[p].ip>>)]
                  \/ th' = [th EXCEPT ![p] = Return(th[p], fd, <<>>)]
    BY <1>1, Zenon DEF Open
  <2> QED
    BY <2>1, ReturnTransfers, Zenon
<1>2. CASE Read(p)
  <2>1. PICK t, v : \/ th' = [th EXCEPT ![p] = Return(th[p], -1, <<>>)]
                    \/ th' = [th EXCEPT ![p] = Return(t, v, <<>>)]
    BY <1>2, Zenon DEF Read
  <2> QED
    BY <2>1, ReturnTransfers, Zenon
<1>3. CASE Fstat(p)
  <2>1. PICK t, v : th' = [th EXCEPT ![p] = Return(t, v, <<>>)]
    BY <1>3 DEF Fstat
  <2> QED
    BY <2>1, ReturnTransfers, Zenon
<1>4. CASE Made(p) \/ UnlinkCount(p) \/ UnlinkBad(p) \/ LinkBad(p) \/ ChdirSet(p)
  <2>1. PICK v, s : th' = [th EXCEPT ![p] = Return(th[p], v, s)]
    BY <1>4 DEF Made, UnlinkCount, UnlinkBad, LinkBad, ChdirSet
  <2> QED
    BY <2>1, ReturnTransfers, Zenon
<1>5. CASE Exec(p)
  <2>1. PICK v, s : th' = [th EXCEPT ![p] = Return(th[p], v, s)]
    BY <1>5 DEF Exec
  <2> QED
    BY <2>1, ReturnTransfers, Zenon
<1> QED
  BY <1>1, <1>2, <1>3, <1>4, <1>5

\* Threads that jump read and write nothing.
LEMMA JumpTransfers ==
  ASSUME IndInv, BlocksInv, NEW p \in Proc, NEW k, At(p, {k}), k # "write",
         NEW l, l # "read", l # "write", NEW s, NEW x, NEW y, NEW u, th' = [th EXCEPT ![p] = u],
         \/ u = Goto(th[p], l, s) \/ u = [Goto(th[p], l, s) EXCEPT !.ip = x] \/ u = [Goto(th[p], l, s) EXCEPT !.dp = y]
         \/ u = [Goto(th[p], l, s) EXCEPT !.ip = x, !.dp = y]
  PROVE  NextTransfers
<1>1. th[p].pc # "write"
  BY DEF At
<1>2. IsThread(th[p]) /\ th[p].done = 0 /\ l \notin {"read", "write"}
  BY <1>1, NotWriting
<1>3. PICK t : t = th[p]
  OBVIOUS
<1>4. IsThread(t) /\ t.done = 0
  BY <1>2, <1>3
<1>5. /\ Calm(Goto(t, l, s)) /\ Calm([Goto(t, l, s) EXCEPT !.ip = x])
      /\ Calm([Goto(t, l, s) EXCEPT !.dp = y]) /\ Calm([Goto(t, l, s) EXCEPT !.ip = x, !.dp = y])
  <2>1. Calm(Goto(t, l, s))
    BY <1>2, <1>4, GotoCalm, Zenon
  <2>2. Calm([Goto(t, l, s) EXCEPT !.ip = x])
    BY <1>2, <1>4, GotoCalm, Zenon
  <2>3. Calm([Goto(t, l, s) EXCEPT !.dp = y])
    BY <1>2, <1>4, GotoCalm, Zenon
  <2>4. Calm([Goto(t, l, s) EXCEPT !.ip = x, !.dp = y])
    BY <1>2, <1>4, GotoCalm, Zenon
  <2> QED
    BY <2>1, <2>2, <2>3, <2>4
<1>6. Calm(u)
  BY <1>3, <1>5
<1> QED
  BY <1>6, OneTransfers, Zenon

\* create() of a name that exists and of a new one.
LEMMA CreateTransfers ==
  ASSUME IndInv, BlocksInv, NEW p \in Proc, CreateExisting(p) \/ CreateNew(p)
  PROVE  NextTransfers
<1>1. "create1" # "write"
  OBVIOUS
<1>2. CASE CreateExisting(p)
  <2>1. PICK l, s, x, y : l = "create2" /\ s = <<th[p].dp>> /\ x = Dirlookup(th[p].dp, Head(th[p].path)) /\ y = 0
    OBVIOUS
  <2>2. PICK u : u = [Goto(th[p], l, s) EXCEPT !.ip = x, !.dp = y]
    OBVIOUS
  <2>3. At(p, {"create1"}) /\ th' = [th EXCEPT ![p] = u]
    BY <1>2, <2>1, <2>2, Zenon DEF CreateExisting
  <2>4. l # "read" /\ l # "write"
    BY <2>1
  <2> QED
    BY <1>1, <2>2, <2>3, <2>4, JumpTransfers, Zenon
<1>3. CASE CreateNew(p)
  <2>1. PICK l, s, x, y : l = (IF th[p].call.op = "open" THEN "open2" ELSE "made") /\ s = <<th[p].dp>> /\ x = Ialloc /\ y = 0
    OBVIOUS
  <2>2. PICK u : u = [Goto(th[p], l, s) EXCEPT !.ip = x, !.dp = y]
    OBVIOUS
  <2>3. At(p, {"create1"}) /\ th' = [th EXCEPT ![p] = u]
    BY <1>3, <2>1, <2>2, Zenon DEF CreateNew
  <2>4. l # "read" /\ l # "write"
    BY <2>1
  <2> QED
    BY <1>1, <2>2, <2>3, <2>4, JumpTransfers, Zenon
<1> QED
  BY <1>2, <1>3

\* open() of a file that exists.
LEMMA KeepTransfers ==
  ASSUME IndInv, BlocksInv, NEW p \in Proc, CreateKeep(p)
  PROVE  NextTransfers
<1>1. PICK u : u = [th[p] EXCEPT !.pc = "open2"]
  OBVIOUS
<1>2. /\ At(p, {"create2"})
      /\ \/ th' = [th EXCEPT ![p].pc = "open2"]
         \/ th' = [th EXCEPT ![p] = Return(th[p], -1, <<th[p].ip>>)]
  BY Zenon DEF CreateKeep
<1>3. th[p].pc # "write"
  BY <1>2 DEF At
<1>4. IsThread(th[p]) /\ th[p].done = 0
  BY <1>3, NotWriting
<1>5. DOMAIN th[p] = {"pc", "call", "at", "path", "ip", "dp", "f", "done", "puts", "dropping", "ret", "buf"}
  BY <1>4, ThreadFields DEF IsThread
<1>6. Calm(u)
  BY <1>1, <1>4, <1>5 DEF Calm
<1>7. CASE th' = [th EXCEPT ![p].pc = "open2"]
  <2>1. th' = [th EXCEPT ![p] = u]
    BY <1>1, <1>7
  <2> QED
    BY <1>6, <2>1, OneTransfers, Zenon
<1>8. CASE th' = [th EXCEPT ![p] = Return(th[p], -1, <<th[p].ip>>)]
  BY <1>8, ReturnTransfers, Zenon
<1> QED
  BY <1>2, <1>7, <1>8

\* unlink().
LEMMA UnlinkTransfers ==
  ASSUME IndInv, BlocksInv, NEW p \in Proc, UnlinkFind(p) \/ UnlinkErase(p)
  PROVE  NextTransfers
<1>1. "unlink1" # "write" /\ "unlink2" # "write"
  OBVIOUS
<1>2. CASE UnlinkFind(p)
  <2>1. PICK l, s, x : l = "unlink2" /\ s = <<>> /\ x = Dirlookup(th[p].dp, Head(th[p].path))
    OBVIOUS
  <2>2. PICK u : u = [Goto(th[p], l, s) EXCEPT !.ip = x]
    OBVIOUS
  <2>3. /\ At(p, {"unlink1"})
        /\ th' = [th EXCEPT ![p] = u] \/ th' = [th EXCEPT ![p] = Return(th[p], -1, <<th[p].dp>>)]
    BY <1>2, <2>1, <2>2, Zenon DEF UnlinkFind
  <2>4. l # "read" /\ l # "write"
    BY <2>1
  <2>5. CASE th' = [th EXCEPT ![p] = u]
    BY <1>1, <2>2, <2>3, <2>4, <2>5, JumpTransfers, Zenon
  <2> QED
    BY <2>3, <2>5, ReturnTransfers, Zenon
<1>3. CASE UnlinkErase(p)
  <2>1. PICK l, s, k, r, z : l = "unlinkbad" /\ s = <<th[p].ip>> /\ k = "unlink3" /\ r = <<th[p].dp>> /\ z = 0
    OBVIOUS
  <2>2. PICK u, v : u = [Goto(th[p], l, s) EXCEPT !.ip = z] /\ v = [Goto(th[p], k, r) EXCEPT !.dp = z]
    OBVIOUS
  <2>3. At(p, {"unlink2"}) /\ (th' = [th EXCEPT ![p] = u] \/ th' = [th EXCEPT ![p] = v])
    BY <1>3, <2>1, <2>2, Zenon DEF UnlinkErase
  <2>4. l # "read" /\ l # "write" /\ k # "read" /\ k # "write"
    BY <2>1
  <2>5. CASE th' = [th EXCEPT ![p] = u]
    BY <1>1, <2>2, <2>3, <2>4, <2>5, JumpTransfers, Zenon
  <2>6. CASE th' = [th EXCEPT ![p] = v]
    BY <1>1, <2>2, <2>3, <2>4, <2>6, JumpTransfers, Zenon
  <2> QED
    BY <2>3, <2>5, <2>6
<1> QED
  BY <1>2, <1>3

\* link().
LEMMA LinkTransfers ==
  ASSUME IndInv, BlocksInv, NEW p \in Proc, LinkCount(p) \/ LinkEntry(p) \/ LinkExists(p)
  PROVE  NextTransfers
<1>1. "link1" # "write" /\ "link2" # "write" /\ "link3" # "write"
  OBVIOUS
<1>2. CASE LinkCount(p)
  <2>1. PICK l, n : l = "nameiparent" /\ n = th[p].call.new
    OBVIOUS
  <2>2. PICK u : u = Walk(p, th[p], n, l)
    OBVIOUS
  <2>3. /\ At(p, {"link1"})
        /\ th' = [th EXCEPT ![p] = u] \/ th' = [th EXCEPT ![p] = Return(th[p], -1, <<th[p].ip>>)]
    BY <1>2, <2>1, <2>2, Zenon DEF LinkCount
  <2>4. l \notin {"read", "write"} /\ th[p].pc # "write"
    BY <2>1, <2>3 DEF At
  <2>5. IsThread(th[p]) /\ th[p].done = 0
    BY <2>4, NotWriting
  <2>6. Calm(u)
    BY <2>2, <2>4, <2>5, WalkCalm, Zenon
  <2> QED
    BY <2>3, <2>6, OneTransfers, ReturnTransfers, Zenon
<1>3. CASE LinkEntry(p)
  <2>1. PICK l, s, r : l = "link3" /\ s = <<Dirlookup(th[p].dp, Head(th[p].path))>> /\ r = <<th[p].dp, th[p].ip>>
    OBVIOUS
  <2>2. PICK u : u = Goto(th[p], l, s)
    OBVIOUS
  <2>3. At(p, {"link2"}) /\ (th' = [th EXCEPT ![p] = u] \/ th' = [th EXCEPT ![p] = Return(th[p], 0, r)])
    BY <1>3, <2>1, <2>2, Zenon DEF LinkEntry
  <2>4. l # "read" /\ l # "write"
    BY <2>1
  <2>5. CASE th' = [th EXCEPT ![p] = u]
    BY <1>1, <2>2, <2>3, <2>4, <2>5, JumpTransfers, Zenon
  <2> QED
    BY <2>3, <2>5, ReturnTransfers, Zenon
<1>4. CASE LinkExists(p)
  <2>1. PICK l, s, y : l = "linkbad" /\ s = <<th[p].dp>> /\ y = 0
    OBVIOUS
  <2>2. PICK u : u = [Goto(th[p], l, s) EXCEPT !.dp = y]
    OBVIOUS
  <2>3. At(p, {"link3"}) /\ th' = [th EXCEPT ![p] = u]
    BY <1>4, <2>1, <2>2, Zenon DEF LinkExists
  <2>4. l # "read" /\ l # "write"
    BY <2>1
  <2> QED
    BY <1>1, <2>2, <2>3, <2>4, JumpTransfers, Zenon
<1> QED
  BY <1>2, <1>3, <1>4

\* chdir() and exit().
LEMMA ExitTransfers ==
  ASSUME IndInv, BlocksInv, NEW p \in Proc, ChdirCheck(p) \/ Exit(p)
  PROVE  NextTransfers
<1>1. "chdir1" # "write" /\ "exit" # "write"
  OBVIOUS
<1>2. CASE ChdirCheck(p)
  <2>1. PICK l, s, r : l = "chdir2" /\ s = <<proc[p].cwd>> /\ r = <<th[p].ip>>
    OBVIOUS
  <2>2. PICK u, v : u = Goto(th[p], l, s) /\ v = Return(th[p], -1, r)
    OBVIOUS
  <2>3. At(p, {"chdir1"}) /\ th' = [th EXCEPT ![p] = IF inode[th[p].ip].type # "dir" THEN v ELSE u]
    BY <1>2, <2>1, <2>2, Zenon DEF ChdirCheck
  <2>4. l # "read" /\ l # "write" /\ (th' = [th EXCEPT ![p] = u] \/ th' = [th EXCEPT ![p] = v])
    BY <2>1, <2>3
  <2>5. At(p, {"chdir1"})
    BY <2>3
  <2>6. CASE th' = [th EXCEPT ![p] = u]
    BY <1>1, <2>2, <2>4, <2>5, <2>6, JumpTransfers, Zenon
  <2>7. CASE th' = [th EXCEPT ![p] = v]
    BY <2>2, <2>7, ReturnTransfers, Zenon
  <2> QED
    BY <2>4, <2>6, <2>7
<1>3. CASE Exit(p)
  <2>1. PICK l, s : l = "zombie" /\ s = <<proc[p].cwd>>
    OBVIOUS
  <2>2. PICK u : u = Goto(th[p], l, s)
    OBVIOUS
  <2>3. \/ At(p, {"exit"}) /\ \E x : th' = [th EXCEPT ![p].puts = x]
        \/ At(p, {"exit"}) /\ th' = [th EXCEPT ![p] = u]
        \/ th' = [th EXCEPT ![p] = NewThread]
    BY <1>3, <2>1, <2>2, Zenon DEF Exit
  <2>4. ASSUME At(p, {"exit"}), NEW x, th' = [th EXCEPT ![p].puts = x] PROVE NextTransfers
    <3>1. PICK v : v = [th[p] EXCEPT !.puts = x]
      OBVIOUS
    <3>2. th[p].pc = "exit"
      BY <2>4 DEF At
    <3>3. IsThread(th[p]) /\ th[p].done = 0
      BY <3>2, NotWriting
    <3>4. DOMAIN th[p] = {"pc", "call", "at", "path", "ip", "dp", "f", "done", "puts", "dropping", "ret", "buf"}
      BY <3>3, ThreadFields DEF IsThread
    <3>5. Calm(v)
      BY <3>1, <3>2, <3>3, <3>4 DEF Calm
    <3>6. th' = [th EXCEPT ![p] = v]
      BY <2>4, <3>1
    <3> QED
      BY <3>5, <3>6, OneTransfers, Zenon
  <2>5. l # "read" /\ l # "write"
    BY <2>1
  <2>6. CASE At(p, {"exit"}) /\ th' = [th EXCEPT ![p] = u]
    BY <1>1, <2>2, <2>5, <2>6, JumpTransfers, Zenon
  <2>7. CASE th' = [th EXCEPT ![p] = NewThread]
    <3>1. Calm(NewThread)
      BY DEF Calm, NewThread
    <3> QED
      BY <2>7, <3>1, OneTransfers, Zenon
  <2> QED
    BY <2>3, <2>4, <2>6, <2>7, Zenon
<1> QED
  BY <1>2, <1>3

\* A step of the kernel.
LEMMA KernelTransfers ==
  ASSUME IndInv, BlocksInv, NEW p \in Proc, Kernel(p)
  PROVE  NextTransfers
  BY PutsTransfers, NamexTransfers, WriteTransfers, ReturningTransfers, CreateTransfers, KeepTransfers,
     UnlinkTransfers, LinkTransfers, ExitTransfers, Zenon DEF Kernel

\* A call that enters the kernel.
LEMMA CallTransfers ==
  ASSUME IndInv, BlocksInv, NEW p \in Proc, NEW c \in SysCalls, Call(p, c)
  PROVE  NextTransfers
<1>1. PICK t : t = th[p]
  OBVIOUS
<1>2. Idle(p) /\ t.pc = "user" /\ IsThread(t) /\ t.done = 0
  BY <1>1, NotWriting DEF Call, Idle
<1>3. DOMAIN t = {"pc", "call", "at", "path", "ip", "dp", "f", "done", "puts", "dropping", "ret", "buf"}
  BY <1>2, ThreadFields DEF IsThread
<1>4. CASE c.op \in {"open", "mkdir", "mknod", "unlink", "link", "chdir", "exec"} /\ PathCall(p, c)
  <2>1. PICK l : l = IF c.op \in {"link", "chdir", "exec"} \/ (c.op = "open" /\ ~c.create) THEN "namei" ELSE "nameiparent"
    OBVIOUS
  <2>2. PICK s, u : s = [NewThread EXCEPT !.call = c] /\ u = Walk(p, s, c.path, l)
    OBVIOUS
  <2>3. th' = [th EXCEPT ![p] = u]
    BY <1>4, <2>1, <2>2, Zenon DEF PathCall
  <2>4. IsThread(s) /\ s.done = 0
    BY <2>2, NewThreadIs, ThreadFields DEF IsThread, NewThread
  <2>5. l \notin {"read", "write"}
    BY <2>1
  <2>6. Calm(u)
    BY <2>2, <2>4, <2>5, WalkCalm, Zenon
  <2> QED
    BY <2>3, <2>6, OneTransfers, Zenon
<1>5. CASE c.op \in {"read", "write", "fstat"} /\ FdCall(p, c)
  <2>1. PICK f : f = Argfd(p, c.fd)
    OBVIOUS
  <2>2. PICK u : u = [t EXCEPT !.pc = c.op, !.call = c, !.f = f]
    OBVIOUS
  <2>3. \/ th' = [th EXCEPT ![p] = Return(t, -1, <<>>)]
        \/ th' = [th EXCEPT ![p] = Return(t, 0, <<>>)]
        \/ th' = [th EXCEPT ![p] = u]
    <3> DEFINE fail == f = 0 \/ CASE c.op = "read"  -> ~ftable[f].r
                                  [] c.op = "write" -> ~ftable[f].w
                                  [] OTHER          -> ftable[f].type # "inode"
               none == c.op = "write" /\ Len(c.data) = 0
    <3>1. th' = [th EXCEPT ![p] = IF fail THEN Return(t, -1, <<>>) ELSE IF none THEN Return(t, 0, <<>>) ELSE u]
      BY <1>1, <1>5, <2>1, <2>2 DEF FdCall
    <3> HIDE DEF fail, none
    <3> QED
      BY <3>1
  <2>4. (c.op = "read" => c.n \in Nat) /\ (c.op = "write" => c.data \in Seq(STRING \cup Int))
    BY DEF SysCalls
  <2>5. u.pc = c.op /\ u.call = c /\ u.done = 0
    BY <1>2, <1>3, <2>2
  <2>6. c.op = "write" => Len(c.data) \in Nat
    BY <2>4
  <2>7. Transfers(u)
    BY <2>4, <2>5, <2>6 DEF Transfers
  <2> QED
    BY <2>3, <2>7, OneTransfers, ReturnTransfers, Zenon
<1>6. CASE Dup(p, c.fd)
  <2>1. PICK v : th' = [th EXCEPT ![p] = Return(t, v, <<>>)]
    BY <1>1, <1>6, Zenon DEF Dup
  <2> QED
    BY <2>1, ReturnTransfers, Zenon
<1>7. CASE Close(p, c.fd)
  <2>1. PICK f, a, b : f = Argfd(p, c.fd) /\ a = Return(t, -1, <<>>) /\ b = Return(t, 0, ClosePuts(f))
    OBVIOUS
  <2>2. th' = [th EXCEPT ![p] = IF f = 0 THEN a ELSE b]
    BY <1>1, <1>7, <2>1, Zenon DEF Close
  <2>3. CASE f = 0
    <3>1. th' = [th EXCEPT ![p] = a]
      BY <2>2, <2>3
    <3> QED
      BY <2>1, <3>1, ReturnTransfers, Zenon
  <2>4. CASE f # 0
    <3>1. th' = [th EXCEPT ![p] = b]
      BY <2>2, <2>4
    <3> QED
      BY <2>1, <3>1, ReturnTransfers, Zenon
  <2> QED
    BY <2>3, <2>4
<1>8. CASE Pipe(p)
  <2>1. PICK v : th' = [th EXCEPT ![p] = Return(t, v, <<>>)]
    BY <1>1, <1>8, Zenon DEF Pipe
  <2> QED
    BY <2>1, ReturnTransfers, Zenon
<1>9. CASE Fork(p)
  <2>1. CASE Unused = {}
    <3>1. th' = [th EXCEPT ![p] = Return(NewThread, -1, <<>>)]
      BY <1>9, <2>1, Zenon DEF Fork
    <3> QED
      BY <3>1, ReturnTransfers, Zenon
  <2>2. CASE Unused # {}
    <3>1. PICK u : u = Return(NewThread, Child, <<>>)
      OBVIOUS
    <3>2. th' = [th EXCEPT ![p] = u, ![Child] = NewThread]
      BY <1>9, <2>2, <3>1, Zenon DEF Fork
    <3>3. u.pc = "user" /\ u.done = 0
      BY <3>1 DEF Return, NewThread
    <3>4. Transfers(u) /\ Transfers(NewThread)
      <4>1. NewThread.pc = "user" /\ NewThread.done = 0
        BY DEF NewThread
      <4> QED
        BY <3>3, <4>1 DEF Transfers
    <3>5. DOMAIN th = Proc /\ \A q \in Proc : Transfers(th[q])
      BY ShapeIs DEF IndInv, BlocksInv
    <3> HIDE DEF NewThread
    <3>6. \A q \in Proc : th'[q] = u \/ th'[q] = NewThread \/ th'[q] = th[q]
      BY <3>2, <3>5
    <3> QED
      BY <3>4, <3>5, <3>6 DEF NextTransfers
  <2> QED
    BY <2>1, <2>2
<1>10. CASE Wait(p)
  <2>1. \/ th' = [th EXCEPT ![p] = Return(NewThread, -1, <<>>)]
        \/ \E q : th' = [th EXCEPT ![p] = Return(NewThread, q, <<>>)]
    BY <1>10, Zenon DEF Wait
  <2> QED
    BY <2>1, ReturnTransfers, Zenon
<1>11. CASE th' = [th EXCEPT ![p] = [NewThread EXCEPT !.pc = "exit"]]
  <2>1. PICK u : u = [NewThread EXCEPT !.pc = "exit"]
    OBVIOUS
  <2>2. Calm(u)
    BY <2>1 DEF Calm, NewThread
  <2> QED
    BY <1>11, <2>1, <2>2, OneTransfers, Zenon
<1> QED
  BY <1>4, <1>5, <1>6, <1>7, <1>8, <1>9, <1>10, <1>11, Zenon DEF Call

-----------------------------------------------------------------------------
\* The first state

\* The quotient of a division.
LEMMA DivUnique ==
  ASSUME NEW a \in Int, NEW n \in Nat \ {0}, NEW q \in Int, NEW r \in 0..n-1, a = n * q + r
  PROVE  a \div n = q
  OBVIOUS

\* A file of the image has one block.
LEMMA ImageBlocks ==
  ASSUME NEW l \in 1..BSIZE
  PROVE  Blocks(l) = 1
<1>1. BSIZE \in Nat \ {0}
  BY Sizes
<1>2. PICK b \in Nat \ {0} : b = BSIZE
  BY <1>1
<1>3. PICK a \in Int, r \in 0..b-1 : a = l + b - 1 /\ r = l - 1 /\ a = b * 1 + r
  <2>1. l \in Int /\ l - 1 \in 0..b-1 /\ l + b - 1 \in Int /\ l + b - 1 = b * 1 + (l - 1)
    BY <1>2
  <2> QED
    BY <2>1
<1>4. a \div b = 1
  BY <1>3, DivUnique
<1> QED
  BY <1>2, <1>3, <1>4 DEF Blocks

\* The root directory of the image has a block for its units, the empty slots
\* at its end among them.
LEMMA RootBlocks ==
  ASSUME NEW n \in Nat, n % BSIZE # 0, NEW size, size = ((n \div BSIZE) + 1) * BSIZE
  PROVE  size \in Nat /\ Blocks(size) = Blocks(n) /\ Blocks(n) \in Nat
<1>1. PICK b \in Nat \ {0} : b = BSIZE
  BY Sizes
<1>2. PICK q \in Int, r \in 0..b-1 : n = b * q + r /\ q = n \div b /\ r = n % b
  BY <1>1, DivMod
<1>3. r # 0 /\ q \in Nat
  BY <1>1, <1>2
<1>4. size = (q + 1) * b
  BY <1>1, <1>2
<1>5. PICK m \in Int : m = (q + 1) * b
  BY <1>3
<1>6. m = b * (q + 1)
  <2>1. PICK z \in Int : z = q + 1
    BY <1>2
  <2>2. m = z * b
    BY <1>5, <2>1
  <2>3. z * b = b * z
    BY <1>1, <2>1
  <2> QED
    BY <2>1, <2>2, <2>3
<1>7. Blocks(m) = q + 1
  <2>1. m + b - 1 = b * (q + 1) + (b - 1) /\ m + b - 1 \in Int /\ b - 1 \in 0..b-1 /\ q + 1 \in Int
    BY <1>5, <1>6
  <2>2. PICK a, k, s : a = m + b - 1 /\ k = q + 1 /\ s = b - 1
    OBVIOUS
  <2>3. a \in Int /\ k \in Int /\ s \in 0..b-1 /\ a = b * k + s
    BY <2>1, <2>2
  <2>4. a \div b = k
    BY <2>3, DivUnique
  <2> QED
    BY <1>1, <2>2, <2>4 DEF Blocks
<1>8. Blocks(n) = q + 1
  <2>1. n + b - 1 = b * (q + 1) + (r - 1) /\ r - 1 \in 0..b-1 /\ n + b - 1 \in Int /\ q + 1 \in Int
    <3>1. b * (q + 1) = b * q + b
      BY <1>2
    <3>2. PICK y \in Int : y = b * q
      BY <1>2
    <3>3. n = y + r /\ b * (q + 1) = y + b
      BY <1>2, <3>1, <3>2
    <3> QED
      BY <1>3, <3>3
  <2>2. PICK a, k, s : a = n + b - 1 /\ k = q + 1 /\ s = r - 1
    OBVIOUS
  <2>3. a \in Int /\ k \in Int /\ s \in 0..b-1 /\ a = b * k + s
    BY <2>1, <2>2
  <2>4. a \div b = k
    BY <2>3, DivUnique
  <2> QED
    BY <1>1, <2>2, <2>4 DEF Blocks
<1>9. m \in Nat
  <2>1. q + 1 \in Nat
    BY <1>3
  <2> QED
    BY <1>5, <2>1
<1> QED
  BY <1>3, <1>4, <1>5, <1>7, <1>8, <1>9

\* The blocks that iappend() gives the root directory.
LEMMA IappendIs ==
  ASSUME NEW n \in Nat, NEW b \in Nat, b = Blocks(n), NEW s, s = Iappend(n), NEW more, more = (IF b > NDIRECT THEN 1 ELSE 0),
         NEW x, x = (IF more = 1 THEN NDIRECT + 1 ELSE 0)
  PROVE  s \in Seq(Nat) /\ Len(s) = b /\ Held2(s, x) = 1..(b + more)
<1>1. PICK d \in Nat \ {0} : d = NDIRECT
  BY Sizes
<1>2. s = [k \in 1..b |-> IF k <= d THEN k ELSE k + 1]
  BY <1>1 DEF Iappend
<1>3. s \in [1..b -> Nat] /\ DOMAIN s = 1..b
  BY <1>1, <1>2
<1>4. s \in Seq(Nat) /\ Len(s) = b
  BY <1>3, SeqOf
<1>5. Vals(s) = {s[k] : k \in 1..b}
  BY <1>3 DEF Vals
<1>6. \A k \in 1..b : s[k] = IF k <= d THEN k ELSE k + 1
  BY <1>2
<1>7. CASE b > d
  <2>1. more = 1 /\ x = d + 1
    BY <1>1, <1>7
  <2>2. \A k \in 1..b : s[k] \in 1..(b + 1)
    BY <1>6
  <2>3. \A j \in 1..(b + 1) : j = d + 1 \/ (j \in 1..d /\ j \in 1..b /\ s[j] = j) \/ (j - 1 \in 1..b /\ s[j - 1] = j)
    BY <1>6, <1>7
  <2>4. d + 1 \in 1..(b + 1) /\ d + 1 # 0
    BY <1>7
  <2>5. \A j : j \in 1..(b + 1) <=> j \in Vals(s) \/ j = d + 1
    BY <1>5, <2>2, <2>3, <2>4
  <2>6. Held2(s, x) = 1..(b + 1)
    BY <2>1, <2>4, <2>5 DEF Held2
  <2> QED
    BY <1>4, <2>1, <2>6
<1>8. CASE ~(b > d)
  <2>1. more = 0 /\ x = 0
    BY <1>1, <1>8
  <2>2. \A k \in 1..b : s[k] = k
    BY <1>6, <1>8
  <2>3. Vals(s) = 1..b
    BY <1>5, <2>2
  <2>4. Held2(s, x) = 1..b /\ b + 0 = b
    BY <2>1, <2>3 DEF Held2
  <2> QED
    BY <1>4, <2>1, <2>4
<1> QED
  BY <1>7, <1>8

\* The content of the root directory fills blocks.
LEMMA RootLen == Len(RootData) = (((Len(Image) + 2) \div BSIZE) + 1) * BSIZE
<1> DEFINE n    == Len(Image) + 2
           root == [k \in 1..n |-> IF k = 1 THEN Slot(".", ROOTINO)
                                   ELSE IF k = 2 THEN Slot("..", ROOTINO)
                                   ELSE Slot(Image[k - 2].name, k - 1)]
           size == ((n \div BSIZE) + 1) * BSIZE
           data == [k \in 1..size |-> IF k <= n THEN root[k] ELSE NoSlot]
<1>1. n \in Nat /\ n % BSIZE # 0
  <2>1. Len(Image) \in Nat /\ (Len(Image) + 2) % BSIZE # 0
    BY FilesAssumption, Zenon
  <2> QED
    BY <2>1
<1>2. RootData = data
  BY DEF RootData
<1> HIDE DEF n, root
<1>3. size \in Nat
  BY <1>1, RootBlocks
<1>4. DOMAIN data = 1..size
  OBVIOUS
<1>5. DOMAIN RootData = 1..size /\ RootData \in Seq(DirSlots)
  BY <1>2, <1>4, RootIs
<1> HIDE DEF size, data
<1>6. Len(RootData) = size
  BY <1>3, <1>5
<1> QED
  BY <1>6 DEF size, n

\* An interval of N blocks.
LEMMA IntervalIs ==
  ASSUME NEW N \in Nat, NEW lo \in Nat
  PROVE  IsFiniteSet(lo..(lo + N - 1)) /\ Cardinality(lo..(lo + N - 1)) = N
<1>1. PICK hi \in Int : hi = lo + N - 1
  OBVIOUS
<1>2. IsFiniteSet(lo..hi) /\ Cardinality(lo..hi) = IF lo > hi THEN 0 ELSE hi - lo + 1
  BY FS_Interval
<1>3. (IF lo > hi THEN 0 ELSE hi - lo + 1) = N
  BY <1>1
<1> QED
  BY <1>1, <1>2, <1>3

\* An inode whose blocks are an interval has each of them once.
LEMMA IntervalExact ==
  ASSUME NEW n, NEW N \in Nat, NEW lo \in Nat, Addrs(n) = lo..(lo + N - 1),
         N = Len(n.blks) + (IF n.ind = 0 THEN 0 ELSE 1)
  PROVE  Exact(n)
  BY IntervalIs, Zenon DEF Exact

\* The root directory that mkfs writes has the first blocks of the disk.
LEMMA RootOwns ==
  ASSUME NEW n, n = Len(Image) + 2, NEW more, more = (IF Blocks(n) > NDIRECT THEN 1 ELSE 0),
         NEW x, x.type = "dir", x.blks = Iappend(n), x.ind = (IF more = 1 THEN NDIRECT + 1 ELSE 0),
         x.data = RootData
  PROVE  Blocks(n) + more \in Nat /\ Addrs(x) = 1..(Blocks(n) + more) /\ HasBlocks(x) /\ Exact(x)
<1>1. n \in Nat /\ n % BSIZE # 0
  <2>1. Len(Image) \in Nat /\ (Len(Image) + 2) % BSIZE # 0
    BY FilesAssumption, Zenon
  <2> QED
    BY <2>1
<1>2. PICK size : size = ((n \div BSIZE) + 1) * BSIZE
  OBVIOUS
<1>3. size \in Nat /\ Blocks(size) = Blocks(n) /\ Blocks(n) \in Nat
  BY <1>1, <1>2, RootBlocks
<1>4. Len(x.data) = size
  BY <1>2, RootLen
<1>5. PICK b \in Nat, d \in Nat \ {0} : b = Blocks(n) /\ d = NDIRECT
  BY <1>3, Sizes
<1>6. more = (IF b > d THEN 1 ELSE 0) /\ x.ind = (IF more = 1 THEN d + 1 ELSE 0)
  BY <1>5
<1>7. PICK s, a : s = x.blks /\ a = x.ind
  OBVIOUS
<1>8. s \in Seq(Nat) /\ Len(s) = b /\ Held2(s, a) = 1..(b + more)
  <2>1. /\ s = Iappend(n) /\ more = (IF b > NDIRECT THEN 1 ELSE 0)
        /\ a = (IF more = 1 THEN NDIRECT + 1 ELSE 0)
    BY <1>5, <1>7, Zenon
  <2> QED
    BY <1>1, <1>5, <2>1, IappendIs
<1>9. /\ more \in {0, 1} /\ a \in Nat /\ b + more \in Nat
      /\ a = 0 => b <= d
      /\ more = IF a = 0 THEN 0 ELSE 1
  BY <1>5, <1>6, <1>7
<1>10. Addrs(x) = 1..(b + more)
  BY <1>7, <1>8 DEF Addrs, Held2, Vals
<1>11. HasBlocks(x)
  BY <1>3, <1>4, <1>5, <1>7, <1>8, <1>9 DEF HasBlocks
<1>12. Exact(x)
  <2>1. PICK N \in Nat : N = b + more
    BY <1>9
  <2>2. Addrs(x) = 1..(1 + N - 1)
    BY <1>10, <2>1
  <2>3. N = Len(x.blks) + (IF x.ind = 0 THEN 0 ELSE 1)
    BY <1>7, <1>8, <1>9, <2>1
  <2>4. 1 \in Nat
    OBVIOUS
  <2> QED
    BY <2>1, <2>2, <2>3, <2>4, IntervalExact, Zenon
<1> QED
  BY <1>5, <1>9, <1>10, <1>11, <1>12

\* A file that mkfs writes has one block.
LEMMA FileOwns ==
  ASSUME NEW y, NEW a \in Nat \ {0}, y.type = "file", y.blks = <<a>>, y.ind = 0, Len(y.data) \in 1..BSIZE
  PROVE  Addrs(y) = {a} /\ HasBlocks(y) /\ Exact(y)
<1>1. Blocks(Len(y.data)) = 1 /\ Len(y.data) \in Nat
  BY ImageBlocks, Sizes
<1>2. PICK s : s = <<a>>
  OBVIOUS
<1>3. s \in Seq(Nat) /\ Len(s) = 1 /\ DOMAIN s = {1} /\ s[1] = a
  BY <1>2
<1>4. y.blks = s
  BY <1>2
<1>5. Addrs(y) = {a}
  BY <1>3, <1>4 DEF Addrs
<1>6. HasBlocks(y)
  BY <1>1, <1>3, <1>4, Sizes DEF HasBlocks
<1>7. IsFiniteSet({a}) /\ Cardinality({a}) = 1
  BY FS_Singleton
<1> QED
  BY <1>3, <1>4, <1>5, <1>6, <1>7 DEF Exact

\* Blocks of inodes laid out one after the other: those of the root, then one
\* for each file.
LEMMA LaidOut ==
  ASSUME NEW I, NEW u, NEW meta \in Nat, NEW l \in Nat, l < NInodes, u = 1..(meta + l),
         \A i \in Ino : Addrs(I[i]) = IF i = ROOTINO THEN 1..meta
                                      ELSE IF i - 1 \in 1..l THEN {meta + i - 1} ELSE {}
  PROVE  /\ u = UNION {Addrs(I[i]) : i \in Ino}
         /\ \A i, j \in Ino : i # j => Addrs(I[i]) \cap Addrs(I[j]) = {}
<1>1. PICK N \in Nat \ {0} : N = NInodes /\ Ino = 1..N
  BY Sizes DEF Ino
<1>2. \A i \in 1..N : Addrs(I[i]) = IF i = 1 THEN 1..meta ELSE IF i - 1 \in 1..l THEN {meta + i - 1} ELSE {}
  BY <1>1 DEF ROOTINO
<1>3. ASSUME NEW i \in 1..N, NEW b \in Addrs(I[i]) PROVE b \in u
  <2>1. CASE i = 1
    <3>1. b \in 1..meta
      BY <1>2, <2>1
    <3> QED
      BY <3>1
  <2>2. CASE i # 1
    <3>1. i - 1 \in 1..l /\ b = meta + i - 1
      BY <1>2, <2>2
    <3> QED
      BY <3>1
  <2> QED
    BY <2>1, <2>2
<1>4. ASSUME NEW b \in u PROVE \E i \in 1..N : b \in Addrs(I[i])
  <2>1. CASE b \in 1..meta
    <3>1. 1 \in 1..N
      BY <1>1
    <3> QED
      BY <1>2, <2>1, <3>1
  <2>2. CASE b \notin 1..meta
    <3>1. PICK i \in Int : i = b - meta + 1
      BY <2>2
    <3>2. i \in 1..N /\ i # 1 /\ i - 1 \in 1..l /\ b = meta + i - 1
      BY <1>1, <2>2, <3>1
    <3> QED
      BY <1>2, <3>2
  <2> QED
    BY <2>1, <2>2
<1>5. u = UNION {Addrs(I[i]) : i \in Ino}
  BY <1>1, <1>3, <1>4
<1>6. ASSUME NEW i \in 1..N, NEW j \in 1..N, NEW b, b \in Addrs(I[i]), b \in Addrs(I[j]) PROVE i = j
  <2>1. i \in Int /\ j \in Int
    OBVIOUS
  <2>2. \/ i = 1 /\ b \in 1..meta
        \/ i - 1 \in 1..l /\ b = meta + i - 1
    BY <1>2, <1>6
  <2>3. \/ j = 1 /\ b \in 1..meta
        \/ j - 1 \in 1..l /\ b = meta + j - 1
    BY <1>2, <1>6
  <2> QED
    BY <2>1, <2>2, <2>3
<1> QED
  BY <1>1, <1>5, <1>6

\* The disk that mkfs writes.
LEMMA MkfsOwned ==
  ASSUME Mkfs
  PROVE  Owned(inode, used)
<1> DEFINE n    == Len(Image) + 2
           more == IF Blocks(n) > NDIRECT THEN 1 ELSE 0
           meta == Blocks(n) + more
           ino  == [type |-> "file", nlink |-> 1, data |-> <<>>, blks |-> <<>>, ind |-> 0]
           x    == [ino EXCEPT !.type = "dir", !.blks = Iappend(n), !.ind = IF more = 1 THEN NDIRECT + 1 ELSE 0,
                               !.data = RootData]
           y(i) == [ino EXCEPT !.data = Image[i - 1].data, !.blks = <<meta + i - 1>>]
<1>1. inode = [i \in Ino |-> IF i = ROOTINO THEN x ELSE IF i - 1 \in DOMAIN Image THEN y(i) ELSE NoInode]
  BY Zenon DEF Mkfs, RootData
<1>2. used = 1..(meta + Len(Image))
  BY Zenon DEF Mkfs
<1>3. /\ Len(Image) \in Nat /\ DOMAIN Image = 1..Len(Image) /\ Len(Image) < NInodes
      /\ \A k \in DOMAIN Image : Len(Image[k].data) \in 1..BSIZE
  BY FilesAssumption, Zenon
<1>4. n = Len(Image) + 2 /\ more = (IF Blocks(n) > NDIRECT THEN 1 ELSE 0) /\ meta = Blocks(n) + more
  OBVIOUS
<1> HIDE DEF n, more, meta
<1>5. x.type = "dir" /\ x.blks = Iappend(n) /\ x.ind = (IF more = 1 THEN NDIRECT + 1 ELSE 0) /\ x.data = RootData
  OBVIOUS
<1>6. \A i : y(i).type = "file" /\ y(i).blks = <<meta + i - 1>> /\ y(i).ind = 0 /\ y(i).data = Image[i - 1].data
  OBVIOUS
<1> HIDE DEF x, y, ino
<1>7. meta \in Nat /\ Addrs(x) = 1..meta /\ HasBlocks(x) /\ Exact(x)
  BY <1>4, <1>5, RootOwns, Zenon
<1>8. ASSUME NEW i \in Ino, i # ROOTINO, i - 1 \in DOMAIN Image
      PROVE  Addrs(y(i)) = {meta + i - 1} /\ HasBlocks(y(i)) /\ Exact(y(i))
  <2>1. PICK a : a = meta + i - 1
    OBVIOUS
  <2>2. a \in Nat \ {0}
    BY <1>3, <1>7, <1>8, <2>1, Sizes DEF Ino
  <2>3. Len(y(i).data) \in 1..BSIZE /\ y(i).blks = <<a>> /\ y(i).type = "file" /\ y(i).ind = 0
    BY <1>3, <1>6, <1>8, <2>1, Zenon
  <2> QED
    BY <2>1, <2>2, <2>3, FileOwns, Zenon
<1>9. \A i \in Ino : inode[i] = IF i = ROOTINO THEN x ELSE IF i - 1 \in DOMAIN Image THEN y(i) ELSE NoInode
  BY <1>1, Zenon
<1>10. \A i \in Ino : HasBlocks(inode[i]) /\ Exact(inode[i])
  BY <1>7, <1>8, <1>9, NoInodeIs, Zenon
<1>11. \A i \in Ino : Addrs(inode[i]) = IF i = ROOTINO THEN 1..meta
                                        ELSE IF i - 1 \in DOMAIN Image THEN {meta + i - 1} ELSE {}
  BY <1>7, <1>8, <1>9, NoInodeIs, Zenon
<1>12. PICK l \in Nat : l = Len(Image)
  BY <1>3, Zenon
<1>13. PICK I, u : I = inode /\ u = used
  OBVIOUS
<1>14. /\ l < NInodes /\ u = 1..(meta + l)
       /\ \A i \in Ino : Addrs(I[i]) = IF i = ROOTINO THEN 1..meta
                                       ELSE IF i - 1 \in 1..l THEN {meta + i - 1} ELSE {}
  BY <1>2, <1>3, <1>11, <1>12, <1>13, Zenon
<1>15. /\ u = UNION {Addrs(I[i]) : i \in Ino}
       /\ \A i, j \in Ino : i # j => Addrs(I[i]) \cap Addrs(I[j]) = {}
  BY <1>7, <1>12, <1>14, LaidOut, Zenon
<1> QED
  BY <1>10, <1>13, <1>15 DEF Owned

\* The first state satisfies the invariant.
LEMMA InitBlocks ==
  ASSUME Init
  PROVE  BlocksInv
<1>1. Owned(inode, used)
  BY MkfsOwned DEF Init
<1>2. BlocksOwned /\ \A i \in Ino : HasBlocks(inode[i])
  BY <1>1, OwnedIs DEF BlocksOwned
<1>3. Offsets
  BY DEF Init, Offsets, NoFile
<1>4. Transfers(NewThread)
  BY DEF Transfers, NewThread
<1>5. \A p \in Proc : Transfers(th[p])
  BY <1>4 DEF Init
<1> QED
  BY <1>2, <1>3, <1>5 DEF BlocksInv

\* Every step keeps it.
LEMMA BlocksNext ==
  ASSUME IndInv, BlocksInv, [FilesNext]_vars
  PROVE  BlocksInv'
<1>1. ASSUME NEW p \in Proc, Kernel(p) PROVE BlocksInv'
  <2>1. Owned(inode', used') /\ Offsets' /\ NextTransfers
    BY <1>1, KernelOwned, KernelOffsets, KernelTransfers, Zenon
  <2> QED
    BY <2>1, OwnedNext DEF NextTransfers
<1>2. ASSUME NEW p \in Proc, NEW c \in SysCalls, Call(p, c) PROVE BlocksInv'
  <2>1. Offsets
    BY DEF BlocksInv
  <2>2. Owned(inode', used') /\ Offsets' /\ NextTransfers
    BY <1>2, <2>1, CallOwned, CallOffsets, CallTransfers, Zenon
  <2> QED
    BY <2>2, OwnedNext DEF NextTransfers
<1>3. CASE UNCHANGED vars
  <2>1. inode' = inode /\ used' = used /\ ftable' = ftable /\ th' = th
    BY <1>3 DEF vars
  <2>2. Owned(inode', used')
    BY <2>1, OwnedNow
  <2>3. Offsets' /\ \A p \in Proc : Transfers(th'[p])
    BY <2>1 DEF BlocksInv, Offsets
  <2> QED
    BY <2>2, <2>3, OwnedNext
<1> QED
  BY <1>1, <1>2, <1>3 DEF FilesNext

-----------------------------------------------------------------------------
\* The theorems, for any programs

\* The invariant of the blocks holds in every reachable state, whatever calls
\* the processes make and however their steps interleave.
THEOREM BlocksInvariance == FilesSpec => []BlocksInv
<1>1. Init => BlocksInv
  BY InitBlocks
<1>2. IndInv /\ BlocksInv /\ [FilesNext]_vars => BlocksInv'
  BY BlocksNext
<1> QED
  BY <1>1, <1>2, Invariance, PTL DEF FilesSpec

\* The blocks in use are those of the inodes, and no block is in two inodes or
\* twice in one: no call leaks a block that balloc() gave it, and none frees a
\* block that a file still has (bmap(), itrunc(), mkfs.c).
THEOREM BlocksOwnedHolds == FilesSpec => []BlocksOwned
<1>1. BlocksInv => BlocksOwned
  BY DEF BlocksInv
<1> QED
  BY <1>1, BlocksInvariance, PTL
============================================================================
