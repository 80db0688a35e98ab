---------------------------- MODULE NamesProofs ----------------------------
(***************************************************************************)
(* Proofs about the names on the disk of Files, for all programs: the link *)
(* count of an inode covers its names and the links in the hands of calls, *)
(* the directories are a tree, and the kernel's own checks hold.           *)
(***************************************************************************)
EXTENDS FilesProofs

-----------------------------------------------------------------------------
\* Link counts: what the count of an inode covers

\* Entry k of directory d, after its dots, names inode i.
Names(I, d, k, i) ==
  /\ d \in Ino /\ i \in Ino
  /\ I[d].type = "dir" /\ k \in DOMAIN I[d].data /\ k > 2 /\ I[d].data[k].inum = i

\* It names a directory.
Sub(I, d, k) == \E e \in Ino : Names(I, d, k, e) /\ I[e].type = "dir"

\* A call holds a link of inode i in hand.
Unlinks(t, i) == t.pc = "unlink3" /\ t.ip = i
LinksTo(t, i) == Linking(t) /\ t.ip = i

\* Links(i) in a state with the inodes I and the threads T, in its five parts.
RootLinks(i) == {<<"root", 0, 0>> : r \in {i} \cap {ROOTINO}}
NamedIn(I, d) == IF I[d].type = "dir" THEN {k \in {h \in DOMAIN I[d].data : I[d].data[h].inum # 0} : k > 2} ELSE {}
NameLinks(I, i) == UNION {{<<"name", d, k>> : k \in {e \in NamedIn(I, d) : I[d].data[e].inum = i}} : d \in Ino}
SubLinks(I, i) == {<<"sub", 0, k>> : k \in {e \in NamedIn(I, i) : I[I[i].data[e].inum].type = "dir"}}
UnlinkMarks(T, i) == {<<"unlink", p, 0>> : p \in {q \in Proc : T[q].pc = "unlink3" /\ T[q].ip = i}}
LinkMarks(T, i) == {<<"link", p, 0>> : p \in {q \in Proc : Linking(T[q]) /\ T[q].ip = i}}
LinksOf(I, T, i) == RootLinks(i) \cup NameLinks(I, i) \cup SubLinks(I, i) \cup UnlinkMarks(T, i) \cup LinkMarks(T, i)

\* The two agree, in a state and in the next one.
LEMMA LinksOfIs ==
  /\ \A i : Links(i) = LinksOf(inode, th, i)
  /\ \A i : Links(i)' = LinksOf(inode', th', i)
<1>1. (\A d : Named(d) = NamedIn(inode, d)) /\ \A d : Named(d)' = NamedIn(inode', d)
  BY DEF Named, Entries, NamedIn
<1>2. ASSUME NEW i PROVE Links(i) = LinksOf(inode, th, i)
  <2>1. /\ UNION {{<<"name", d, k>> : k \in {e \in Named(d) : inode[d].data[e].inum = i}} : d \in Ino} = NameLinks(inode, i)
        /\ {<<"sub", 0, k>> : k \in {e \in Named(i) : inode[inode[i].data[e].inum].type = "dir"}} = SubLinks(inode, i)
    BY <1>1 DEF NameLinks, SubLinks
  <2> QED
    BY <2>1, Zenon DEF Links, LinksOf, RootLinks, UnlinkMarks, LinkMarks
<1>3. ASSUME NEW i PROVE Links(i)' = LinksOf(inode', th', i)
  <2>1. /\ UNION {{<<"name", d, k>> : k \in {e \in Named(d)' : inode'[d].data[e].inum = i}} : d \in Ino} = NameLinks(inode', i)
        /\ {<<"sub", 0, k>> : k \in {e \in Named(i)' : inode'[inode'[i].data[e].inum].type = "dir"}} = SubLinks(inode', i)
    BY <1>1 DEF NameLinks, SubLinks
  <2> QED
    BY <2>1, Zenon DEF Links, LinksOf, RootLinks, UnlinkMarks, LinkMarks
<1> QED
  BY <1>2, <1>3

\* The inode numbers in directories are those of inodes.
HasSlots(I) == \A d \in Ino : I[d].type = "dir" => I[d].data \in Seq(DirSlots)

\* What HasSlots gives.
LEMMA HasSlotsIs ==
  ASSUME NEW I, HasSlots(I), NEW d \in Ino, I[d].type = "dir", NEW k \in DOMAIN I[d].data
  PROVE  k \in Nat \ {0} /\ I[d].data[k].inum \in 0..NInodes
<1>1. PICK s : s = I[d].data
  OBVIOUS
<1>2. s \in Seq(DirSlots) /\ k \in DOMAIN s
  BY <1>1 DEF HasSlots
<1>3. k \in 1..Len(s) /\ Len(s) \in Nat /\ s[k] \in DirSlots
  BY <1>2
<1> QED
  BY <1>1, <1>3, SlotsHave

\* The members of the set, one tag at a time.
IsLinks(I, T, i, X) ==
  /\ <<"root", 0, 0>> \in X <=> i = ROOTINO
  /\ \A d, k : <<"name", d, k>> \in X <=> Names(I, d, k, i)
  /\ \A k : <<"sub", 0, k>> \in X <=> Sub(I, i, k)
  /\ \A q : <<"unlink", q, 0>> \in X <=> q \in Proc /\ Unlinks(T[q], i)
  /\ \A q : <<"link", q, 0>> \in X <=> q \in Proc /\ LinksTo(T[q], i)
  /\ \A x \in X : \/ x = <<"root", 0, 0>>
                  \/ \E d, k : x = <<"name", d, k>>
                  \/ \E k : x = <<"sub", 0, k>>
                  \/ \E q : x = <<"unlink", q, 0>>
                  \/ \E q : x = <<"link", q, 0>>

\* LinksOf has these members.
LEMMA LinksMembers ==
  ASSUME NEW I, HasSlots(I), NEW T, NEW i \in Ino
  PROVE  IsLinks(I, T, i, LinksOf(I, T, i))
<1>1. PICK X, R, N, B, V, K : /\ X = LinksOf(I, T, i) /\ R = RootLinks(i) /\ N = NameLinks(I, i)
                              /\ B = SubLinks(I, i) /\ V = UnlinkMarks(T, i) /\ K = LinkMarks(T, i)
  OBVIOUS
<1>2. \A x : x \in X <=> x \in R \/ x \in N \/ x \in B \/ x \in V \/ x \in K
  BY <1>1 DEF LinksOf
<1>3. (<<"root", 0, 0>> \in R <=> i = ROOTINO) /\ \A x \in R : x = <<"root", 0, 0>> /\ x[1] = "root"
  <2>1. \A x : x \in R <=> i = ROOTINO /\ x = <<"root", 0, 0>>
    BY <1>1, Zenon DEF RootLinks
  <2> QED
    BY <2>1
<1>4. /\ \A d, k : <<"name", d, k>> \in N <=> Names(I, d, k, i)
      /\ \A x \in N : x[1] = "name" /\ \E d, k : x = <<"name", d, k>>
  <2>1. ASSUME NEW x PROVE x \in N <=> \E d \in Ino : \E k \in {e \in NamedIn(I, d) : I[d].data[e].inum = i} : x = <<"name", d, k>>
    BY <1>1 DEF NameLinks
  <2>2. ASSUME NEW d, NEW k
        PROVE  d \in Ino /\ k \in {e \in NamedIn(I, d) : I[d].data[e].inum = i} <=> Names(I, d, k, i)
    <3>1. i # 0
      BY InoIs
    <3> QED
      BY <3>1 DEF NamedIn, Names
  <2>3. ASSUME NEW d, NEW k
        PROVE  <<"name", d, k>> \in N <=> d \in Ino /\ k \in {e \in NamedIn(I, d) : I[d].data[e].inum = i}
    BY <2>1
  <2>4. ASSUME NEW x \in N PROVE x[1] = "name" /\ \E d, k : x = <<"name", d, k>>
    BY <2>1
  <2> QED
    BY <2>2, <2>3, <2>4, Zenon
<1>5. /\ \A k : <<"sub", 0, k>> \in B <=> Sub(I, i, k)
      /\ \A x \in B : x[1] = "sub" /\ \E k : x = <<"sub", 0, k>>
  <2>1. ASSUME NEW k PROVE <<"sub", 0, k>> \in B <=> k \in {e \in NamedIn(I, i) : I[I[i].data[e].inum].type = "dir"}
    BY <1>1 DEF SubLinks
  <2>2. ASSUME NEW k, k \in NamedIn(I, i), I[I[i].data[k].inum].type = "dir" PROVE Sub(I, i, k)
    <3>1. PICK e : e = I[i].data[k].inum
      OBVIOUS
    <3>2. I[i].type = "dir" /\ k \in DOMAIN I[i].data /\ e # 0 /\ k > 2 /\ I[e].type = "dir"
      BY <2>2, <3>1 DEF NamedIn
    <3>3. e \in 0..NInodes
      BY <3>1, <3>2, HasSlotsIs
    <3>4. e \in Ino
      BY <3>2, <3>3, InoIs
    <3> QED
      BY <3>1, <3>2, <3>4 DEF Sub, Names
  <2>3. ASSUME NEW k, Sub(I, i, k) PROVE k \in NamedIn(I, i) /\ I[I[i].data[k].inum].type = "dir"
    <3>1. PICK e \in Ino : Names(I, i, k, e) /\ I[e].type = "dir"
      BY <2>3 DEF Sub
    <3>2. e # 0
      BY InoIs
    <3> QED
      BY <3>1, <3>2 DEF Names, NamedIn
  <2>4. \A x \in B : x[1] = "sub" /\ \E k : x = <<"sub", 0, k>>
    BY <1>1 DEF SubLinks
  <2> QED
    BY <2>1, <2>2, <2>3, <2>4, Zenon
<1>6. /\ \A q : <<"unlink", q, 0>> \in V <=> q \in Proc /\ Unlinks(T[q], i)
      /\ \A x \in V : x[1] = "unlink" /\ \E q : x = <<"unlink", q, 0>>
  BY <1>1 DEF UnlinkMarks, Unlinks
<1>7. /\ \A q : <<"link", q, 0>> \in K <=> q \in Proc /\ LinksTo(T[q], i)
      /\ \A x \in K : x[1] = "link" /\ \E q : x = <<"link", q, 0>>
  BY <1>1 DEF LinkMarks, LinksTo
<1>8. \A a, b, c : <<a, b, c>>[1] = a
  OBVIOUS
<1>9. "root" \notin {"name", "sub", "unlink", "link"} /\ "name" \notin {"sub", "unlink", "link"}
      /\ "sub" \notin {"unlink", "link"} /\ "unlink" # "link"
  OBVIOUS
<1>10. <<"root", 0, 0>> \in X <=> i = ROOTINO
  BY <1>2, <1>3, <1>4, <1>5, <1>6, <1>7, <1>8, <1>9, Zenon
<1>11. ASSUME NEW d, NEW k PROVE <<"name", d, k>> \in X <=> Names(I, d, k, i)
  <2>1. PICK x : x = <<"name", d, k>>
    OBVIOUS
  <2>2. x[1] = "name"
    BY <2>1
  <2>3. x \notin R /\ x \notin B /\ x \notin V /\ x \notin K
    BY <1>3, <1>5, <1>6, <1>7, <1>9, <2>2, Zenon
  <2>4. x \in X <=> x \in N
    BY <1>2, <2>3, Zenon
  <2>5. x \in N <=> Names(I, d, k, i)
    BY <1>4, <2>1, Zenon
  <2> QED
    BY <2>1, <2>4, <2>5, Zenon
<1>12. ASSUME NEW k PROVE <<"sub", 0, k>> \in X <=> Sub(I, i, k)
  BY <1>2, <1>3, <1>4, <1>5, <1>6, <1>7, <1>8, <1>9, Zenon
<1>13. ASSUME NEW q PROVE <<"unlink", q, 0>> \in X <=> q \in Proc /\ Unlinks(T[q], i)
  BY <1>2, <1>3, <1>4, <1>5, <1>6, <1>7, <1>8, <1>9, Zenon
<1>14. ASSUME NEW q PROVE <<"link", q, 0>> \in X <=> q \in Proc /\ LinksTo(T[q], i)
  BY <1>2, <1>3, <1>4, <1>5, <1>6, <1>7, <1>8, <1>9, Zenon
<1>15. ASSUME NEW x \in X
       PROVE  \/ x = <<"root", 0, 0>>
              \/ \E d, k : x = <<"name", d, k>>
              \/ \E k : x = <<"sub", 0, k>>
              \/ \E q : x = <<"unlink", q, 0>>
              \/ \E q : x = <<"link", q, 0>>
  BY <1>2, <1>3, <1>4, <1>5, <1>6, <1>7, Zenon
<1>16. IsLinks(I, T, i, X)
  BY <1>10, <1>11, <1>12, <1>13, <1>14, <1>15, Zenon DEF IsLinks
<1> QED
  BY <1>1, <1>16, Zenon

\* A count that covers a finite set.
Enough(n, L) == n \in Int /\ IsFiniteSet(L) /\ n >= Cardinality(L)

\* It covers what is left of the set, and with one link more or less counted
\* the set with one member more or less.
LEMMA EnoughIs ==
  ASSUME NEW n, NEW L, Enough(n, L), NEW M
  PROVE  /\ M \subseteq L => Enough(n, M)
         /\ \A x : M \subseteq L \cup {x} => Enough(n + 1, M)
         /\ \A y \in L : y \notin M /\ M \subseteq L => Enough(n - 1, M)
         /\ \A x, y : y \in L /\ y \notin M /\ M \subseteq L \cup {x} => Enough(n, M)
<1>1. n \in Int /\ IsFiniteSet(L) /\ Cardinality(L) \in Nat /\ n >= Cardinality(L)
  BY FS_CardinalityType DEF Enough
<1>2. ASSUME NEW K, IsFiniteSet(K), NEW m \in Int, m >= Cardinality(K), M \subseteq K PROVE Enough(m, M)
  <2>1. IsFiniteSet(M) /\ Cardinality(M) <= Cardinality(K)
    BY <1>2, FS_Subset
  <2>2. Cardinality(M) \in Nat /\ Cardinality(K) \in Nat
    BY <1>2, <2>1, FS_CardinalityType
  <2> QED
    BY <1>2, <2>1, <2>2 DEF Enough
<1>3. M \subseteq L => Enough(n, M)
  BY <1>1, <1>2
<1>4. ASSUME NEW K, IsFiniteSet(K), NEW x
      PROVE  IsFiniteSet(K \cup {x}) /\ Cardinality(K \cup {x}) <= Cardinality(K) + 1
  <2>1. IsFiniteSet(K \cup {x}) /\ Cardinality(K \cup {x}) = IF x \in K THEN Cardinality(K) ELSE Cardinality(K) + 1
    BY <1>4, FS_AddElement
  <2>2. Cardinality(K) \in Nat
    BY <1>4, FS_CardinalityType
  <2> QED
    BY <2>1, <2>2
<1>5. ASSUME NEW y \in L PROVE IsFiniteSet(L \ {y}) /\ Cardinality(L \ {y}) = Cardinality(L) - 1
  BY <1>1, FS_RemoveElement
<1>6. ASSUME NEW x, M \subseteq L \cup {x} PROVE Enough(n + 1, M)
  <2>1. PICK K : K = L \cup {x}
    OBVIOUS
  <2>2. IsFiniteSet(K) /\ Cardinality(K) <= Cardinality(L) + 1 /\ Cardinality(K) \in Nat
    BY <1>1, <1>4, <2>1, FS_CardinalityType
  <2>3. n + 1 \in Int /\ n + 1 >= Cardinality(K)
    BY <1>1, <2>2
  <2> QED
    BY <1>2, <1>6, <2>1, <2>2, <2>3
<1>7. ASSUME NEW y \in L, y \notin M, M \subseteq L PROVE Enough(n - 1, M)
  <2>1. PICK K : K = L \ {y}
    OBVIOUS
  <2>2. IsFiniteSet(K) /\ Cardinality(K) = Cardinality(L) - 1
    BY <1>5, <2>1
  <2>3. n - 1 \in Int /\ n - 1 >= Cardinality(K) /\ M \subseteq K
    BY <1>1, <1>7, <2>1, <2>2
  <2> QED
    BY <1>2, <2>2, <2>3
<1>8. ASSUME NEW x, NEW y, y \in L, y \notin M, M \subseteq L \cup {x} PROVE Enough(n, M)
  <2>1. PICK K, H : K = L \ {y} /\ H = K \cup {x}
    OBVIOUS
  <2>2. IsFiniteSet(K) /\ Cardinality(K) = Cardinality(L) - 1
    BY <1>5, <1>8, <2>1
  <2>3. IsFiniteSet(H) /\ Cardinality(H) <= Cardinality(K) + 1 /\ Cardinality(H) \in Nat
    BY <1>4, <2>1, <2>2, FS_CardinalityType
  <2>4. n >= Cardinality(H) /\ M \subseteq H
    BY <1>1, <1>8, <2>1, <2>2, <2>3
  <2> QED
    BY <1>1, <1>2, <2>3, <2>4
<1> QED
  BY <1>3, <1>6, <1>7, <1>8, Zenon

\* A count of nothing.
LEMMA EnoughNone ==
  ASSUME NEW L, Enough(0, L)
  PROVE  L = {}
<1>1. IsFiniteSet(L) /\ Cardinality(L) \in Nat /\ 0 >= Cardinality(L)
  BY FS_CardinalityType DEF Enough
<1> QED
  BY <1>1, FS_EmptySet

\* What may be new among the links of an inode after a step.
Gained(I, T, J, U, i, X) ==
  /\ \A d, k : Names(J, d, k, i) => Names(I, d, k, i) \/ <<"name", d, k>> \in X
  /\ \A k : Sub(J, i, k) => Sub(I, i, k) \/ <<"sub", 0, k>> \in X
  /\ \A q \in Proc : Unlinks(U[q], i) => Unlinks(T[q], i) \/ <<"unlink", q, 0>> \in X
  /\ \A q \in Proc : LinksTo(U[q], i) => LinksTo(T[q], i) \/ <<"link", q, 0>> \in X

\* The other links were there before.
LEMMA LinksGained ==
  ASSUME NEW I, HasSlots(I), NEW T, NEW J, HasSlots(J), NEW U, NEW i \in Ino, NEW X, Gained(I, T, J, U, i, X)
  PROVE  LinksOf(J, U, i) \subseteq LinksOf(I, T, i) \cup X
<1>1. PICK L, M : L = LinksOf(I, T, i) /\ M = LinksOf(J, U, i)
  OBVIOUS
<1>2. IsLinks(I, T, i, L) /\ IsLinks(J, U, i, M)
  BY <1>1, LinksMembers
<1>3. ASSUME NEW x \in M PROVE x \in L \/ x \in X
  <2>1. CASE x = <<"root", 0, 0>>
    BY <1>2, <2>1, Zenon DEF IsLinks
  <2>2. CASE \E d, k : x = <<"name", d, k>>
    <3>1. PICK d, k : x = <<"name", d, k>>
      BY <2>2, Zenon
    <3>2. <<"name", d, k>> \in M => Names(J, d, k, i)
      BY <1>2, Zenon DEF IsLinks
    <3>3. Names(I, d, k, i) => <<"name", d, k>> \in L
      BY <1>2, Zenon DEF IsLinks
    <3>4. Names(J, d, k, i) => Names(I, d, k, i) \/ <<"name", d, k>> \in X
      BY Zenon DEF Gained
    <3> QED
      BY <3>1, <3>2, <3>3, <3>4, Zenon
  <2>3. CASE \E k : x = <<"sub", 0, k>>
    BY <1>2, <2>3, Zenon DEF IsLinks, Gained
  <2>4. CASE \E q : x = <<"unlink", q, 0>>
    BY <1>2, <2>4, Zenon DEF IsLinks, Gained
  <2>5. CASE \E q : x = <<"link", q, 0>>
    BY <1>2, <2>5, Zenon DEF IsLinks, Gained
  <2>6. \/ x = <<"root", 0, 0>> \/ (\E d, k : x = <<"name", d, k>>) \/ (\E k : x = <<"sub", 0, k>>)
        \/ (\E q : x = <<"unlink", q, 0>>) \/ (\E q : x = <<"link", q, 0>>)
    BY <1>2, Zenon DEF IsLinks
  <2> QED
    BY <2>1, <2>2, <2>3, <2>4, <2>5, <2>6, Zenon
<1> QED
  BY <1>1, <1>3

-----------------------------------------------------------------------------
\* The invariant, of the inodes and the threads of any state

\* What ".." names.
Up(I, e) == I[e].data[2].inum

\* A directory has one name, in the directory that its ".." names.
Tree(I) ==
  \A d, k, e : Names(I, d, k, e) /\ I[e].type = "dir" =>
    Up(I, e) = d /\ \A c, j : Names(I, c, j, e) => c = d /\ j = k

\* What NamesInv says of the disk and of the links in the hands of calls.
Rooted(I) == I[ROOTINO].type = "dir" /\ Up(I, ROOTINO) = ROOTINO
Sound(I) == Rooted(I) /\ \A i \in Ino : Dots(I[i], i) /\ CountsLinks(I[i])
Good(I, T) ==
  /\ \A i \in Ino : Enough(I[i].nlink, LinksOf(I, T, i))
  /\ Sound(I)
  /\ Tree(I)

\* OneParent for any inodes.
TreeIn(I) ==
  \A d \in Ino : \A k \in NamedIn(I, d) :
    LET e == I[d].data[k].inum IN
    I[e].type = "dir" =>
      /\ I[e].data[2].inum = d
      /\ \A c \in Ino : \A j \in NamedIn(I, c) : I[c].data[j].inum = e => c = d /\ j = k

\* The entries of a directory name inodes.
LEMMA NamedNames ==
  ASSUME NEW I, HasSlots(I), NEW d, NEW k
  PROVE  /\ \A e : Names(I, d, k, e) <=> d \in Ino /\ k \in NamedIn(I, d) /\ e = I[d].data[k].inum
<1>1. ASSUME d \in Ino, k \in NamedIn(I, d) PROVE Names(I, d, k, I[d].data[k].inum)
  <2>1. I[d].type = "dir" /\ k \in DOMAIN I[d].data /\ I[d].data[k].inum # 0 /\ k > 2
    BY <1>1 DEF NamedIn
  <2>2. I[d].data[k].inum \in Ino
    BY <1>1, <2>1, HasSlotsIs, InoIs
  <2> QED
    BY <1>1, <2>1, <2>2 DEF Names
<1>2. ASSUME NEW e, Names(I, d, k, e) PROVE d \in Ino /\ k \in NamedIn(I, d) /\ e = I[d].data[k].inum
  <2>1. e # 0
    BY <1>2, InoIs DEF Names
  <2> QED
    BY <1>2, <2>1 DEF Names, NamedIn
<1> QED
  BY <1>1, <1>2, Zenon

\* OneParent says that the directories are a tree.
LEMMA TreeIs ==
  ASSUME NEW I, HasSlots(I)
  PROVE  TreeIn(I) <=> Tree(I)
<1>1. \A d, k, e : Names(I, d, k, e) <=> d \in Ino /\ k \in NamedIn(I, d) /\ e = I[d].data[k].inum
  BY NamedNames, Zenon
<1>2. ASSUME TreeIn(I), NEW d, NEW k, NEW e, Names(I, d, k, e), I[e].type = "dir"
      PROVE  Up(I, e) = d /\ \A c, j : Names(I, c, j, e) => c = d /\ j = k
  <2>1. d \in Ino /\ k \in NamedIn(I, d) /\ e = I[d].data[k].inum
    BY <1>1, <1>2, Zenon
  <2>2. /\ I[e].data[2].inum = d
        /\ \A c \in Ino : \A j \in NamedIn(I, c) : I[c].data[j].inum = e => c = d /\ j = k
    BY <1>2, <2>1 DEF TreeIn
  <2> QED
    BY <1>1, <2>2, Zenon DEF Up
<1>3. ASSUME Tree(I), NEW d \in Ino, NEW k \in NamedIn(I, d), NEW e, e = I[d].data[k].inum, I[e].type = "dir"
      PROVE  /\ I[e].data[2].inum = d
             /\ \A c \in Ino : \A j \in NamedIn(I, c) : I[c].data[j].inum = e => c = d /\ j = k
  <2>1. Names(I, d, k, e)
    BY <1>1, <1>3, Zenon
  <2>2. Up(I, e) = d /\ \A c, j : Names(I, c, j, e) => c = d /\ j = k
    <3>1. Tree(I) /\ I[e].type = "dir"
      BY <1>3
    <3> QED
      BY <2>1, <3>1, Zenon DEF Tree
  <2>3. \A c \in Ino : \A j \in NamedIn(I, c) : Names(I, c, j, I[c].data[j].inum)
    BY <1>1, Zenon
  <2> QED
    BY <2>2, <2>3 DEF Up
<1>4. TreeIn(I) => Tree(I)
  BY <1>2, Zenon DEF Tree
<1>5. Tree(I) => TreeIn(I)
  BY <1>3 DEF TreeIn
<1> QED
  BY <1>4, <1>5

\* The directories of a state.
LEMMA ShapeSlots ==
  /\ Shape => HasSlots(inode)
  /\ Shape' => HasSlots(inode')
<1>1. Shape => HasSlots(inode)
  BY DEF Shape, IsInode, HasSlots
<1>2. Shape' => HasSlots(inode')
  BY DEF Shape, IsInode, HasSlots
<1> QED
  BY <1>1, <1>2

\* What NamesInv says of a state, in these terms.
LEMMA GoodNow ==
  ASSUME Shape, NamesInv
  PROVE  HasSlots(inode) /\ Good(inode, th)
<1>1. HasSlots(inode)
  BY ShapeSlots
<1>2. ASSUME NEW i \in Ino PROVE Enough(inode[i].nlink, LinksOf(inode, th, i))
  <2>1. IsFiniteSet(Links(i)) /\ inode[i].nlink >= Cardinality(Links(i)) /\ CountsLinks(inode[i])
    BY DEF NamesInv, NamesCounted
  <2>2. IsFiniteSet(LinksOf(inode, th, i)) /\ inode[i].nlink >= Cardinality(LinksOf(inode, th, i))
    BY <2>1, LinksOfIs, Zenon
  <2> QED
    BY <2>1, <2>2 DEF Enough, CountsLinks
<1>3. Sound(inode)
  BY DEF NamesInv, Sound, Rooted, Up
<1>4. Tree(inode)
  <2>1. \A d : Named(d) = NamedIn(inode, d)
    BY DEF Named, Entries, NamedIn
  <2>2. OneParent
    BY DEF NamesInv
  <2>3. TreeIn(inode)
    BY <2>1, <2>2 DEF OneParent, TreeIn
  <2> QED
    BY <1>1, <2>3, TreeIs
<1> QED
  BY <1>1, <1>2, <1>3, <1>4 DEF Good

\* dirlookup() in any inodes, and what a thread knows of them.
FindIn(s, n) == LET hits == {k \in {h \in DOMAIN s : s[h].inum # 0} : s[k].name = n}
                IN IF hits = {} THEN 0 ELSE CHOOSE k \in hits : \A h \in hits : k <= h
LookupIn(s, n) == IF FindIn(s, n) = 0 THEN 0 ELSE s[FindIn(s, n)].inum
KnowsIn(I, t) ==
  /\ t.pc = "unlink2" => /\ Head(t.path) \notin {".", ".."}
                         /\ LookupIn(I[t.dp].data, Head(t.path)) = t.ip
  /\ Linking(t) => I[t.ip].type # "dir"

\* Knows, in a state and in the next one.
LEMMA KnowsIs ==
  /\ \A d, n : Find(d, n) = FindIn(inode[d].data, n) /\ Dirlookup(d, n) = LookupIn(inode[d].data, n)
  /\ \A q : Knows(th[q]) <=> KnowsIn(inode, th[q])
  /\ \A q : Knows(th[q])' <=> KnowsIn(inode', th'[q])
<1>1. \A d, n : Find(d, n) = FindIn(inode[d].data, n)
  BY DEF Find, Entries, FindIn
<1>2. \A d, n : Dirlookup(d, n) = LookupIn(inode[d].data, n)
  BY <1>1 DEF Dirlookup, LookupIn
<1>3. \A d, n : Find(d, n)' = FindIn(inode'[d].data, n)
  BY DEF Find, Entries, FindIn
<1>4. \A d, n : Dirlookup(d, n)' = LookupIn(inode'[d].data, n)
  BY <1>3 DEF Dirlookup, LookupIn
<1>5. \A q : Knows(th[q]) <=> KnowsIn(inode, th[q])
  BY <1>2 DEF Knows, KnowsIn
<1>6. \A q : Knows(th[q])' <=> KnowsIn(inode', th'[q])
  BY <1>4 DEF Knows, KnowsIn
<1> QED
  BY <1>1, <1>2, <1>5, <1>6

\* The threads of the next state.
NextKnows == \A q \in Proc : KnowsIn(inode', th'[q])
NextLocked == \A q \in Proc, i \in Ino : Holds(th'[q], i) => icache'[i].lock = q

\* What has to be shown of the next state.
LEMMA GoodNext ==
  ASSUME Shape', Good(inode', th'), NextKnows, NextLocked
  PROVE  NamesInv'
<1>1. HasSlots(inode')
  BY ShapeSlots
<1>2. ASSUME NEW i \in Ino PROVE inode'[i].nlink >= Cardinality(Links(i)') /\ IsFiniteSet(Links(i)')
  <2>1. Enough(inode'[i].nlink, LinksOf(inode', th', i))
    BY DEF Good
  <2>2. Enough(inode'[i].nlink, Links(i)')
    BY <2>1, LinksOfIs, Zenon
  <2> QED
    BY <2>2 DEF Enough
<1>3. OneParent'
  <2>1. \A d : Named(d)' = NamedIn(inode', d)
    BY DEF Named, Entries, NamedIn
  <2>2. TreeIn(inode')
    BY <1>1, TreeIs DEF Good
  <2> QED
    BY <2>1, <2>2 DEF OneParent, TreeIn
<1>4. Sound(inode')
  BY DEF Good
<1>5. NamesCounted'
  BY <1>2 DEF NamesCounted
<1>6. /\ \A i \in Ino : Dots(inode'[i], i) /\ CountsLinks(inode'[i])
      /\ inode'[ROOTINO].type = "dir" /\ inode'[ROOTINO].data[2].inum = ROOTINO
  BY <1>4 DEF Sound, Rooted, Up
<1>7. \A p \in Proc : Knows(th[p])' /\ \A i \in Ino : Holds(th'[p], i) => icache'[i].lock = p
  BY KnowsIs, Zenon DEF NextKnows, NextLocked
<1>8. \A i \in Ino : IsFiniteSet(Links(i)')
  BY <1>2
<1> QED
  BY <1>3, <1>5, <1>6, <1>7, <1>8 DEF NamesInv

-----------------------------------------------------------------------------
\* What a step must show of links and names

\* Nothing is named that was not, nothing becomes a directory, and ".." stays.
Thins(I, J) ==
  /\ \A d, k, i : Names(J, d, k, i) => Names(I, d, k, i)
  /\ \A i \in Ino : J[i].type = "dir" => I[i].type = "dir" /\ Up(J, i) = Up(I, i)

\* No call takes a link in hand.
Slack(T, U) == \A q \in Proc : \A i : (Unlinks(U[q], i) => Unlinks(T[q], i)) /\ (LinksTo(U[q], i) => LinksTo(T[q], i))

\* No link is gained by it.
LEMMA ThinsGained ==
  ASSUME NEW I, NEW J, Thins(I, J), NEW T, NEW U, Slack(T, U), NEW i
  PROVE  Gained(I, T, J, U, i, {})
<1>1. ASSUME NEW k, Sub(J, i, k) PROVE Sub(I, i, k)
  <2>1. PICK e \in Ino : Names(J, i, k, e) /\ J[e].type = "dir"
    BY <1>1 DEF Sub
  <2>2. Names(I, i, k, e) /\ I[e].type = "dir"
    BY <2>1, Zenon DEF Thins
  <2> QED
    BY <2>2 DEF Sub
<1>2. \A d, k : Names(J, d, k, i) => Names(I, d, k, i)
  BY Zenon DEF Thins
<1>3. \A q \in Proc : (Unlinks(U[q], i) => Unlinks(T[q], i)) /\ (LinksTo(U[q], i) => LinksTo(T[q], i))
  BY Zenon DEF Slack
<1> QED
  BY <1>1, <1>2, <1>3, Zenon DEF Gained

\* The directories stay a tree.
LEMMA ThinsTree ==
  ASSUME NEW I, NEW J, Thins(I, J), Tree(I)
  PROVE  Tree(J)
<1>1. ASSUME NEW d, NEW k, NEW e, Names(J, d, k, e), J[e].type = "dir"
      PROVE  Up(J, e) = d /\ \A c, j : Names(J, c, j, e) => c = d /\ j = k
  <2>1. e \in Ino
    BY <1>1 DEF Names
  <2>2. Names(I, d, k, e) /\ I[e].type = "dir" /\ Up(J, e) = Up(I, e)
    BY <1>1, <2>1, Zenon DEF Thins
  <2>3. Up(I, e) = d /\ \A c, j : Names(I, c, j, e) => c = d /\ j = k
    BY <2>2, Zenon DEF Tree
  <2>4. \A c, j : Names(J, c, j, e) => Names(I, c, j, e)
    BY Zenon DEF Thins
  <2> QED
    BY <2>2, <2>3, <2>4, Zenon
<1> QED
  BY <1>1, Zenon DEF Tree

\* The count of an inode covers its links after a step that takes a link away
\* and counts one less, and so on.
LEMMA Covered ==
  ASSUME NEW I, NEW T, Good(I, T), HasSlots(I), NEW J, NEW U, HasSlots(J), NEW i \in Ino
  PROVE  /\ Gained(I, T, J, U, i, {}) /\ J[i].nlink = I[i].nlink => Enough(J[i].nlink, LinksOf(J, U, i))
         /\ \A x : Gained(I, T, J, U, i, {x}) /\ J[i].nlink = I[i].nlink + 1 => Enough(J[i].nlink, LinksOf(J, U, i))
         /\ \A y \in LinksOf(I, T, i) : Gained(I, T, J, U, i, {}) /\ J[i].nlink = I[i].nlink - 1 /\ y \notin LinksOf(J, U, i)
              => Enough(J[i].nlink, LinksOf(J, U, i))
         /\ \A x : \A y \in LinksOf(I, T, i) : Gained(I, T, J, U, i, {x}) /\ J[i].nlink = I[i].nlink /\ y \notin LinksOf(J, U, i)
              => Enough(J[i].nlink, LinksOf(J, U, i))
<1>1. PICK n, m, L, M : n = I[i].nlink /\ m = J[i].nlink /\ L = LinksOf(I, T, i) /\ M = LinksOf(J, U, i)
  OBVIOUS
<1>2. Enough(n, L)
  BY <1>1 DEF Good
<1>3. \A X : Gained(I, T, J, U, i, X) => M \subseteq L \cup X
  BY <1>1, LinksGained, Zenon
<1>4. Gained(I, T, J, U, i, {}) => M \subseteq L
  BY <1>3
<1>5. /\ M \subseteq L => Enough(n, M)
      /\ \A x : M \subseteq L \cup {x} => Enough(n + 1, M)
      /\ \A y \in L : y \notin M /\ M \subseteq L => Enough(n - 1, M)
      /\ \A x, y : y \in L /\ y \notin M /\ M \subseteq L \cup {x} => Enough(n, M)
  BY <1>2, EnoughIs, Zenon
<1>6. ASSUME Gained(I, T, J, U, i, {}), m = n PROVE Enough(m, M)
  BY <1>4, <1>5, <1>6, Zenon
<1>7. ASSUME NEW x, Gained(I, T, J, U, i, {x}), m = n + 1 PROVE Enough(m, M)
  BY <1>3, <1>5, <1>7, Zenon
<1>8. ASSUME NEW y \in L, Gained(I, T, J, U, i, {}), m = n - 1, y \notin M PROVE Enough(m, M)
  BY <1>4, <1>5, <1>8, Zenon
<1>9. ASSUME NEW x, NEW y \in L, Gained(I, T, J, U, i, {x}), m = n, y \notin M PROVE Enough(m, M)
  BY <1>3, <1>5, <1>9, Zenon
<1> QED
  BY <1>1, <1>6, <1>7, <1>8, <1>9, Zenon

\* An inode without links counted has none.
LEMMA Unnamed ==
  ASSUME NEW I, NEW T, Good(I, T), HasSlots(I), NEW i \in Ino, I[i].nlink = 0
  PROVE  /\ \A d, k : ~Names(I, d, k, i)
         /\ \A k : ~Sub(I, i, k)
         /\ \A q \in Proc : ~Unlinks(T[q], i) /\ ~LinksTo(T[q], i)
         /\ i # ROOTINO
<1>1. LinksOf(I, T, i) = {}
  BY EnoughNone DEF Good
<1>2. IsLinks(I, T, i, {})
  BY <1>1, LinksMembers
<1> QED
  BY <1>2, Zenon DEF IsLinks

-----------------------------------------------------------------------------
\* What a step does to the links and locks in the hands of calls

\* A thread in the middle of link(), unlink() or create(), seen before and
\* after a step: it takes no link in hand, finds no name and takes no lock.
Tame(t, u) ==
  /\ u.pc = "unlink3" => t.pc = "unlink3" /\ u.ip = t.ip
  /\ Linking(u) => Linking(t) /\ u.ip = t.ip
  /\ u.pc = "unlink2" => t.pc = "unlink2" /\ u.ip = t.ip /\ u.dp = t.dp /\ u.path = t.path
  /\ \A i : Holds(u, i) => Holds(t, i)
NextTame == \A q \in Proc : Tame(th[q], th'[q])

\* A thread with nothing in hand.
Loose(u) ==
  /\ u.pc \notin {"unlink2", "unlinkbad", "unlink3", "link2", "link3", "linkbad", "open2", "made"}
  /\ u.pc = "nameiparent" => u.call.op # "link"

\* Such a thread can follow any.
LEMMA LooseTame ==
  ASSUME NEW u, Loose(u)
  PROVE  (\A t : Tame(t, u)) /\ (\A i : ~Holds(u, i)) /\ ~Linking(u)
  BY DEF Loose, Tame, Holds, Linking

\* A thread that stays where it is.
LEMMA SameTame ==
  ASSUME NEW t, NEW u, u.pc = t.pc, u.ip = t.ip, u.dp = t.dp, u.path = t.path, u.call = t.call
  PROVE  Tame(t, u)
  BY DEF Tame, Holds, Linking

\* One thread moves.
LEMMA OneTame ==
  ASSUME Shape, NEW p \in Proc, NEW u, Tame(th[p], u), th' = [th EXCEPT ![p] = u]
  PROVE  NextTame
<1>1. DOMAIN th = Proc
  BY ShapeIs
<1>2. ASSUME NEW q \in Proc, q # p PROVE th'[q] = th[q]
  BY <1>1, <1>2
<1>3. th'[p] = u
  BY <1>1
<1>4. \A q \in Proc : Tame(th[q], th[q])
  BY SameTame
<1> QED
  BY <1>2, <1>3, <1>4, Zenon DEF NextTame

\* A thread returns.
LEMMA ReturnLoose ==
  ASSUME NEW t, NEW v, NEW s
  PROVE  Loose(Return(t, v, s))
  BY DEF Return, NewThread, Loose

\* A thread begins.
LEMMA NewLoose == Loose(NewThread)
  BY DEF NewThread, Loose

\* A thread at another label.
LEMMA LikeLoose ==
  ASSUME NEW u, NEW t, NEW l, NEW at, NEW path, NEW ip, NEW dp, NEW s, Like(u, t, l, at, path, ip, dp, s),
         l \notin {"unlink2", "unlinkbad", "unlink3", "link2", "link3", "linkbad", "open2", "made"},
         l = "nameiparent" => t.call.op # "link"
  PROVE  Loose(u)
  BY DEF Like, Loose

\* What a call in link() does next.
LEMMA LikeLinking ==
  ASSUME NEW u, NEW t, NEW l, NEW at, NEW path, NEW dp, NEW s, Like(u, t, l, at, path, t.ip, dp, s),
         Linking(t), l \in {"link2", "linkbad"}
  PROVE  Tame(t, u)
  BY DEF Like, Tame, Linking, Holds

\* The locks after a step of p: it takes none, and releases its own.
Frees(p) ==
  \A i \in Ino : \/ icache'[i].lock = icache[i].lock
                 \/ icache[i].lock \in {0, p} /\ ~Holds(th'[p], i)

\* Threads that hold a lock still hold it.
LEMMA TameLocked ==
  ASSUME NamesInv, NEW p \in Proc, NextTame, Frees(p)
  PROVE  NextLocked
<1>1. ASSUME NEW q \in Proc, NEW i \in Ino, Holds(th'[q], i) PROVE icache'[i].lock = q
  <2>1. Holds(th[q], i)
    BY <1>1 DEF NextTame, Tame
  <2>2. icache[i].lock = q /\ q # 0
    BY <2>1, Sizes DEF NamesInv, Proc
  <2> QED
    BY <1>1, <2>2 DEF Frees
<1> QED
  BY <1>1 DEF NextLocked

\* What is in a locked inode stays.
Steady == \A i \in Ino : icache[i].lock # 0 => inode'[i].data = inode[i].data

\* What threads know stays true.
LEMMA TameKnows ==
  ASSUME IndInv, NamesInv, NextTame, Thins(inode, inode'), Steady
  PROVE  NextKnows
<1>1. ASSUME NEW q \in Proc PROVE KnowsIn(inode', th'[q])
  <2>1. PICK t, u : t = th[q] /\ u = th'[q]
    OBVIOUS
  <2>2. Tame(t, u) /\ KnowsIn(inode, t)
    BY <2>1, KnowsIs DEF NextTame, NamesInv
  <2>3. IsThread(t) /\ Locals(t)
    BY <2>1, ShapeIs DEF IndInv, ThreadsInv
  <2>4. ASSUME u.pc = "unlink2"
        PROVE  Head(u.path) \notin {".", ".."} /\ LookupIn(inode'[u.dp].data, Head(u.path)) = u.ip
    <3>1. t.pc = "unlink2" /\ u.ip = t.ip /\ u.dp = t.dp /\ u.path = t.path
      BY <2>2, <2>4 DEF Tame
    <3>2. t.dp \in Ino
      BY <2>3, <3>1, InoIs DEF IsThread, Locals, HasDp
    <3>3. Holds(t, t.dp)
      BY <3>1 DEF Holds
    <3>4. icache[t.dp].lock = q /\ q # 0
      BY <2>1, <3>2, <3>3, Sizes DEF NamesInv, Proc
    <3>5. inode'[t.dp].data = inode[t.dp].data
      BY <3>2, <3>4 DEF Steady
    <3> QED
      BY <2>2, <3>1, <3>5 DEF KnowsIn
  <2>5. ASSUME Linking(u) PROVE inode'[u.ip].type # "dir"
    <3>1. Linking(t) /\ u.ip = t.ip
      BY <2>2, <2>5 DEF Tame
    <3>2. t.ip \in Ino
      BY <2>3, <3>1, InoIs DEF IsThread, Locals, HasIp, Linking
    <3> QED
      BY <2>2, <3>1, <3>2 DEF Thins, KnowsIn
  <2>6. KnowsIn(inode', u)
    BY <2>4, <2>5 DEF KnowsIn
  <2> QED
    BY <2>1, <2>6
<1> QED
  BY <1>1 DEF NextKnows

\* A step that thins the links out, with the counts as they are.
LEMMA ThinStep ==
  ASSUME IndInv, IndInv', NamesInv, NEW p \in Proc, NextTame, Frees(p), Steady,
         Thins(inode, inode'), Sound(inode'), \A i \in Ino : inode'[i].nlink = inode[i].nlink
  PROVE  NamesInv'
<1>1. Shape /\ Shape' /\ HasSlots(inode) /\ HasSlots(inode') /\ Good(inode, th)
  BY GoodNow, ShapeSlots DEF IndInv
<1>2. Slack(th, th')
  BY DEF NextTame, Tame, Slack, Unlinks, LinksTo
<1>3. Tree(inode')
  BY <1>1, ThinsTree DEF Good
<1>4. ASSUME NEW i \in Ino PROVE Enough(inode'[i].nlink, LinksOf(inode', th', i))
  <2>1. Gained(inode, th, inode', th', i, {}) /\ inode'[i].nlink = inode[i].nlink
    BY <1>2, ThinsGained
  <2> QED
    BY <1>1, <2>1, Covered, Zenon
<1>5. Good(inode', th')
  BY <1>3, <1>4 DEF Good
<1> QED
  BY <1>1, <1>5, TameLocked, TameKnows, GoodNext

\* A step that leaves the inodes alone.
LEMMA QuietStep ==
  ASSUME IndInv, IndInv', NamesInv, NEW p \in Proc, NextTame, Frees(p), inode' = inode
  PROVE  NamesInv'
<1>1. Thins(inode, inode') /\ Steady /\ \A i \in Ino : inode'[i].nlink = inode[i].nlink
  BY Zenon DEF Thins, Steady
<1>2. Sound(inode')
  <2>1. Sound(inode)
    BY GoodNow DEF IndInv, Good
  <2> QED
    BY <2>1
<1> QED
  BY <1>1, <1>2, ThinStep

\* The locks after an operation on the inode cache.
LEMMA VisitLock ==
  ASSUME NEW c \in Cache, NEW i
  PROVE  Visit(c, i) \in Cache /\ \A j \in Ino : Visit(c, i)[j].lock = c[j].lock
<1>1. \A j \in Ino : Visit(c, i)[j].lock = c[j].lock
  BY DEF Visit, Cache
<1> QED
  BY <1>1, VisitIs

\* iget() leaves the locks alone.
LEMMA IgetLock ==
  ASSUME NEW c \in Cache, NEW i \in Ino
  PROVE  Iget(c, i) \in Cache /\ \A j \in Ino : Iget(c, i)[j].lock = c[j].lock
<1>1. Iget(c, i) \in Cache
  BY IgetIs
<1>2. PICK r : r = [ref |-> c[i].ref + 1, valid |-> c[i].valid /\ c[i].ref > 0, lock |-> c[i].lock]
  OBVIOUS
<1>3. r.lock = c[i].lock
  BY <1>2
<1>4. Iget(c, i) = [c EXCEPT ![i] = r]
  BY <1>2 DEF Iget, Cache
<1>5. DOMAIN c = Ino
  BY DEF Cache
<1> QED
  BY <1>1, <1>3, <1>4, <1>5

\* So does idup().
LEMMA IdupLock ==
  ASSUME NEW c \in Cache, NEW i \in Ino
  PROVE  \A j \in Ino : Idup(c, i)[j].lock = c[j].lock
  BY DEF Idup, Cache

\* iunlock() releases one.
LEMMA IunlockLock ==
  ASSUME NEW c \in Cache, NEW i
  PROVE  Iunlock(c, i) \in Cache /\ \A j \in Ino : Iunlock(c, i)[j].lock = IF j = i THEN 0 ELSE c[j].lock
<1>1. \A j \in Ino : Iunlock(c, i)[j].lock = IF j = i THEN 0 ELSE c[j].lock
  BY DEF Iunlock, Cache
<1> QED
  BY <1>1, IunlockIs

\* ilock() takes one.
LEMMA IlockLock ==
  ASSUME NEW c \in Cache, NEW i, NEW p \in Proc
  PROVE  Ilock(c, i, p) \in Cache /\ \A j \in Ino : Ilock(c, i, p)[j].lock = IF j = i THEN p ELSE c[j].lock
<1>1. \A j \in Ino : Ilock(c, i, p)[j].lock = IF j = i THEN p ELSE c[j].lock
  BY DEF Ilock, Cache
<1> QED
  BY <1>1, IlockIs

\* The locks a step of p may change.
LocksKept(p) == \A i \in Ino : icache'[i].lock = icache[i].lock \/ icache[i].lock \in {0, p}
SameLocks == \A i \in Ino : icache'[i].lock = icache[i].lock

\* A thread moves on with nothing in hand.
LEMMA LooseStep ==
  ASSUME Shape, NEW p \in Proc, NEW u, Loose(u), th' = [th EXCEPT ![p] = u], LocksKept(p)
  PROVE  NextTame /\ Frees(p)
<1>1. (\A t : Tame(t, u)) /\ (\A i : ~Holds(u, i))
  BY LooseTame
<1>2. NextTame
  BY <1>1, OneTame
<1>3. th'[p] = u
  BY ShapeIs
<1> QED
  BY <1>1, <1>2, <1>3 DEF Frees, LocksKept

\* A thread returns.
LEMMA ReturnStep ==
  ASSUME Shape, NEW p \in Proc, NEW t, NEW v, NEW s, th' = [th EXCEPT ![p] = Return(t, v, s)], LocksKept(p)
  PROVE  NextTame /\ Frees(p)
  BY ReturnLoose, LooseStep, Zenon

\* A thread goes on with the locks as they are.
LEMMA TameStep ==
  ASSUME Shape, NEW p \in Proc, NEW u, Tame(th[p], u), th' = [th EXCEPT ![p] = u], SameLocks
  PROVE  NextTame /\ Frees(p)
<1>1. NextTame
  BY OneTame
<1> QED
  BY <1>1 DEF Frees, SameLocks

\* Locks that stay are kept.
LEMMA SameKept ==
  ASSUME NEW p
  PROVE  /\ SameLocks => LocksKept(p)
         /\ icache' = icache => SameLocks
  BY DEF SameLocks, LocksKept

\* iput(): the thread stays where it is.
LEMMA PutsTame ==
  ASSUME IndInv, NamesInv, NEW p \in Proc, Iput(p) \/ Drop(p)
  PROVE  NextTame /\ Frees(p)
<1>1. /\ DOMAIN th[p] = {"pc", "call", "at", "path", "ip", "dp", "f", "done", "puts", "dropping", "ret", "buf"}
      /\ Shape /\ icache \in Cache
  BY ShapeIs, ThreadFields DEF IndInv, IsThread, Shape, Cache
<1>2. \/ th' = [th EXCEPT ![p] = [th[p] EXCEPT !.dropping = TRUE]]
      \/ th' = [th EXCEPT ![p] = [th[p] EXCEPT !.puts = Tail(@), !.dropping = FALSE]]
  BY DEF Iput, Drop
<1>3. ASSUME NEW x, x = [th[p] EXCEPT !.dropping = TRUE] \/ x = [th[p] EXCEPT !.puts = Tail(@), !.dropping = FALSE]
      PROVE  Tame(th[p], x)
  <2>1. x.pc = th[p].pc /\ x.ip = th[p].ip /\ x.dp = th[p].dp /\ x.path = th[p].path /\ x.call = th[p].call
    BY <1>1, <1>3
  <2> QED
    BY <2>1, SameTame
<1>4. SameLocks
  <2>1. PICK i : i = Head(th[p].puts)
    OBVIOUS
  <2>2. icache' = icache \/ icache' = [icache EXCEPT ![i].valid = FALSE] \/ icache' = [icache EXCEPT ![i].ref = @ - 1]
    BY <2>1 DEF Iput, Drop
  <2> QED
    BY <1>1, <2>2 DEF SameLocks, Cache
<1> QED
  BY <1>1, <1>2, <1>3, <1>4, TameStep, Zenon

\* The calls that return, with their inode locked or not.
LEMMA ReturningTame ==
  ASSUME IndInv, NamesInv, NEW p \in Proc,
         Open(p) \/ Read(p) \/ Fstat(p) \/ Made(p) \/ UnlinkCount(p) \/ UnlinkBad(p) \/ LinkBad(p) \/ ChdirSet(p) \/ Exec(p)
  PROVE  NextTame /\ Frees(p)
<1>1. Shape /\ icache \in Cache
  BY DEF IndInv, Shape, Cache
<1>2. ASSUME NEW i, icache' = Visit(icache, i) PROVE LocksKept(p)
  BY <1>1, <1>2, VisitLock DEF LocksKept
<1>3. ASSUME NEW i \in Ino, icache' = Iunlock(icache, i), icache[i].lock = p PROVE LocksKept(p)
  BY <1>1, <1>3, IunlockLock DEF LocksKept
<1>4. ASSUME NEW L, At(p, L), NEW i \in {th[p].ip, th[p].dp}, i # 0 PROVE i \in Ino
  BY <1>4, AtIs, InoIs DEF IsThread
<1>5. CASE Open(p)
  <2>1. PICK fd : /\ \/ th' = [th EXCEPT ![p] = Return(th[p], -1, <<th[p].ip>>)]
                     \/ th' = [th EXCEPT ![p] = Return(th[p], fd, <<>>)]
                  /\ icache' = Iunlock(Visit(icache, th[p].ip), th[p].ip)
                  /\ At(p, {"open1", "open2"})
    BY <1>5, Zenon DEF Open
  <2>2. PICK c, i : c = Visit(icache, th[p].ip) /\ i = th[p].ip
    OBVIOUS
  <2>3. th[p].pc \in {"open1", "open2"} /\ i \in Ino
    BY <2>1, <2>2, <1>4, AtIs DEF Locals, HasIp
  <2>4. icache[i].lock \in {0, p}
    <3>1. CASE th[p].pc = "open2"
      BY <2>2, <2>3, <3>1 DEF NamesInv, Holds
    <3>2. CASE th[p].pc = "open1"
      <4>1. NextLock(p) = i
        BY <2>1, <2>2, <3>2 DEF NextLock, At
      <4>2. i # 0
        BY <2>3, InoIs
      <4> QED
        BY <2>1, <4>1, <4>2 DEF At
    <3> QED
      BY <2>3, <3>1, <3>2
  <2>5. c \in Cache /\ \A j \in Ino : c[j].lock = icache[j].lock
    BY <1>1, <2>2, VisitLock
  <2>6. \A j \in Ino : icache'[j].lock = IF j = i THEN 0 ELSE c[j].lock
    BY <2>1, <2>2, <2>5, IunlockLock
  <2>7. LocksKept(p)
    BY <2>4, <2>5, <2>6 DEF LocksKept
  <2> QED
    BY <1>1, <2>1, <2>7, ReturnStep, Zenon
<1>6. CASE Read(p)
  <2>1. PICK t, v : /\ \/ th' = [th EXCEPT ![p] = Return(th[p], -1, <<>>)]
                       \/ th' = [th EXCEPT ![p] = Return(t, v, <<>>)]
                    /\ icache' = Visit(icache, ftable[th[p].f].ip)
    BY <1>6, Zenon DEF Read
  <2> QED
    BY <1>1, <1>2, <2>1, ReturnStep, Zenon
<1>7. CASE Fstat(p)
  <2>1. PICK t, v : th' = [th EXCEPT ![p] = Return(t, v, <<>>)] /\ icache' = Visit(icache, ftable[th[p].f].ip)
    BY <1>7 DEF Fstat
  <2> QED
    BY <1>1, <1>2, <2>1, ReturnStep, Zenon
<1>8. CASE Made(p) \/ UnlinkCount(p)
  <2>1. PICK v, s : /\ th' = [th EXCEPT ![p] = Return(th[p], v, s)] /\ icache' = Iunlock(icache, th[p].ip)
                    /\ At(p, {"made", "unlink3"})
    BY <1>8 DEF Made, UnlinkCount, At
  <2>2. th[p].pc \in {"made", "unlink3"} /\ th[p].ip \in Ino
    BY <2>1, <1>4, AtIs DEF Locals, HasIp
  <2>3. icache[th[p].ip].lock = p
    BY <2>2 DEF NamesInv, Holds
  <2> QED
    BY <1>1, <1>3, <2>1, <2>2, <2>3, ReturnStep, Zenon
<1>9. CASE UnlinkBad(p)
  <2>1. /\ th' = [th EXCEPT ![p] = Return(th[p], -1, <<th[p].dp>>)] /\ icache' = Iunlock(icache, th[p].dp)
        /\ At(p, {"unlinkbad"})
    BY <1>9 DEF UnlinkBad
  <2>2. th[p].pc = "unlinkbad" /\ th[p].dp \in Ino
    BY <2>1, <1>4, AtIs DEF Locals, HasDp
  <2>3. icache[th[p].dp].lock = p
    BY <2>2 DEF NamesInv, Holds
  <2> QED
    BY <1>1, <1>3, <2>1, <2>2, <2>3, ReturnStep, Zenon
<1>10. CASE LinkBad(p) \/ Exec(p)
  <2>1. PICK v, s : th' = [th EXCEPT ![p] = Return(th[p], v, s)] /\ icache' = Visit(icache, th[p].ip)
    BY <1>10 DEF LinkBad, Exec
  <2> QED
    BY <1>1, <1>2, <2>1, ReturnStep, Zenon
<1>11. CASE ChdirSet(p)
  <2>1. th' = [th EXCEPT ![p] = Return(th[p], 0, <<>>)] /\ icache' = icache
    BY <1>11 DEF ChdirSet
  <2> QED
    BY <1>1, <2>1, SameKept, ReturnStep, Zenon
<1> QED
  BY <1>5, <1>6, <1>7, <1>8, <1>9, <1>10, <1>11, Zenon

\* A lookup that takes a reference, with no lock taken or released.
LEMMA LookupLocks ==
  ASSUME NEW c \in Cache, NEW d, NEW i \in Ino, icache = c, icache' = Iget(Visit(c, d), i)
  PROVE  SameLocks
<1>1. PICK v \in Cache : v = Visit(c, d) /\ \A j \in Ino : v[j].lock = c[j].lock
  BY VisitLock
<1>2. \A j \in Ino : Iget(v, i)[j].lock = v[j].lock
  BY IgetLock
<1>3. icache' = Iget(v, i)
  BY <1>1
<1> QED
  BY <1>1, <1>2, <1>3 DEF SameLocks

\* ilock() and iunlock() in one step.
LEMMA VisitLocks ==
  ASSUME icache \in Cache, NEW i, icache' = Visit(icache, i)
  PROVE  SameLocks
  BY VisitLock DEF SameLocks

\* A walk is over.
LEMMA FoundTame ==
  ASSUME NEW t, IsThread(t), Locals(t), t.pc \in {"namei", "nameiparent"}, NEW s, NEW i \in Ino
  PROVE  /\ Tame(t, Found(t, 0, s))
         /\ t.pc = "namei" \/ t.path # <<>> => Tame(t, Found(t, i, s))
<1>1. Tame(t, Found(t, 0, s))
  <2>1. PICK u : u = Found(t, 0, s)
    OBVIOUS
  <2>2. \/ \E w, v : u = Return(w, v, s)
        \/ Like(u, t, "linkbad", 0, t.path, t.ip, t.dp, s) /\ t.pc = "nameiparent" /\ t.call.op = "link"
    BY <2>1, FoundNone, Zenon
  <2>3. ASSUME NEW w, NEW v, u = Return(w, v, s) PROVE Tame(t, u)
    BY <2>3, ReturnLoose, LooseTame, Zenon
  <2>4. CASE Like(u, t, "linkbad", 0, t.path, t.ip, t.dp, s) /\ t.pc = "nameiparent" /\ t.call.op = "link"
    <3>1. PICK l, path, dp : l = "linkbad" /\ path = t.path /\ dp = t.dp
      OBVIOUS
    <3>2. Linking(t) /\ l \in {"link2", "linkbad"}
      BY <2>4, <3>1 DEF Linking
    <3>3. Like(u, t, l, 0, path, t.ip, dp, s)
      BY <2>4, <3>1
    <3> QED
      BY <2>1, <3>2, <3>3, LikeLinking, Zenon
  <2> QED
    BY <2>1, <2>2, <2>3, <2>4, Zenon
<1>2. CASE t.pc = "namei"
  <2>1. PICK l \in {"open1", "link1", "chdir1", "exec1"} : Like(Found(t, i, s), t, l, 0, t.path, i, t.dp, s)
    BY <1>2, FoundIp, Zenon
  <2>2. Loose(Found(t, i, s))
    <3>1. /\ l \notin {"unlink2", "unlinkbad", "unlink3", "link2", "link3", "linkbad", "open2", "made"}
          /\ l = "nameiparent" => t.call.op # "link"
      OBVIOUS
    <3> QED
      BY <2>1, <3>1, LikeLoose, Zenon
  <2> QED
    BY <1>1, <2>2, LooseTame, Zenon
<1>3. CASE t.pc = "nameiparent" /\ t.path # <<>>
  <2>1. PICK l \in {"link2", "unlink1", "create1"}, path \in Paths \ {<<>>} :
           Like(Found(t, i, s), t, l, 0, path, t.ip, i, s) /\ (l = "link2" <=> t.call.op = "link")
    <3>1. t.pc = "nameiparent" /\ t.path # <<>>
      BY <1>3
    <3> QED
      BY <3>1, FoundDp
  <2>2. CASE l = "link2"
    <3>1. Linking(t) /\ l \in {"link2", "linkbad"}
      BY <1>3, <2>1, <2>2 DEF Linking
    <3>2. Tame(t, Found(t, i, s))
      BY <2>1, <3>1, LikeLinking, Zenon
    <3> QED
      BY <1>1, <3>2
  <2>3. CASE l # "link2"
    <3>1. /\ l \notin {"unlink2", "unlinkbad", "unlink3", "link2", "link3", "linkbad", "open2", "made"}
          /\ l = "nameiparent" => t.call.op # "link"
      BY <2>3
    <3>2. Loose(Found(t, i, s))
      BY <2>1, <3>1, LikeLoose, Zenon
    <3> QED
      BY <1>1, <3>2, LooseTame, Zenon
  <2> QED
    BY <2>2, <2>3
<1> QED
  BY <1>1, <1>2, <1>3, Zenon

\* One turn of namex(), and its end.
LEMMA NamexTame ==
  ASSUME IndInv, NamesInv, NEW p \in Proc, Namex(p)
  PROVE  NextTame /\ Frees(p)
<1>0. PICK t, d, next : t = th[p] /\ d = th[p].at /\ next = Dirlookup(th[p].at, Elem(Head(th[p].path)))
  OBVIOUS
<1>a. PICK u : u = [t EXCEPT !.at = next, !.path = Tail(@), !.puts = <<d>>]
  OBVIOUS
<1>1. /\ At(p, {"namei", "nameiparent"})
      /\ \/ /\ t.path = <<>> /\ th' = [th EXCEPT ![p] = NoElement(t)] /\ icache' = icache
         \/ /\ t.path # <<>> /\ th' = [th EXCEPT ![p] = Found(t, d, <<>>)] /\ icache' = Visit(icache, d)
         \/ th' = [th EXCEPT ![p] = Found(t, 0, <<d>>)] /\ icache' = Visit(icache, d)
         \/ /\ inode[d].type = "dir" /\ next # 0
            /\ th' = [th EXCEPT ![p] = u] /\ icache' = Iget(Visit(icache, d), next)
  BY <1>0, <1>a DEF Namex, disk
<1>2. /\ Shape /\ icache \in Cache /\ t.pc \in {"namei", "nameiparent"}
      /\ IsThread(t) /\ Locals(t) /\ d \in Ino
  BY <1>0, <1>1, WalkHas, Zenon
<1>3. (\A s : Tame(t, Found(t, 0, s))) /\ \A s : t.pc = "namei" \/ t.path # <<>> => Tame(t, Found(t, d, s))
  BY <1>2, FoundTame, Zenon
<1>4. CASE t.path = <<>> /\ th' = [th EXCEPT ![p] = NoElement(t)] /\ icache' = icache
  <2>1. Tame(t, NoElement(t))
    <3>1. t.pc = "nameiparent" => NoElement(t) = Found(t, 0, <<d>>)
      BY <1>0 DEF NoElement
    <3>2. t.pc = "namei" => NoElement(t) = Found(t, d, <<>>)
      BY <1>0 DEF NoElement
    <3>3. t.pc = "nameiparent" \/ t.pc = "namei"
      BY <1>2
    <3> QED
      BY <1>3, <3>1, <3>2, <3>3, Zenon
  <2>2. SameLocks
    BY <1>4, SameKept
  <2> QED
    BY <1>0, <1>2, <1>4, <2>1, <2>2, TameStep, Zenon
<1>5. CASE t.path # <<>> /\ th' = [th EXCEPT ![p] = Found(t, d, <<>>)] /\ icache' = Visit(icache, d)
  BY <1>0, <1>2, <1>3, <1>5, VisitLocks, TameStep, Zenon
<1>6. CASE th' = [th EXCEPT ![p] = Found(t, 0, <<d>>)] /\ icache' = Visit(icache, d)
  BY <1>0, <1>2, <1>3, <1>6, VisitLocks, TameStep, Zenon
<1>7. CASE /\ inode[d].type = "dir" /\ next # 0
           /\ th' = [th EXCEPT ![p] = u] /\ icache' = Iget(Visit(icache, d), next)
  <2>1. next \in Ino
    BY <1>0, <1>2, <1>7, DirlookupIs, InoIs
  <2>2. SameLocks
    BY <1>2, <1>7, <2>1, LookupLocks
  <2>3. Tame(t, u)
    <3>1. DOMAIN t = {"pc", "call", "at", "path", "ip", "dp", "f", "done", "puts", "dropping", "ret", "buf"}
      BY <1>2, ThreadFields DEF IsThread
    <3>2. u.pc = t.pc /\ u.ip = t.ip /\ u.dp = t.dp /\ u.call = t.call
      BY <1>a, <3>1
    <3> QED
      BY <1>2, <3>2 DEF Tame, Linking, Holds
  <2> QED
    BY <1>0, <1>2, <1>7, <2>2, <2>3, TameStep, Zenon
<1> QED
  BY <1>1, <1>4, <1>5, <1>6, <1>7, Zenon

\* Calls that go on with nothing in hand, and the end of a link() that failed.
LEMMA GoingTame ==
  ASSUME IndInv, NamesInv, NEW p \in Proc, CreateExisting(p) \/ ChdirCheck(p) \/ Exit(p) \/ LinkExists(p)
  PROVE  NextTame /\ Frees(p)
<1>1. Shape /\ icache \in Cache /\ IsThread(th[p]) /\ Locals(th[p])
  BY ShapeIs DEF IndInv, Shape, Cache, ThreadsInv
<1>2. PICK t : t = th[p]
  OBVIOUS
<1>3. ASSUME NEW u, NEW l, NEW x, NEW y, NEW s, Like(u, t, l, t.at, t.path, x, y, s),
             l \in {"create2", "chdir2", "zombie"}, th' = [th EXCEPT ![p] = u], LocksKept(p)
      PROVE  NextTame /\ Frees(p)
  <2>1. /\ l \notin {"unlink2", "unlinkbad", "unlink3", "link2", "link3", "linkbad", "open2", "made"}
        /\ l = "nameiparent" => t.call.op # "link"
    BY <1>3
  <2>2. Loose(u)
    BY <1>3, <2>1, LikeLoose, Zenon
  <2> QED
    BY <1>1, <1>3, <2>2, LooseStep, Zenon
<1>4. \A l, s : /\ Like(Goto(t, l, s), t, l, t.at, t.path, t.ip, t.dp, s)
                /\ \A y : Like([Goto(t, l, s) EXCEPT !.dp = y], t, l, t.at, t.path, t.ip, y, s)
                /\ \A x, y : Like([Goto(t, l, s) EXCEPT !.ip = x, !.dp = y], t, l, t.at, t.path, x, y, s)
  BY <1>1, <1>2, GotoIs, Zenon
<1>5. CASE CreateExisting(p)
  <2>1. PICK l, s, x, y : l = "create2" /\ s = <<th[p].dp>> /\ x = Dirlookup(th[p].dp, Head(th[p].path)) /\ y = 0
    OBVIOUS
  <2>2. PICK u : u = [Goto(t, l, s) EXCEPT !.ip = x, !.dp = y]
    OBVIOUS
  <2>3. /\ At(p, {"create1"}) /\ th' = [th EXCEPT ![p] = u] /\ icache' = Iget(Visit(icache, t.dp), x) /\ x # 0
    BY <1>2, <1>5, <2>1, <2>2, Zenon DEF CreateExisting
  <2>4. t.dp \in Ino /\ inode[t.dp].type = "dir"
    BY <1>2, <2>3, AtIs, InoIs DEF Locals, HasDp, Kinds, IsThread
  <2>5. x \in Ino
    BY <1>1, <1>2, <2>1, <2>3, <2>4, DirlookupIs, InoIs
  <2>6. LocksKept(p)
    BY <1>1, <2>3, <2>5, LookupLocks, SameKept
  <2>7. Like(u, t, l, t.at, t.path, x, y, s) /\ l \in {"create2", "chdir2", "zombie"}
    <3>1. Like(u, t, l, t.at, t.path, x, y, s)
      BY <1>4, <2>2, Zenon
    <3> QED
      BY <2>1, <3>1
  <2> QED
    BY <1>3, <2>3, <2>6, <2>7, Zenon
<1>6. CASE ChdirCheck(p)
  <2>1. PICK l, s, r : l = "chdir2" /\ s = <<proc[p].cwd>> /\ r = <<th[p].ip>>
    OBVIOUS
  <2>2. PICK u, v : u = Goto(t, l, s) /\ v = Return(t, -1, r)
    OBVIOUS
  <2>3. /\ th' = [th EXCEPT ![p] = IF inode[t.ip].type # "dir" THEN v ELSE u]
        /\ icache' = Visit(icache, t.ip)
    BY <1>2, <1>6, <2>1, <2>2, Zenon DEF ChdirCheck
  <2>4. th' = [th EXCEPT ![p] = u] \/ th' = [th EXCEPT ![p] = v]
    BY <2>3
  <2>5. LocksKept(p)
    BY <1>1, <2>3, VisitLocks, SameKept
  <2>6. CASE th' = [th EXCEPT ![p] = u]
    <3>1. Like(u, t, l, t.at, t.path, t.ip, t.dp, s)
      BY <1>4, <2>2, Zenon
    <3>2. l \in {"create2", "chdir2", "zombie"}
      BY <2>1
    <3> QED
      BY <1>3, <2>5, <2>6, <3>1, <3>2, Zenon
  <2>7. CASE th' = [th EXCEPT ![p] = v]
    BY <1>1, <2>2, <2>5, <2>7, ReturnStep, Zenon
  <2> QED
    BY <2>4, <2>6, <2>7
<1>7. CASE Exit(p)
  <2>1. PICK l, s : l = "zombie" /\ s = <<proc[p].cwd>>
    OBVIOUS
  <2>2. PICK u : u = Goto(t, l, s)
    OBVIOUS
  <2>3. /\ \/ At(p, {"exit"}) /\ \E x : th' = [th EXCEPT ![p].puts = x]
           \/ At(p, {"exit"}) /\ th' = [th EXCEPT ![p] = u]
           \/ th' = [th EXCEPT ![p] = NewThread]
        /\ icache' = icache
    BY <1>2, <1>7, <2>1, <2>2, Zenon DEF Exit
  <2>4. SameLocks /\ LocksKept(p)
    BY <2>3, SameKept
  <2>5. ASSUME NEW x, th' = [th EXCEPT ![p].puts = x] PROVE NextTame /\ Frees(p)
    <3>1. PICK v : v = [t EXCEPT !.puts = x]
      OBVIOUS
    <3>2. DOMAIN t = {"pc", "call", "at", "path", "ip", "dp", "f", "done", "puts", "dropping", "ret", "buf"}
      BY <1>1, <1>2, ThreadFields DEF IsThread
    <3>3. v.pc = t.pc /\ v.ip = t.ip /\ v.dp = t.dp /\ v.path = t.path /\ v.call = t.call
      BY <3>1, <3>2
    <3>4. Tame(th[p], v)
      BY <1>2, <3>3, SameTame
    <3>5. th' = [th EXCEPT ![p] = v]
      BY <1>2, <2>5, <3>1
    <3> QED
      BY <1>1, <2>4, <3>4, <3>5, TameStep, Zenon
  <2>6. CASE th' = [th EXCEPT ![p] = u]
    <3>1. Like(u, t, l, t.at, t.path, t.ip, t.dp, s)
      BY <1>4, <2>2, Zenon
    <3>2. l \in {"create2", "chdir2", "zombie"}
      BY <2>1
    <3> QED
      BY <1>3, <2>4, <2>6, <3>1, <3>2, Zenon
  <2>7. CASE th' = [th EXCEPT ![p] = NewThread]
    BY <1>1, <2>4, <2>7, NewLoose, LooseStep, Zenon
  <2> QED
    BY <2>3, <2>5, <2>6, <2>7, Zenon
<1>8. CASE LinkExists(p)
  <2>1. PICK l, s, y : l = "linkbad" /\ s = <<th[p].dp>> /\ y = 0
    OBVIOUS
  <2>2. PICK u : u = [Goto(t, l, s) EXCEPT !.dp = y]
    OBVIOUS
  <2>3. At(p, {"link3"}) /\ th' = [th EXCEPT ![p] = u] /\ icache' = Iunlock(icache, t.dp)
    BY <1>2, <1>8, <2>1, <2>2, Zenon DEF LinkExists
  <2>4. t.pc = "link3" /\ t.dp \in Ino
    BY <1>2, <2>3, AtIs, InoIs DEF Locals, HasDp, IsThread
  <2>5. icache[t.dp].lock = p
    BY <1>2, <2>4 DEF NamesInv, Holds
  <2>6. \A j \in Ino : icache'[j].lock = IF j = t.dp THEN 0 ELSE icache[j].lock
    BY <1>1, <2>3, IunlockLock
  <2>7. Like(u, t, l, t.at, t.path, t.ip, y, s)
    BY <1>4, <2>2, Zenon
  <2>8. Linking(t) /\ l \in {"link2", "linkbad"}
    BY <2>1, <2>4 DEF Linking
  <2>9. Tame(t, u)
    BY <2>7, <2>8, LikeLinking, Zenon
  <2>10. NextTame /\ th'[p] = u
    BY <1>1, <1>2, <2>3, <2>9, OneTame, ShapeIs
  <2>11. \A i : ~Holds(u, i)
    BY <2>1, <2>7 DEF Like, Holds
  <2> QED
    BY <2>5, <2>6, <2>10, <2>11 DEF Frees
<1> QED
  BY <1>5, <1>6, <1>7, <1>8

\* A call that enters the kernel.
LEMMA CallTame ==
  ASSUME IndInv, NamesInv, NEW p \in Proc, NEW c \in SysCalls, Call(p, c)
  PROVE  NextTame /\ Frees(p)
<1>1. PICK t : t = th[p]
  OBVIOUS
<1>2. Idle(p) /\ t.pc = "user" /\ IsThread(t) /\ Shape /\ icache \in Cache /\ proc[p].cwd \in Ino
  BY <1>1, IdleIs DEF Call
<1>3. DOMAIN t = {"pc", "call", "at", "path", "ip", "dp", "f", "done", "puts", "dropping", "ret", "buf"}
  BY <1>2, ThreadFields DEF IsThread
<1>4. ASSUME NEW w, NEW v, NEW s, th' = [th EXCEPT ![p] = Return(w, v, s)], icache' = icache PROVE NextTame /\ Frees(p)
  BY <1>2, <1>4, SameKept, ReturnStep, Zenon
<1>5. CASE c.op \in {"open", "mkdir", "mknod", "unlink", "link", "chdir", "exec"} /\ PathCall(p, c)
  <2>1. PICK l : l = IF c.op \in {"link", "chdir", "exec"} \/ (c.op = "open" /\ ~c.create) THEN "namei" ELSE "nameiparent"
    OBVIOUS
  <2>2. PICK s, u, path : s = [NewThread EXCEPT !.call = c] /\ u = Walk(p, s, path, l) /\ path = c.path
    OBVIOUS
  <2>3. th' = [th EXCEPT ![p] = u] /\ icache' = Iget(icache, Start(p, path))
    BY <1>5, <2>1, <2>2, Zenon DEF PathCall
  <2>4. IsThread(s) /\ s.call = c
    BY <2>2, NewThreadIs, ThreadFields DEF IsThread, NewThread
  <2>5. path \in Paths
    BY <1>5, <2>2 DEF SysCalls
  <2>6. Start(p, path) \in Ino /\ \E rest \in Paths : Like(u, s, l, Start(p, path), rest, s.ip, s.dp, s.puts)
    BY <1>2, <2>2, <2>4, <2>5, WalkIs, Zenon
  <2>7. PICK rest : Like(u, s, l, Start(p, path), rest, s.ip, s.dp, s.puts)
    BY <2>6, Zenon
  <2>8. /\ l \notin {"unlink2", "unlinkbad", "unlink3", "link2", "link3", "linkbad", "open2", "made"}
        /\ l = "nameiparent" => s.call.op # "link"
    BY <2>1, <2>4
  <2>9. Loose(u)
    BY <2>7, <2>8, LikeLoose, Zenon
  <2>10. LocksKept(p)
    BY <1>2, <2>3, <2>6, IgetLock DEF LocksKept
  <2> QED
    BY <1>2, <2>3, <2>9, <2>10, LooseStep, Zenon
<1>6. CASE c.op \in {"read", "write", "fstat"} /\ FdCall(p, c)
  <2>1. PICK f : f = Argfd(p, c.fd)
    OBVIOUS
  <2>2. PICK u : u = [t EXCEPT !.pc = c.op, !.call = c, !.f = f]
    OBVIOUS
  <2>3. /\ \/ th' = [th EXCEPT ![p] = Return(t, -1, <<>>)]
           \/ th' = [th EXCEPT ![p] = Return(t, 0, <<>>)]
           \/ th' = [th EXCEPT ![p] = u]
        /\ icache' = icache
    <3> DEFINE fail == f = 0 \/ CASE c.op = "read"  -> ~ftable[f].r
                                  [] c.op = "write" -> ~ftable[f].w
                                  [] OTHER          -> ftable[f].type # "inode"
               none == c.op = "write" /\ Len(c.data) = 0
    <3>1. th' = [th EXCEPT ![p] = IF fail THEN Return(t, -1, <<>>) ELSE IF none THEN Return(t, 0, <<>>) ELSE u] /\ icache' = icache
      BY <1>1, <1>6, <2>1, <2>2 DEF FdCall
    <3> HIDE DEF fail, none
    <3> QED
      BY <3>1
  <2>4. u.pc = c.op
    BY <1>3, <2>2
  <2>5. Loose(u)
    BY <1>6, <2>4 DEF Loose
  <2> QED
    BY <1>2, <1>4, <2>3, <2>5, SameKept, LooseStep, Zenon
<1>7. CASE Dup(p, c.fd)
  <2>1. PICK v : th' = [th EXCEPT ![p] = Return(t, v, <<>>)] /\ icache' = icache
    BY <1>1, <1>7, Zenon DEF Dup
  <2> QED
    BY <1>4, <2>1, Zenon
<1>8. CASE Close(p, c.fd)
  <2>1. PICK f, a, b : f = Argfd(p, c.fd) /\ a = Return(t, -1, <<>>) /\ b = Return(t, 0, ClosePuts(f))
    OBVIOUS
  <2>2. th' = [th EXCEPT ![p] = IF f = 0 THEN a ELSE b] /\ icache' = icache
    BY <1>1, <1>8, <2>1, Zenon DEF Close
  <2>3. th' = [th EXCEPT ![p] = a] \/ th' = [th EXCEPT ![p] = b]
    BY <2>2
  <2> QED
    BY <1>4, <2>1, <2>2, <2>3, Zenon
<1>9. CASE Pipe(p)
  <2>1. PICK v : th' = [th EXCEPT ![p] = Return(t, v, <<>>)] /\ icache' = icache
    BY <1>1, <1>9, Zenon DEF Pipe
  <2> QED
    BY <1>4, <2>1, Zenon
<1>10. CASE Fork(p)
  <2>1. CASE Unused = {}
    <3>1. th' = [th EXCEPT ![p] = Return(NewThread, -1, <<>>)] /\ icache' = icache
      BY <1>10, <2>1, Zenon DEF Fork
    <3> QED
      BY <1>4, <3>1, Zenon
  <2>2. CASE Unused # {}
    <3>1. PICK u : u = Return(NewThread, Child, <<>>)
      OBVIOUS
    <3>2. th' = [th EXCEPT ![p] = u, ![Child] = NewThread] /\ icache' = Idup(icache, proc[p].cwd)
      BY <1>10, <2>2, <3>1, Zenon DEF Fork
    <3>3. Loose(u) /\ Loose(NewThread)
      BY <3>1, ReturnLoose, NewLoose, Zenon
    <3>4. (\A x : Tame(x, u)) /\ (\A x : Tame(x, NewThread)) /\ \A x : Tame(x, x)
      BY <3>3, LooseTame, SameTame, Zenon
    <3>5. DOMAIN th = Proc
      BY <1>2, ShapeIs
    <3> HIDE DEF NewThread
    <3>6. \A q \in Proc : th'[q] = u \/ th'[q] = NewThread \/ th'[q] = th[q]
      BY <3>2, <3>5
    <3>7. NextTame
      BY <3>4, <3>6, Zenon DEF NextTame
    <3>8. \A i \in Ino : icache'[i].lock = icache[i].lock
      BY <1>2, <3>2, IdupLock
    <3> QED
      BY <3>7, <3>8 DEF Frees
  <2> QED
    BY <2>1, <2>2
<1>11. CASE Wait(p)
  <2>1. /\ \/ th' = [th EXCEPT ![p] = Return(NewThread, -1, <<>>)]
           \/ \E q : th' = [th EXCEPT ![p] = Return(NewThread, q, <<>>)]
        /\ icache' = icache
    BY <1>11, Zenon DEF Wait
  <2> QED
    BY <1>4, <2>1, Zenon
<1>12. CASE th' = [th EXCEPT ![p] = [NewThread EXCEPT !.pc = "exit"]] /\ icache' = icache
  <2>1. PICK u : u = [NewThread EXCEPT !.pc = "exit"]
    OBVIOUS
  <2>2. Loose(u)
    BY <2>1 DEF Loose, NewThread
  <2> QED
    BY <1>2, <1>12, <2>1, <2>2, SameKept, LooseStep, Zenon
<1> QED
  BY <1>5, <1>6, <1>7, <1>8, <1>9, <1>10, <1>11, <1>12, Zenon DEF Call

-----------------------------------------------------------------------------
\* The steps

\* Calls that leave the disk alone.
LEMMA QuietNames ==
  ASSUME IndInv, IndInv', NamesInv, NEW p \in Proc,
         \/ Drop(p) \/ Namex(p) \/ Open(p) \/ Read(p) \/ Fstat(p) \/ Made(p) \/ UnlinkBad(p)
         \/ ChdirSet(p) \/ Exec(p) \/ CreateExisting(p) \/ ChdirCheck(p) \/ Exit(p) \/ LinkExists(p)
         \/ \E c \in SysCalls : Call(p, c)
  PROVE  NamesInv'
<1>1. NextTame /\ Frees(p)
  BY PutsTame, NamexTame, ReturningTame, GoingTame, CallTame, Zenon
<1>2. inode' = inode
  <2>1. ASSUME NEW c \in SysCalls, Call(p, c) PROVE inode' = inode
    BY <2>1, Zenon DEF Call, PathCall, FdCall, Dup, Close, Pipe, Fork, Wait, disk
  <2> QED
    BY <2>1, Zenon DEF Drop, Namex, Open, Read, Fstat, Made, UnlinkBad, ChdirSet, Exec, CreateExisting, ChdirCheck, Exit, LinkExists, disk
<1> QED
  BY <1>1, <1>2, QuietStep

\* writei() leaves the link count alone.
LEMMA WriteiNlink ==
  ASSUME NEW n, IsInode(n), NEW u, NEW off, NEW us, NEW m, m = Writei(u, n, off, us).ino
  PROVE  m.nlink = n.nlink
<1> DEFINE len == IF off + Len(us) > Len(n.data) THEN off + Len(us) ELSE Len(n.data)
<1>1. PICK w, data : /\ w = Bmap(u, n, IF Blocks(len) > Len(n.blks) THEN Blocks(len) ELSE Len(n.blks))
                     /\ data = [j \in 1..len |-> IF j \in off+1..off+Len(us) THEN us[j - off] ELSE n.data[j]]
  OBVIOUS
<1>2. Writei(u, n, off, us) =
        [fits |-> w.fits, used |-> IF w.fits THEN u \cup {Balloc(u, j) : j \in 1..w.k} ELSE u,
         ino  |-> IF w.fits THEN [n EXCEPT !.blks = w.blks, !.ind = w.ind, !.data = data] ELSE n]
  BY <1>1, Zenon DEF Writei
<1>3. m = IF w.fits THEN [n EXCEPT !.blks = w.blks, !.ind = w.ind, !.data = data] ELSE n
  BY <1>2
<1>4. DOMAIN n = {"type", "nlink", "data", "blks", "ind"}
  BY DEF IsInode, NoInode
<1> QED
  BY <1>3, <1>4

\* One inode that is no directory changes, or is freed.
LEMMA OneThins ==
  ASSUME NEW I, NEW J, NEW i, NEW m, OneSet(I, J, i, m), m.type # "dir"
  PROVE  /\ Thins(I, J)
         /\ Sound(I) /\ i # ROOTINO /\ CountsLinks(m) => Sound(J)
<1>1. i \in Ino /\ J[i] = m /\ \A j \in Ino : j # i => J[j] = I[j]
  BY DEF OneSet
<1>2. ASSUME NEW d, NEW k, NEW e, Names(J, d, k, e) PROVE Names(I, d, k, e)
  <2>1. d \in Ino /\ d # i
    BY <1>1, <1>2 DEF Names
  <2>2. J[d] = I[d]
    BY <1>1, <2>1
  <2> QED
    BY <1>2, <2>2 DEF Names
<1>3. ASSUME NEW j \in Ino, J[j].type = "dir" PROVE I[j].type = "dir" /\ Up(J, j) = Up(I, j)
  BY <1>1, <1>3 DEF Up
<1>4. Thins(I, J)
  BY <1>2, <1>3, Zenon DEF Thins
<1>5. ASSUME Sound(I), i # ROOTINO, CountsLinks(m) PROVE Sound(J)
  <2>1. Rooted(J)
    BY <1>1, <1>5, InoIs DEF Sound, Rooted, Up
  <2>2. ASSUME NEW j \in Ino PROVE Dots(J[j], j) /\ CountsLinks(J[j])
    <3>1. CASE j = i
      BY <1>1, <1>5, <3>1 DEF Dots
    <3>2. CASE j # i
      BY <1>1, <1>5, <3>2 DEF Sound
    <3> QED
      BY <3>1, <3>2
  <2> QED
    BY <2>1, <2>2 DEF Sound
<1> QED
  BY <1>4, <1>5

\* The first half of iput(): what it frees has no name.
LEMMA IputNames ==
  ASSUME IndInv, IndInv', NamesInv, NEW p \in Proc, Iput(p)
  PROVE  NamesInv'
<1>1. NextTame /\ Frees(p)
  BY PutsTame
<1>2. PICK i : i = Head(th[p].puts)
  OBVIOUS
<1>3. /\ th[p].puts # <<>> /\ icache[i].lock = 0
      /\ inode' = IF IsLast(i) THEN [inode EXCEPT ![i] = NoInode] ELSE inode
  BY <1>2, Zenon DEF Iput
<1>4. i \in Ino /\ Shape
  BY <1>2, <1>3, ShapeIs, PutCountTail DEF IsThread, IndInv
<1>5. CASE ~IsLast(i)
  BY <1>1, <1>3, <1>5, QuietStep
<1>6. CASE IsLast(i)
  <2>1. PICK m : m = NoInode
    OBVIOUS
  <2>2. m.type = "free" /\ m.nlink = 0
    BY <2>1 DEF NoInode
  <2>3. inode' = [inode EXCEPT ![i] = m]
    BY <1>3, <1>6, <2>1
  <2>4. OneSet(inode, inode', i, m)
    BY <1>4, <2>3, OneSetIs
  <2>5. HasSlots(inode) /\ Good(inode, th) /\ inode[i].nlink = 0
    BY <1>4, <1>6, GoodNow DEF IsLast
  <2>6. i # ROOTINO
    BY <1>4, <2>5, Unnamed, Zenon
  <2>7. CountsLinks(m)
    BY <2>2 DEF CountsLinks
  <2>8. Thins(inode, inode') /\ Sound(inode')
    BY <2>2, <2>4, <2>5, <2>6, <2>7, OneThins DEF Good
  <2>9. Steady
    BY <1>3, <2>4 DEF OneSet, Steady
  <2>10. \A j \in Ino : inode'[j].nlink = inode[j].nlink
    BY <2>2, <2>4, <2>5 DEF OneSet
  <2> QED
    BY <1>1, <2>8, <2>9, <2>10, ThinStep
<1> QED
  BY <1>5, <1>6

\* One transaction of write(): the file is no directory.
LEMMA WriteNames ==
  ASSUME IndInv, IndInv', NamesInv, NEW p \in Proc, Write(p)
  PROVE  NamesInv'
<1>1. PICK t, f, i : t = th[p] /\ f = ftable[th[p].f] /\ i = ftable[th[p].f].ip
  OBVIOUS
<1>2. PICK us : us = SubSeq(t.call.data, t.done + 1, Min2(t.done + WMAX, Len(t.call.data)))
  OBVIOUS
<1>3. PICK m : m = Writei(used, inode[i], f.off, us).ino
  OBVIOUS
<1>4. /\ At(p, {"write"}) /\ icache' = Visit(icache, i)
      /\ \/ inode' = inode
         \/ inode' = [inode EXCEPT ![i] = m]
      /\ \/ \E v : th' = [th EXCEPT ![p] = Return(t, v, <<>>)]
         \/ \E v : th' = [th EXCEPT ![p] = [t EXCEPT !.done = v]]
  <2>1. PICK d, a, b : d = t.done + Len(us) /\ a = Return(t, d, <<>>) /\ b = [t EXCEPT !.done = d]
    OBVIOUS
  <2>2. \/ th' = [th EXCEPT ![p] = Return(t, -1, <<>>)]
        \/ th' = [th EXCEPT ![p] = IF d = Len(t.call.data) THEN a ELSE b]
    BY <1>1, <1>2, <2>1, Zenon DEF Write
  <2>3. \/ th' = [th EXCEPT ![p] = Return(t, -1, <<>>)]
        \/ th' = [th EXCEPT ![p] = a] \/ th' = [th EXCEPT ![p] = b]
    BY <2>2
  <2>4. \/ \E v : th' = [th EXCEPT ![p] = Return(t, v, <<>>)]
        \/ \E v : th' = [th EXCEPT ![p] = [t EXCEPT !.done = v]]
    BY <2>1, <2>3, Zenon
  <2>5. At(p, {"write"}) /\ icache' = Visit(icache, i) /\ (inode' = inode \/ inode' = [inode EXCEPT ![i] = m])
    BY <1>1, <1>2, <1>3, Zenon DEF Write, disk
  <2> QED
    BY <2>4, <2>5, Zenon
<1>5. Shape /\ icache \in Cache /\ t.pc = "write" /\ IsThread(t) /\ Uses(t, proc[p])
  BY <1>1, <1>4, AtIs
<1>6. t.f \in 1..NFILE /\ i \in Ino /\ inode[i].type # "free"
  BY <1>1, <1>4, <1>5, FileOf
<1>7. inode[i].type # "dir" /\ icache[i].lock = 0
  <2>1. ftable[t.f].w /\ ftable[t.f].ip # 0
    BY <1>1, <1>5, <1>6, InoIs DEF Uses
  <2>2. inode[i].type # "dir"
    BY <1>1, <1>6, <2>1 DEF IndInv, FilesInv
  <2>3. NextLock(p) = i
    BY <1>1, <1>4, <1>5 DEF NextLock, At
  <2> QED
    BY <1>1, <1>4, <2>1, <2>2, <2>3 DEF At
<1>8. SameLocks
  BY <1>4, <1>5, VisitLocks
<1>9. NextTame /\ Frees(p)
  <2>1. ASSUME NEW v, th' = [th EXCEPT ![p] = [t EXCEPT !.done = v]] PROVE NextTame /\ Frees(p)
    <3>1. PICK x : x = [t EXCEPT !.done = v]
      OBVIOUS
    <3>2. DOMAIN t = {"pc", "call", "at", "path", "ip", "dp", "f", "done", "puts", "dropping", "ret", "buf"}
      BY <1>5, ThreadFields DEF IsThread
    <3>3. x.pc = t.pc /\ x.ip = t.ip /\ x.dp = t.dp /\ x.path = t.path /\ x.call = t.call
      BY <3>1, <3>2
    <3>4. Tame(th[p], x)
      BY <1>1, <3>3, SameTame
    <3> QED
      BY <1>5, <1>8, <2>1, <3>1, <3>4, TameStep, Zenon
  <2> QED
    BY <1>4, <1>5, <1>8, <2>1, SameKept, ReturnStep, Zenon
<1>10. CASE inode' = inode
  BY <1>9, <1>10, QuietStep
<1>11. CASE inode' = [inode EXCEPT ![i] = m]
  <2>1. PICK n, o : n = inode[i] /\ o = f.off
    OBVIOUS
  <2>2. IsInode(n) /\ m = Writei(used, n, o, us).ino
    BY <1>3, <1>5, <1>6, <2>1, ShapeIs
  <2>3. m.nlink = n.nlink /\ m.type = n.type
    BY <2>2, WriteiNlink, WriteiHas
  <2>4. OneSet(inode, inode', i, m)
    BY <1>5, <1>6, <1>11, OneSetIs
  <2>5. Sound(inode)
    BY <1>5, GoodNow DEF Good
  <2>6. i # ROOTINO /\ CountsLinks(m)
    BY <1>6, <1>7, <2>1, <2>3, <2>5 DEF Sound, Rooted, CountsLinks
  <2>7. m.type # "dir"
    BY <1>7, <2>1, <2>3
  <2>8. Thins(inode, inode') /\ Sound(inode')
    BY <2>4, <2>5, <2>6, <2>7, OneThins
  <2>9. Steady
    BY <1>7, <2>4 DEF OneSet, Steady
  <2>10. \A j \in Ino : inode'[j].nlink = inode[j].nlink
    BY <2>1, <2>3, <2>4 DEF OneSet
  <2> QED
    BY <1>9, <2>8, <2>9, <2>10, ThinStep
<1> QED
  BY <1>4, <1>10, <1>11

\* The inodes of a step that writes link counts only.
SameEntries(I, J) == \A j \in Ino : J[j].type = I[j].type /\ J[j].data = I[j].data

\* The names and the tree stay.
LEMMA EntriesThin ==
  ASSUME NEW I, NEW J, SameEntries(I, J)
  PROVE  /\ Thins(I, J)
         /\ \A d, k, e : Names(I, d, k, e) => Names(J, d, k, e)
         /\ Sound(I) /\ (\A j \in Ino : CountsLinks(J[j])) => Sound(J)
<1>1. \A d, k, e : Names(J, d, k, e) <=> Names(I, d, k, e)
  BY DEF SameEntries, Names
<1>2. \A j \in Ino : J[j].type = "dir" => I[j].type = "dir" /\ Up(J, j) = Up(I, j)
  BY DEF SameEntries, Up
<1>3. ASSUME Sound(I), \A j \in Ino : CountsLinks(J[j]) PROVE Sound(J)
  <2>1. Rooted(J)
    BY <1>3, InoIs DEF Sound, Rooted, Up, SameEntries
  <2>2. \A j \in Ino : Dots(J[j], j)
    BY <1>3 DEF Sound, Dots, SameEntries
  <2> QED
    BY <1>3, <2>1, <2>2 DEF Sound
<1>4. Thins(I, J)
  BY <1>1, <1>2, Zenon DEF Thins
<1> QED
  BY <1>1, <1>3, <1>4, Zenon

\* The count of inode i becomes x.
Recounts(I, J, i, x) ==
  /\ i \in Ino /\ SameEntries(I, J)
  /\ J[i].nlink = x /\ \A j \in Ino : j # i => J[j].nlink = I[j].nlink

\* That is what an assignment to the count does.
LEMMA RecountsIs ==
  ASSUME Shape, NEW i \in Ino, NEW x, inode' = [inode EXCEPT ![i].nlink = x]
  PROVE  Recounts(inode, inode', i, x)
<1>1. PICK n, m : n = inode[i] /\ m = [n EXCEPT !.nlink = x]
  OBVIOUS
<1>2. DOMAIN n = {"type", "nlink", "data", "blks", "ind"}
  BY <1>1, ShapeIs DEF IsInode, NoInode
<1>3. m.type = n.type /\ m.data = n.data /\ m.nlink = x
  BY <1>1, <1>2
<1>4. inode' = [inode EXCEPT ![i] = m]
  BY <1>1
<1>5. OneSet(inode, inode', i, m)
  BY <1>4, OneSetIs
<1> QED
  BY <1>1, <1>3, <1>5 DEF OneSet, Recounts, SameEntries

\* An inode with a link in the hands of a call is counted, and in use.
LEMMA InHand ==
  ASSUME NEW I, NEW T, Good(I, T), HasSlots(I), NEW i \in Ino, NEW q \in Proc, Unlinks(T[q], i) \/ LinksTo(T[q], i)
  PROVE  I[i].nlink # 0 /\ I[i].type # "free"
<1>1. I[i].nlink # 0
  BY Unnamed, Zenon
<1>2. CountsLinks(I[i])
  BY DEF Good, Sound
<1> QED
  BY <1>1, <1>2 DEF CountsLinks

\* A call takes back the link it has counted, or counts the one it has erased.
LEMMA UncountStep ==
  ASSUME IndInv, IndInv', NamesInv, NEW p \in Proc, NextTame, Frees(p), NEW i, Recounts(inode, inode', i, inode[i].nlink - 1),
         Unlinks(th[p], i) \/ LinksTo(th[p], i), ~Unlinks(th'[p], i), ~LinksTo(th'[p], i)
  PROVE  NamesInv'
<1>1. Shape /\ Shape' /\ HasSlots(inode) /\ HasSlots(inode') /\ Good(inode, th)
  BY GoodNow, ShapeSlots DEF IndInv
<1>2. i \in Ino /\ SameEntries(inode, inode') /\ inode'[i].nlink = inode[i].nlink - 1
      /\ \A j \in Ino : j # i => inode'[j].nlink = inode[j].nlink
  BY DEF Recounts
<1>3. Thins(inode, inode')
  BY <1>2, EntriesThin
<1>4. Slack(th, th')
  BY DEF NextTame, Tame, Slack, Unlinks, LinksTo
<1>5. \A j \in Ino : CountsLinks(inode[j])
  BY <1>1 DEF Good, Sound
<1>6. inode[i].type # "free"
  BY <1>1, <1>2, InHand
<1>7. \A j \in Ino : CountsLinks(inode'[j])
  BY <1>2, <1>5, <1>6 DEF CountsLinks, SameEntries
<1>8. Sound(inode') /\ Tree(inode')
  BY <1>1, <1>2, <1>3, <1>7, EntriesThin, ThinsTree DEF Good
<1>9. \A j : Gained(inode, th, inode', th', j, {})
  BY <1>3, <1>4, ThinsGained
<1>10. Enough(inode'[i].nlink, LinksOf(inode', th', i))
  <2>1. PICK L, M : L = LinksOf(inode, th, i) /\ M = LinksOf(inode', th', i)
    OBVIOUS
  <2>2. IsLinks(inode, th, i, L) /\ IsLinks(inode', th', i, M)
    BY <1>1, <1>2, <2>1, LinksMembers
  <2>3. /\ Unlinks(th[p], i) => <<"unlink", p, 0>> \in L
        /\ LinksTo(th[p], i) => <<"link", p, 0>> \in L
    BY <2>2, Zenon DEF IsLinks
  <2>4. <<"unlink", p, 0>> \notin M /\ <<"link", p, 0>> \notin M
    BY <2>2, Zenon DEF IsLinks
  <2>5. \E y \in L : y \notin M
    BY <2>3, <2>4, Zenon
  <2> QED
    BY <1>1, <1>2, <1>9, <2>1, <2>5, Covered, Zenon
<1>11. ASSUME NEW j \in Ino PROVE Enough(inode'[j].nlink, LinksOf(inode', th', j))
  <2>1. CASE j = i
    BY <1>10, <2>1
  <2>2. CASE j # i
    <3>1. inode'[j].nlink = inode[j].nlink /\ Gained(inode, th, inode', th', j, {})
      BY <1>2, <1>9, <2>2, Zenon
    <3> QED
      BY <1>1, <3>1, Covered, Zenon
  <2> QED
    BY <2>1, <2>2
<1>12. Good(inode', th')
  BY <1>8, <1>11 DEF Good
<1>13. Steady
  BY <1>2 DEF Steady, SameEntries
<1> QED
  BY <1>1, <1>3, <1>12, <1>13, TameLocked, TameKnows, GoodNext

\* unlink() counts the entry it has erased, link() takes its link back.
LEMMA UncountNames ==
  ASSUME IndInv, IndInv', NamesInv, NEW p \in Proc, UnlinkCount(p) \/ LinkBad(p)
  PROVE  NamesInv'
<1>1. NextTame /\ Frees(p)
  BY ReturningTame
<1>2. PICK t, i : t = th[p] /\ i = th[p].ip
  OBVIOUS
<1>3. PICK v : /\ At(p, {"unlink3", "linkbad"}) /\ inode' = [inode EXCEPT ![i].nlink = @ - 1]
               /\ th' = [th EXCEPT ![p] = Return(t, v, <<i>>)]
  BY <1>2 DEF UnlinkCount, LinkBad, At
<1>4. Shape /\ t.pc \in {"unlink3", "linkbad"} /\ i \in Ino
  BY <1>2, <1>3, AtIs, InoIs DEF Locals, HasIp, IsThread
<1>5. Recounts(inode, inode', i, inode[i].nlink - 1)
  <2>1. PICK x : x = inode[i].nlink - 1
    OBVIOUS
  <2>2. inode' = [inode EXCEPT ![i].nlink = x]
    BY <1>3, <2>1
  <2> QED
    BY <1>4, <2>1, <2>2, RecountsIs, Zenon
<1>6. Unlinks(th[p], i) \/ LinksTo(th[p], i)
  BY <1>2, <1>4 DEF Unlinks, LinksTo, Linking
<1>7. ~Unlinks(th'[p], i) /\ ~LinksTo(th'[p], i)
  <2>1. PICK u : u = Return(t, v, <<i>>)
    OBVIOUS
  <2>2. th'[p] = u
    BY <1>3, <1>4, <2>1, ShapeIs
  <2>3. Loose(u)
    BY <2>1, ReturnLoose, Zenon
  <2>4. ~Linking(u)
    BY <2>3, LooseTame, Zenon
  <2> QED
    BY <2>2, <2>3, <2>4 DEF Unlinks, LinksTo, Loose
<1> QED
  BY <1>1, <1>5, <1>6, <1>7, UncountStep, Zenon

\* A step of p that writes to inodes nobody else has locked, and frees none.
Careful(p) ==
  /\ \A i \in Ino : icache[i].lock \notin {0, p} => inode'[i].data = inode[i].data
  /\ \A i \in Ino : inode[i].type # "free" => inode'[i].type = inode[i].type

\* What the other threads know and hold after it.
LEMMA OthersKeep ==
  ASSUME IndInv, NamesInv, NEW p \in Proc, NEW u, th' = [th EXCEPT ![p] = u], Careful(p), LocksKept(p),
         KnowsIn(inode', u), \A i \in Ino : Holds(u, i) => icache'[i].lock = p
  PROVE  NextKnows /\ NextLocked
<1>1. Shape /\ DOMAIN th = Proc /\ HasSlots(inode) /\ Good(inode, th)
  BY ShapeIs, GoodNow DEF IndInv
<1>2. th'[p] = u /\ \A q \in Proc : q # p => th'[q] = th[q]
  BY <1>1
<1>3. ASSUME NEW q \in Proc, q # p, NEW i \in Ino, Holds(th[q], i)
      PROVE  icache'[i].lock = q /\ inode'[i].data = inode[i].data
  <2>1. icache[i].lock = q /\ q # 0
    BY <1>3, Sizes DEF NamesInv, Proc
  <2> QED
    BY <1>3, <2>1 DEF Careful, LocksKept
<1>4. ASSUME NEW q \in Proc, q # p PROVE KnowsIn(inode', th[q])
  <2>1. PICK t : t = th[q]
    OBVIOUS
  <2>2. KnowsIn(inode, t) /\ IsThread(t) /\ Locals(t)
    BY <1>1, <2>1, KnowsIs, ShapeIs DEF NamesInv, IndInv, ThreadsInv
  <2>3. t.pc = "unlink2" => inode'[t.dp].data = inode[t.dp].data
    <3>1. t.pc = "unlink2" => t.dp \in Ino /\ Holds(t, t.dp)
      BY <2>2, InoIs DEF IsThread, Locals, HasDp, Holds
    <3> QED
      BY <1>3, <1>4, <2>1, <3>1
  <2>4. ASSUME Linking(t) PROVE inode'[t.ip].type # "dir"
    <3>1. t.ip \in Ino
      BY <2>2, <2>4, InoIs DEF IsThread, Locals, HasIp, Linking
    <3>2. LinksTo(th[q], t.ip)
      BY <2>1, <2>4 DEF LinksTo
    <3>3. inode[t.ip].type # "free"
      BY <1>1, <3>1, <3>2, InHand
    <3> QED
      BY <2>2, <2>4, <3>1, <3>3 DEF KnowsIn, Careful
  <2>5. KnowsIn(inode', t)
    BY <2>2, <2>3, <2>4 DEF KnowsIn
  <2> QED
    BY <2>1, <2>5
<1>5. NextKnows
  <2>1. ASSUME NEW q \in Proc PROVE KnowsIn(inode', th'[q])
    <3>1. CASE q = p
      BY <1>2, <3>1
    <3>2. CASE q # p
      BY <1>2, <1>4, <3>2
    <3> QED
      BY <3>1, <3>2
  <2> QED
    BY <2>1 DEF NextKnows
<1>6. NextLocked
  <2>1. ASSUME NEW q \in Proc, NEW i \in Ino, Holds(th'[q], i) PROVE icache'[i].lock = q
    <3>1. CASE q = p
      BY <1>2, <2>1, <3>1
    <3>2. CASE q # p
      BY <1>2, <1>3, <2>1, <3>2
    <3> QED
      BY <3>1, <3>2
  <2> QED
    BY <2>1 DEF NextLocked
<1> QED
  BY <1>5, <1>6

\* The links in the hands of the other threads stay.
LEMMA OthersMarks ==
  ASSUME Shape, NEW p \in Proc, NEW u, th' = [th EXCEPT ![p] = u], NEW i
  PROVE  /\ \A q \in Proc : Unlinks(th'[q], i) => Unlinks(th[q], i) \/ (q = p /\ Unlinks(u, i))
         /\ \A q \in Proc : LinksTo(th'[q], i) => LinksTo(th[q], i) \/ (q = p /\ LinksTo(u, i))
<1>1. th'[p] = u /\ \A q \in Proc : q # p => th'[q] = th[q]
  BY ShapeIs
<1> QED
  BY <1>1, Zenon

\* link() counts a link first.
LEMMA LinkCountNames ==
  ASSUME IndInv, IndInv', NamesInv, NEW p \in Proc, LinkCount(p)
  PROVE  NamesInv'
<1>0. PICK t, new, i : t = th[p] /\ new = th[p].call.new /\ i = th[p].ip
  OBVIOUS
<1>1. PICK u, s, l : u = Walk(p, t, new, l) /\ s = Start(p, new) /\ l = "nameiparent"
  OBVIOUS
<1>2. /\ At(p, {"link1"})
      /\ \/ /\ inode' = inode /\ icache' = Visit(icache, i)
            /\ th' = [th EXCEPT ![p] = Return(t, -1, <<i>>)]
         \/ /\ inode[i].type # "dir" /\ inode' = [inode EXCEPT ![i].nlink = @ + 1]
            /\ icache' = Iget(Visit(icache, i), s)
            /\ th' = [th EXCEPT ![p] = u]
  BY <1>0, <1>1, Zenon DEF LinkCount
<1>3. /\ Shape /\ icache \in Cache /\ t.pc = "link1" /\ t.puts = <<>>
      /\ IsThread(t) /\ Locals(t) /\ Kinds(t)
  BY <1>0, <1>2, AtIs
<1>4. i \in Ino /\ t.call.op = "link" /\ new \in Paths
  BY <1>0, <1>3, InoIs DEF Locals, HasIp, IsThread
<1>5. CASE inode' = inode /\ icache' = Visit(icache, i) /\ th' = [th EXCEPT ![p] = Return(t, -1, <<i>>)]
  <2>1. NextTame /\ Frees(p)
    BY <1>3, <1>5, VisitLocks, SameKept, ReturnStep, Zenon
  <2> QED
    BY <1>5, <2>1, QuietStep
<1>6. CASE /\ inode[i].type # "dir" /\ inode' = [inode EXCEPT ![i].nlink = @ + 1]
           /\ icache' = Iget(Visit(icache, i), s) /\ th' = [th EXCEPT ![p] = u]
  <2>1. proc[p].cwd \in Ino
    <3>1. th[p].pc # "user" /\ th[p].pc # "zombie"
      BY <1>0, <1>3
    <3> QED
      BY <3>1, InCall
  <2>2. s \in Ino
    BY <1>1, <1>3, <1>4, <2>1, WalkIs
  <2>3. PICK rest \in Paths : Like(u, t, l, s, rest, t.ip, t.dp, t.puts)
    BY <1>1, <1>3, <1>4, <2>1, WalkIs, Zenon
  <2>4. u.pc = "nameiparent" /\ u.ip = i /\ u.call.op = "link"
    BY <1>0, <1>1, <1>4, <2>3 DEF Like
  <2>5. SameLocks
    BY <1>3, <1>6, <2>2, LookupLocks
  <2>6. Recounts(inode, inode', i, inode[i].nlink + 1)
    <3>1. PICK x : x = inode[i].nlink + 1
      OBVIOUS
    <3>2. inode' = [inode EXCEPT ![i].nlink = x]
      BY <1>6, <3>1
    <3> QED
      BY <1>3, <1>4, <3>1, <3>2, RecountsIs, Zenon
  <2>7. SameEntries(inode, inode') /\ inode'[i].nlink = inode[i].nlink + 1
        /\ \A j \in Ino : j # i => inode'[j].nlink = inode[j].nlink
    BY <2>6 DEF Recounts
  <2>8. Shape' /\ HasSlots(inode) /\ HasSlots(inode') /\ Good(inode, th)
    BY <1>3, GoodNow, ShapeSlots DEF IndInv
  <2>9. Careful(p) /\ LocksKept(p)
    BY <2>5, <2>7, SameKept DEF Careful, SameEntries
  <2>10. KnowsIn(inode', u) /\ \A j \in Ino : ~Holds(u, j)
    BY <1>4, <1>6, <2>4, <2>7 DEF KnowsIn, Holds, SameEntries
  <2>11. NextKnows /\ NextLocked
    BY <1>6, <2>9, <2>10, OthersKeep
  <2>12. Thins(inode, inode')
    BY <2>7, EntriesThin
  <2>13. inode[i].type # "free"
    <3>1. NextLock(p) = i /\ i # 0
      BY <1>0, <1>3, <1>4, InoIs DEF NextLock
    <3> QED
      BY <1>2, <3>1 DEF At
  <2>14. \A j \in Ino : CountsLinks(inode'[j])
    <3>1. \A j \in Ino : CountsLinks(inode[j])
      BY <2>8 DEF Good, Sound
    <3> QED
      BY <2>7, <2>13, <3>1 DEF CountsLinks, SameEntries
  <2>15. Sound(inode') /\ Tree(inode')
    BY <2>7, <2>8, <2>12, <2>14, EntriesThin, ThinsTree DEF Good
  <2>16. ASSUME NEW j \in Ino, NEW X, j = i => <<"link", p, 0>> \in X PROVE Gained(inode, th, inode', th', j, X)
    <3>1. Gained(inode, th, inode', th, j, {})
      <4>1. Slack(th, th)
        BY DEF Slack
      <4> QED
        BY <2>12, <4>1, ThinsGained
    <3>2. /\ \A q \in Proc : Unlinks(th'[q], j) => Unlinks(th[q], j) \/ (q = p /\ Unlinks(u, j))
          /\ \A q \in Proc : LinksTo(th'[q], j) => LinksTo(th[q], j) \/ (q = p /\ LinksTo(u, j))
      BY <1>3, <1>6, OthersMarks
    <3>3. ~Unlinks(u, j) /\ (LinksTo(u, j) => j = i)
      BY <2>4 DEF Unlinks, LinksTo
    <3>4. /\ \A q \in Proc : Unlinks(th'[q], j) => Unlinks(th[q], j)
          /\ \A q \in Proc : LinksTo(th'[q], j) => LinksTo(th[q], j) \/ <<"link", q, 0>> \in X
      BY <2>16, <3>2, <3>3, Zenon
    <3>5. /\ \A d, k : Names(inode', d, k, j) => Names(inode, d, k, j)
          /\ \A k : Sub(inode', j, k) => Sub(inode, j, k)
      BY <3>1 DEF Gained
    <3> QED
      BY <3>4, <3>5, Zenon DEF Gained
  <2>17. ASSUME NEW j \in Ino PROVE Enough(inode'[j].nlink, LinksOf(inode', th', j))
    <3>1. CASE j = i
      <4>1. PICK x : x = <<"link", p, 0>>
        OBVIOUS
      <4>2. Gained(inode, th, inode', th', j, {x}) /\ inode'[j].nlink = inode[j].nlink + 1
        BY <2>7, <2>16, <3>1, <4>1
      <4> QED
        BY <2>8, <4>2, Covered, Zenon
    <3>2. CASE j # i
      <4>1. Gained(inode, th, inode', th', j, {}) /\ inode'[j].nlink = inode[j].nlink
        BY <2>7, <2>16, <3>2
      <4> QED
        BY <2>8, <4>1, Covered, Zenon
    <3> QED
      BY <3>1, <3>2
  <2>18. Good(inode', th')
    BY <2>15, <2>17 DEF Good
  <2> QED
    BY <2>8, <2>11, <2>18, GoodNext
<1> QED
  BY <1>2, <1>5, <1>6

\* A step of p that leaves the inodes alone, and takes a lock.
LEMMA HoldStep ==
  ASSUME IndInv, IndInv', NamesInv, NEW p \in Proc, NEW u, th' = [th EXCEPT ![p] = u], inode' = inode, LocksKept(p),
         KnowsIn(inode, u), \A i \in Ino : Holds(u, i) => icache'[i].lock = p,
         u.pc # "unlink3", Linking(u) => Linking(th[p]) /\ u.ip = th[p].ip
  PROVE  NamesInv'
<1>1. Shape /\ Shape' /\ HasSlots(inode) /\ HasSlots(inode') /\ Good(inode, th)
  BY GoodNow, ShapeSlots DEF IndInv
<1>2. Careful(p) /\ KnowsIn(inode', u)
  BY DEF Careful
<1>3. NextKnows /\ NextLocked
  BY <1>2, OthersKeep
<1>4. Slack(th, th')
  <2>1. \A q \in Proc : th'[q] = IF q = p THEN u ELSE th[q]
    BY <1>1, ShapeIs
  <2> QED
    BY <2>1 DEF Slack, Unlinks, LinksTo
<1>5. Thins(inode, inode')
  BY Zenon DEF Thins
<1>6. ASSUME NEW i \in Ino PROVE Enough(inode'[i].nlink, LinksOf(inode', th', i))
  <2>1. Gained(inode, th, inode', th', i, {}) /\ inode'[i].nlink = inode[i].nlink
    BY <1>4, <1>5, ThinsGained
  <2> QED
    BY <1>1, <2>1, Covered, Zenon
<1>7. Sound(inode') /\ Tree(inode')
  BY <1>1 DEF Good
<1>8. Good(inode', th')
  BY <1>6, <1>7 DEF Good
<1> QED
  BY <1>1, <1>3, <1>8, GoodNext

\* create() locks an inode that exists.
LEMMA CreateKeepNames ==
  ASSUME IndInv, IndInv', NamesInv, NEW p \in Proc, CreateKeep(p)
  PROVE  NamesInv'
<1>1. PICK t, i : t = th[p] /\ i = th[p].ip
  OBVIOUS
<1>2. /\ At(p, {"create2"}) /\ inode' = inode
      /\ \/ th' = [th EXCEPT ![p].pc = "open2"] /\ icache' = Ilock(icache, i, p)
         \/ th' = [th EXCEPT ![p] = Return(t, -1, <<i>>)] /\ icache' = Visit(icache, i)
  BY <1>1, Zenon DEF CreateKeep, disk
<1>3. Shape /\ icache \in Cache /\ t.pc = "create2" /\ IsThread(t) /\ i \in Ino
  BY <1>1, <1>2, AtIs, InoIs DEF Locals, HasIp, IsThread
<1>4. CASE th' = [th EXCEPT ![p] = Return(t, -1, <<i>>)] /\ icache' = Visit(icache, i)
  <2>1. NextTame /\ Frees(p)
    BY <1>3, <1>4, VisitLocks, SameKept, ReturnStep, Zenon
  <2> QED
    BY <1>2, <2>1, QuietStep
<1>5. CASE th' = [th EXCEPT ![p].pc = "open2"] /\ icache' = Ilock(icache, i, p)
  <2>1. PICK u : u = [t EXCEPT !.pc = "open2"]
    OBVIOUS
  <2>2. th' = [th EXCEPT ![p] = u]
    BY <1>1, <1>5, <2>1
  <2>3. u.pc = "open2" /\ u.ip = i
    <3>1. DOMAIN t = {"pc", "call", "at", "path", "ip", "dp", "f", "done", "puts", "dropping", "ret", "buf"}
      BY <1>3, ThreadFields DEF IsThread
    <3> QED
      BY <1>1, <2>1, <3>1
  <2>4. icache[i].lock = 0
    <3>1. NextLock(p) = i /\ i # 0
      BY <1>1, <1>2, <1>3, InoIs DEF NextLock, At
    <3> QED
      BY <1>2, <3>1 DEF At
  <2>5. \A j \in Ino : icache'[j].lock = IF j = i THEN p ELSE icache[j].lock
    BY <1>3, <1>5, IlockLock
  <2>6. LocksKept(p)
    BY <2>4, <2>5 DEF LocksKept
  <2>7. KnowsIn(inode, u) /\ ~Linking(u) /\ \A j \in Ino : Holds(u, j) => icache'[j].lock = p
    BY <2>3, <2>5 DEF KnowsIn, Linking, Holds
  <2>8. u.pc # "unlink3"
    BY <2>3
  <2> QED
    BY <1>2, <2>2, <2>6, <2>7, <2>8, HoldStep, Zenon
<1> QED
  BY <1>2, <1>4, <1>5

\* The lock that a lookup keeps.
LEMMA LockedLookup ==
  ASSUME icache \in Cache, NEW d \in Ino, NEW p \in Proc, NEW i \in Ino, icache[d].lock = 0,
         icache' = Iget(Ilock(icache, d, p), i)
  PROVE  LocksKept(p) /\ icache'[d].lock = p
<1>1. PICK c \in Cache : c = Ilock(icache, d, p) /\ \A j \in Ino : c[j].lock = IF j = d THEN p ELSE icache[j].lock
  BY IlockLock
<1>2. \A j \in Ino : Iget(c, i)[j].lock = c[j].lock
  BY IgetLock
<1>3. icache' = Iget(c, i)
  BY <1>1
<1> QED
  BY <1>1, <1>2, <1>3 DEF LocksKept

\* unlink() finds the name and keeps the directory locked.
LEMMA UnlinkFindNames ==
  ASSUME IndInv, IndInv', NamesInv, NEW p \in Proc, UnlinkFind(p)
  PROVE  NamesInv'
<1>1. PICK t, d, n : t = th[p] /\ d = th[p].dp /\ n = Head(th[p].path)
  OBVIOUS
<1>2. PICK i, l, s : i = Dirlookup(d, n) /\ l = "unlink2" /\ s = <<>>
  OBVIOUS
<1>3. PICK u : u = [Goto(t, l, s) EXCEPT !.ip = i]
  OBVIOUS
<1>4. /\ At(p, {"unlink1"}) /\ inode' = inode
      /\ \/ th' = [th EXCEPT ![p] = Return(t, -1, <<d>>)] /\ icache' = Visit(icache, d)
         \/ /\ n \notin {".", ".."} /\ i # 0
            /\ icache' = Iget(Ilock(icache, d, p), i) /\ th' = [th EXCEPT ![p] = u]
  BY <1>1, <1>2, <1>3, Zenon DEF UnlinkFind, disk
<1>5. /\ Shape /\ icache \in Cache /\ t.pc = "unlink1" /\ IsThread(t) /\ d \in Ino /\ inode[d].type = "dir"
  BY <1>1, <1>4, AtIs, InoIs DEF Locals, HasDp, IsThread, Kinds
<1>6. CASE th' = [th EXCEPT ![p] = Return(t, -1, <<d>>)] /\ icache' = Visit(icache, d)
  <2>1. NextTame /\ Frees(p)
    BY <1>5, <1>6, VisitLocks, SameKept, ReturnStep, Zenon
  <2> QED
    BY <1>4, <2>1, QuietStep
<1>7. CASE /\ n \notin {".", ".."} /\ i # 0
           /\ icache' = Iget(Ilock(icache, d, p), i) /\ th' = [th EXCEPT ![p] = u]
  <2>1. i \in Ino
    BY <1>2, <1>5, <1>7, DirlookupIs, InoIs
  <2>2. Like(u, t, l, t.at, t.path, i, t.dp, s)
    BY <1>3, <1>5, GotoIs, Zenon
  <2>3. u.pc = "unlink2" /\ u.ip = i /\ u.dp = d /\ u.path = t.path
    BY <1>1, <1>2, <2>2 DEF Like
  <2>4. icache[d].lock = 0
    <3>1. NextLock(p) = d /\ d # 0
      BY <1>1, <1>4, <1>5, InoIs DEF NextLock, At
    <3> QED
      BY <1>4, <3>1 DEF At
  <2>5. LocksKept(p) /\ icache'[d].lock = p
    BY <1>5, <1>7, <2>1, <2>4, LockedLookup
  <2>6. LookupIn(inode[d].data, n) = i
    BY <1>2, KnowsIs
  <2>7. ~Linking(u) /\ \A j \in Ino : Holds(u, j) => icache'[j].lock = p
    BY <2>3, <2>5 DEF Linking, Holds
  <2>8. KnowsIn(inode, u)
    BY <1>1, <1>7, <2>3, <2>6, <2>7 DEF KnowsIn
  <2>9. u.pc # "unlink3"
    BY <2>3
  <2> QED
    BY <1>4, <1>7, <2>5, <2>7, <2>8, <2>9, HoldStep, Zenon
<1> QED
  BY <1>4, <1>6, <1>7

-----------------------------------------------------------------------------
\* Entries written to directories

\* Slot k of a directory with the content s is written: it holds x in r.
SlotSet(s, r, k, x) ==
  /\ k \in Nat /\ k > 2 /\ k \in DOMAIN r /\ r[k] = x
  /\ \A j : j # k => (j \in DOMAIN r <=> j \in DOMAIN s)
  /\ \A j \in DOMAIN s : j # k => r[j] = s[j]

\* What writei() does when it does not panic.
LEMMA WriteiFits ==
  ASSUME NEW n, IsInode(n), NEW u, NEW off, NEW us, NEW w, w = Writei(u, n, off, us), w.fits
  PROVE  w.ino.data = Content(n, off, us) /\ w.ino.type = n.type /\ w.ino.nlink = n.nlink
<1>1. PICK m : m = w.ino
  OBVIOUS
<1>2. m = Writei(u, n, off, us).ino
  BY <1>1
<1>3. m.nlink = n.nlink /\ m.type = n.type
  BY <1>2, WriteiHas, WriteiNlink
<1>4. m.data = Content(n, off, us)
  <2> DEFINE len == IF off + Len(us) > Len(n.data) THEN off + Len(us) ELSE Len(n.data)
  <2>1. PICK b, data : /\ b = Bmap(u, n, IF Blocks(len) > Len(n.blks) THEN Blocks(len) ELSE Len(n.blks))
                       /\ data = [j \in 1..len |-> IF j \in off+1..off+Len(us) THEN us[j - off] ELSE n.data[j]]
    OBVIOUS
  <2>2. w = [fits |-> b.fits, used |-> IF b.fits THEN u \cup {Balloc(u, j) : j \in 1..b.k} ELSE u,
             ino  |-> IF b.fits THEN [n EXCEPT !.blks = b.blks, !.ind = b.ind, !.data = data] ELSE n]
    BY <2>1, Zenon DEF Writei
  <2>3. PICK v, y : /\ v = IF b.fits THEN u \cup {Balloc(u, j) : j \in 1..b.k} ELSE u
                    /\ y = IF b.fits THEN [n EXCEPT !.blks = b.blks, !.ind = b.ind, !.data = data] ELSE n
    OBVIOUS
  <2>a. w = [fits |-> b.fits, used |-> v, ino |-> y]
    BY <2>2, <2>3, Zenon
  <2>b. m = y
    BY <1>1, <2>a
  <2>c. PICK f : f = b.fits
    OBVIOUS
  <2>d. w = [fits |-> f, used |-> v, ino |-> y]
    BY <2>a, <2>c, Zenon
  <2>f. w.fits = f
    BY <2>d
  <2>e. b.fits
    BY <2>c, <2>f, Zenon
  <2>4. m = [n EXCEPT !.blks = b.blks, !.ind = b.ind, !.data = data]
    BY <2>3, <2>b, <2>e
  <2>5. DOMAIN n = {"type", "nlink", "data", "blks", "ind"}
    BY DEF IsInode, NoInode
  <2>6. m.data = data
    BY <2>4, <2>5
  <2> QED
    BY <2>1, <2>6 DEF Content
<1> QED
  BY <1>1, <1>3, <1>4

\* writei() of one slot.
LEMMA ContentSets ==
  ASSUME NEW n, n.data \in Seq(DirSlots), NEW off \in Nat, off > 1, off <= Len(n.data), NEW x, NEW k, k = off + 1
  PROVE  SlotSet(n.data, Content(n, off, <<x>>), k, x)
<1>1. PICK s, us, r : s \in Seq(DirSlots) /\ s = n.data /\ us = <<x>> /\ r = Content(n, off, us)
  OBVIOUS
<1>2. Len(us) = 1 /\ us[1] = x /\ Len(s) \in Nat
  BY <1>1
<1>a. PICK l \in Nat : l = Len(s) /\ off <= l /\ DOMAIN s = 1..l
  BY <1>1, <1>2
<1>3. PICK len \in Nat : len = IF off + 1 > Len(s) THEN off + 1 ELSE Len(s)
  BY <1>2
<1>b. len = IF off + 1 > l THEN off + 1 ELSE l
  BY <1>3, <1>a
<1>4. r = [j \in 1..len |-> IF j \in off+1..off+1 THEN us[j - off] ELSE s[j]]
  BY <1>1, <1>2, <1>3 DEF Content
<1>5. DOMAIN r = 1..len /\ k \in 1..len /\ k > 2
  BY <1>4, <1>a, <1>b
<1>6. r[k] = x
  <2>1. k \in off+1..off+1 /\ k - off = 1
    BY <1>2
  <2> QED
    BY <1>2, <1>4, <1>5, <2>1
<1>7. ASSUME NEW j \in DOMAIN s, j # k PROVE r[j] = s[j]
  <2>1. j \in 1..len /\ j \notin off+1..off+1
    BY <1>7, <1>a, <1>b
  <2> QED
    BY <1>4, <2>1
<1>8. \A j : j # k => (j \in DOMAIN r <=> j \in DOMAIN s)
  <2>1. \A j : j # k => (j \in 1..len <=> j \in 1..l)
    BY <1>a, <1>b
  <2> QED
    BY <1>5, <1>a, <2>1
<1>9. SlotSet(s, r, k, x)
  BY <1>5, <1>6, <1>7, <1>8 DEF SlotSet
<1> QED
  BY <1>1, <1>9

\* dirlink(): the slot is none of the dots.
LEMMA DirlinkSets ==
  ASSUME Shape, NEW u, NEW d \in Ino, inode[d].type = "dir", Dots(inode[d], d), NEW n, NEW i,
         NEW w, w = Dirlink(u, d, n, i), w.fits
  PROVE  /\ \E k : SlotSet(inode[d].data, w.ino.data, k, Slot(n, i))
         /\ w.ino.type = "dir" /\ w.ino.nlink = inode[d].nlink
<1>1. PICK m, s, x : m = inode[d] /\ s = inode[d].data /\ x = Slot(n, i)
  OBVIOUS
<1>2. IsInode(m) /\ s \in Seq(DirSlots) /\ m.type = "dir"
  BY <1>1, ShapeIs DEF IsInode
<1> DEFINE free == DOMAIN s \ Entries(d)
           off == IF free = {} THEN Len(s) ELSE (CHOOSE k \in free : \A h \in free : k <= h) - 1
<1>3. Len(s) \in Nat /\ free \subseteq 1..Len(s)
  BY <1>2
<1>4. w = Writei(u, m, off, <<x>>)
  BY <1>1 DEF Dirlink
<1>5. 2 \in DOMAIN s /\ 1 \in DOMAIN s /\ 1 \notin free /\ 2 \notin free /\ Len(s) >= 2
  <2>1. 2 \in DOMAIN s /\ s[1] = Slot(".", d) /\ s[2].inum # 0
    BY <1>1, <1>2 DEF Dots
  <2>2. Len(s) >= 2 /\ 1 \in DOMAIN s
    BY <1>2, <1>3, <2>1
  <2>3. s[1].inum = d /\ d # 0
    BY <2>1, InoIs DEF Slot
  <2> QED
    BY <1>1, <2>1, <2>2, <2>3 DEF Entries
<1> HIDE DEF free
<1>6. off \in Nat /\ off > 1 /\ off <= Len(s)
  <2>1. CASE free = {}
    BY <1>3, <1>5, <2>1
  <2>2. CASE free # {}
    <3>1. free \in SUBSET Nat
      BY <1>3
    <3>2. \E k \in free : \A h \in free : k <= h
      BY <2>2, <3>1, LeastNat
    <3>3. PICK c : c = CHOOSE k \in free : \A h \in free : k <= h
      OBVIOUS
    <3>4. c \in free
      BY <3>2, <3>3
    <3>5. off = c - 1
      BY <2>2, <3>3
    <3>6. c \in 1..Len(s) /\ c # 1 /\ c # 2
      BY <1>3, <1>5, <3>4
    <3> QED
      BY <1>3, <3>5, <3>6
  <2> QED
    BY <2>1, <2>2
<1> HIDE DEF off
<1>7. PICK o, us : o = off /\ us = <<x>>
  OBVIOUS
<1>8. w.ino.data = Content(m, o, us) /\ w.ino.type = m.type /\ w.ino.nlink = m.nlink
  BY <1>2, <1>4, <1>7, WriteiFits
<1>9. PICK k : k = o + 1
  OBVIOUS
<1>10. SlotSet(m.data, Content(m, o, us), k, x)
  BY <1>1, <1>2, <1>6, <1>7, <1>9, ContentSets
<1> QED
  BY <1>1, <1>2, <1>8, <1>10

\* A name that dirlookup() finds.
LEMMA FindHits ==
  ASSUME Shape, NEW d \in Ino, inode[d].type = "dir", NEW n, NEW k, k = Find(d, n), k # 0
  PROVE  k \in DOMAIN inode[d].data /\ inode[d].data[k].name = n /\ inode[d].data[k].inum = Dirlookup(d, n)
<1>1. inode[d].data \in Seq(DirSlots)
  BY ShapeIs DEF IsInode
<1> DEFINE hits == {h \in Entries(d) : inode[d].data[h].name = n}
<1>2. hits \in SUBSET Nat /\ hits \subseteq DOMAIN inode[d].data
  BY <1>1 DEF Entries
<1>3. k = IF hits = {} THEN 0 ELSE CHOOSE c \in hits : \A h \in hits : c <= h
  BY DEF Find
<1>4. \A h \in hits : inode[d].data[h].name = n
  OBVIOUS
<1> HIDE DEF hits
<1>5. hits # {}
  BY <1>3
<1>6. \E c \in hits : \A h \in hits : c <= h
  BY <1>2, <1>5, LeastNat
<1>7. k \in hits
  BY <1>3, <1>5, <1>6
<1>8. inode[d].data[k].inum = Dirlookup(d, n)
  BY DEF Dirlookup
<1> QED
  BY <1>2, <1>4, <1>7, <1>8

\* The names of a directory with a slot written.
LEMMA SlotNames ==
  ASSUME NEW I, NEW J, NEW d \in Ino, I[d].type = "dir", I[d].data \in Seq(DirSlots), NEW k, NEW x,
         SlotSet(I[d].data, J[d].data, k, x)
  PROVE  /\ \A j, e : Names(J, d, j, e) => (j = k /\ e = x.inum) \/ (j # k /\ Names(I, d, j, e))
         /\ Up(J, d) = Up(I, d) \/ 2 \notin DOMAIN I[d].data
         /\ Dots(I[d], d) => Dots(J[d], d)
<1>1. PICK s, r : s = I[d].data /\ r = J[d].data
  OBVIOUS
<1>2. /\ k \in Nat /\ k > 2 /\ r[k] = x
      /\ \A j : j # k => (j \in DOMAIN r <=> j \in DOMAIN s)
      /\ \A j \in DOMAIN s : j # k => r[j] = s[j]
  BY <1>1 DEF SlotSet
<1>3. ASSUME NEW j, NEW e, Names(J, d, j, e) PROVE (j = k /\ e = x.inum) \/ (j # k /\ Names(I, d, j, e))
  <2>1. e \in Ino /\ j \in DOMAIN r /\ j > 2 /\ r[j].inum = e
    BY <1>1, <1>3 DEF Names
  <2>2. CASE j = k
    BY <1>2, <2>1, <2>2
  <2>3. CASE j # k
    <3>1. j \in DOMAIN s /\ s[j].inum = e
      BY <1>2, <2>1, <2>3
    <3> QED
      BY <1>1, <2>1, <2>3, <3>1 DEF Names
  <2> QED
    BY <2>2, <2>3
<1>4. 1 # k /\ 2 # k
  BY <1>2
<1>5. 2 \in DOMAIN s => r[2] = s[2] /\ 2 \in DOMAIN r
  BY <1>2, <1>4, Zenon
<1>6. ASSUME Dots(I[d], d) PROVE Dots(J[d], d)
  <2>1. 2 \in DOMAIN s /\ s[1] = Slot(".", d) /\ s[2].name = ".." /\ s[2].inum # 0
    BY <1>1, <1>6 DEF Dots
  <2>2. 1 \in DOMAIN s
    <3>1. s \in Seq(DirSlots)
      BY <1>1
    <3> QED
      BY <2>1, <3>1
  <2>3. r[1] = s[1]
    BY <1>2, <1>4, <2>2, Zenon
  <2> QED
    BY <1>1, <1>5, <2>1, <2>3 DEF Dots
<1> QED
  BY <1>1, <1>3, <1>5, <1>6 DEF Up

\* Entry k of directory d is made for inode i, which is no directory or a new
\* one in d.
NewEntry(I, J, d, k, i) ==
  /\ d \in Ino /\ i \in Ino
  /\ \A c, j, e : Names(J, c, j, e) => (c = d /\ j = k /\ e = i) \/ Names(I, c, j, e)
  /\ \A e \in Ino : e # i /\ J[e].type = "dir" => I[e].type = "dir" /\ Up(J, e) = Up(I, e)
  /\ J[i].type = "dir" => Up(J, i) = d /\ \A c, j : ~Names(I, c, j, i)

\* Directories keep their one name.
LEMMA NewEntryTree ==
  ASSUME NEW I, NEW J, NEW d, NEW k, NEW i, NewEntry(I, J, d, k, i), Tree(I)
  PROVE  Tree(J)
<1>1. ASSUME NEW c, NEW j, NEW e, Names(J, c, j, e), J[e].type = "dir"
      PROVE  Up(J, e) = c /\ \A b, h : Names(J, b, h, e) => b = c /\ h = j
  <2>1. e \in Ino
    BY <1>1 DEF Names
  <2>2. \A b, h : Names(J, b, h, e) => (b = d /\ h = k /\ e = i) \/ Names(I, b, h, e)
    BY Zenon DEF NewEntry
  <2>3. CASE e = i
    <3>1. Up(J, i) = d /\ \A b, h : ~Names(I, b, h, i)
      BY <1>1, <2>3 DEF NewEntry
    <3>2. \A b, h : Names(J, b, h, e) => b = d /\ h = k
      BY <2>2, <2>3, <3>1, Zenon
    <3>3. c = d /\ j = k
      BY <1>1, <3>2, Zenon
    <3>4. Up(J, e) = d
      BY <2>3, <3>1
    <3> QED
      BY <3>2, <3>3, <3>4
  <2>4. CASE e # i
    <3>1. I[e].type = "dir" /\ Up(J, e) = Up(I, e)
      BY <1>1, <2>1, <2>4 DEF NewEntry
    <3>2. \A b, h : Names(J, b, h, e) => Names(I, b, h, e)
      BY <2>2, <2>4, Zenon
    <3>3. Names(I, c, j, e)
      BY <1>1, <3>2, Zenon
    <3>4. Up(I, e) = c /\ \A b, h : Names(I, b, h, e) => b = c /\ h = j
      BY <3>1, <3>3, Zenon DEF Tree
    <3> QED
      BY <3>1, <3>2, <3>4, Zenon
  <2> QED
    BY <2>3, <2>4
<1> QED
  BY <1>1, Zenon DEF Tree

\* The links it makes: the name, and ".." of a directory.
LEMMA NewEntryGained ==
  ASSUME NEW I, NEW J, NEW d, NEW k, NEW i, NewEntry(I, J, d, k, i), NEW T, NEW U, Slack(T, U), NEW x, NEW X,
         x = i => <<"name", d, k>> \in X, x = d /\ J[i].type = "dir" => <<"sub", 0, k>> \in X
  PROVE  Gained(I, T, J, U, x, X)
<1>1. \A c, j, e : Names(J, c, j, e) => (c = d /\ j = k /\ e = i) \/ Names(I, c, j, e)
  BY Zenon DEF NewEntry
<1>2. \A c, j : Names(J, c, j, x) => Names(I, c, j, x) \/ <<"name", c, j>> \in X
  BY <1>1, Zenon
<1>3. ASSUME NEW j, Sub(J, x, j) PROVE Sub(I, x, j) \/ <<"sub", 0, j>> \in X
  <2>1. PICK e \in Ino : Names(J, x, j, e) /\ J[e].type = "dir"
    BY <1>3 DEF Sub
  <2>2. CASE x = d /\ j = k /\ e = i
    <3>1. J[i].type = "dir"
      BY <2>1, <2>2
    <3> QED
      BY <2>2, <3>1, Zenon
  <2>3. CASE Names(I, x, j, e)
    <3>1. e # i
      BY <2>1, <2>3, Zenon DEF NewEntry
    <3>2. I[e].type = "dir"
      BY <2>1, <3>1 DEF NewEntry
    <3> QED
      BY <2>3, <3>2 DEF Sub
  <2> QED
    BY <1>1, <2>1, <2>2, <2>3, Zenon
<1>4. \A q \in Proc : (Unlinks(U[q], x) => Unlinks(T[q], x)) /\ (LinksTo(U[q], x) => LinksTo(T[q], x))
  BY Zenon DEF Slack
<1> QED
  BY <1>2, <1>3, <1>4, Zenon DEF Gained

\* A slot is written in one directory.
Writes(I, J, d, m, k, x) ==
  /\ OneSet(I, J, d, m) /\ I[d].type = "dir" /\ m.type = "dir"
  /\ SlotSet(I[d].data, m.data, k, x)

\* What is named after it, and what stays as it is.
LEMMA WritesNames ==
  ASSUME NEW I, HasSlots(I), Sound(I), NEW J, NEW d, NEW m, NEW k, NEW x, Writes(I, J, d, m, k, x)
  PROVE  /\ \A c, j, e : Names(J, c, j, e) => (c = d /\ j = k /\ e = x.inum) \/ (Names(I, c, j, e) /\ ~(c = d /\ j = k))
         /\ \A e \in Ino : J[e].type = I[e].type /\ (J[e].type = "dir" => Up(J, e) = Up(I, e))
         /\ \A e \in Ino : Dots(J[e], e)
<1>1. d \in Ino /\ J[d] = m /\ \A j \in Ino : j # d => J[j] = I[j]
  BY DEF Writes, OneSet
<1>2. I[d].type = "dir" /\ J[d].type = "dir" /\ SlotSet(I[d].data, J[d].data, k, x) /\ I[d].data \in Seq(DirSlots)
  BY <1>1 DEF Writes, HasSlots
<1>3. \A e \in Ino : Dots(I[e], e)
  BY DEF Sound
<1>4. 2 \in DOMAIN I[d].data
  BY <1>1, <1>2, <1>3 DEF Dots
<1>5. /\ \A j, e : Names(J, d, j, e) => (j = k /\ e = x.inum) \/ (j # k /\ Names(I, d, j, e))
      /\ Up(J, d) = Up(I, d) /\ Dots(J[d], d)
  BY <1>1, <1>2, <1>3, <1>4, SlotNames
<1>6. ASSUME NEW c, NEW j, NEW e, Names(J, c, j, e)
      PROVE  (c = d /\ j = k /\ e = x.inum) \/ (Names(I, c, j, e) /\ ~(c = d /\ j = k))
  <2>1. CASE c = d
    BY <1>5, <1>6, <2>1, Zenon
  <2>2. CASE c # d
    <3>1. c \in Ino
      BY <1>6 DEF Names
    <3>2. J[c] = I[c]
      BY <1>1, <2>2, <3>1
    <3>3. Names(I, c, j, e)
      BY <1>6, <3>2, Zenon DEF Names
    <3> QED
      BY <2>2, <3>3
  <2> QED
    BY <2>1, <2>2
<1>7. ASSUME NEW e \in Ino
      PROVE  J[e].type = I[e].type /\ (J[e].type = "dir" => Up(J, e) = Up(I, e)) /\ Dots(J[e], e)
  <2>1. CASE e = d
    BY <1>2, <1>5, <2>1
  <2>2. CASE e # d
    BY <1>1, <1>3, <2>2 DEF Up
  <2> QED
    BY <2>1, <2>2
<1> QED
  BY <1>6, <1>7

\* The disk stays sound.
LEMMA WritesSound ==
  ASSUME NEW I, HasSlots(I), Sound(I), NEW J, NEW d, NEW m, NEW k, NEW x, Writes(I, J, d, m, k, x), m.nlink \in Int
  PROVE  Sound(J)
<1>1. /\ \A e \in Ino : J[e].type = I[e].type /\ (J[e].type = "dir" => Up(J, e) = Up(I, e))
      /\ \A e \in Ino : Dots(J[e], e)
  BY WritesNames
<1>2. ROOTINO \in Ino /\ I[ROOTINO].type = "dir" /\ Up(I, ROOTINO) = ROOTINO
  BY InoIs DEF Sound, Rooted
<1>3. Rooted(J)
  BY <1>1, <1>2 DEF Rooted
<1>4. \A e \in Ino : CountsLinks(J[e])
  <2>1. d \in Ino /\ m.type = "dir" /\ \A j \in Ino : J[j] = IF j = d THEN m ELSE I[j]
    BY DEF Writes, OneSet
  <2>2. CountsLinks(m)
    BY <2>1 DEF CountsLinks
  <2>3. \A e \in Ino : CountsLinks(I[e])
    BY DEF Sound
  <2> QED
    BY <2>1, <2>2, <2>3
<1> QED
  BY <1>1, <1>3, <1>4 DEF Sound

\* The entry of inode i is cleared: the link goes into the hands of p, and the
\* count of the directory goes down with the ".." of a directory.
Erases(I, J, d, m, k, x, i) ==
  /\ Writes(I, J, d, m, k, x) /\ x.inum = 0
  /\ i # d /\ Names(I, d, k, i)
  /\ I[i].type = "dir" => m.nlink = I[d].nlink - 1
  /\ I[i].type # "dir" => m.nlink = I[d].nlink
Unlinked(T, U, p, i) ==
  /\ \A q \in Proc : \A j : Unlinks(U[q], j) => Unlinks(T[q], j) \/ (q = p /\ j = i)
  /\ \A q \in Proc : \A j : LinksTo(U[q], j) => LinksTo(T[q], j)

\* Every count still covers its links.
LEMMA ErasedGood ==
  ASSUME NEW I, NEW T, Good(I, T), HasSlots(I), NEW J, NEW U, HasSlots(J), NEW p \in Proc,
         NEW d, NEW m, NEW k, NEW x, NEW i, Erases(I, J, d, m, k, x, i), Unlinked(T, U, p, i)
  PROVE  Good(J, U)
<1>0. /\ Writes(I, J, d, m, k, x) /\ x.inum = 0 /\ i # d /\ Names(I, d, k, i)
      /\ I[i].type = "dir" => m.nlink = I[d].nlink - 1
      /\ I[i].type # "dir" => m.nlink = I[d].nlink
  BY DEF Erases
<1>1. d \in Ino /\ i \in Ino /\ Sound(I) /\ Tree(I) /\ (\A j \in Ino : J[j] = IF j = d THEN m ELSE I[j])
  BY <1>0 DEF Good, Names, Writes, OneSet
<1>2. \A c, j, e : Names(J, c, j, e) => Names(I, c, j, e) /\ ~(c = d /\ j = k)
  <2>1. \A c, j, e : Names(J, c, j, e) => (c = d /\ j = k /\ e = x.inum) \/ (Names(I, c, j, e) /\ ~(c = d /\ j = k))
    BY <1>0, <1>1, WritesNames
  <2>2. ASSUME NEW c, NEW j, NEW e, Names(J, c, j, e) PROVE e # x.inum
    BY <1>0, <2>2, InoIs DEF Names
  <2> QED
    BY <2>1, <2>2, Zenon
<1>3. Thins(I, J)
  <2>1. \A e \in Ino : J[e].type = I[e].type /\ (J[e].type = "dir" => Up(J, e) = Up(I, e))
    BY <1>0, <1>1, WritesNames
  <2> QED
    BY <1>2, <2>1 DEF Thins
<1>4. Tree(J)
  BY <1>1, <1>3, ThinsTree
<1>5. I[d].nlink \in Int
  BY <1>1 DEF Sound, CountsLinks
<1>6. Sound(J)
  <2>1. m.nlink \in Int
    BY <1>0, <1>5
  <2> QED
    BY <1>0, <1>1, <2>1, WritesSound
<1>7. ASSUME NEW j, NEW X, j = i => <<"unlink", p, 0>> \in X PROVE Gained(I, T, J, U, j, X)
  <2>1. Gained(I, T, J, T, j, {})
    <3>1. Slack(T, T)
      BY DEF Slack
    <3> QED
      BY <1>3, <3>1, ThinsGained
  <2>2. /\ \A c, h : Names(J, c, h, j) => Names(I, c, h, j)
        /\ \A h : Sub(J, j, h) => Sub(I, j, h)
    BY <2>1 DEF Gained
  <2>3. \A q \in Proc : Unlinks(U[q], j) => Unlinks(T[q], j) \/ <<"unlink", q, 0>> \in X
    BY <1>7, Zenon DEF Unlinked
  <2>4. \A q \in Proc : LinksTo(U[q], j) => LinksTo(T[q], j)
    BY Zenon DEF Unlinked
  <2> QED
    BY <2>2, <2>3, <2>4, Zenon DEF Gained
<1>8. ASSUME NEW j \in Ino PROVE Enough(J[j].nlink, LinksOf(J, U, j))
  <2>1. PICK L, M : L = LinksOf(I, T, j) /\ M = LinksOf(J, U, j)
    OBVIOUS
  <2>2. IsLinks(I, T, j, L) /\ IsLinks(J, U, j, M)
    BY <2>1, LinksMembers
  <2>3. CASE j = i
    <3>1. PICK y, z : y = <<"name", d, k>> /\ z = <<"unlink", p, 0>>
      OBVIOUS
    <3>2. y \in L
      BY <1>0, <2>2, <2>3, <3>1, Zenon DEF IsLinks
    <3>3. y \notin M
      <4>1. ~Names(J, d, k, j)
        BY <1>2, Zenon
      <4> QED
        BY <2>2, <3>1, <4>1, Zenon DEF IsLinks
    <3>4. Gained(I, T, J, U, j, {z}) /\ J[j].nlink = I[j].nlink
      BY <1>0, <1>1, <1>7, <2>3, <3>1
    <3> QED
      BY <2>1, <3>2, <3>3, <3>4, Covered, Zenon
  <2>4. CASE j = d /\ I[i].type = "dir"
    <3>1. PICK y : y = <<"sub", 0, k>>
      OBVIOUS
    <3>2. Sub(I, d, k)
      BY <1>0, <1>1, <2>4 DEF Sub
    <3>3. y \in L
      BY <2>2, <2>4, <3>1, <3>2, Zenon DEF IsLinks
    <3>4. ~Sub(J, d, k)
      BY <1>2, Zenon DEF Sub
    <3>5. y \notin M
      BY <2>2, <2>4, <3>1, <3>4, Zenon DEF IsLinks
    <3>6. Gained(I, T, J, U, j, {}) /\ J[j].nlink = I[j].nlink - 1
      BY <1>0, <1>1, <1>7, <2>4
    <3> QED
      BY <2>1, <3>3, <3>5, <3>6, Covered, Zenon
  <2>5. CASE j # i /\ (j = d => I[i].type # "dir")
    <3>1. Gained(I, T, J, U, j, {}) /\ J[j].nlink = I[j].nlink
      BY <1>0, <1>1, <1>5, <1>7, <2>5
    <3> QED
      BY <3>1, Covered, Zenon
  <2> QED
    BY <2>3, <2>4, <2>5
<1> QED
  BY <1>4, <1>6, <1>8 DEF Good

\* The fields of a slot.
LEMMA SlotHas ==
  ASSUME NEW n, NEW i
  PROVE  Slot(n, i).name = n /\ Slot(n, i).inum = i
  BY DEF Slot

\* The entry that unlink() has found is there, after the dots.
LEMMA FoundEntry ==
  ASSUME IndInv, NamesInv, NEW p \in Proc, th[p].pc = "unlink2", NEW d, d = th[p].dp, NEW k, k = Find(d, Head(th[p].path))
  PROVE  Names(inode, d, k, th[p].ip) /\ k \in Nat /\ inode[d].data \in Seq(DirSlots) /\ k <= Len(inode[d].data)
<1>1. PICK t, n, i : t = th[p] /\ n = Head(th[p].path) /\ i = th[p].ip
  OBVIOUS
<1>2. Shape /\ IsThread(t) /\ Locals(t) /\ Kinds(t)
  BY <1>1, ShapeIs DEF IndInv, ThreadsInv
<1>3. d \in Ino /\ i \in Ino /\ inode[d].type = "dir" /\ i # 0
  BY <1>1, <1>2, InoIs DEF Locals, HasIp, HasDp, IsThread, Kinds
<1>4. n \notin {".", ".."} /\ Dirlookup(d, n) = i
  BY <1>1 DEF NamesInv, Knows
<1>5. k # 0
  BY <1>1, <1>3, <1>4 DEF Dirlookup
<1>6. k = Find(d, n)
  BY <1>1
<1>7. k \in DOMAIN inode[d].data /\ inode[d].data[k].name = n /\ inode[d].data[k].inum = i
  BY <1>2, <1>3, <1>4, <1>5, <1>6, FindHits
<1>8. inode[d].data \in Seq(DirSlots)
  BY <1>2, <1>3, ShapeIs DEF IsInode
<1>9. k \in 1..Len(inode[d].data) /\ Len(inode[d].data) \in Nat
  BY <1>7, <1>8
<1>10. inode[d].data[1].name = "." /\ inode[d].data[2].name = ".."
  <2>1. Dots(inode[d], d)
    BY <1>3 DEF NamesInv
  <2>2. inode[d].data[1] = Slot(".", d) /\ inode[d].data[2].name = ".."
    BY <1>3, <2>1 DEF Dots
  <2> QED
    BY <2>2 DEF Slot
<1>11. k # 1 /\ k # 2
  BY <1>4, <1>7, <1>10, Zenon
<1>12. k > 2 /\ k \in Nat /\ k <= Len(inode[d].data)
  BY <1>9, <1>11
<1> QED
  BY <1>1, <1>3, <1>7, <1>8, <1>12 DEF Names

\* unlink() clears the entry, with the inode locked and the directory unlocked.
LEMMA UnlinkEraseNames ==
  ASSUME IndInv, IndInv', NamesInv, NEW p \in Proc, UnlinkErase(p)
  PROVE  NamesInv'
<1>0. PICK t, d, i, k : t = th[p] /\ d = th[p].dp /\ i = th[p].ip /\ k = Find(th[p].dp, Head(th[p].path))
  OBVIOUS
<1>1. PICK off, x, l, b : off = k - 1 /\ x = NoSlot /\ l = "unlink3" /\ b = "unlinkbad"
  OBVIOUS
<1>a. PICK us, s : us = <<x>> /\ s = <<d>>
  OBVIOUS
<1>2. PICK w : w = Writei(used, inode[d], off, us)
  OBVIOUS
<1>3. PICK g : g = IF inode[i].type = "dir" THEN 1 ELSE 0
  OBVIOUS
<1>4. PICK m, u, v : /\ m = [w.ino EXCEPT !.nlink = @ - g]
                     /\ u = [Goto(t, b, <<i>>) EXCEPT !.ip = 0]
                     /\ v = [Goto(t, l, s) EXCEPT !.dp = 0]
  OBVIOUS
<1>5. /\ At(p, {"unlink2"})
      /\ \/ /\ inode' = inode /\ icache' = Visit(icache, i)
            /\ th' = [th EXCEPT ![p] = u]
         \/ /\ w.fits /\ inode' = [inode EXCEPT ![d] = m]
            /\ icache' = Iunlock(Ilock(icache, i, p), d)
            /\ th' = [th EXCEPT ![p] = v]
  BY <1>0, <1>1, <1>a, <1>2, <1>3, <1>4, Zenon DEF UnlinkErase
<1>6. /\ Shape /\ icache \in Cache /\ t.pc = "unlink2" /\ IsThread(t)
      /\ d \in Ino /\ i \in Ino /\ inode[d].type = "dir"
  BY <1>0, <1>5, AtIs, InoIs DEF Locals, HasIp, HasDp, IsThread, Kinds
<1>7. icache[d].lock = p /\ icache[i].lock = 0 /\ i # d
  <2>1. Holds(th[p], d)
    BY <1>0, <1>6 DEF Holds
  <2>2. icache[d].lock = p
    BY <1>6, <2>1 DEF NamesInv
  <2>3. NextLock(p) = i /\ i # 0
    BY <1>0, <1>5, <1>6, InoIs DEF NextLock, At
  <2>4. icache[i].lock = 0
    BY <1>5, <2>3 DEF At
  <2>5. p # 0
    BY Sizes DEF Proc
  <2> QED
    BY <2>2, <2>4, <2>5
<1>8. CASE inode' = inode /\ icache' = Visit(icache, i) /\ th' = [th EXCEPT ![p] = u]
  <2>1. Like(u, t, b, t.at, t.path, 0, t.dp, <<i>>)
    BY <1>4, <1>6, GotoIs, Zenon
  <2>2. u.pc = "unlinkbad" /\ u.dp = d
    BY <1>0, <1>1, <2>1 DEF Like
  <2>3. SameLocks
    BY <1>6, <1>8, VisitLocks
  <2>4. Tame(th[p], u)
    BY <1>0, <1>6, <2>2 DEF Tame, Holds, Linking
  <2>5. NextTame /\ Frees(p)
    BY <1>6, <1>8, <2>3, <2>4, TameStep
  <2> QED
    BY <1>8, <2>5, QuietStep
<1>9. CASE /\ w.fits /\ inode' = [inode EXCEPT ![d] = m]
           /\ icache' = Iunlock(Ilock(icache, i, p), d) /\ th' = [th EXCEPT ![p] = v]
  <2>1. Like(v, t, l, t.at, t.path, t.ip, 0, s)
    BY <1>4, <1>6, GotoIs, Zenon
  <2>2. v.pc = "unlink3" /\ v.ip = i
    BY <1>0, <1>1, <2>1 DEF Like
  <2>3. Names(inode, d, k, i) /\ k \in Nat /\ inode[d].data \in Seq(DirSlots) /\ k <= Len(inode[d].data)
    BY <1>0, <1>6, FoundEntry
  <2>4. k > 2 /\ off \in Nat /\ off > 1 /\ off <= Len(inode[d].data) /\ k = off + 1 /\ Len(inode[d].data) \in Nat
    BY <1>1, <2>3 DEF Names
  <2>5. IsInode(inode[d])
    BY <1>6, ShapeIs
  <2>6. w.ino.data = Content(inode[d], off, us) /\ w.ino.type = inode[d].type /\ w.ino.nlink = inode[d].nlink
    BY <1>2, <1>9, <2>5, WriteiFits
  <2>7. SlotSet(inode[d].data, Content(inode[d], off, us), k, x)
    BY <1>a, <2>3, <2>4, ContentSets
  <2>8. m.data = w.ino.data /\ m.type = w.ino.type /\ m.nlink = w.ino.nlink - g
    <3>1. us \in Seq(DirSlots)
      <4>1. x \in DirSlots
        <5>1. "" \in {"", ".", ".."} /\ 0 \in 0..NInodes
          BY InoIs
        <5> QED
          BY <1>1, <5>1, DotIs, Zenon DEF NoSlot
      <4> QED
        BY <1>a, <4>1
    <3>2. off \in Int /\ off <= Len(inode[d].data)
      BY <2>4
    <3>3. IsInode(w.ino)
      BY <1>2, <2>5, <3>1, <3>2, WriteiIs
    <3>4. DOMAIN w.ino = {"type", "nlink", "data", "blks", "ind"}
      BY <3>3 DEF IsInode, NoInode
    <3> QED
      BY <1>4, <3>4
  <2>9. OneSet(inode, inode', d, m)
    BY <1>6, <1>9, OneSetIs
  <2>10. Writes(inode, inode', d, m, k, x)
    BY <1>6, <2>6, <2>7, <2>8, <2>9 DEF Writes
  <2>11. x.inum = 0
    BY <1>1, SlotHas, Zenon DEF NoSlot
  <2>12. Shape' /\ HasSlots(inode) /\ HasSlots(inode') /\ Good(inode, th)
    BY <1>6, GoodNow, ShapeSlots DEF IndInv
  <2>13. /\ \A q \in Proc : \A j : Unlinks(th'[q], j) => Unlinks(th[q], j) \/ (q = p /\ j = i)
         /\ \A q \in Proc : \A j : LinksTo(th'[q], j) => LinksTo(th[q], j)
    <3>1. \A j : ~LinksTo(v, j) /\ (Unlinks(v, j) => j = i)
      BY <2>2 DEF Unlinks, LinksTo, Linking
    <3>2. ASSUME NEW j
          PROVE  /\ \A q \in Proc : Unlinks(th'[q], j) => Unlinks(th[q], j) \/ (q = p /\ Unlinks(v, j))
                 /\ \A q \in Proc : LinksTo(th'[q], j) => LinksTo(th[q], j) \/ (q = p /\ LinksTo(v, j))
      BY <1>6, <1>9, OthersMarks
    <3> QED
      BY <3>1, <3>2, Zenon
  <2>14. (inode[i].type = "dir" => m.nlink = inode[d].nlink - 1) /\ (inode[i].type # "dir" => m.nlink = inode[d].nlink)
    <3>1. inode[d].nlink \in Int
      BY <1>6 DEF NamesInv, CountsLinks
    <3> QED
      BY <1>3, <2>6, <2>8, <3>1
  <2>15. Good(inode', th')
    <3>1. Erases(inode, inode', d, m, k, x, i)
      BY <1>7, <2>3, <2>10, <2>11, <2>14 DEF Erases
    <3>2. Unlinked(th, th', p, i)
      BY <2>13, Zenon DEF Unlinked
    <3> QED
      BY <2>12, <3>1, <3>2, ErasedGood, Zenon
  <2>16. \A j \in Ino : icache'[j].lock = IF j = d THEN 0 ELSE IF j = i THEN p ELSE icache[j].lock
    <3>1. PICK c \in Cache : c = Ilock(icache, i, p) /\ \A j \in Ino : c[j].lock = IF j = i THEN p ELSE icache[j].lock
      BY <1>6, IlockLock
    <3>2. \A j \in Ino : Iunlock(c, d)[j].lock = IF j = d THEN 0 ELSE c[j].lock
      BY IunlockLock
    <3>3. icache' = Iunlock(c, d)
      BY <1>9, <3>1
    <3> QED
      BY <3>1, <3>2, <3>3
  <2>17. LocksKept(p) /\ \A j \in Ino : Holds(v, j) => icache'[j].lock = p
    BY <1>7, <2>2, <2>16 DEF LocksKept, Holds
  <2>18. Careful(p)
    <3>1. \A j \in Ino : inode'[j] = IF j = d THEN m ELSE inode[j]
      BY <2>9 DEF OneSet
    <3> QED
      BY <1>7, <2>6, <2>8, <3>1 DEF Careful
  <2>19. KnowsIn(inode', v)
    BY <2>2 DEF KnowsIn, Linking
  <2>20. NextKnows /\ NextLocked
    BY <1>9, <2>17, <2>18, <2>19, OthersKeep
  <2> QED
    BY <2>12, <2>15, <2>20, GoodNext
<1> QED
  BY <1>5, <1>8, <1>9

\* An entry is made for inode i, which is no directory: the link in the hands
\* of p becomes a name.
Adds(I, J, d, m, k, x, i) ==
  /\ Writes(I, J, d, m, k, x) /\ x.inum = i
  /\ i \in Ino /\ I[i].type # "dir" /\ m.nlink = I[d].nlink
Linked(T, U, p, i) == Slack(T, U) /\ LinksTo(T[p], i) /\ ~LinksTo(U[p], i)

\* Every count still covers its links.
LEMMA LinkedGood ==
  ASSUME NEW I, NEW T, Good(I, T), HasSlots(I), NEW J, NEW U, HasSlots(J), NEW p \in Proc,
         NEW d, NEW m, NEW k, NEW x, NEW i, Adds(I, J, d, m, k, x, i), Linked(T, U, p, i)
  PROVE  Good(J, U)
<1>0. Writes(I, J, d, m, k, x) /\ x.inum = i /\ i \in Ino /\ I[i].type # "dir" /\ m.nlink = I[d].nlink
  BY DEF Adds
<1>1. /\ d \in Ino /\ i \in Ino /\ Sound(I) /\ Tree(I) /\ I[d].type = "dir" /\ i # d
      /\ \A j \in Ino : J[j] = IF j = d THEN m ELSE I[j]
  BY <1>0 DEF Good, Writes, OneSet
<1>2. /\ \A c, j, e : Names(J, c, j, e) => (c = d /\ j = k /\ e = x.inum) \/ (Names(I, c, j, e) /\ ~(c = d /\ j = k))
      /\ \A e \in Ino : J[e].type = I[e].type /\ (J[e].type = "dir" => Up(J, e) = Up(I, e))
  BY <1>0, <1>1, WritesNames
<1>3. NewEntry(I, J, d, k, i)
  <2>1. \A c, j, e : Names(J, c, j, e) => (c = d /\ j = k /\ e = i) \/ Names(I, c, j, e)
    BY <1>0, <1>2, Zenon
  <2>2. J[i].type # "dir"
    BY <1>0, <1>2
  <2> QED
    BY <1>1, <1>2, <2>1, <2>2 DEF NewEntry
<1>4. Tree(J)
  BY <1>1, <1>3, NewEntryTree
<1>5. Sound(J)
  <2>1. m.nlink \in Int
    BY <1>0, <1>1 DEF Sound, CountsLinks
  <2> QED
    BY <1>0, <1>1, <2>1, WritesSound
<1>6. ASSUME NEW j, NEW X, j = i => <<"name", d, k>> \in X PROVE Gained(I, T, J, U, j, X)
  <2>1. J[i].type # "dir" /\ Slack(T, U)
    BY <1>0, <1>2 DEF Linked
  <2> QED
    BY <1>3, <1>6, <2>1, NewEntryGained, Zenon
<1>7. ASSUME NEW j \in Ino PROVE Enough(J[j].nlink, LinksOf(J, U, j))
  <2>1. PICK L, M : L = LinksOf(I, T, j) /\ M = LinksOf(J, U, j)
    OBVIOUS
  <2>2. IsLinks(I, T, j, L) /\ IsLinks(J, U, j, M)
    BY <2>1, LinksMembers
  <2>3. CASE j = i
    <3>1. PICK y, z : y = <<"link", p, 0>> /\ z = <<"name", d, k>>
      OBVIOUS
    <3>2. y \in L /\ y \notin M
      BY <2>2, <2>3, <3>1, Zenon DEF IsLinks, Linked
    <3>3. Gained(I, T, J, U, j, {z}) /\ J[j].nlink = I[j].nlink
      BY <1>1, <1>6, <2>3, <3>1
    <3> QED
      BY <2>1, <3>2, <3>3, Covered, Zenon
  <2>4. CASE j # i
    <3>1. Gained(I, T, J, U, j, {}) /\ J[j].nlink = I[j].nlink
      BY <1>0, <1>1, <1>6, <2>4
    <3> QED
      BY <3>1, Covered, Zenon
  <2> QED
    BY <2>3, <2>4
<1> QED
  BY <1>4, <1>5, <1>7 DEF Good

\* link() makes the entry, or finds the name taken.
LEMMA LinkEntryNames ==
  ASSUME IndInv, IndInv', NamesInv, NEW p \in Proc, LinkEntry(p)
  PROVE  NamesInv'
<1>0. PICK t, d, i, n : t = th[p] /\ d = th[p].dp /\ i = th[p].ip /\ n = Head(th[p].path)
  OBVIOUS
<1>1. PICK old, w, l : old = Dirlookup(d, n) /\ w = Dirlink(used, d, n, i) /\ l = "link3"
  OBVIOUS
<1>2. PICK u, m, v : u = Goto(t, l, <<old>>) /\ m = w.ino /\ v = Return(t, 0, <<d, i>>)
  OBVIOUS
<1>3. /\ At(p, {"link2"})
      /\ \/ /\ inode' = inode /\ old # 0 /\ icache' = Iget(Ilock(icache, d, p), old)
            /\ th' = [th EXCEPT ![p] = u]
         \/ /\ w.fits /\ inode' = [inode EXCEPT ![d] = m] /\ icache' = Visit(icache, d)
            /\ th' = [th EXCEPT ![p] = v]
  BY <1>0, <1>1, <1>2, Zenon DEF LinkEntry, disk
<1>4. /\ Shape /\ icache \in Cache /\ t.pc = "link2" /\ IsThread(t)
      /\ d \in Ino /\ i \in Ino /\ inode[d].type = "dir"
  BY <1>0, <1>3, AtIs, InoIs DEF Locals, HasIp, HasDp, IsThread, Kinds
<1>5. icache[d].lock = 0
  <2>1. NextLock(p) = d /\ d # 0
    BY <1>0, <1>3, <1>4, InoIs DEF NextLock, At
  <2> QED
    BY <1>3, <2>1 DEF At
<1>6. Linking(t) /\ inode[i].type # "dir"
  <2>1. Linking(t)
    BY <1>4 DEF Linking
  <2>2. Knows(t)
    BY <1>0 DEF NamesInv
  <2> QED
    BY <1>0, <2>1, <2>2 DEF Knows
<1>7. CASE /\ inode' = inode /\ old # 0 /\ icache' = Iget(Ilock(icache, d, p), old)
           /\ th' = [th EXCEPT ![p] = u]
  <2>1. old \in Ino
    BY <1>1, <1>4, <1>7, DirlookupIs, InoIs
  <2>2. Like(u, t, l, t.at, t.path, t.ip, t.dp, <<old>>)
    BY <1>2, <1>4, GotoIs, Zenon
  <2>3. u.pc = "link3" /\ u.ip = i /\ u.dp = d
    BY <1>0, <1>1, <2>2 DEF Like
  <2>4. LocksKept(p) /\ icache'[d].lock = p
    BY <1>4, <1>5, <1>7, <2>1, LockedLookup
  <2>5. \A j \in Ino : Holds(u, j) => icache'[j].lock = p
    BY <2>3, <2>4 DEF Holds
  <2>6. KnowsIn(inode, u)
    BY <1>6, <2>3 DEF KnowsIn
  <2>7. u.pc # "unlink3" /\ (Linking(u) => Linking(th[p]) /\ u.ip = th[p].ip)
    BY <1>0, <1>6, <2>3
  <2> QED
    BY <1>7, <2>4, <2>5, <2>6, <2>7, HoldStep, Zenon
<1>8. CASE /\ w.fits /\ inode' = [inode EXCEPT ![d] = m] /\ icache' = Visit(icache, d)
           /\ th' = [th EXCEPT ![p] = v]
  <2>1. Dots(inode[d], d)
    BY <1>4 DEF NamesInv
  <2>2. /\ \E k : SlotSet(inode[d].data, m.data, k, Slot(n, i))
        /\ m.type = "dir" /\ m.nlink = inode[d].nlink
    BY <1>1, <1>2, <1>4, <1>8, <2>1, DirlinkSets
  <2>3. PICK x : x = Slot(n, i) /\ x.inum = i
    BY SlotHas, Zenon
  <2>4. PICK k : SlotSet(inode[d].data, m.data, k, x)
    BY <2>2, <2>3
  <2>5. OneSet(inode, inode', d, m)
    BY <1>4, <1>8, OneSetIs
  <2>6. Writes(inode, inode', d, m, k, x)
    BY <1>4, <2>2, <2>4, <2>5 DEF Writes
  <2>7. Adds(inode, inode', d, m, k, x, i)
    BY <1>4, <1>6, <2>2, <2>3, <2>6 DEF Adds
  <2>8. Shape' /\ HasSlots(inode) /\ HasSlots(inode') /\ Good(inode, th)
    BY <1>4, GoodNow, ShapeSlots DEF IndInv
  <2>9. Loose(v)
    BY <1>2, ReturnLoose
  <2>10. ~Linking(v) /\ v.pc # "unlink3" /\ v.pc # "unlink2" /\ \A j : ~Holds(v, j)
    <3>1. ~Linking(v) /\ \A j : ~Holds(v, j)
      BY <2>9, LooseTame
    <3> QED
      BY <2>9, <3>1 DEF Loose
  <2>11. \A q \in Proc : th'[q] = IF q = p THEN v ELSE th[q]
    BY <1>4, <1>8, ShapeIs
  <2>12. Linked(th, th', p, i)
    BY <1>0, <1>6, <2>10, <2>11 DEF Linked, Slack, Unlinks, LinksTo
  <2>13. Good(inode', th')
    BY <2>7, <2>8, <2>12, LinkedGood, Zenon
  <2>14. SameLocks
    BY <1>4, <1>8, VisitLocks
  <2>15. Careful(p) /\ LocksKept(p)
    <3>1. \A j \in Ino : inode'[j] = IF j = d THEN m ELSE inode[j]
      BY <2>5 DEF OneSet
    <3>2. Careful(p)
      BY <1>4, <1>5, <2>2, <3>1 DEF Careful
    <3> QED
      BY <2>14, <3>2, SameKept
  <2>16. KnowsIn(inode', v)
    BY <2>10 DEF KnowsIn
  <2>17. NextKnows /\ NextLocked
    BY <1>8, <2>10, <2>15, <2>16, OthersKeep
  <2> QED
    BY <2>8, <2>13, <2>17, GoodNext
<1> QED
  BY <1>3, <1>7, <1>8

\* create() makes inode i in directory d.
FirstDots(s, i, d) ==
  /\ \A j : j \in DOMAIN s => ~(j > 2)
  /\ 2 \in DOMAIN s /\ s[1] = Slot(".", i) /\ s[2] = Slot("..", d)
Makes(I, J, i, d, a, e, k, x, ty) ==
  /\ TwoSet(I, J, i, d, a, e)
  /\ I[i].type = "free" /\ I[d].type = "dir"
  /\ e.type = "dir" /\ SlotSet(I[d].data, e.data, k, x) /\ x.inum = i
  /\ a.type = ty /\ ty # "free" /\ a.nlink = 1
  /\ ty = "dir" => FirstDots(a.data, i, d) /\ e.nlink = I[d].nlink + 1
  /\ ty # "dir" => e.nlink = I[d].nlink

\* The entry it makes, on a sound disk.
LEMMA MakesEntry ==
  ASSUME NEW I, NEW T, Good(I, T), HasSlots(I), NEW J, NEW i, NEW d, NEW a, NEW e, NEW k, NEW x, NEW ty,
         Makes(I, J, i, d, a, e, k, x, ty)
  PROVE  NewEntry(I, J, d, k, i) /\ Sound(J) /\ I[i].nlink = 0
<1>0. /\ TwoSet(I, J, i, d, a, e)
      /\ I[i].type = "free" /\ I[d].type = "dir"
      /\ e.type = "dir" /\ SlotSet(I[d].data, e.data, k, x) /\ x.inum = i
      /\ a.type = ty /\ ty # "free" /\ a.nlink = 1
      /\ ty = "dir" => FirstDots(a.data, i, d) /\ e.nlink = I[d].nlink + 1
      /\ ty # "dir" => e.nlink = I[d].nlink
  BY DEF Makes
<1>1. /\ i \in Ino /\ d \in Ino /\ i # d /\ Sound(I)
      /\ \A j \in Ino : J[j] = IF j = d THEN e ELSE IF j = i THEN a ELSE I[j]
  BY <1>0 DEF TwoSet, Good
<1>2. PICK X : X = [j \in Ino |-> IF j = d THEN e ELSE I[j]]
  OBVIOUS
<1>3. Writes(I, X, d, e, k, x)
  BY <1>0, <1>1, <1>2 DEF Writes, OneSet
<1>4. /\ \A c, j, f : Names(X, c, j, f) => (c = d /\ j = k /\ f = i) \/ Names(I, c, j, f)
      /\ \A f \in Ino : X[f].type = I[f].type /\ (X[f].type = "dir" => Up(X, f) = Up(I, f))
  <2>1. /\ \A c, j, f : Names(X, c, j, f) => (c = d /\ j = k /\ f = x.inum) \/ (Names(I, c, j, f) /\ ~(c = d /\ j = k))
        /\ \A f \in Ino : X[f].type = I[f].type /\ (X[f].type = "dir" => Up(X, f) = Up(I, f))
    BY <1>1, <1>3, WritesNames
  <2> QED
    BY <1>0, <2>1, Zenon
<1>5. J[i] = a /\ \A j \in Ino : j # i => J[j] = X[j]
  BY <1>1, <1>2
<1>6. Sound(X)
  <2>1. I[d].nlink \in Int
    BY <1>1 DEF Sound, CountsLinks
  <2>2. e.nlink \in Int
    BY <1>0, <2>1
  <2> QED
    BY <1>1, <1>3, <2>2, WritesSound
<1>7. Sound(J)
  <2>1. i # ROOTINO /\ ROOTINO \in Ino
    BY <1>0, <1>1, InoIs DEF Sound, Rooted
  <2>2. Rooted(J)
    BY <1>5, <1>6, <2>1 DEF Sound, Rooted, Up
  <2>3. Dots(a, i)
    <3>1. ASSUME ty = "dir"
          PROVE 2 \in DOMAIN a.data /\ a.data[1] = Slot(".", i) /\ a.data[2].name = ".." /\ a.data[2].inum # 0
      <4>1. 2 \in DOMAIN a.data /\ a.data[1] = Slot(".", i) /\ a.data[2] = Slot("..", d)
        BY <1>0, <3>1 DEF FirstDots
      <4>2. a.data[2].name = ".." /\ a.data[2].inum = d
        BY <4>1 DEF Slot
      <4> QED
        BY <1>1, <4>1, <4>2, InoIs
    <3> QED
      BY <1>0, <3>1 DEF Dots
  <2>4. CountsLinks(a)
    BY <1>0 DEF CountsLinks
  <2>5. \A j \in Ino : Dots(X[j], j) /\ CountsLinks(X[j])
    BY <1>6 DEF Sound
  <2>6. ASSUME NEW j \in Ino PROVE Dots(J[j], j) /\ CountsLinks(J[j])
    <3>1. CASE j = i
      BY <1>5, <2>3, <2>4, <3>1
    <3>2. CASE j # i
      BY <1>5, <2>5, <3>2
    <3> QED
      BY <3>1, <3>2
  <2> QED
    BY <2>2, <2>6 DEF Sound
<1>8. I[i].nlink = 0
  BY <1>0, <1>1 DEF Sound, CountsLinks
<1>9. \A c, j : ~Names(I, c, j, i)
  BY <1>1, <1>8, Unnamed
<1>10. ASSUME NEW c, NEW j, NEW f, Names(J, c, j, f) PROVE (c = d /\ j = k /\ f = i) \/ Names(I, c, j, f)
  <2>1. c \in Ino /\ J[c].type = "dir" /\ j \in DOMAIN J[c].data /\ j > 2
    BY <1>10 DEF Names
  <2>2. c # i
    BY <1>0, <1>5, <2>1 DEF FirstDots
  <2>3. J[c] = X[c]
    BY <1>5, <2>1, <2>2
  <2>4. Names(X, c, j, f)
    BY <1>10, <2>3, Zenon DEF Names
  <2> QED
    BY <1>4, <2>4, Zenon
<1>11. ASSUME NEW f \in Ino, f # i, J[f].type = "dir" PROVE I[f].type = "dir" /\ Up(J, f) = Up(I, f)
  BY <1>4, <1>5, <1>11 DEF Up
<1>12. ASSUME J[i].type = "dir" PROVE Up(J, i) = d
  <2>1. a.data[2] = Slot("..", d)
    BY <1>0, <1>5, <1>12 DEF FirstDots
  <2>2. a.data[2].inum = d
    BY <2>1 DEF Slot
  <2> QED
    BY <1>5, <2>2 DEF Up
<1>13. NewEntry(I, J, d, k, i)
  BY <1>1, <1>9, <1>10, <1>11, <1>12, Zenon DEF NewEntry
<1> QED
  BY <1>7, <1>8, <1>13

\* Every count still covers its links.
LEMMA MadeGood ==
  ASSUME NEW I, NEW T, Good(I, T), HasSlots(I), NEW J, NEW U, HasSlots(J), Slack(T, U),
         NEW i, NEW d, NEW a, NEW e, NEW k, NEW x, NEW ty, Makes(I, J, i, d, a, e, k, x, ty)
  PROVE  Good(J, U)
<1>1. NewEntry(I, J, d, k, i) /\ Sound(J) /\ I[i].nlink = 0
  BY MakesEntry
<1>2. Tree(I) /\ Sound(I)
  BY DEF Good
<1>3. Tree(J)
  BY <1>1, <1>2, NewEntryTree
<1>4. /\ i \in Ino /\ d \in Ino /\ i # d /\ a.type = ty /\ a.nlink = 1
      /\ \A j \in Ino : J[j] = IF j = d THEN e ELSE IF j = i THEN a ELSE I[j]
      /\ ty = "dir" => e.nlink = I[d].nlink + 1
      /\ ty # "dir" => e.nlink = I[d].nlink
  BY DEF Makes, TwoSet
<1>5. J[i].type = ty
  BY <1>4
<1>6. ASSUME NEW j, NEW X, j = i => <<"name", d, k>> \in X, j = d /\ ty = "dir" => <<"sub", 0, k>> \in X
      PROVE  Gained(I, T, J, U, j, X)
  BY <1>1, <1>5, <1>6, NewEntryGained
<1>7. ASSUME NEW j \in Ino PROVE Enough(J[j].nlink, LinksOf(J, U, j))
  <2>1. CASE j = i
    <3>1. PICK z : z = <<"name", d, k>>
      OBVIOUS
    <3>2. Gained(I, T, J, U, j, {z}) /\ J[j].nlink = I[j].nlink + 1
      BY <1>1, <1>4, <1>6, <2>1, <3>1
    <3> QED
      BY <3>2, Covered, Zenon
  <2>2. CASE j = d /\ ty = "dir"
    <3>1. PICK z : z = <<"sub", 0, k>>
      OBVIOUS
    <3>2. Gained(I, T, J, U, j, {z}) /\ J[j].nlink = I[j].nlink + 1
      BY <1>4, <1>6, <2>2, <3>1
    <3> QED
      BY <3>2, Covered, Zenon
  <2>3. CASE j # i /\ (j = d => ty # "dir")
    <3>1. Gained(I, T, J, U, j, {}) /\ J[j].nlink = I[j].nlink
      BY <1>4, <1>6, <2>3
    <3> QED
      BY <3>1, Covered, Zenon
  <2> QED
    BY <2>1, <2>2, <2>3
<1> QED
  BY <1>1, <1>3, <1>7 DEF Good

\* The content of a new directory.
LEMMA DotsContent ==
  ASSUME NEW b, b.data = <<>>, NEW i, NEW d, NEW us, us = <<Slot(".", i), Slot("..", d)>>
  PROVE  FirstDots(Content(b, 0, us), i, d)
<1>1. PICK y, z : y = Slot(".", i) /\ z = Slot("..", d)
  OBVIOUS
<1>2. us = <<y, z>>
  BY <1>1
<1>3. Len(us) = 2 /\ us[1] = y /\ us[2] = z /\ Len(b.data) = 0
  BY <1>2
<1>4. PICK s : s = Content(b, 0, us)
  OBVIOUS
<1>5. DOMAIN s = 1..2 /\ s[1] = us[1] /\ s[2] = us[2]
  BY <1>3, <1>4 DEF Content
<1> QED
  BY <1>1, <1>3, <1>4, <1>5 DEF FirstDots

\* The step of create() that makes inode ip in directory dp.
MakesIn(p, t, ip, dp) ==
  /\ At(p, {"create1"}) /\ icache[ip].lock = 0
  /\ icache' = Ilock(Iget(Visit(icache, dp), ip), ip, p)
  /\ \E l : /\ l \in {"open2", "made"}
            /\ th' = [th EXCEPT ![p] = [Goto(t, l, <<dp>>) EXCEPT !.ip = ip, !.dp = 0]]
  /\ \E a, e, k, x, ty : Makes(inode, inode', ip, dp, a, e, k, x, ty)

\* The inode that create() makes and the directory it writes to.
LEMMA CreateMakes ==
  ASSUME IndInv, NamesInv, NEW p \in Proc, CreateNew(p), NEW t, t = th[p], NEW ip, ip = Ialloc, NEW dp, dp = th[p].dp
  PROVE  MakesIn(p, t, ip, dp)
<1>1. PICK ty, n : ty = TypeOf(t.call.op) /\ n = Head(t.path)
  OBVIOUS
<1>2. PICK b, us : b = [NoInode EXCEPT !.type = ty, !.nlink = 1] /\ us = <<Slot(".", ip), Slot("..", dp)>>
  OBVIOUS
<1>3. PICK dots : dots = IF ty = "dir" THEN Writei(used, b, 0, us)
                         ELSE [fits |-> TRUE, ino |-> b, used |-> used]
  OBVIOUS
<1>4. PICK v : v = dots.used
  OBVIOUS
<1>a. PICK ent : ent = Dirlink(v, dp, n, ip)
  OBVIOUS
<1>5. PICK a, m : a = dots.ino /\ m = ent.ino
  OBVIOUS
<1>6. PICK e : e = [m EXCEPT !.nlink = DotDot(@, ty)]
  OBVIOUS
<1>7. PICK l : l = IF t.call.op = "open" THEN "open2" ELSE "made"
  OBVIOUS
<1>8. /\ At(p, {"create1"}) /\ ip # 0 /\ dots.fits /\ ent.fits /\ icache[ip].lock = 0
      /\ inode' = [inode EXCEPT ![ip] = a, ![dp] = e]
      /\ icache' = Ilock(Iget(Visit(icache, dp), ip), ip, p)
      /\ th' = [th EXCEPT ![p] = [Goto(t, l, <<dp>>) EXCEPT !.ip = ip, !.dp = 0]]
  BY <1>1, <1>2, <1>3, <1>4, <1>a, <1>5, <1>6, <1>7, Zenon DEF CreateNew
<1>9. Shape /\ t.pc = "create1" /\ IsThread(t) /\ Locals(t) /\ Kinds(t)
  BY <1>8, AtIs
<1>10. dp \in Ino /\ inode[dp].type = "dir" /\ t.path # <<>>
  BY <1>9, InoIs DEF Locals, HasDp, IsThread, Kinds
<1>11. ip \in Ino /\ inode[ip].type = "free" /\ ip \in 0..NInodes /\ ip # dp
  BY <1>8, <1>10, IallocIs, InoIs
<1>12. ty \in {"dir", "dev", "file"}
  BY <1>1 DEF TypeOf
<1>13. IsInode(b) /\ b.type = ty
  BY <1>2, <1>12, BareIs
<1>14. b.nlink = 1 /\ b.data = <<>>
  BY <1>2 DEF NoInode
<1>15. a.type = ty /\ a.nlink = 1 /\ (ty = "dir" => FirstDots(a.data, ip, dp))
  <2>1. CASE ty = "dir"
    <3>1. PICK o : o = 0
      OBVIOUS
    <3>2. dots = Writei(used, b, o, us)
      BY <1>3, <2>1, <3>1
    <3>3. dots.ino.data = Content(b, o, us) /\ dots.ino.type = b.type /\ dots.ino.nlink = b.nlink
      BY <1>8, <1>13, <3>2, WriteiFits
    <3>4. FirstDots(Content(b, 0, us), ip, dp)
      BY <1>2, <1>14, DotsContent, Zenon
    <3> QED
      BY <1>5, <1>13, <1>14, <3>1, <3>3, <3>4
  <2>2. CASE ty # "dir"
    <3>1. dots.ino = b
      BY <1>3, <2>2
    <3> QED
      BY <1>5, <1>13, <1>14, <2>2, <3>1
  <2> QED
    BY <2>1, <2>2
<1>16. Dots(inode[dp], dp)
  BY <1>10 DEF NamesInv
<1>17. /\ \E k : SlotSet(inode[dp].data, m.data, k, Slot(n, ip))
       /\ m.type = "dir" /\ m.nlink = inode[dp].nlink
  BY <1>a, <1>5, <1>8, <1>9, <1>10, <1>16, DirlinkSets
<1>18. PICK x : x = Slot(n, ip) /\ x.inum = ip
  BY SlotHas, Zenon
<1>19. PICK k : SlotSet(inode[dp].data, m.data, k, x)
  BY <1>17, <1>18
<1>20. e.data = m.data /\ e.type = m.type /\ e.nlink = DotDot(m.nlink, ty)
  <2>1. n \in STRING
    BY <1>1, <1>9, <1>10 DEF IsThread, Paths
  <2>2. IsInode(m)
    BY <1>a, <1>5, <1>9, <1>10, <1>11, <2>1, DirlinkIs, Zenon
  <2>3. DOMAIN m = {"type", "nlink", "data", "blks", "ind"}
    BY <2>2 DEF IsInode, NoInode
  <2> QED
    BY <1>6, <2>3
<1>21. (ty = "dir" => e.nlink = inode[dp].nlink + 1) /\ (ty # "dir" => e.nlink = inode[dp].nlink)
  <2>1. inode[dp].nlink \in Int
    BY <1>10 DEF NamesInv, CountsLinks
  <2> QED
    BY <1>17, <1>20, <2>1 DEF DotDot
<1>22. TwoSet(inode, inode', ip, dp, a, e)
  <2>1. DOMAIN inode = Ino
    BY <1>9, ShapeIs
  <2>2. \A j \in Ino : inode'[j] = IF j = dp THEN e ELSE IF j = ip THEN a ELSE inode[j]
    BY <1>8, <1>10, <1>11, <2>1
  <2> QED
    BY <1>10, <1>11, <2>2 DEF TwoSet
<1>23. Makes(inode, inode', ip, dp, a, e, k, x, ty)
  <2>1. ty # "free"
    BY <1>12
  <2>2. SlotSet(inode[dp].data, e.data, k, x) /\ e.type = "dir"
    BY <1>17, <1>19, <1>20
  <2> QED
    BY <1>10, <1>11, <1>15, <1>18, <1>21, <1>22, <2>1, <2>2 DEF Makes
<1>24. l \in {"open2", "made"}
  BY <1>7
<1> QED
  BY <1>8, <1>23, <1>24, Zenon DEF MakesIn

\* create() of a new name.
LEMMA CreateNewNames ==
  ASSUME IndInv, IndInv', NamesInv, NEW p \in Proc, CreateNew(p)
  PROVE  NamesInv'
<1>0. PICK t, ip, d : t = th[p] /\ ip = Ialloc /\ d = th[p].dp
  OBVIOUS
<1>a. MakesIn(p, t, ip, d)
  BY <1>0, CreateMakes, Zenon
<1>1. /\ At(p, {"create1"}) /\ icache[ip].lock = 0
      /\ icache' = Ilock(Iget(Visit(icache, d), ip), ip, p)
      /\ \E l : /\ l \in {"open2", "made"}
                /\ th' = [th EXCEPT ![p] = [Goto(t, l, <<d>>) EXCEPT !.ip = ip, !.dp = 0]]
      /\ \E a, e, k, x, ty : Makes(inode, inode', ip, d, a, e, k, x, ty)
  BY <1>a, Zenon DEF MakesIn
<1>2. PICK l : /\ l \in {"open2", "made"}
               /\ th' = [th EXCEPT ![p] = [Goto(t, l, <<d>>) EXCEPT !.ip = ip, !.dp = 0]]
  BY <1>1, Zenon
<1>3. PICK a, e, k, x, ty : Makes(inode, inode', ip, d, a, e, k, x, ty)
  BY <1>1, Zenon
<1>b. PICK s : s = <<d>>
  OBVIOUS
<1>4. PICK u : u = [Goto(t, l, s) EXCEPT !.ip = ip, !.dp = 0]
  OBVIOUS
<1>5. th' = [th EXCEPT ![p] = u]
  BY <1>2, <1>b, <1>4
<1>6. Shape /\ icache \in Cache /\ t.pc = "create1" /\ IsThread(t) /\ d \in Ino /\ inode[d].type = "dir"
  BY <1>0, <1>1, AtIs, InoIs DEF Locals, HasDp, IsThread, Kinds
<1>7. ip \in Ino /\ ip # d /\ inode[ip].type = "free" /\ (\A j \in Ino : inode'[j] = IF j = d THEN e ELSE IF j = ip THEN a ELSE inode[j])
      /\ e.type = "dir"
  BY <1>3 DEF Makes, TwoSet
<1>8. Like(u, t, l, t.at, t.path, ip, 0, s)
  BY <1>4, <1>6, GotoIs, Zenon
<1>9. u.pc \in {"open2", "made"} /\ u.ip = ip
  BY <1>2, <1>8 DEF Like
<1>10. ~Linking(u) /\ KnowsIn(inode', u) /\ \A j : ~Unlinks(u, j) /\ ~LinksTo(u, j)
  BY <1>9 DEF Linking, KnowsIn, Unlinks, LinksTo
<1>11. Slack(th, th')
  <2>1. \A q \in Proc : th'[q] = IF q = p THEN u ELSE th[q]
    BY <1>5, <1>6, ShapeIs
  <2> QED
    BY <1>10, <2>1 DEF Slack
<1>12. Shape' /\ HasSlots(inode) /\ HasSlots(inode') /\ Good(inode, th)
  BY <1>6, GoodNow, ShapeSlots DEF IndInv
<1>13. Good(inode', th')
  BY <1>3, <1>11, <1>12, MadeGood, Zenon
<1>14. \A j \in Ino : icache'[j].lock = IF j = ip THEN p ELSE icache[j].lock
  <2>1. PICK c \in Cache : c = Visit(icache, d) /\ \A j \in Ino : c[j].lock = icache[j].lock
    BY <1>6, VisitLock
  <2>2. PICK g \in Cache : g = Iget(c, ip) /\ \A j \in Ino : g[j].lock = c[j].lock
    BY <1>7, IgetLock
  <2>3. \A j \in Ino : Ilock(g, ip, p)[j].lock = IF j = ip THEN p ELSE g[j].lock
    BY IlockLock
  <2>4. icache' = Ilock(g, ip, p)
    BY <1>1, <2>1, <2>2
  <2> QED
    BY <2>1, <2>2, <2>3, <2>4
<1>15. LocksKept(p) /\ \A j \in Ino : Holds(u, j) => icache'[j].lock = p
  BY <1>1, <1>9, <1>14 DEF LocksKept, Holds
<1>16. icache[d].lock = 0
  <2>1. NextLock(p) = d /\ d # 0
    BY <1>0, <1>1, <1>6, InoIs DEF NextLock, At
  <2> QED
    BY <1>1, <2>1 DEF At
<1>17. Careful(p)
  BY <1>1, <1>6, <1>7, <1>16 DEF Careful
<1>18. NextKnows /\ NextLocked
  BY <1>5, <1>10, <1>15, <1>17, OthersKeep
<1> QED
  BY <1>12, <1>13, <1>18, GoodNext

-----------------------------------------------------------------------------
\* The first state

\* The root directory of the image: the dots, one entry per file, empty slots.
LEMMA RootHas ==
  /\ 2 \in DOMAIN RootData /\ RootData[1] = Slot(".", ROOTINO) /\ RootData[2] = Slot("..", ROOTINO)
  /\ \A k \in DOMAIN RootData : k > 2 /\ RootData[k].inum # 0 => RootData[k].inum = k - 1 /\ k - 2 \in DOMAIN Image /\ k \in Nat
<1> DEFINE n    == Len(Image) + 2
           size == ((n \div BSIZE) + 1) * BSIZE
<1>0. Len(Image) \in Nat /\ DOMAIN Image = 1..Len(Image)
  BY FilesAssumption, Zenon
<1>1. n \in Nat /\ n >= 2 /\ n - 2 = Len(Image)
  BY <1>0
<1>2. size \in Nat /\ size > n
  <2> HIDE DEF n
  <2>1. PICK b \in Nat \ {0} : b = BSIZE
    BY Sizes
  <2>a. PICK h \in Nat : h = n
    BY <1>1
  <2>2. PICK q \in Int, r \in 0..b-1 : h = b * q + r /\ q = h \div b /\ r = h % b
    BY <2>1, <2>a, DivMod
  <2>3. size = (q + 1) * b
    BY <2>1, <2>2, <2>a
  <2>4. PICK y \in Int : y = b * q
    BY <2>1, <2>2
  <2>5. (q + 1) * b = y + b
    <3>1. (q + 1) * b = b * (q + 1)
      BY <2>1, <2>2
    <3>2. b * (q + 1) = b * q + b
      BY <2>1, <2>2
    <3> QED
      BY <2>4, <3>1, <3>2
  <2>b. h = b * q + r
    BY <2>2
  <2>6. h = y + r /\ y + b > y + r /\ y + b \in Int
    <3>1. h = y + r
      BY <2>b, <2>4, Zenon
    <3>2. y + b > y + r /\ y + b \in Int
      OBVIOUS
    <3> QED
      BY <3>1, <3>2
  <2>7. size = y + b /\ h \in Nat
    BY <2>3, <2>5
  <2> QED
    BY <2>6, <2>7, <2>a
<1>3. PICK m \in Nat, l \in Nat : m = n /\ l = size
  BY <1>1, <1>2
<1>4. PICK root : root = [k \in 1..m |-> IF k = 1 THEN Slot(".", ROOTINO)
                                         ELSE IF k = 2 THEN Slot("..", ROOTINO)
                                         ELSE Slot(Image[k - 2].name, k - 1)]
  OBVIOUS
<1>5. RootData = [k \in 1..l |-> IF k <= m THEN root[k] ELSE NoSlot]
  BY <1>3, <1>4 DEF RootData
<1> HIDE DEF n, size
<1>6. m >= 2 /\ l > m /\ m - 2 = Len(Image)
  BY <1>1, <1>2, <1>3
<1>7. DOMAIN RootData = 1..l /\ \A k \in 1..l : RootData[k] = IF k <= m THEN root[k] ELSE NoSlot
  BY <1>5
<1>8. 1 \in 1..m /\ 2 \in 1..m /\ 1 \in 1..l /\ 2 \in 1..l
  BY <1>6
<1>9. root[1] = Slot(".", ROOTINO) /\ root[2] = Slot("..", ROOTINO)
  BY <1>4, <1>8
<1>10. RootData[1] = root[1] /\ RootData[2] = root[2]
  BY <1>6, <1>7, <1>8
<1>11. ASSUME NEW k \in DOMAIN RootData, k > 2, RootData[k].inum # 0
       PROVE  RootData[k].inum = k - 1 /\ k - 2 \in DOMAIN Image /\ k \in Nat
  <2>1. k \in 1..l /\ k \in Nat /\ k # 1 /\ k # 2
    BY <1>7, <1>11
  <2>2. k <= m
    <3>1. NoSlot.inum = 0
      BY SlotHas, Zenon DEF NoSlot
    <3> QED
      BY <1>7, <1>11, <2>1, <3>1
  <2>3. RootData[k] = root[k] /\ k \in 1..m
    BY <1>7, <2>1, <2>2
  <2>4. root[k] = Slot(Image[k - 2].name, k - 1)
    BY <1>4, <2>1, <2>3
  <2>5. root[k].inum = k - 1
    BY <2>4 DEF Slot
  <2>6. k - 2 \in DOMAIN Image
    BY <1>0, <1>6, <1>11, <2>1, <2>2
  <2> QED
    BY <2>1, <2>3, <2>5, <2>6
<1> QED
  BY <1>7, <1>8, <1>9, <1>10, <1>11

\* The types and counts that mkfs writes.
LEMMA MkfsHas ==
  ASSUME Mkfs
  PROVE  /\ inode[ROOTINO].type = "dir" /\ inode[ROOTINO].nlink = 1 /\ inode[ROOTINO].data = RootData
         /\ \A i \in Ino : i # ROOTINO /\ i - 1 \in DOMAIN Image => inode[i].type = "file" /\ inode[i].nlink = 1
         /\ \A i \in Ino : i # ROOTINO /\ i - 1 \notin DOMAIN Image => inode[i].type = "free" /\ inode[i].nlink = 0
<1> DEFINE n    == Len(Image) + 2
           more == IF Blocks(n) > NDIRECT THEN 1 ELSE 0
           meta == Blocks(n) + more
           ino  == [type |-> "file", nlink |-> 1, data |-> <<>>, blks |-> <<>>, ind |-> 0]
           x    == [ino EXCEPT !.type = "dir", !.blks = Iappend(n), !.ind = IF more = 1 THEN NDIRECT + 1 ELSE 0,
                               !.data = RootData]
           y(i) == [ino EXCEPT !.data = Image[i - 1].data, !.blks = <<meta + i - 1>>]
<1>1. inode = [i \in Ino |-> IF i = ROOTINO THEN x ELSE IF i - 1 \in DOMAIN Image THEN y(i) ELSE NoInode]
  BY Zenon DEF Mkfs, RootData
<1> HIDE DEF n, more, meta
<1>2. x.type = "dir" /\ x.nlink = 1 /\ x.data = RootData
  OBVIOUS
<1>3. \A i : y(i).type = "file" /\ y(i).nlink = 1
  OBVIOUS
<1>4. NoInode.type = "free" /\ NoInode.nlink = 0
  BY DEF NoInode
<1> HIDE DEF x, y
<1>5. inode[ROOTINO] = x
  BY <1>1, InoIs
<1>6. \A i \in Ino : i # ROOTINO /\ i - 1 \in DOMAIN Image => inode[i] = y(i)
  BY <1>1, Zenon
<1>7. \A i \in Ino : i # ROOTINO /\ i - 1 \notin DOMAIN Image => inode[i] = NoInode
  BY <1>1, Zenon
<1> QED
  BY <1>2, <1>3, <1>4, <1>5, <1>6, <1>7

\* The names of the image.
LEMMA FirstNames ==
  ASSUME Mkfs, NEW d, NEW k, NEW i, Names(inode, d, k, i)
  PROVE  d = ROOTINO /\ k = i + 1 /\ i # ROOTINO /\ inode[i].type = "file" /\ inode[i].nlink = 1
<1>1. d \in Ino /\ i \in Ino /\ inode[d].type = "dir" /\ k \in DOMAIN inode[d].data /\ k > 2 /\ inode[d].data[k].inum = i
  BY DEF Names
<1>2. d = ROOTINO
  BY <1>1, MkfsHas
<1>3. k \in DOMAIN RootData /\ RootData[k].inum = i /\ i # 0
  BY <1>1, <1>2, MkfsHas, InoIs
<1>4. i = k - 1 /\ k - 2 \in DOMAIN Image /\ k \in Nat
  BY <1>1, <1>3, RootHas
<1>5. k = i + 1 /\ i - 1 = k - 2 /\ i # ROOTINO
  BY <1>1, <1>4 DEF ROOTINO
<1> QED
  BY <1>1, <1>2, <1>4, <1>5, MkfsHas

\* The links of the image: one for each inode that is not free.
LEMMA FirstLinks ==
  ASSUME Init, Shape, NEW i \in Ino
  PROVE  Enough(inode[i].nlink, LinksOf(inode, th, i))
<1>1. Mkfs /\ \A q \in Proc : th[q].pc = "user"
  BY DEF Init, NewThread
<1>2. PICK L : L = LinksOf(inode, th, i)
  OBVIOUS
<1>3. IsLinks(inode, th, i, L)
  BY <1>2, ShapeSlots, LinksMembers
<1>4. \A q \in Proc : ~Unlinks(th[q], i) /\ ~LinksTo(th[q], i)
  BY <1>1 DEF Unlinks, LinksTo, Linking
<1>5. \A k : ~Sub(inode, i, k)
  <2> SUFFICES ASSUME NEW k, NEW e \in Ino, Names(inode, i, k, e), inode[e].type = "dir" PROVE FALSE
    BY DEF Sub
  <2> QED
    BY <1>1, FirstNames
<1>6. ASSUME NEW x \in L
      PROVE  (i = ROOTINO /\ x = <<"root", 0, 0>>) \/ (i # ROOTINO /\ inode[i].nlink = 1 /\ x = <<"name", ROOTINO, i + 1>>)
  <2>1. \/ x = <<"root", 0, 0>> \/ (\E d, k : x = <<"name", d, k>>) \/ (\E k : x = <<"sub", 0, k>>)
        \/ (\E q : x = <<"unlink", q, 0>>) \/ (\E q : x = <<"link", q, 0>>)
    BY <1>3, Zenon DEF IsLinks
  <2>2. CASE x = <<"root", 0, 0>>
    <3>1. i = ROOTINO
      BY <1>3, <1>6, <2>2, Zenon DEF IsLinks
    <3> QED
      BY <2>2, <3>1, Zenon
  <2>3. ASSUME NEW d, NEW k, x = <<"name", d, k>> PROVE i # ROOTINO /\ inode[i].nlink = 1 /\ x = <<"name", ROOTINO, i + 1>>
    <3>1. Names(inode, d, k, i)
      BY <1>3, <1>6, <2>3, Zenon DEF IsLinks
    <3>2. d = ROOTINO /\ k = i + 1 /\ i # ROOTINO /\ inode[i].nlink = 1
      BY <1>1, <3>1, FirstNames
    <3> QED
      BY <2>3, <3>2, Zenon
  <2>4. ASSUME NEW k, x = <<"sub", 0, k>> PROVE FALSE
    BY <1>3, <1>5, <1>6, <2>4, Zenon DEF IsLinks
  <2>5. ASSUME NEW q, x = <<"unlink", q, 0>> PROVE FALSE
    BY <1>3, <1>4, <1>6, <2>5, Zenon DEF IsLinks
  <2>6. ASSUME NEW q, x = <<"link", q, 0>> PROVE FALSE
    BY <1>3, <1>4, <1>6, <2>6, Zenon DEF IsLinks
  <2> QED
    BY <2>1, <2>2, <2>3, <2>4, <2>5, <2>6, Zenon
<1>7. ASSUME NEW y, L \subseteq {y}, inode[i].nlink = 1 PROVE Enough(inode[i].nlink, L)
  <2>1. IsFiniteSet({y}) /\ Cardinality({y}) = 1
    BY FS_Singleton
  <2>2. IsFiniteSet(L) /\ Cardinality(L) <= Cardinality({y})
    BY <1>7, <2>1, FS_Subset
  <2> QED
    BY <1>7, <2>1, <2>2 DEF Enough
<1>8. CASE i = ROOTINO
  <2>1. PICK y : y = <<"root", 0, 0>>
    OBVIOUS
  <2>2. L \subseteq {y}
    BY <1>6, <1>8, <2>1, Zenon
  <2>3. inode[i].nlink = 1
    BY <1>1, <1>8, MkfsHas
  <2> QED
    BY <1>2, <1>7, <2>2, <2>3
<1>9. CASE i # ROOTINO /\ inode[i].nlink = 1
  <2>1. PICK y : y = <<"name", ROOTINO, i + 1>>
    OBVIOUS
  <2>2. L \subseteq {y}
    BY <1>6, <1>9, <2>1, Zenon
  <2> QED
    BY <1>2, <1>7, <1>9, <2>2
<1>10. CASE i # ROOTINO /\ inode[i].nlink # 1
  <2>1. L = {}
    BY <1>6, <1>10, Zenon
  <2>2. inode[i].nlink = 0
    BY <1>1, <1>10, MkfsHas
  <2> QED
    BY <1>2, <2>1, <2>2, FS_EmptySet DEF Enough
<1> QED
  BY <1>8, <1>9, <1>10

\* The first state.
LEMMA InitNames ==
  ASSUME Init
  PROVE  NamesInv
<1>1. Mkfs /\ Shape
  BY InitIs DEF Init, IndInv
<1>2. \A q \in Proc : th[q].pc = "user"
  BY DEF Init, NewThread
<1>3. ASSUME NEW i \in Ino PROVE inode[i].nlink >= Cardinality(Links(i)) /\ IsFiniteSet(Links(i))
  <2>1. Enough(inode[i].nlink, LinksOf(inode, th, i))
    BY <1>1, FirstLinks
  <2>2. Enough(inode[i].nlink, Links(i))
    BY <2>1, LinksOfIs, Zenon
  <2> QED
    BY <2>2 DEF Enough
<1>4. inode[ROOTINO].type = "dir" /\ inode[ROOTINO].data = RootData /\ inode[ROOTINO].nlink = 1
  BY <1>1, MkfsHas
<1>5. inode[ROOTINO].data[2].inum = ROOTINO /\ inode[ROOTINO].data[2].name = ".."
  BY <1>4, RootHas DEF Slot
<1>6. ASSUME NEW i \in Ino PROVE Dots(inode[i], i) /\ CountsLinks(inode[i])
  <2>1. CASE i = ROOTINO
    <3>1. ROOTINO # 0
      BY DEF ROOTINO
    <3> QED
      BY <1>4, <1>5, <2>1, <3>1, RootHas DEF Dots, CountsLinks
  <2>2. CASE i # ROOTINO
    <3>1. inode[i].type # "dir" /\ CountsLinks(inode[i])
      BY <1>1, <2>2, MkfsHas DEF CountsLinks
    <3> QED
      BY <3>1 DEF Dots
  <2> QED
    BY <2>1, <2>2
<1>7. OneParent
  <2>1. Tree(inode)
    <3> SUFFICES ASSUME NEW d, NEW k, NEW e, Names(inode, d, k, e), inode[e].type = "dir" PROVE FALSE
      BY DEF Tree
    <3> QED
      BY <1>1, FirstNames
  <2>2. \A d : Named(d) = NamedIn(inode, d)
    BY DEF Named, Entries, NamedIn
  <2>3. TreeIn(inode)
    BY <1>1, <2>1, ShapeSlots, TreeIs
  <2> QED
    BY <2>2, <2>3 DEF OneParent, TreeIn
<1>8. \A p \in Proc : Knows(th[p]) /\ \A i \in Ino : ~Holds(th[p], i)
  BY <1>2 DEF Knows, Holds, Linking
<1>9. NamesCounted
  BY <1>3 DEF NamesCounted
<1> QED
  BY <1>3, <1>4, <1>5, <1>6, <1>7, <1>8, <1>9 DEF NamesInv

-----------------------------------------------------------------------------
\* The theorems, for any programs

\* Every step keeps the invariant.
LEMMA NextNames ==
  ASSUME IndInv, NamesInv, [FilesNext]_vars
  PROVE  NamesInv'
<1>1. IndInv'
  BY NextKeeps
<1>2. ASSUME NEW p \in Proc, Kernel(p) PROVE NamesInv'
  <2>1. CASE \/ Drop(p) \/ Namex(p) \/ Open(p) \/ Read(p) \/ Fstat(p) \/ Made(p) \/ UnlinkBad(p)
             \/ ChdirSet(p) \/ Exec(p) \/ CreateExisting(p) \/ ChdirCheck(p) \/ Exit(p) \/ LinkExists(p)
    BY <1>1, <2>1, QuietNames, Zenon
  <2>2. CASE Iput(p) \/ Write(p)
    BY <1>1, <2>2, IputNames, WriteNames, Zenon
  <2>3. CASE CreateKeep(p) \/ CreateNew(p)
    BY <1>1, <2>3, CreateKeepNames, CreateNewNames, Zenon
  <2>4. CASE UnlinkFind(p) \/ UnlinkErase(p)
    BY <1>1, <2>4, UnlinkFindNames, UnlinkEraseNames, Zenon
  <2>5. CASE UnlinkCount(p) \/ LinkBad(p)
    BY <1>1, <2>5, UncountNames, Zenon
  <2>6. CASE LinkCount(p) \/ LinkEntry(p)
    BY <1>1, <2>6, LinkCountNames, LinkEntryNames, Zenon
  <2> QED
    BY <1>2, <2>1, <2>2, <2>3, <2>4, <2>5, <2>6, Zenon DEF Kernel
<1>3. ASSUME NEW p \in Proc, NEW c \in SysCalls, Call(p, c) PROVE NamesInv'
  BY <1>1, <1>3, QuietNames, Zenon
<1>4. CASE FilesNext
  BY <1>2, <1>3, <1>4, Zenon DEF FilesNext
<1>5. CASE UNCHANGED vars
  <2>1. inode' = inode /\ icache' = icache /\ th' = th
    BY <1>5 DEF vars
  <2>2. NextTame /\ Frees(1) /\ 1 \in Proc
    BY <2>1, Sizes DEF NextTame, Tame, Frees, Proc
  <2> QED
    BY <1>1, <2>1, <2>2, QuietStep
<1> QED
  BY <1>4, <1>5

\* The invariant holds in every reachable state.
THEOREM NamesInvariance == FilesSpec => []NamesInv
<1>1. Init => NamesInv
  BY InitNames
<1>2. IndInv /\ NamesInv /\ [FilesNext]_vars => NamesInv'
  BY NextNames
<1> QED
  BY <1>1, <1>2, Invariance, PTL DEF FilesSpec

\* The link count of an inode covers the names that directories have for it,
\* the ".." of its subdirectories and the links in the hands of calls: whatever
\* programs run, iput() frees no inode that has a name (fs.c, sysfile.c).
THEOREM NamesCountedHolds == FilesSpec => []NamesCounted
<1>1. NamesInv => NamesCounted
  BY DEF NamesInv
<1> QED
  BY <1>1, NamesInvariance, PTL

\* The directories are a tree: create() is the only call that names one, and
\* link() refuses to (sysfile.c).
THEOREM OneParentHolds == FilesSpec => []OneParent
<1>1. NamesInv => OneParent
  BY DEF NamesInv
<1> QED
  BY <1>1, NamesInvariance, PTL

\* An inode that a directory names has a link.
LEMMA NamedCounted ==
  ASSUME Shape, NamesInv, NEW d, NEW k, NEW i, Names(inode, d, k, i)
  PROVE  inode[i].nlink >= 1 /\ inode[i].type # "free"
<1>1. i \in Ino
  BY DEF Names
<1>2. HasSlots(inode) /\ Good(inode, th)
  BY GoodNow
<1>3. inode[i].nlink # 0
  BY <1>1, <1>2, Unnamed
<1>4. Enough(inode[i].nlink, LinksOf(inode, th, i)) /\ CountsLinks(inode[i])
  BY <1>1, <1>2 DEF Good, Sound
<1>5. inode[i].nlink \in Int /\ inode[i].nlink >= 0
  BY <1>4, FS_CardinalityType DEF Enough
<1> QED
  BY <1>3, <1>4, <1>5 DEF CountsLinks

\* unlink() never meets an inode without links: panic("unlink: nlink < 1") is
\* not reached, whoever unlinks the same name in between (sysfile.c).
THEOREM UnlinkHasLink == FilesSpec => [](\A p \in Proc : th[p].pc = "unlink2" => inode[th[p].ip].nlink >= 1)
<1>1. ASSUME IndInv, NamesInv, NEW p \in Proc, th[p].pc = "unlink2" PROVE inode[th[p].ip].nlink >= 1
  <2>1. PICK d, k : d = th[p].dp /\ k = Find(th[p].dp, Head(th[p].path))
    OBVIOUS
  <2>2. Names(inode, d, k, th[p].ip)
    BY <1>1, <2>1, FoundEntry
  <2> QED
    BY <1>1, <2>2, NamedCounted DEF IndInv
<1>2. IndInv /\ NamesInv => \A p \in Proc : th[p].pc = "unlink2" => inode[th[p].ip].nlink >= 1
  BY <1>1
<1> QED
  BY <1>2, Invariance, NamesInvariance, PTL

-----------------------------------------------------------------------------
\* The kernel's checks, while no call strays

\* The inodes that a thread t and the current directory c of its process point
\* to are in use.
Live(I, i) == i # 0 => I[i].type # "free"
LiveIn(I, t, c) == Live(I, t.ip) /\ Live(I, t.at) /\ (t.pc # "chdir2" => Live(I, c))
NextLive == \A q \in Proc : LiveIn(inode', th'[q], proc'[q].cwd)

\* LiveInv, before and after a step.
LEMMA LiveIs ==
  /\ LiveInv <=> \A q \in Proc : LiveIn(inode, th[q], proc[q].cwd)
  /\ NextLive => LiveInv'
<1>1. LiveInv <=> \A q \in Proc : LiveIn(inode, th[q], proc[q].cwd)
  BY DEF LiveInv, InUse, LiveIn, Live
<1>2. NextLive => LiveInv'
  BY DEF NextLive, LiveInv, InUse, LiveIn, Live
<1> QED
  BY <1>1, <1>2

\* No inode that is in use is freed, and no process changes its directory.
Lasting == \A i \in Ino : inode[i].type # "free" => inode'[i].type # "free"
SameCwds == \A q \in Proc : proc'[q].cwd = proc[q].cwd

\* What lives stays alive.
LEMMA LiveLasts ==
  ASSUME Lasting, NEW i \in 0..NInodes, Live(inode, i)
  PROVE  Live(inode', i)
  BY InoIs DEF Lasting, Live

\* A thread that another step leaves alone.
LEMMA LiveOther ==
  ASSUME Shape, LiveInv, Lasting, NEW q \in Proc, NEW u, u.pc = th[q].pc, u.ip = th[q].ip, u.at = th[q].at
  PROVE  LiveIn(inode', u, proc[q].cwd)
<1>1. LiveIn(inode, th[q], proc[q].cwd)
  BY LiveIs, Zenon
<1>2. th[q].ip \in 0..NInodes /\ th[q].at \in 0..NInodes /\ proc[q].cwd \in 0..NInodes
  BY ShapeIs DEF IsThread, IsProc
<1>3. Live(inode', th[q].ip) /\ Live(inode', th[q].at)
  BY <1>1, <1>2, LiveLasts, Zenon DEF LiveIn
<1>4. th[q].pc # "chdir2" => Live(inode', proc[q].cwd)
  BY <1>1, <1>2, LiveLasts, Zenon DEF LiveIn
<1> QED
  BY <1>3, <1>4 DEF LiveIn

\* One thread moves.
LEMMA LiveMoves ==
  ASSUME Shape, LiveInv, Lasting, NEW p \in Proc, NEW u, th' = [th EXCEPT ![p] = u],
         \A q \in Proc : q # p => proc'[q].cwd = proc[q].cwd,
         LiveIn(inode', u, proc'[p].cwd)
  PROVE  LiveInv'
<1>1. DOMAIN th = Proc
  BY ShapeIs
<1>2. ASSUME NEW q \in Proc PROVE LiveIn(inode', th'[q], proc'[q].cwd)
  <2>1. CASE q = p
    BY <1>1, <2>1
  <2>2. CASE q # p
    <3>1. th'[q] = th[q] /\ proc'[q].cwd = proc[q].cwd
      BY <1>1, <2>2
    <3>2. LiveIn(inode', th[q], proc[q].cwd)
      BY LiveOther
    <3> QED
      BY <3>1, <3>2
  <2> QED
    BY <2>1, <2>2
<1>3. NextLive
  BY <1>2 DEF NextLive
<1> QED
  BY <1>3, LiveIs

\* A thread moves on, in the directory it was in.
LEMMA LiveGoes ==
  ASSUME Shape, LiveInv, Lasting, SameCwds, NEW p \in Proc, NEW u, th' = [th EXCEPT ![p] = u],
         th[p].pc # "chdir2" \/ u.pc = "chdir2",
         Live(inode', u.ip), Live(inode', u.at)
  PROVE  LiveInv'
<1>1. LiveIn(inode', th[p], proc[p].cwd)
  BY LiveOther
<1>2. proc'[p].cwd = proc[p].cwd
  BY DEF SameCwds
<1>3. LiveIn(inode', u, proc'[p].cwd)
  BY <1>1, <1>2 DEF LiveIn
<1> QED
  BY <1>3, LiveMoves, Zenon DEF SameCwds

\* A thread that points to nothing.
LEMMA LiveRests ==
  ASSUME Shape, LiveInv, Lasting, SameCwds, NEW p \in Proc, NEW u, th' = [th EXCEPT ![p] = u],
         th[p].pc # "chdir2", u.ip = 0, u.at = 0
  PROVE  LiveInv'
<1>1. Live(inode', u.ip) /\ Live(inode', u.at)
  BY DEF Live
<1> QED
  BY <1>1, LiveGoes

\* A call returns.
LEMMA LiveReturns ==
  ASSUME Shape, LiveInv, Lasting, SameCwds, NEW p \in Proc, NEW t, NEW v, NEW s, th' = [th EXCEPT ![p] = Return(t, v, s)],
         th[p].pc # "chdir2"
  PROVE  LiveInv'
<1>1. PICK u : u = Return(t, v, s)
  OBVIOUS
<1>2. u.ip = 0 /\ u.at = 0
  BY <1>1 DEF Return, NewThread
<1>3. th' = [th EXCEPT ![p] = u]
  BY <1>1
<1> QED
  BY <1>2, <1>3, LiveRests

\* Steps that change no inode, or the count or the content of one.
LEMMA LastingIs ==
  ASSUME Shape
  PROVE  /\ inode' = inode => Lasting
         /\ SameKinds => Lasting
         /\ proc' = proc => SameCwds
  BY DEF Lasting, SameKinds, SameCwds

\* What a call finds in a directory is in use, unless it is the ".." of a
\* directory that is cut off.
LEMMA LookupLive ==
  ASSUME Shape, NamesInv, NEW d \in Ino, inode[d].type = "dir", NEW n, n = ".." => ~Cut(d),
         NEW i, i = Dirlookup(d, n), i # 0
  PROVE  inode[i].type # "free"
<1>1. PICK k : k = Find(d, n)
  OBVIOUS
<1>2. k # 0
  BY <1>1 DEF Dirlookup
<1>3. k \in DOMAIN inode[d].data /\ inode[d].data[k].name = n /\ inode[d].data[k].inum = i
  BY <1>1, <1>2, FindHits
<1>4. inode[d].data \in Seq(DirSlots) /\ i \in Ino
  BY DirlookupIs, InoIs
<1>5. k \in Nat /\ k >= 1
  BY <1>3, <1>4
<1>6. Dots(inode[d], d) /\ OneParent
  BY DEF NamesInv
<1>7. inode[d].data[1] = Slot(".", d) /\ inode[d].data[2].name = ".."
  BY <1>6 DEF Dots
<1>8. CASE k = 1
  <2>1. i = d
    BY <1>3, <1>7, <1>8, SlotHas
  <2> QED
    BY <2>1
<1>9. CASE k = 2
  <2>1. n = ".." /\ i = inode[d].data[2].inum
    BY <1>3, <1>7, <1>9
  <2>2. CASE \E c \in Ino : \E j \in Named(c) : inode[c].data[j].inum = d
    <3>1. PICK c \in Ino : \E j \in Named(c) : inode[c].data[j].inum = d
      BY <2>2
    <3>2. PICK j \in Named(c) : inode[c].data[j].inum = d
      BY <3>1
    <3>3. inode[d].data[2].inum = c
      BY <1>6, <3>2 DEF OneParent
    <3>4. inode[c].type = "dir"
      BY <3>2 DEF Named
    <3> QED
      BY <2>1, <3>3, <3>4
  <2>3. CASE ~\E c \in Ino : \E j \in Named(c) : inode[c].data[j].inum = d
    BY <2>1, <2>3 DEF Cut
  <2> QED
    BY <2>2, <2>3
<1>10. CASE k > 2
  <2>1. Names(inode, d, k, i)
    BY <1>3, <1>4, <1>10 DEF Names
  <2> QED
    BY <2>1, NamedCounted
<1> QED
  BY <1>5, <1>8, <1>9, <1>10

\* iput() frees an inode to which nothing points.
LEMMA IputLive ==
  ASSUME IndInv, LiveInv, NEW p \in Proc, Iput(p)
  PROVE  LiveInv'
<1>1. PICK h, u : h = Head(th[p].puts) /\ u = [th[p] EXCEPT !.dropping = TRUE]
  OBVIOUS
<1>2. /\ th[p].puts # <<>> /\ proc' = proc /\ th' = [th EXCEPT ![p] = u]
      /\ inode' = IF IsLast(h) THEN [inode EXCEPT ![h] = NoInode] ELSE inode
  BY <1>1, Zenon DEF Iput
<1>3. Shape /\ DOMAIN th = Proc /\ DOMAIN inode = Ino
  BY ShapeIs DEF IndInv
<1>4. DOMAIN th[p] = {"pc", "call", "at", "path", "ip", "dp", "f", "done", "puts", "dropping", "ret", "buf"}
  BY <1>3, ShapeIs, ThreadFields DEF IsThread
<1>5. u.pc = th[p].pc /\ u.ip = th[p].ip /\ u.at = th[p].at
  BY <1>1, <1>4
<1>6. ASSUME NEW q \in Proc PROVE LiveIn(inode', th'[q], proc'[q].cwd)
  <2>1. th'[q].pc = th[q].pc /\ th'[q].ip = th[q].ip /\ th'[q].at = th[q].at /\ proc'[q].cwd = proc[q].cwd
    BY <1>2, <1>3, <1>5
  <2>2. LiveIn(inode, th[q], proc[q].cwd)
    BY LiveIs, Zenon
  <2>3. th[q].ip \in 0..NInodes /\ th[q].at \in 0..NInodes /\ proc[q].cwd \in 0..NInodes
    BY <1>3, ShapeIs DEF IsThread, IsProc
  <2>4. CASE IsLast(h)
    <3>1. icache[h].ref = 1
      BY <2>4 DEF IsLast
    <3>2. h \in Ino /\ th[q].ip # h /\ th[q].at # h /\ (proc[q].cwd # h \/ th[q].pc = "chdir2")
      BY <1>1, <1>2, <3>1, Alone
    <3>3. \A i \in Ino : i # h => inode'[i] = inode[i]
      BY <1>2, <1>3, <2>4
    <3>4. ASSUME NEW i \in 0..NInodes, i # h, Live(inode, i) PROVE Live(inode', i)
      BY <3>3, <3>4, InoIs DEF Live
    <3> QED
      BY <2>1, <2>2, <2>3, <3>2, <3>4 DEF LiveIn
  <2>5. CASE ~IsLast(h)
    BY <1>2, <2>1, <2>2, <2>5 DEF LiveIn
  <2> QED
    BY <2>4, <2>5
<1>7. NextLive
  BY <1>6 DEF NextLive
<1> QED
  BY <1>7, LiveIs

\* The second half of iput().
LEMMA DropLive ==
  ASSUME IndInv, LiveInv, NEW p \in Proc, Drop(p)
  PROVE  LiveInv'
<1>1. PICK u : u = [th[p] EXCEPT !.puts = Tail(@), !.dropping = FALSE]
  OBVIOUS
<1>2. th' = [th EXCEPT ![p] = u] /\ inode' = inode /\ proc' = proc
  BY <1>1 DEF Drop
<1>3. Shape /\ Lasting /\ SameCwds
  BY <1>2, LastingIs DEF IndInv
<1>4. DOMAIN th[p] = {"pc", "call", "at", "path", "ip", "dp", "f", "done", "puts", "dropping", "ret", "buf"}
  BY <1>3, ShapeIs, ThreadFields DEF IsThread
<1>5. u.pc = th[p].pc /\ u.ip = th[p].ip /\ u.at = th[p].at
  BY <1>1, <1>4
<1>6. LiveIn(inode', u, proc[p].cwd) /\ proc'[p].cwd = proc[p].cwd
  BY <1>2, <1>3, <1>5, LiveOther
<1>7. LiveIn(inode', u, proc'[p].cwd)
  BY <1>6
<1> QED
  BY <1>2, <1>3, <1>7, LiveMoves, Zenon DEF SameCwds

\* A step that changes only the descriptors of a process.
LEMMA OfileCwds ==
  ASSUME Shape, NEW p \in Proc, NEW x, proc' = [proc EXCEPT ![p].ofile = x]
  PROVE  SameCwds
<1>1. DOMAIN proc = Proc /\ DOMAIN proc[p] = {"state", "parent", "cwd", "ofile"}
  BY ShapeIs DEF IsProc, NoProc
<1>2. PICK s : s = [proc[p] EXCEPT !.ofile = x]
  OBVIOUS
<1>3. s.cwd = proc[p].cwd
  BY <1>1, <1>2
<1>4. proc' = [proc EXCEPT ![p] = s]
  BY <1>2
<1> QED
  BY <1>1, <1>3, <1>4 DEF SameCwds

\* The calls that return.
LEMMA ReturningLive ==
  ASSUME IndInv, LiveInv, NEW p \in Proc,
         Open(p) \/ Read(p) \/ Fstat(p) \/ Made(p) \/ UnlinkCount(p) \/ UnlinkBad(p) \/ LinkBad(p) \/ Exec(p)
  PROVE  LiveInv'
<1>1. Shape
  BY DEF IndInv
<1>2. ASSUME NEW L, At(p, L), "chdir2" \notin L PROVE th[p].pc # "chdir2"
  BY <1>2 DEF At
<1>3. CASE Open(p)
  <2>1. PICK f, fd : f = FreeFile(ftable) /\ fd = FreeFd(proc[p].ofile)
    OBVIOUS
  <2>2. /\ At(p, {"open1", "open2"}) /\ inode' = inode
        /\ \/ th' = [th EXCEPT ![p] = Return(th[p], -1, <<th[p].ip>>)] /\ proc' = proc
           \/ th' = [th EXCEPT ![p] = Return(th[p], fd, <<>>)] /\ proc' = [proc EXCEPT ![p].ofile[fd] = f]
    BY <1>3, <2>1, Zenon DEF Open, disk
  <2>3. th[p].pc # "chdir2" /\ Lasting
    BY <1>1, <2>2, LastingIs DEF At
  <2>4. proc' = [proc EXCEPT ![p].ofile[fd] = f] => SameCwds
    <3>1. PICK x : x = [proc[p].ofile EXCEPT ![fd] = f]
      OBVIOUS
    <3>2. proc' = [proc EXCEPT ![p].ofile[fd] = f] => proc' = [proc EXCEPT ![p].ofile = x]
      BY <3>1
    <3> QED
      BY <1>1, <3>2, OfileCwds, Zenon
  <2> QED
    BY <1>1, <2>2, <2>3, <2>4, LastingIs, LiveReturns, Zenon
<1>4. CASE Read(p)
  <2>1. PICK t, v : /\ \/ th' = [th EXCEPT ![p] = Return(th[p], -1, <<>>)]
                       \/ th' = [th EXCEPT ![p] = Return(t, v, <<>>)]
                    /\ inode' = inode /\ proc' = proc /\ At(p, {"read"})
    BY <1>4, Zenon DEF Read, disk
  <2>2. th[p].pc # "chdir2"
    BY <2>1 DEF At
  <2> QED
    BY <1>1, <2>1, <2>2, LastingIs, LiveReturns, Zenon
<1>5. CASE Fstat(p)
  <2>1. PICK t, v : th' = [th EXCEPT ![p] = Return(t, v, <<>>)] /\ inode' = inode /\ proc' = proc /\ At(p, {"fstat"})
    BY <1>5 DEF Fstat, disk
  <2>2. th[p].pc # "chdir2"
    BY <2>1 DEF At
  <2> QED
    BY <1>1, <2>1, <2>2, LastingIs, LiveReturns, Zenon
<1>6. CASE Made(p) \/ UnlinkBad(p) \/ Exec(p)
  <2>1. PICK v, s : /\ th' = [th EXCEPT ![p] = Return(th[p], v, s)] /\ inode' = inode /\ proc' = proc
                    /\ th[p].pc \in {"made", "unlinkbad", "exec1"}
    BY <1>6 DEF Made, UnlinkBad, Exec, At, disk
  <2>2. th[p].pc # "chdir2"
    BY <2>1
  <2> QED
    BY <1>1, <2>1, <2>2, LastingIs, LiveReturns, Zenon
<1>7. CASE UnlinkCount(p) \/ LinkBad(p)
  <2>1. PICK x, v, s : /\ th' = [th EXCEPT ![p] = Return(th[p], v, s)] /\ inode' = [inode EXCEPT ![th[p].ip].nlink = x]
                       /\ proc' = proc /\ th[p].pc \in {"unlink3", "linkbad"}
    BY <1>7 DEF UnlinkCount, LinkBad, At
  <2>2. th[p].pc # "chdir2"
    BY <2>1
  <2>3. SameKinds
    BY <1>1, <2>1, Counted
  <2> QED
    BY <1>1, <2>1, <2>2, <2>3, LastingIs, LiveReturns, Zenon
<1> QED
  BY <1>3, <1>4, <1>5, <1>6, <1>7, Zenon

\* chdir(): the new directory is in use, and the old one is not looked at while
\* it is put.
LEMMA ChdirLive ==
  ASSUME IndInv, LiveInv, NEW p \in Proc, ChdirCheck(p) \/ ChdirSet(p)
  PROVE  LiveInv'
<1>1. Shape /\ LiveIn(inode, th[p], proc[p].cwd) /\ IsThread(th[p])
  BY ShapeIs, LiveIs DEF IndInv
<1>2. CASE ChdirCheck(p)
  <2>1. PICK l, s, r : l = "chdir2" /\ s = <<proc[p].cwd>> /\ r = <<th[p].ip>>
    OBVIOUS
  <2>2. PICK u, v : u = Goto(th[p], l, s) /\ v = Return(th[p], -1, r)
    OBVIOUS
  <2>3. /\ th' = [th EXCEPT ![p] = IF inode[th[p].ip].type # "dir" THEN v ELSE u]
        /\ inode' = inode /\ proc' = proc /\ At(p, {"chdir1"})
    BY <1>2, <2>1, <2>2, Zenon DEF ChdirCheck, disk
  <2>4. th' = [th EXCEPT ![p] = u] \/ th' = [th EXCEPT ![p] = v]
    BY <2>3
  <2>5. th[p].pc # "chdir2" /\ Lasting /\ SameCwds
    BY <1>1, <2>3, LastingIs DEF At
  <2>6. CASE th' = [th EXCEPT ![p] = u]
    <3>1. Like(u, th[p], l, th[p].at, th[p].path, th[p].ip, th[p].dp, s)
      BY <1>1, <2>2, GotoIs, Zenon
    <3>2. u.ip = th[p].ip /\ u.at = th[p].at
      BY <3>1 DEF Like
    <3>3. Live(inode', u.ip) /\ Live(inode', u.at)
      BY <1>1, <2>3, <3>2 DEF LiveIn
    <3> QED
      BY <1>1, <2>5, <2>6, <3>3, LiveGoes, Zenon
  <2>7. CASE th' = [th EXCEPT ![p] = v]
    BY <1>1, <2>2, <2>5, <2>7, LiveReturns, Zenon
  <2> QED
    BY <2>4, <2>6, <2>7
<1>3. CASE ChdirSet(p)
  <2>1. PICK u : u = Return(th[p], 0, <<>>)
    OBVIOUS
  <2>2. th' = [th EXCEPT ![p] = u] /\ inode' = inode /\ proc' = [proc EXCEPT ![p].cwd = th[p].ip]
    BY <1>3, <2>1 DEF ChdirSet, disk
  <2>3. u.ip = 0 /\ u.at = 0
    BY <2>1 DEF Return, NewThread
  <2>4. Lasting
    BY <1>1, <2>2, LastingIs
  <2>5. DOMAIN proc = Proc /\ DOMAIN proc[p] = {"state", "parent", "cwd", "ofile"}
    BY <1>1, ShapeIs DEF IsProc, NoProc
  <2>6. proc'[p].cwd = th[p].ip /\ \A q \in Proc : q # p => proc'[q].cwd = proc[q].cwd
    BY <2>2, <2>5
  <2>7. LiveIn(inode', u, proc'[p].cwd)
    BY <1>1, <2>2, <2>3, <2>6 DEF LiveIn, Live
  <2> QED
    BY <1>1, <2>2, <2>4, <2>6, <2>7, LiveMoves
<1> QED
  BY <1>2, <1>3

\* One turn of namex().
LEMMA NamexLive ==
  ASSUME IndInv, NamesInv, LiveInv, NEW p \in Proc, ~Strays(th[p]), Namex(p)
  PROVE  LiveInv'
<1>0. PICK t, d, n : t = th[p] /\ d = th[p].at /\ n = Elem(Head(th[p].path))
  OBVIOUS
<1>a. PICK next : next = Dirlookup(d, n)
  OBVIOUS
<1>b. PICK u : u = [t EXCEPT !.at = next, !.path = Tail(@), !.puts = <<d>>]
  OBVIOUS
<1>1. /\ At(p, {"namei", "nameiparent"}) /\ inode' = inode /\ proc' = proc
      /\ \/ t.path = <<>> /\ th' = [th EXCEPT ![p] = NoElement(t)]
         \/ t.path # <<>> /\ th' = [th EXCEPT ![p] = Found(t, d, <<>>)]
         \/ th' = [th EXCEPT ![p] = Found(t, 0, <<d>>)]
         \/ t.path # <<>> /\ inode[d].type = "dir" /\ next # 0 /\ th' = [th EXCEPT ![p] = u]
  BY <1>0, <1>a, <1>b DEF Namex, disk
<1>2. /\ Shape /\ t.pc \in {"namei", "nameiparent"}
      /\ IsThread(t) /\ Locals(t) /\ d \in Ino
  BY <1>0, <1>1, WalkHas, Zenon
<1>3. Lasting /\ SameCwds /\ th[p].pc # "chdir2"
  BY <1>0, <1>1, <1>2, LastingIs
<1>4. Live(inode', t.ip) /\ Live(inode', d)
  BY <1>0, <1>1, LiveIs DEF LiveIn
<1>5. ASSUME NEW s, th' = [th EXCEPT ![p] = Found(t, 0, s)] PROVE LiveInv'
  <2>1. PICK v : v = Found(t, 0, s)
    OBVIOUS
  <2>2. \/ \E w, x : v = Return(w, x, s)
        \/ Like(v, t, "linkbad", 0, t.path, t.ip, t.dp, s)
    BY <1>2, <2>1, FoundNone, Zenon
  <2>3. ASSUME NEW w, NEW x, v = Return(w, x, s) PROVE LiveInv'
    BY <1>2, <1>3, <1>5, <2>1, <2>3, LiveReturns, Zenon
  <2>4. CASE Like(v, t, "linkbad", 0, t.path, t.ip, t.dp, s)
    <3>1. Live(inode', v.ip) /\ Live(inode', v.at)
      BY <1>4, <2>4 DEF Like, Live
    <3> QED
      BY <1>2, <1>3, <1>5, <2>1, <3>1, LiveGoes, Zenon
  <2> QED
    BY <2>2, <2>3, <2>4, Zenon
<1>6. ASSUME NEW s, t.pc = "namei" \/ t.path # <<>>, th' = [th EXCEPT ![p] = Found(t, d, s)] PROVE LiveInv'
  <2>1. PICK v : v = Found(t, d, s)
    OBVIOUS
  <2>2. Live(inode', v.ip) /\ Live(inode', v.at)
    <3>1. CASE t.pc = "namei"
      <4>1. PICK l : Like(v, t, l, 0, t.path, d, t.dp, s)
        BY <1>2, <2>1, <3>1, FoundIp, Zenon
      <4> QED
        BY <1>4, <4>1 DEF Like, Live
    <3>2. CASE t.pc = "nameiparent" /\ t.path # <<>>
      <4>1. PICK l, path : Like(v, t, l, 0, path, t.ip, d, s)
        BY <1>2, <2>1, <3>2, FoundDp, Zenon
      <4> QED
        BY <1>4, <4>1 DEF Like, Live
    <3> QED
      BY <1>2, <1>6, <3>1, <3>2
  <2> QED
    BY <1>2, <1>3, <1>6, <2>1, <2>2, LiveGoes, Zenon
<1>7. CASE t.path = <<>> /\ th' = [th EXCEPT ![p] = NoElement(t)]
  <2>1. t.pc = "nameiparent" => NoElement(t) = Found(t, 0, <<d>>)
    BY <1>0 DEF NoElement
  <2>2. t.pc = "namei" => NoElement(t) = Found(t, d, <<>>)
    BY <1>0 DEF NoElement
  <2>3. t.pc = "nameiparent" \/ t.pc = "namei"
    BY <1>2
  <2> QED
    BY <1>5, <1>6, <1>7, <2>1, <2>2, <2>3, Zenon
<1>8. CASE t.path # <<>> /\ inode[d].type = "dir" /\ next # 0 /\ th' = [th EXCEPT ![p] = u]
  <2>1. n = ".." => ~Cut(d)
    BY <1>0, <1>2, <1>8 DEF Strays
  <2>2. inode[next].type # "free"
    BY <1>a, <1>2, <1>8, <2>1, LookupLive
  <2>3. DOMAIN t = {"pc", "call", "at", "path", "ip", "dp", "f", "done", "puts", "dropping", "ret", "buf"}
    BY <1>2, ThreadFields DEF IsThread
  <2>4. u.ip = t.ip /\ u.at = next
    BY <1>b, <2>3
  <2>5. Live(inode', u.ip) /\ Live(inode', u.at)
    BY <1>1, <1>4, <2>2, <2>4 DEF Live
  <2> QED
    BY <1>2, <1>3, <1>8, <2>5, LiveGoes, Zenon
<1> QED
  BY <1>1, <1>5, <1>6, <1>7, <1>8, Zenon

\* Writing to an inode leaves its type.
LEMMA WriteiType ==
  ASSUME NEW n, IsInode(n), NEW u, NEW off, NEW us, NEW m, m = Writei(u, n, off, us).ino
  PROVE  m.type = n.type /\ \A x : [m EXCEPT !.nlink = x].type = n.type
<1>1. m = n \/ (DOMAIN m = DOMAIN n /\ m.type = n.type)
  BY WriteiHas
<1>2. DOMAIN n = {"type", "nlink", "data", "blks", "ind"}
  BY DEF IsInode, NoInode
<1> QED
  BY <1>1, <1>2

\* One inode is written.
LEMMA OneLasts ==
  ASSUME Shape, NEW i, NEW m, i \in Ino => m.type = inode[i].type, inode' = [inode EXCEPT ![i] = m]
  PROVE  Lasting
  BY ShapeIs DEF Lasting

\* write() goes on or returns.
LEMMA WriteLive ==
  ASSUME IndInv, LiveInv, NEW p \in Proc, Write(p)
  PROVE  LiveInv'
<1>0. PICK t, f : t = th[p] /\ f = ftable[th[p].f]
  OBVIOUS
<1>1. PICK us : us = SubSeq(t.call.data, t.done + 1, Min2(t.done + WMAX, Len(t.call.data)))
  OBVIOUS
<1>a. PICK n, done : n = Writei(used, inode[f.ip], f.off, us).ino /\ done = t.done + Len(us)
  OBVIOUS
<1>b. PICK u, v : u = [t EXCEPT !.done = done] /\ v = Return(t, done, <<>>)
  OBVIOUS
<1>2. /\ At(p, {"write"}) /\ proc' = proc
      /\ \/ th' = [th EXCEPT ![p] = Return(t, -1, <<>>)] /\ inode' = inode
         \/ /\ inode' = [inode EXCEPT ![f.ip] = n]
            /\ th' = [th EXCEPT ![p] = IF done = Len(t.call.data) THEN v ELSE u]
  BY <1>0, <1>1, <1>a, <1>b, Zenon DEF Write, disk
<1>3. Shape /\ t.pc = "write" /\ IsThread(t) /\ Locals(t)
  BY <1>0, <1>2, AtIs
<1>4. SameCwds /\ th[p].pc # "chdir2"
  BY <1>0, <1>2, <1>3, LastingIs
<1>5. CASE th' = [th EXCEPT ![p] = Return(t, -1, <<>>)] /\ inode' = inode
  BY <1>3, <1>4, <1>5, LastingIs, LiveReturns, Zenon
<1>6. CASE /\ inode' = [inode EXCEPT ![f.ip] = n]
           /\ th' = [th EXCEPT ![p] = IF done = Len(t.call.data) THEN v ELSE u]
  <2>1. f.ip \in Ino => n.type = inode[f.ip].type
    <3>1. f.ip \in Ino => IsInode(inode[f.ip])
      BY <1>3, ShapeIs
    <3>2. PICK m : m = inode[f.ip]
      OBVIOUS
    <3>3. n = Writei(used, m, f.off, us).ino
      BY <1>a, <3>2
    <3> QED
      BY <3>1, <3>2, <3>3, WriteiType
  <2>2. Lasting
    BY <1>3, <1>6, <2>1, OneLasts
  <2>3. th' = [th EXCEPT ![p] = v] \/ th' = [th EXCEPT ![p] = u]
    BY <1>6
  <2>4. u.ip = 0 /\ u.at = 0
    <3>1. DOMAIN t = {"pc", "call", "at", "path", "ip", "dp", "f", "done", "puts", "dropping", "ret", "buf"}
      BY <1>3, ThreadFields DEF IsThread
    <3>2. t.ip = 0 /\ t.at = 0
      BY <1>3 DEF Locals, HasIp, HasAt
    <3> QED
      BY <1>b, <3>1, <3>2
  <2>5. CASE th' = [th EXCEPT ![p] = v]
    BY <1>b, <1>3, <1>4, <2>2, <2>5, LiveReturns, Zenon
  <2>6. CASE th' = [th EXCEPT ![p] = u]
    BY <1>3, <1>4, <2>2, <2>4, <2>6, LiveRests
  <2> QED
    BY <2>3, <2>5, <2>6
<1> QED
  BY <1>2, <1>5, <1>6, Zenon

\* create() of a name that is there.
LEMMA CreateOldLive ==
  ASSUME IndInv, NamesInv, LiveInv, NEW p \in Proc, ~Strays(th[p]), CreateExisting(p) \/ CreateKeep(p)
  PROVE  LiveInv'
<1>0. PICK t : t = th[p]
  OBVIOUS
<1>1. Shape /\ IsThread(t) /\ Locals(t) /\ Kinds(t) /\ LiveIn(inode, t, proc[p].cwd)
  BY <1>0, ShapeIs, LiveIs DEF IndInv, ThreadsInv
<1>2. CASE CreateExisting(p)
  <2>1. PICK l, s, x, y : l = "create2" /\ s = <<th[p].dp>> /\ x = Dirlookup(th[p].dp, Head(th[p].path)) /\ y = 0
    OBVIOUS
  <2>2. PICK u : u = [Goto(t, l, s) EXCEPT !.ip = x, !.dp = y]
    OBVIOUS
  <2>3. At(p, {"create1"}) /\ th' = [th EXCEPT ![p] = u] /\ x # 0 /\ inode' = inode /\ proc' = proc
    BY <1>0, <1>2, <2>1, <2>2, Zenon DEF CreateExisting, disk
  <2>4. t.dp \in Ino /\ inode[t.dp].type = "dir" /\ t.pc = "create1"
    BY <1>0, <1>1, <2>3, InoIs DEF At, Locals, HasDp, Kinds, IsThread
  <2>5. Head(t.path) = ".." => ~Cut(t.dp)
    BY <1>0, <2>4 DEF Strays
  <2>6. inode[x].type # "free"
    <3>1. PICK n : n = Head(t.path)
      OBVIOUS
    <3>2. x = Dirlookup(t.dp, n) /\ (n = ".." => ~Cut(t.dp))
      BY <1>0, <2>1, <2>5, <3>1
    <3> QED
      BY <1>1, <2>3, <2>4, <3>2, LookupLive
  <2>7. Like(u, t, l, t.at, t.path, x, y, s)
    BY <1>1, <2>2, GotoIs, Zenon
  <2>8. Live(inode', u.ip) /\ Live(inode', u.at)
    BY <1>1, <2>3, <2>6, <2>7 DEF Like, Live, LiveIn
  <2>9. Lasting /\ SameCwds /\ th[p].pc # "chdir2"
    BY <1>0, <1>1, <2>3, <2>4, LastingIs
  <2> QED
    BY <1>1, <2>3, <2>8, <2>9, LiveGoes, Zenon
<1>3. CASE CreateKeep(p)
  <2>1. PICK u, v : u = [t EXCEPT !.pc = "open2"] /\ v = Return(t, -1, <<t.ip>>)
    OBVIOUS
  <2>2. /\ At(p, {"create2"}) /\ inode' = inode /\ proc' = proc
        /\ th' = [th EXCEPT ![p] = u] \/ th' = [th EXCEPT ![p] = v]
    BY <1>0, <1>3, <2>1 DEF CreateKeep, disk
  <2>3. DOMAIN t = {"pc", "call", "at", "path", "ip", "dp", "f", "done", "puts", "dropping", "ret", "buf"}
    BY <1>1, ThreadFields DEF IsThread
  <2>4. u.ip = t.ip /\ u.at = t.at
    BY <2>1, <2>3
  <2>5. Live(inode', u.ip) /\ Live(inode', u.at)
    BY <1>1, <2>2, <2>4 DEF LiveIn
  <2>6. Lasting /\ SameCwds /\ th[p].pc # "chdir2"
    BY <1>1, <2>2, LastingIs DEF At
  <2>7. CASE th' = [th EXCEPT ![p] = u]
    BY <1>1, <2>5, <2>6, <2>7, LiveGoes
  <2>8. CASE th' = [th EXCEPT ![p] = v]
    BY <1>1, <2>1, <2>6, <2>8, LiveReturns, Zenon
  <2> QED
    BY <2>2, <2>7, <2>8
<1> QED
  BY <1>2, <1>3

\* create() of a new name: the inode it allocates is in use.
LEMMA CreateNewLive ==
  ASSUME IndInv, NamesInv, LiveInv, NEW p \in Proc, CreateNew(p)
  PROVE  LiveInv'
<1>0. PICK t, ip, dp : t = th[p] /\ ip = Ialloc /\ dp = th[p].dp
  OBVIOUS
<1>1. MakesIn(p, t, ip, dp) /\ proc' = proc
  <2>1. MakesIn(p, t, ip, dp)
    BY <1>0, CreateMakes
  <2>2. proc' = proc
    BY Zenon DEF CreateNew
  <2> QED
    BY <2>1, <2>2
<1>2. PICK a, e, k, x, ty : Makes(inode, inode', ip, dp, a, e, k, x, ty)
  BY <1>1, Zenon DEF MakesIn
<1>3. PICK l : /\ l \in {"open2", "made"}
               /\ th' = [th EXCEPT ![p] = [Goto(t, l, <<dp>>) EXCEPT !.ip = ip, !.dp = 0]]
  BY <1>1, Zenon DEF MakesIn
<1>a. PICK s, y : s = <<dp>> /\ y = 0
  OBVIOUS
<1>4. PICK u : u = [Goto(t, l, s) EXCEPT !.ip = ip, !.dp = y]
  OBVIOUS
<1>5. At(p, {"create1"})
  BY <1>1, Zenon DEF MakesIn
<1>6. Shape /\ IsThread(t) /\ LiveIn(inode, t, proc[p].cwd) /\ t.at = 0
  BY <1>0, <1>5, AtIs, LiveIs DEF Locals, HasAt
<1>7. Like(u, t, l, t.at, t.path, ip, y, s)
  BY <1>4, <1>6, GotoIs, Zenon
<1>8. Lasting /\ inode'[ip].type # "free"
  BY <1>2 DEF Lasting, Makes, TwoSet
<1>9. SameCwds /\ th[p].pc # "chdir2"
  BY <1>1, <1>5, <1>6, LastingIs DEF At
<1>10. Live(inode', u.ip) /\ Live(inode', u.at)
  BY <1>6, <1>7, <1>8 DEF Like, Live
<1>11. th' = [th EXCEPT ![p] = u]
  BY <1>a, <1>3, <1>4
<1> QED
  BY <1>6, <1>8, <1>9, <1>10, <1>11, LiveGoes, Zenon

\* unlink(): the inode it finds has a name.
LEMMA UnlinkLive ==
  ASSUME IndInv, NamesInv, LiveInv, NEW p \in Proc, UnlinkFind(p) \/ UnlinkErase(p)
  PROVE  LiveInv'
<1>0. PICK t : t = th[p]
  OBVIOUS
<1>1. Shape /\ IsThread(t) /\ Locals(t) /\ Kinds(t) /\ LiveIn(inode, t, proc[p].cwd)
  BY <1>0, ShapeIs, LiveIs DEF IndInv, ThreadsInv
<1>2. CASE UnlinkFind(p)
  <2>1. PICK n, l, s : n = Head(t.path) /\ l = "unlink2" /\ s = <<>>
    OBVIOUS
  <2>2. PICK x, v : x = Dirlookup(t.dp, n) /\ v = Return(t, -1, <<t.dp>>)
    OBVIOUS
  <2>3. PICK u : u = [Goto(t, l, s) EXCEPT !.ip = x]
    OBVIOUS
  <2>4. /\ At(p, {"unlink1"}) /\ inode' = inode /\ proc' = proc
        /\ \/ th' = [th EXCEPT ![p] = v]
           \/ n \notin {".", ".."} /\ x # 0 /\ th' = [th EXCEPT ![p] = u]
    BY <1>0, <1>2, <2>1, <2>2, <2>3, Zenon DEF UnlinkFind, disk
  <2>5. t.dp \in Ino /\ inode[t.dp].type = "dir" /\ t.pc = "unlink1"
    BY <1>0, <1>1, <2>4, InoIs DEF At, Locals, HasDp, Kinds, IsThread
  <2>6. Lasting /\ SameCwds /\ th[p].pc # "chdir2"
    BY <1>0, <1>1, <2>4, <2>5, LastingIs
  <2>7. CASE th' = [th EXCEPT ![p] = v]
    BY <1>1, <2>2, <2>6, <2>7, LiveReturns, Zenon
  <2>8. CASE n \notin {".", ".."} /\ x # 0 /\ th' = [th EXCEPT ![p] = u]
    <3>1. n = ".." => ~Cut(t.dp)
      BY <2>8
    <3>2. inode[x].type # "free"
      BY <1>1, <2>2, <2>5, <2>8, <3>1, LookupLive
    <3>3. Like(u, t, l, t.at, t.path, x, t.dp, s)
      BY <1>1, <2>3, GotoIs, Zenon
    <3>4. Live(inode', u.ip) /\ Live(inode', u.at)
      BY <1>1, <2>4, <3>2, <3>3 DEF Like, Live, LiveIn
    <3> QED
      BY <1>1, <2>6, <2>8, <3>4, LiveGoes
  <2> QED
    BY <2>4, <2>7, <2>8
<1>3. CASE UnlinkErase(p)
  <2>1. PICK l, s, y, z : l = "unlinkbad" /\ s = <<t.ip>> /\ y = "unlink3" /\ z = <<t.dp>>
    OBVIOUS
  <2>2. PICK u, v, o : u = [Goto(t, l, s) EXCEPT !.ip = o] /\ v = [Goto(t, y, z) EXCEPT !.dp = o] /\ o = 0
    OBVIOUS
  <2>3. PICK off : off = Find(t.dp, Head(t.path)) - 1
    OBVIOUS
  <2>4. PICK m : m = Writei(used, inode[t.dp], off, <<NoSlot>>).ino
    OBVIOUS
  <2>5. /\ At(p, {"unlink2"}) /\ proc' = proc
        /\ \/ inode' = inode /\ th' = [th EXCEPT ![p] = u]
           \/ /\ \E x : inode' = [inode EXCEPT ![t.dp] = [m EXCEPT !.nlink = x]]
              /\ th' = [th EXCEPT ![p] = v]
    <3>1. /\ At(p, {"unlink2"}) /\ proc' = proc
          /\ \/ inode' = inode /\ th' = [th EXCEPT ![p] = u]
             \/ /\ inode' = [inode EXCEPT ![t.dp] = [m EXCEPT !.nlink = @ - (IF inode[t.ip].type = "dir" THEN 1 ELSE 0)]]
                /\ th' = [th EXCEPT ![p] = v]
      BY <1>0, <1>3, <2>1, <2>2, <2>3, <2>4, Zenon DEF UnlinkErase
    <3> QED
      BY <3>1
  <2>6. t.dp \in Ino /\ t.pc = "unlink2"
    BY <1>0, <1>1, <2>5, InoIs DEF At, Locals, HasDp, IsThread
  <2>7. Lasting
    <3>1. PICK n : n = inode[t.dp]
      OBVIOUS
    <3>2. IsInode(n) /\ m = Writei(used, n, off, <<NoSlot>>).ino
      BY <1>1, <2>4, <2>6, <3>1, ShapeIs
    <3>3. \A x : [m EXCEPT !.nlink = x].type = inode[t.dp].type
      BY <3>1, <3>2, WriteiType
    <3>4. ASSUME NEW x, inode' = [inode EXCEPT ![t.dp] = [m EXCEPT !.nlink = x]] PROVE Lasting
      <4>1. PICK w : w = [m EXCEPT !.nlink = x]
        OBVIOUS
      <4>2. w.type = inode[t.dp].type /\ inode' = [inode EXCEPT ![t.dp] = w]
        BY <3>3, <3>4, <4>1
      <4> QED
        BY <1>1, <4>2, OneLasts
    <3> QED
      BY <1>1, <2>5, <3>4, LastingIs
  <2>8. SameCwds /\ th[p].pc # "chdir2"
    BY <1>0, <1>1, <2>5, <2>6, LastingIs
  <2>9. t.ip \in 0..NInodes /\ t.at \in 0..NInodes
    BY <1>1 DEF IsThread
  <2>10. Live(inode', t.ip) /\ Live(inode', t.at)
    BY <1>1, <2>7, <2>9, LiveLasts DEF LiveIn
  <2>11. Like(u, t, l, t.at, t.path, o, t.dp, s) /\ Like(v, t, y, t.at, t.path, t.ip, o, z)
    BY <1>1, <2>2, GotoIs, Zenon
  <2>12. Live(inode', u.ip) /\ Live(inode', u.at) /\ Live(inode', v.ip) /\ Live(inode', v.at)
    BY <2>2, <2>10, <2>11 DEF Like, Live
  <2> QED
    BY <1>1, <2>5, <2>7, <2>8, <2>12, LiveGoes
<1> QED
  BY <1>2, <1>3

\* A walk sets out from an inode in use.
LEMMA StartLive ==
  ASSUME NamesInv, NEW p \in Proc, Live(inode, proc[p].cwd), NEW path
  PROVE  Live(inode, Start(p, path))
<1>1. inode[ROOTINO].type # "free"
  BY DEF NamesInv
<1>2. Start(p, path) = ROOTINO \/ Start(p, path) = proc[p].cwd
  BY DEF Start
<1> QED
  BY <1>1, <1>2 DEF Live

\* link() before it makes its entry, and after.
LEMMA LinkLive ==
  ASSUME IndInv, NamesInv, LiveInv, NEW p \in Proc, LinkCount(p) \/ LinkEntry(p) \/ LinkExists(p)
  PROVE  LiveInv'
<1>0. PICK t : t = th[p]
  OBVIOUS
<1>1. Shape /\ IsThread(t) /\ Locals(t) /\ Kinds(t) /\ LiveIn(inode, t, proc[p].cwd) /\ Lives(t, proc[p])
  BY <1>0, ShapeIs, LiveIs DEF IndInv, ThreadsInv
<1>2. CASE LinkCount(p)
  <2>1. PICK new, l : new = t.call.new /\ l = "nameiparent"
    OBVIOUS
  <2>2. PICK u, v, x : u = Walk(p, t, new, l) /\ v = Return(t, -1, <<t.ip>>) /\ x = inode[t.ip].nlink + 1
    OBVIOUS
  <2>3. /\ At(p, {"link1"}) /\ proc' = proc
        /\ \/ th' = [th EXCEPT ![p] = v] /\ inode' = inode
           \/ th' = [th EXCEPT ![p] = u] /\ inode' = [inode EXCEPT ![t.ip].nlink = x]
    <3>1. /\ At(p, {"link1"}) /\ proc' = proc
          /\ \/ th' = [th EXCEPT ![p] = v] /\ inode' = inode
             \/ th' = [th EXCEPT ![p] = u] /\ inode' = [inode EXCEPT ![t.ip].nlink = @ + 1]
      BY <1>0, <1>2, <2>1, <2>2, Zenon DEF LinkCount
    <3> QED
      BY <2>2, <3>1
  <2>4. t.pc = "link1" /\ th[p].pc # "chdir2" /\ SameCwds
    BY <1>0, <1>1, <2>3, LastingIs DEF At
  <2>5. CASE th' = [th EXCEPT ![p] = v] /\ inode' = inode
    BY <1>1, <2>2, <2>4, <2>5, LastingIs, LiveReturns, Zenon
  <2>6. CASE th' = [th EXCEPT ![p] = u] /\ inode' = [inode EXCEPT ![t.ip].nlink = x]
    <3>1. SameKinds
      BY <1>1, <2>6, Counted
    <3>2. Lasting
      BY <1>1, <3>1, LastingIs
    <3>3. proc[p].state = "run" /\ proc[p].cwd # 0 /\ proc[p].cwd \in 0..NInodes
      BY <1>1, <2>4, ShapeIs DEF Lives, IsProc
    <3>4. proc[p].cwd \in Ino /\ new \in Paths
      BY <1>1, <2>1, <2>4, <3>3, InoIs DEF Locals
    <3>5. PICK s, d : s = Start(p, new) /\ d = t.dp
      OBVIOUS
    <3>6. s \in Ino /\ \E rest \in Paths : Like(u, t, l, s, rest, t.ip, d, t.puts)
      BY <1>1, <2>2, <3>4, <3>5, WalkIs, Zenon
    <3>7. PICK rest : Like(u, t, l, s, rest, t.ip, d, t.puts)
      BY <3>6
    <3>8. Live(inode, s)
      BY <1>1, <2>4, <3>5, StartLive DEF LiveIn
    <3>9. Live(inode', s) /\ Live(inode', t.ip)
      <4>1. s \in 0..NInodes /\ t.ip \in 0..NInodes
        BY <1>1, <3>6, InoIs DEF IsThread
      <4> QED
        BY <1>1, <3>2, <3>8, <4>1, LiveLasts DEF LiveIn
    <3>10. Live(inode', u.ip) /\ Live(inode', u.at)
      BY <3>7, <3>9 DEF Like
    <3> QED
      BY <1>1, <2>4, <2>6, <3>2, <3>10, LiveGoes
  <2> QED
    BY <2>3, <2>5, <2>6
<1>3. CASE LinkEntry(p)
  <2>1. PICK n, l, old : n = Head(t.path) /\ l = "link3" /\ old = Dirlookup(t.dp, Head(t.path))
    OBVIOUS
  <2>2. PICK m, s : m = Dirlink(used, t.dp, n, t.ip).ino /\ s = <<old>>
    OBVIOUS
  <2>3. PICK u, v : u = Goto(t, l, s) /\ v = Return(t, 0, <<t.dp, t.ip>>)
    OBVIOUS
  <2>4. /\ At(p, {"link2"}) /\ proc' = proc
        /\ \/ th' = [th EXCEPT ![p] = u] /\ inode' = inode
           \/ th' = [th EXCEPT ![p] = v] /\ inode' = [inode EXCEPT ![t.dp] = m]
    BY <1>0, <1>3, <2>1, <2>2, <2>3, Zenon DEF LinkEntry, disk
  <2>5. t.pc = "link2" /\ th[p].pc # "chdir2" /\ SameCwds
    BY <1>0, <1>1, <2>4, LastingIs DEF At
  <2>6. CASE th' = [th EXCEPT ![p] = u] /\ inode' = inode
    <3>1. Like(u, t, l, t.at, t.path, t.ip, t.dp, s)
      BY <1>1, <2>3, GotoIs, Zenon
    <3>2. Live(inode', u.ip) /\ Live(inode', u.at) /\ Lasting
      BY <1>1, <2>6, <3>1, LastingIs DEF Like, LiveIn
    <3> QED
      BY <1>1, <2>5, <2>6, <3>2, LiveGoes
  <2>7. CASE th' = [th EXCEPT ![p] = v] /\ inode' = [inode EXCEPT ![t.dp] = m]
    <3>1. t.dp \in Ino /\ inode[t.dp].type = "dir" /\ n \in STRING /\ t.ip \in 0..NInodes
      <4>1. t.path \in Paths /\ t.path # <<>>
        BY <1>1, <2>5 DEF Locals, IsThread
      <4>2. n \in STRING
        BY <2>1, <4>1 DEF Paths
      <4> QED
        BY <1>1, <2>5, <4>2, InoIs DEF Locals, HasDp, Kinds, IsThread
    <3>2. m.type = "dir"
      BY <1>1, <2>2, <3>1, DirlinkIs
    <3>3. Lasting
      BY <1>1, <2>7, <3>1, <3>2, OneLasts
    <3> QED
      BY <1>1, <2>3, <2>5, <2>7, <3>3, LiveReturns, Zenon
  <2> QED
    BY <2>4, <2>6, <2>7
<1>4. CASE LinkExists(p)
  <2>1. PICK l, s, y : l = "linkbad" /\ s = <<th[p].dp>> /\ y = 0
    OBVIOUS
  <2>2. PICK u : u = [Goto(t, l, s) EXCEPT !.dp = y]
    OBVIOUS
  <2>3. At(p, {"link3"}) /\ th' = [th EXCEPT ![p] = u] /\ inode' = inode /\ proc' = proc
    BY <1>0, <1>4, <2>1, <2>2, Zenon DEF LinkExists, disk
  <2>4. th[p].pc # "chdir2" /\ SameCwds /\ Lasting
    BY <1>0, <1>1, <2>3, LastingIs DEF At
  <2>5. Like(u, t, l, t.at, t.path, t.ip, y, s)
    BY <1>1, <2>2, GotoIs, Zenon
  <2>6. Live(inode', u.ip) /\ Live(inode', u.at)
    BY <1>1, <2>3, <2>5 DEF Like, LiveIn
  <2> QED
    BY <1>1, <2>3, <2>4, <2>6, LiveGoes
<1> QED
  BY <1>2, <1>3, <1>4

\* exit() closes descriptors, puts the current directory and ends.
LEMMA ExitLive ==
  ASSUME IndInv, LiveInv, NEW p \in Proc, Exit(p)
  PROVE  LiveInv'
<1>0. PICK t : t = th[p]
  OBVIOUS
<1>1. Shape /\ IsThread(t) /\ Locals(t) /\ DOMAIN proc = Proc /\ DOMAIN proc[p] = {"state", "parent", "cwd", "ofile"}
  BY <1>0, ShapeIs DEF IndInv, ThreadsInv, IsProc, NoProc
<1>2. PICK l, s : l = "zombie" /\ s = <<proc[p].cwd>>
  OBVIOUS
<1>3. PICK u : u = Goto(t, l, s)
  OBVIOUS
<1>4. /\ inode' = inode
      /\ \/ At(p, {"exit"}) /\ \E d, x : th' = [th EXCEPT ![p].puts = x] /\ proc' = [proc EXCEPT ![p].ofile[d] = 0]
         \/ At(p, {"exit"}) /\ th' = [th EXCEPT ![p] = u] /\ proc' = [proc EXCEPT ![p].cwd = 0]
         \/ At(p, {"zombie"}) /\ th' = [th EXCEPT ![p] = NewThread] /\ proc' = [proc EXCEPT ![p].state = "zombie"]
  BY <1>0, <1>2, <1>3, Zenon DEF Exit, disk
<1>5. Lasting /\ t.pc \in {"exit", "zombie"}
  BY <1>0, <1>1, <1>4, LastingIs DEF At
<1>6. t.ip = 0 /\ t.at = 0 /\ th[p].pc # "chdir2"
  BY <1>0, <1>1, <1>5 DEF Locals, HasIp, HasAt
<1>7. ASSUME NEW d, NEW x, th' = [th EXCEPT ![p].puts = x], proc' = [proc EXCEPT ![p].ofile[d] = 0] PROVE LiveInv'
  <2>1. PICK v, y : v = [t EXCEPT !.puts = x] /\ y = [proc[p].ofile EXCEPT ![d] = 0]
    OBVIOUS
  <2>2. DOMAIN t = {"pc", "call", "at", "path", "ip", "dp", "f", "done", "puts", "dropping", "ret", "buf"}
    BY <1>1, ThreadFields DEF IsThread
  <2>3. v.ip = 0 /\ v.at = 0
    BY <1>6, <2>1, <2>2
  <2>4. th' = [th EXCEPT ![p] = v] /\ proc' = [proc EXCEPT ![p].ofile = y]
    BY <1>0, <1>7, <2>1
  <2>5. SameCwds
    BY <1>1, <2>4, OfileCwds
  <2> QED
    BY <1>1, <1>5, <1>6, <2>3, <2>4, <2>5, LiveRests
<1>8. CASE th' = [th EXCEPT ![p] = u] /\ proc' = [proc EXCEPT ![p].cwd = 0]
  <2>1. Like(u, t, l, t.at, t.path, t.ip, t.dp, s)
    BY <1>1, <1>3, GotoIs, Zenon
  <2>2. proc'[p].cwd = 0 /\ \A q \in Proc : q # p => proc'[q].cwd = proc[q].cwd
    BY <1>1, <1>8
  <2>3. LiveIn(inode', u, proc'[p].cwd)
    BY <1>6, <2>1, <2>2 DEF Like, LiveIn, Live
  <2> QED
    BY <1>1, <1>5, <1>8, <2>2, <2>3, LiveMoves
<1>9. CASE th' = [th EXCEPT ![p] = NewThread] /\ proc' = [proc EXCEPT ![p].state = "zombie"]
  <2>1. SameCwds
    BY <1>1, <1>9 DEF SameCwds
  <2>2. PICK v : v = NewThread
    OBVIOUS
  <2>3. v.ip = 0 /\ v.at = 0 /\ th' = [th EXCEPT ![p] = v]
    BY <1>9, <2>2 DEF NewThread
  <2> QED
    BY <1>1, <1>5, <1>6, <2>1, <2>3, LiveRests
<1> QED
  BY <1>4, <1>7, <1>8, <1>9, Zenon

\* A call that enters the kernel.
LEMMA CallLive ==
  ASSUME IndInv, NamesInv, LiveInv, NEW p \in Proc, NEW c \in SysCalls, Call(p, c)
  PROVE  LiveInv'
<1>1. PICK t : t = th[p]
  OBVIOUS
<1>2. /\ Idle(p) /\ t.pc = "user" /\ IsThread(t) /\ Shape /\ proc[p].cwd \in Ino
      /\ t.ip = 0 /\ t.at = 0 /\ LiveIn(inode, t, proc[p].cwd)
  BY <1>1, IdleIs, LiveIs DEF Call
<1>3. /\ DOMAIN t = {"pc", "call", "at", "path", "ip", "dp", "f", "done", "puts", "dropping", "ret", "buf"}
      /\ DOMAIN proc = Proc /\ DOMAIN th = Proc /\ \A q \in Proc : DOMAIN proc[q] = {"state", "parent", "cwd", "ofile"}
  BY <1>2, ThreadFields, ShapeIs DEF IsThread, IsProc, NoProc
<1>a. inode' = inode
  BY Zenon DEF Call, PathCall, FdCall, Dup, Close, Pipe, Fork, Wait, disk
<1>b. Lasting /\ th[p].pc # "chdir2"
  BY <1>1, <1>2, <1>a, LastingIs
<1>4. ASSUME NEW w, NEW v, NEW s, th' = [th EXCEPT ![p] = Return(w, v, s)], SameCwds PROVE LiveInv'
  BY <1>2, <1>4, <1>b, LiveReturns, Zenon
<1>5. CASE c.op \in {"open", "mkdir", "mknod", "unlink", "link", "chdir", "exec"} /\ PathCall(p, c)
  <2>1. PICK l : l = IF c.op \in {"link", "chdir", "exec"} \/ (c.op = "open" /\ ~c.create) THEN "namei" ELSE "nameiparent"
    OBVIOUS
  <2>2. PICK s, u, path : s = [NewThread EXCEPT !.call = c] /\ u = Walk(p, s, path, l) /\ path = c.path
    OBVIOUS
  <2>3. th' = [th EXCEPT ![p] = u] /\ proc' = proc
    BY <1>5, <2>1, <2>2, Zenon DEF PathCall
  <2>4. IsThread(s) /\ s.ip = 0
    BY <2>2, NewThreadIs, ThreadFields DEF IsThread, NewThread
  <2>5. path \in Paths
    BY <1>5, <2>2 DEF SysCalls
  <2>6. \E rest \in Paths : Like(u, s, l, Start(p, path), rest, s.ip, s.dp, s.puts)
    BY <1>2, <2>2, <2>4, <2>5, WalkIs, Zenon
  <2>7. PICK rest : Like(u, s, l, Start(p, path), rest, s.ip, s.dp, s.puts)
    BY <2>6, Zenon
  <2>8. Live(inode, Start(p, path))
    BY <1>2, StartLive DEF LiveIn
  <2>9. Live(inode', u.ip) /\ Live(inode', u.at)
    BY <1>a, <2>4, <2>7, <2>8 DEF Like, Live
  <2>10. SameCwds
    BY <1>2, <2>3, LastingIs
  <2> QED
    BY <1>2, <1>b, <2>3, <2>9, <2>10, LiveGoes
<1>6. CASE c.op \in {"read", "write", "fstat"} /\ FdCall(p, c)
  <2>1. PICK f : f = Argfd(p, c.fd)
    OBVIOUS
  <2>2. PICK u : u = [t EXCEPT !.pc = c.op, !.call = c, !.f = f]
    OBVIOUS
  <2>3. /\ \/ th' = [th EXCEPT ![p] = Return(t, -1, <<>>)]
           \/ th' = [th EXCEPT ![p] = Return(t, 0, <<>>)]
           \/ th' = [th EXCEPT ![p] = u]
        /\ proc' = proc
    <3> DEFINE fail == f = 0 \/ CASE c.op = "read"  -> ~ftable[f].r
                                  [] c.op = "write" -> ~ftable[f].w
                                  [] OTHER          -> ftable[f].type # "inode"
               none == c.op = "write" /\ Len(c.data) = 0
    <3>1. th' = [th EXCEPT ![p] = IF fail THEN Return(t, -1, <<>>) ELSE IF none THEN Return(t, 0, <<>>) ELSE u] /\ proc' = proc
      BY <1>1, <1>6, <2>1, <2>2 DEF FdCall
    <3> HIDE DEF fail, none
    <3> QED
      BY <3>1
  <2>4. u.ip = 0 /\ u.at = 0
    BY <1>2, <1>3, <2>2
  <2>5. SameCwds
    BY <1>2, <2>3, LastingIs
  <2>6. th' = [th EXCEPT ![p] = u] => LiveInv'
    BY <1>2, <1>b, <2>4, <2>5, LiveRests
  <2> QED
    BY <1>4, <2>3, <2>5, <2>6, Zenon
<1>7. CASE Dup(p, c.fd)
  <2>1. PICK f, new : f = Argfd(p, c.fd) /\ new = FreeFd(proc[p].ofile)
    OBVIOUS
  <2>2. /\ \E v : th' = [th EXCEPT ![p] = Return(t, v, <<>>)]
        /\ proc' = IF f # 0 /\ new # -1 THEN [proc EXCEPT ![p].ofile[new] = f] ELSE proc
    BY <1>1, <1>7, <2>1, Zenon DEF Dup
  <2>3. PICK x : x = [proc[p].ofile EXCEPT ![new] = f]
    OBVIOUS
  <2>4. proc' = proc \/ proc' = [proc EXCEPT ![p].ofile = x]
    BY <2>2, <2>3
  <2>5. SameCwds
    BY <1>2, <2>4, LastingIs, OfileCwds
  <2> QED
    BY <1>4, <2>2, <2>5, Zenon
<1>8. CASE Close(p, c.fd)
  <2>1. PICK f, a, b : f = Argfd(p, c.fd) /\ a = Return(t, -1, <<>>) /\ b = Return(t, 0, ClosePuts(f))
    OBVIOUS
  <2>2. /\ th' = [th EXCEPT ![p] = IF f = 0 THEN a ELSE b]
        /\ proc' = IF f = 0 THEN proc ELSE [proc EXCEPT ![p].ofile[c.fd] = 0]
    BY <1>1, <1>8, <2>1, Zenon DEF Close
  <2>3. th' = [th EXCEPT ![p] = a] \/ th' = [th EXCEPT ![p] = b]
    BY <2>2
  <2>4. PICK x : x = [proc[p].ofile EXCEPT ![c.fd] = 0]
    OBVIOUS
  <2>5. proc' = proc \/ proc' = [proc EXCEPT ![p].ofile = x]
    BY <2>2, <2>4
  <2>6. SameCwds
    BY <1>2, <2>5, LastingIs, OfileCwds
  <2> QED
    BY <1>4, <2>1, <2>3, <2>6, Zenon
<1>9. CASE Pipe(p)
  <2>1. (\E v : th' = [th EXCEPT ![p] = Return(t, v, <<>>)]) /\ (proc' = proc \/ \E x : proc' = [proc EXCEPT ![p].ofile = x])
    BY <1>1, <1>9, Zenon DEF Pipe
  <2>2. SameCwds
    BY <1>2, <2>1, LastingIs, OfileCwds
  <2> QED
    BY <1>4, <2>1, <2>2, Zenon
<1>10. CASE Fork(p)
  <2>1. CASE Unused = {}
    <3>1. th' = [th EXCEPT ![p] = Return(NewThread, -1, <<>>)] /\ proc' = proc
      BY <1>10, <2>1, Zenon DEF Fork
    <3>2. SameCwds
      BY <1>2, <3>1, LastingIs
    <3> QED
      BY <1>4, <3>1, <3>2, Zenon
  <2>2. CASE Unused # {}
    <3>1. PICK k, u, v : k = Child /\ u = Return(NewThread, Child, <<>>) /\ v = NewThread
      OBVIOUS
    <3>2. PICK s : s = [state |-> "run", parent |-> p, cwd |-> proc[p].cwd, ofile |-> proc[p].ofile]
      OBVIOUS
    <3>3. th' = [th EXCEPT ![p] = u, ![k] = v] /\ proc' = [proc EXCEPT ![k] = s]
      BY <1>10, <2>2, <3>1, <3>2, Zenon DEF Fork
    <3>4. u.ip = 0 /\ u.at = 0 /\ v.ip = 0 /\ v.at = 0
      BY <3>1 DEF Return, NewThread
    <3>5. s.cwd = proc[p].cwd
      BY <3>2
    <3>6. k \in Proc /\ proc[k].state = "unused"
      BY <2>2, <3>1, ChildIs
    <3>7. k # p
      BY <1>2, <3>6 DEF Idle
    <3>8. ASSUME NEW q \in Proc PROVE LiveIn(inode', th'[q], proc'[q].cwd)
      <4>1. CASE q = p
        <5>1. th'[q] = u /\ proc'[q].cwd = proc[p].cwd
          BY <1>3, <3>3, <3>6, <3>7, <4>1
        <5> QED
          BY <1>2, <1>a, <3>4, <5>1 DEF LiveIn, Live
      <4>2. CASE q = k
        <5>1. th'[q] = v /\ proc'[q].cwd = proc[p].cwd
          BY <1>3, <3>3, <3>5, <3>6, <3>7, <4>2
        <5> QED
          BY <1>2, <1>a, <3>4, <5>1 DEF LiveIn, Live
      <4>3. CASE q # p /\ q # k
        <5>1. th'[q] = th[q] /\ proc'[q].cwd = proc[q].cwd
          BY <1>3, <3>3, <3>6, <4>3
        <5>2. LiveIn(inode, th[q], proc[q].cwd)
          BY LiveIs, Zenon
        <5> QED
          BY <1>a, <5>1, <5>2
      <4> QED
        BY <4>1, <4>2, <4>3
    <3>9. NextLive
      BY <3>8 DEF NextLive
    <3> QED
      BY <3>9, LiveIs
  <2> QED
    BY <2>1, <2>2
<1>11. CASE Wait(p)
  <2>1. \/ th' = [th EXCEPT ![p] = Return(NewThread, -1, <<>>)] /\ proc' = proc
        \/ \E q \in Proc : th' = [th EXCEPT ![p] = Return(NewThread, q, <<>>)] /\ proc' = [proc EXCEPT ![q] = NoProc] /\ proc[q].state = "zombie"
    BY <1>11, Zenon DEF Wait
  <2>2. CASE th' = [th EXCEPT ![p] = Return(NewThread, -1, <<>>)] /\ proc' = proc
    BY <1>2, <1>4, <2>2, LastingIs, Zenon
  <2>3. ASSUME NEW q \in Proc, th' = [th EXCEPT ![p] = Return(NewThread, q, <<>>)], proc' = [proc EXCEPT ![q] = NoProc], proc[q].state = "zombie"
        PROVE  LiveInv'
    <3>1. proc[q].cwd = 0
      BY <2>3 DEF IndInv, ThreadsInv, Lives
    <3>2. PICK s : s = NoProc
      OBVIOUS
    <3>3. s.cwd = 0 /\ proc' = [proc EXCEPT ![q] = s]
      BY <2>3, <3>2 DEF NoProc
    <3>4. SameCwds
      BY <1>3, <3>1, <3>3 DEF SameCwds
    <3> QED
      BY <1>4, <2>3, <3>4, Zenon
  <2> QED
    BY <2>1, <2>2, <2>3, Zenon
<1>12. CASE th' = [th EXCEPT ![p] = [NewThread EXCEPT !.pc = "exit"]] /\ proc' = proc
  <2>1. PICK u : u = [NewThread EXCEPT !.pc = "exit"]
    OBVIOUS
  <2>2. u.ip = 0 /\ u.at = 0
    BY <2>1 DEF NewThread
  <2>3. th' = [th EXCEPT ![p] = u] /\ SameCwds
    BY <1>2, <1>12, <2>1, LastingIs
  <2> QED
    BY <1>2, <1>b, <2>2, <2>3, LiveRests
<1> QED
  BY <1>5, <1>6, <1>7, <1>8, <1>9, <1>10, <1>11, <1>12, Zenon DEF Call

\* The first process runs in the root directory, and no call is under way.
LEMMA InitLive ==
  ASSUME Init
  PROVE  LiveInv
<1>1. NamesInv
  BY InitNames
<1>2. PICK t : t = NewThread
  OBVIOUS
<1>3. t.ip = 0 /\ t.at = 0
  BY <1>2 DEF NewThread
<1>4. ASSUME NEW q \in Proc PROVE LiveIn(inode, th[q], proc[q].cwd)
  <2>1. th[q] = t
    BY <1>2 DEF Init
  <2>2. proc[q].cwd = 0 \/ proc[q].cwd = ROOTINO
    BY DEF Init, NoProc
  <2> QED
    BY <1>1, <1>3, <2>1, <2>2 DEF NamesInv, LiveIn, Live
<1> QED
  BY <1>4, LiveIs

\* Every step keeps LiveInv, unless a call strays.
LEMMA NextLives ==
  ASSUME IndInv, NamesInv, NoStray, LiveInv, [FilesNext]_vars
  PROVE  LiveInv'
<1>1. ASSUME NEW p \in Proc, Kernel(p) PROVE LiveInv'
  <2>1. ~Strays(th[p])
    BY DEF NoStray
  <2>2. CASE Iput(p) \/ Drop(p) \/ Namex(p) \/ Write(p) \/ Exit(p)
    BY <2>1, <2>2, IputLive, DropLive, NamexLive, WriteLive, ExitLive, Zenon
  <2>3. CASE Open(p) \/ Read(p) \/ Fstat(p) \/ Made(p) \/ UnlinkCount(p) \/ UnlinkBad(p) \/ LinkBad(p) \/ Exec(p)
    BY <2>3, ReturningLive, Zenon
  <2>4. CASE CreateExisting(p) \/ CreateKeep(p) \/ CreateNew(p)
    BY <2>1, <2>4, CreateOldLive, CreateNewLive, Zenon
  <2>5. CASE \/ UnlinkFind(p) \/ UnlinkErase(p) \/ LinkCount(p) \/ LinkEntry(p) \/ LinkExists(p)
             \/ ChdirCheck(p) \/ ChdirSet(p)
    BY <2>5, UnlinkLive, LinkLive, ChdirLive, Zenon
  <2> QED
    BY <1>1, <2>2, <2>3, <2>4, <2>5, Zenon DEF Kernel
<1>2. CASE FilesNext
  BY <1>1, <1>2, CallLive, Zenon DEF FilesNext
<1>3. CASE UNCHANGED vars
  <2>1. inode' = inode /\ proc' = proc /\ th' = th
    BY <1>3 DEF vars
  <2> QED
    BY <2>1 DEF LiveInv, InUse
<1> QED
  BY <1>2, <1>3

\* What a call locks next is then in use.
LEMMA LiveChecks ==
  ASSUME IndInv, NamesInv, LiveInv
  PROVE  ChecksHold
<1>1. ASSUME NEW p \in Proc, NEW i, i = NextLock(p), i # 0, th[p].puts = <<>>
      PROVE  inode[i].type # "free"
  <2>1. PICK t : t = th[p]
    OBVIOUS
  <2>2. Shape /\ Kinds(t) /\ Uses(t, proc[p]) /\ LiveIn(inode, t, proc[p].cwd)
    BY <2>1, LiveIs DEF IndInv, ThreadsInv
  <2>3. i \in {t.at, t.ip, t.dp} \/ (t.pc \in {"read", "write", "fstat"} /\ i = ftable[t.f].ip)
    BY <1>1, <2>1 DEF NextLock
  <2>4. CASE i \in {t.at, t.ip}
    BY <1>1, <2>2, <2>4 DEF LiveIn, Live
  <2>5. CASE i = t.dp
    BY <1>1, <2>2, <2>5 DEF Kinds
  <2>6. CASE t.pc \in {"read", "write", "fstat"} /\ i = ftable[t.f].ip
    <3>1. t.f \in 1..NFILE
      BY <2>2, <2>6 DEF Uses
    <3> QED
      BY <1>1, <2>6, <3>1 DEF IndInv, FilesInv
  <2> QED
    BY <2>3, <2>4, <2>5, <2>6
<1>2. ASSUME NEW p \in Proc, NEW i, i = NextLock(p), th[p].puts = <<>>, th[p].pc = "unlink2"
      PROVE  inode[i].nlink >= 1
  <2>1. i = th[p].ip
    BY <1>2 DEF NextLock
  <2>2. PICK d, k : d = th[p].dp /\ k = Find(th[p].dp, Head(th[p].path))
    OBVIOUS
  <2>3. Names(inode, d, k, th[p].ip)
    BY <1>2, <2>2, FoundEntry
  <2> QED
    BY <2>1, <2>3, NamedCounted DEF IndInv
<1> QED
  BY <1>1, <1>2 DEF ChecksHold

\* The kernel's own checks hold, whatever programs run, as long as no call looks
\* ".." up in a removed directory whose parent is gone too: ilock() meets no
\* free inode (fs.c, "ilock: no type") and unlink() none without links
\* (sysfile.c, "unlink: nlink < 1").
THEOREM ChecksHoldUnlessStray == FilesSpec /\ []NoStray => []ChecksHold
<1>1. Init => LiveInv
  BY InitLive
<1>2. IndInv /\ NamesInv /\ NoStray /\ LiveInv /\ [FilesNext]_vars => LiveInv'
  BY NextLives
<1>3. IndInv /\ NamesInv /\ LiveInv => ChecksHold
  BY LiveChecks
<1> QED
  BY <1>1, <1>2, <1>3, Invariance, NamesInvariance, PTL DEF FilesSpec
============================================================================
