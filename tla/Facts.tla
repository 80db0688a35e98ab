------------------------------- MODULE Facts -------------------------------
(***************************************************************************)
(* Facts about numbers and finite sets that the proofs of the components   *)
(* share.  Induction is stated for sets of numbers and sets of sets.       *)
(***************************************************************************)
EXTENDS Integers, FiniteSets, FiniteSetsExt, WellFoundedInduction, FiniteSetTheorems, TLAPS

\* Less-than on the naturals is contained in a well-founded relation.
LEMMA LessIsWellFounded ==
  \E R : IsWellFoundedOn(R, Nat) /\ \A x, y \in Nat : y < x => <<y, x>> \in R
<1>1. IsWellFoundedOn(OpToRel(<, Nat), Nat)
  BY NatLessThanWellFounded
<1>2. IsWellFoundedOn({ss \in Nat \X Nat : ss[1] < ss[2]}, Nat)
  BY <1>1, Zenon DEF OpToRel
<1>3. \A x, y \in Nat : y < x => <<y, x>> \in {ss \in Nat \X Nat : ss[1] < ss[2]}
  OBVIOUS
<1> QED
  BY <1>2, <1>3

\* A nonempty set of naturals has a least element.
LEMMA LeastNat ==
  ASSUME NEW T \in SUBSET Nat, T # {}
  PROVE  \E x \in T : \A y \in T : x <= y
<1>1. PICK R : IsWellFoundedOn(R, Nat) /\ \A x, y \in Nat : y < x => <<y, x>> \in R
  BY LessIsWellFounded
<1>2. PICK x \in T : \A y \in T : ~ (<<y, x>> \in R)
  BY <1>1, WFMin
<1>3. ASSUME NEW y \in T PROVE x <= y
  <2>1. x \in Nat /\ y \in Nat
    OBVIOUS
  <2>2. ~(y < x)
    BY <1>1, <1>2, <2>1, Zenon
  <2> QED
    BY <2>1, <2>2
<1> QED
  BY <1>3

\* Induction over the subsets of a finite set, one element at a time.
LEMMA SubsetInduction ==
  ASSUME NEW S, IsFiniteSet(S), NEW P \in SUBSET SUBSET S, {} \in P,
         \A T \in P : \A x \in S \ T : T \cup {x} \in P
  PROVE  S \in P
<1>1. ASSUME (SUBSET S) \ P # {} PROVE FALSE
  <2> DEFINE N == {Cardinality(T) : T \in (SUBSET S) \ P}
  <2>1. N \in SUBSET Nat /\ N # {}
    BY <1>1, FS_Subset, FS_CardinalityType
  <2> HIDE DEF N
  <2>2. PICK n \in N : \A m \in N : n <= m
    BY <2>1, LeastNat
  <2>3. PICK T \in (SUBSET S) \ P : n = Cardinality(T)
    BY DEF N
  <2>4. IsFiniteSet(T) /\ T # {}
    BY <2>3, FS_Subset
  <2>5. PICK x : x \in T
    BY <2>4
  <2>6. Cardinality(T \ {x}) = n - 1 /\ n \in Nat
    BY <2>3, <2>4, <2>5, FS_RemoveElement, FS_CardinalityType
  <2>7. T \ {x} \in P
    BY <2>2, <2>6, <2>3 DEF N
  <2>8. T = (T \ {x}) \cup {x} /\ x \in S \ (T \ {x})
    BY <2>5, <2>3
  <2> QED
    BY <2>7, <2>8, <2>3
<1> QED
  BY <1>1

\* The image of a finite set under a function.
LEMMA FiniteImage ==
  ASSUME NEW S, IsFiniteSet(S), NEW f
  PROVE  IsFiniteSet({f[x] : x \in S}) /\ Cardinality({f[x] : x \in S}) <= Cardinality(S)
<1> DEFINE T == {f[x] : x \in S}
           g == [x \in S |-> f[x]]
<1>1. g \in [S -> T] /\ \A y \in T : \E x \in S : g[x] = y
  OBVIOUS
<1>2. g \in Surjection(S, T)
  BY <1>1, Zenon DEF Surjection
<1> QED
  BY <1>2, FS_Surjection, Zenon

\* The least element of a set, once it is known.
LEMMA MinIs ==
  ASSUME NEW S \in SUBSET Int, NEW m \in S, \A x \in S : m <= x
  PROVE  Min(S) = m
<1>1. Min(S) \in S /\ \A y \in S : Min(S) <= y
  BY DEF Min
<1>2. Min(S) <= m /\ m <= Min(S) /\ Min(S) \in Int /\ m \in Int
  BY <1>1
<1> QED
  BY <1>2

-----------------------------------------------------------------------------
\* Remainders

\* Quotient and remainder.
LEMMA DivMod ==
  ASSUME NEW a \in Int, NEW n \in Nat \ {0}
  PROVE  /\ a % n \in 0 .. n - 1
         /\ a \div n \in Int
         /\ a = n * (a \div n) + (a % n)
  OBVIOUS

\* The remainder is the only one.
LEMMA ModUnique ==
  ASSUME NEW a \in Int, NEW n \in Nat \ {0}, NEW q \in Int, NEW r \in 0 .. n - 1,
         a = n * q + r
  PROVE  a % n = r
  OBVIOUS

\* Multiples of n do not count.
LEMMA ModPlus ==
  ASSUME NEW a \in Int, NEW n \in Nat \ {0}, NEW k \in Int
  PROVE  (a + n * k) % n = a % n
<1>1. PICK q \in Int, r \in 0 .. n - 1 : a = n * q + r
  BY DivMod
<1>2. a % n = r
  BY <1>1, ModUnique
<1>3. a + n * k = n * (q + k) + r
  BY <1>1
<1>4. a + n * k \in Int /\ q + k \in Int
  OBVIOUS
<1> QED
  BY <1>2, <1>3, <1>4, ModUnique

\* Neither do remainders inside a sum.
LEMMA ModSum ==
  ASSUME NEW a \in Int, NEW b \in Int, NEW n \in Nat \ {0}
  PROVE  ((a % n) + b) % n = (a + b) % n
<1>1. PICK q \in Int, r \in 0 .. n - 1 : a = n * q + r
  BY DivMod
<1>2. a % n = r
  BY <1>1, ModUnique
<1>3. a + b = (r + b) + n * q /\ r + b \in Int
  BY <1>1
<1>4. ((r + b) + n * q) % n = (r + b) % n
  BY <1>3, ModPlus
<1> QED
  BY <1>2, <1>3, <1>4

\* Near the range the remainder is the number itself, or one n away from it.
LEMMA ModNear ==
  ASSUME NEW a \in Int, NEW n \in Nat \ {0}
  PROVE  /\ 0 <= a /\ a < n => a % n = a
         /\ n <= a /\ a < n + n => a % n = a - n
         /\ 0 - n <= a /\ a < 0 => a % n = a + n
<1>1. 0 <= a /\ a < n => a % n = a
  <2>1. a = n * 0 + a
    OBVIOUS
  <2> QED
    BY <2>1, ModUnique
<1>2. n <= a /\ a < n + n => a % n = a - n
  <2>1. a = n * 1 + (a - n)
    OBVIOUS
  <2> QED
    BY <2>1, ModUnique
<1>3. 0 - n <= a /\ a < 0 => a % n = a + n
  <2>1. a = n * (0 - 1) + (a + n)
    OBVIOUS
  <2> QED
    BY <2>1, ModUnique
<1> QED
  BY <1>1, <1>2, <1>3

\* The remainder by a multiple of n has the same remainder by n.
LEMMA ModMod ==
  ASSUME NEW a \in Int, NEW n \in Nat \ {0}, NEW m \in Nat \ {0}, m % n = 0
  PROVE  (a % m) % n = a % n
<1>1. PICK k \in Int : m = n * k
  BY DivMod
<1> DEFINE q == a \div m
           r == a % m
<1>2. q \in Int /\ r \in 0 .. m - 1 /\ a = m * q + r
  BY DivMod
<1> HIDE DEF q, r
<1>3. k * q \in Int /\ r \in Int
  BY <1>1, <1>2
<1>4. a = r + n * (k * q)
  BY <1>1, <1>2
<1>5. (r + n * (k * q)) % n = r % n
  BY <1>3, ModPlus
<1> QED
  BY <1>4, <1>5 DEF r
=============================================================================
