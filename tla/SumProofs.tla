------------------------------ MODULE SumProofs -----------------------------
(***************************************************************************)
(* What the folds of the community modules compute, for every finite set:  *)
(* the sum of a function, and how it changes with the function and with    *)
(* the set; how a set is counted by classes, and how many the first n of a *)
(* strict total order are.  The inductions are by minimal counterexample,  *)
(* through the well-foundedness of < on Nat and of strict inclusion on the *)
(* subsets of a finite set (WFMin).                                        *)
(***************************************************************************)
EXTENDS Integers, FiniteSetsExt, Functions, FiniteSetTheorems, WellFoundedInduction, TLAPS

-----------------------------------------------------------------------------
(* Minimal elements.                                                       *)

\* A nonempty set of naturals has a smallest element.
LEMMA SmallestNat ==
    ASSUME NEW T \in SUBSET Nat, T # {}
    PROVE  \E n \in T : \A m \in T : n <= m
<1> DEFINE R == OpToRel(<, Nat)
<1>1. \A m, n \in Nat : m < n => <<m, n>> \in R
  BY DEF OpToRel
<1>2. IsWellFoundedOn(R, Nat)
  BY NatLessThanWellFounded
<1> HIDE DEF R
<1>3. PICK n \in T : \A m \in T : ~(<<m, n>> \in R)
  BY <1>2, WFMin
<1>4. ASSUME NEW m \in T PROVE n <= m
  <2>1. m \in Nat /\ n \in Nat /\ ~(m < n)
    BY <1>1, <1>3
  <2>. QED BY <2>1
<1>. QED BY <1>4

\* A nonempty set of subsets of a finite set has an element without a smaller one.
LEMMA SmallestSet ==
    ASSUME NEW S, IsFiniteSet(S), NEW T \in SUBSET (SUBSET S), T # {}
    PROVE  \E s \in T : \A r \in T : r \subseteq s => r = s
<1>1. T \subseteq FiniteSubsetsOf(S)
  BY FS_Subset DEF FiniteSubsetsOf
<1>2. PICK s \in T : \A r \in T : ~(<<r, s>> \in StrictSubsetOrdering(S))
  <2> HIDE DEF FiniteSubsetsOf, StrictSubsetOrdering
  <2>. QED BY <1>1, FS_StrictSubsetOrderingWellFounded, WFMin
<1>3. ASSUME NEW r \in T, r \subseteq s PROVE r = s
  BY <1>2, <1>3 DEF StrictSubsetOrdering
<1>. QED BY <1>3

-----------------------------------------------------------------------------
(* Sums over finite sets.                                                  *)

\* The element that the fold of the community modules takes out of a set first.
Chosen(s) == CHOOSE x \in s : TRUE

\* One step of the fold: the sum of h over s, if f holds the sums of smaller sets.
Unfolded(h, f, s) == IF s = {} THEN 0 ELSE h[Chosen(s)] + f[s \ {Chosen(s)}]

\* The sums of h over all subsets of S: what MapThenSumSet computes.
SumOf(h, S) == CHOOSE f : f = [s \in SUBSET S |-> Unfolded(h, f, s)]

\* A nonempty set gets smaller by its chosen element.
LEMMA ChosenSmaller ==
    ASSUME NEW S, IsFiniteSet(S), NEW s \in SUBSET S, s # {}
    PROVE  /\ Chosen(s) \in s /\ Chosen(s) \in S
           /\ s \ {Chosen(s)} \in SUBSET S /\ s \ {Chosen(s)} # s
           /\ Cardinality(s) \in Nat
           /\ Cardinality(s \ {Chosen(s)}) = Cardinality(s) - 1
<1>1. Chosen(s) \in s
  BY DEF Chosen
<1>2. IsFiniteSet(s)
  BY FS_Subset
<1>. QED BY <1>1, <1>2, FS_CardinalityType, FS_RemoveElement

\* The sums exist: they are built up by the size of the set.
LEMMA SumExists ==
    ASSUME NEW S, IsFiniteSet(S), NEW h
    PROVE  \E f : f = [s \in SUBSET S |-> Unfolded(h, f, s)]
<1> DEFINE Upto(n) == {s \in SUBSET S : Cardinality(s) <= n}
           Built(g, n) == \A s \in Upto(n) : g[s] = Unfolded(h, g, s)
           T == {n \in Nat : ~\E g : Built(g, n)}
<1>0. \A s \in SUBSET S : Cardinality(s) \in Nat
  BY FS_Subset, FS_CardinalityType
<1>1. T = {}
  <2>1. SUFFICES ASSUME T # {} PROVE FALSE
    OBVIOUS
  <2>2. PICK n \in T : \A m \in T : n <= m
    <3> HIDE DEF T
    <3>1. T \in SUBSET Nat
      BY DEF T
    <3>. QED BY <2>1, <3>1, SmallestNat
  <2>3. CASE n = 0
    <3> DEFINE g == [s \in SUBSET S |-> 0]
    <3>1. ASSUME NEW s \in Upto(0) PROVE s = {}
      <4>1. SUFFICES ASSUME s # {} PROVE FALSE
        OBVIOUS
      <4>2. Cardinality(s) = 0 /\ Cardinality(s \ {Chosen(s)}) = Cardinality(s) - 1
        BY <4>1, <1>0, ChosenSmaller
      <4>3. Cardinality(s \ {Chosen(s)}) \in Nat
        BY <1>0
      <4>. QED BY <4>2, <4>3
    <3>2. Built(g, 0)
      BY <3>1 DEF Unfolded
    <3>. QED BY <2>3, <3>2
  <2>4. CASE n # 0
    <3>1. n - 1 \in Nat /\ n - 1 \notin T
      BY <2>2, <2>4
    <3>2. PICK g : Built(g, n - 1)
      BY <3>1
    <3> DEFINE G == [s \in SUBSET S |-> Unfolded(h, g, s)]
    <3>3. ASSUME NEW s \in Upto(n) PROVE G[s] = Unfolded(h, G, s)
      <4>1. CASE s = {}
        BY <4>1 DEF Unfolded
      <4>2. CASE s # {}
        <5> DEFINE r == s \ {Chosen(s)}
        <5>1. r \in Upto(n - 1)
          BY <4>2, <1>0, ChosenSmaller
        <5>2. G[r] = g[r]
          BY <5>1, <3>2
        <5>. QED BY <4>2, <5>2 DEF Unfolded
      <4>. QED BY <4>1, <4>2
    <3>. QED BY <3>3
  <2>. QED BY <2>3, <2>4
<1>2. Cardinality(S) \in Nat /\ \A s \in SUBSET S : s \in Upto(Cardinality(S))
  BY FS_Subset, FS_CardinalityType
<1>3. PICK g : Built(g, Cardinality(S))
  BY <1>1, <1>2
<1> DEFINE f == [s \in SUBSET S |-> g[s]]
<1>4. ASSUME NEW s \in SUBSET S PROVE f[s] = Unfolded(h, f, s)
  <2>1. f[s] = Unfolded(h, g, s)
    BY <1>2, <1>3
  <2>. QED BY <2>1, ChosenSmaller DEF Unfolded
<1>5. f = [s \in SUBSET S |-> Unfolded(h, f, s)]
  BY <1>4
<1>. QED BY <1>5

\* The sums unfold, element by element, and are numbers; h may be defined elsewhere too.
LEMMA SumUnfoldsIn ==
    ASSUME NEW S, IsFiniteSet(S), NEW h, \A x \in S : h[x] \in Int
    PROVE  \A s \in SUBSET S : SumOf(h, S)[s] = Unfolded(h, SumOf(h, S), s) /\ SumOf(h, S)[s] \in Int
<1> DEFINE f == SumOf(h, S)
<1>1. f = [s \in SUBSET S |-> Unfolded(h, f, s)]
  BY SumExists DEF SumOf
<1> HIDE DEF f
<1>2. \A s \in SUBSET S : f[s] = Unfolded(h, f, s)
  BY <1>1
<1> DEFINE T == {s \in SUBSET S : f[s] \notin Int}
<1>3. T = {}
  <2>0. SUFFICES ASSUME T # {} PROVE FALSE
    OBVIOUS
  <2>1. PICK s \in T : \A r \in T : r \subseteq s => r = s
    <3>1. T \in SUBSET (SUBSET S)
      OBVIOUS
    <3> HIDE DEF T
    <3>2. IsFiniteSet(S) /\ T # {}
      BY <2>0
    <3>. QED BY <3>1, <3>2, SmallestSet
  <2>2. s # {}
    <3>1. f[{}] = 0
      BY <1>2 DEF Unfolded
    <3>. QED BY <3>1
  <2>3. f[s \ {Chosen(s)}] \in Int /\ h[Chosen(s)] \in Int
    <3>1. Chosen(s) \in s /\ Chosen(s) \in S /\ s \ {Chosen(s)} \in SUBSET S /\ s \ {Chosen(s)} # s
      BY <2>2, ChosenSmaller
    <3>. QED BY <2>1, <3>1
  <2>4. f[s] = h[Chosen(s)] + f[s \ {Chosen(s)}]
    BY <1>2, <2>2 DEF Unfolded
  <2>5. f[s] \in Int
    BY <2>3, <2>4
  <2>. QED BY <2>5
<1>. QED BY <1>2, <1>3 DEF f

\* The same for a function on S.
LEMMA SumUnfolds ==
    ASSUME NEW S, IsFiniteSet(S), NEW h \in [S -> Int]
    PROVE  \A s \in SUBSET S : SumOf(h, S)[s] = Unfolded(h, SumOf(h, S), s) /\ SumOf(h, S)[s] \in Int
<1>1. \A x \in S : h[x] \in Int
  OBVIOUS
<1>. QED BY <1>1, SumUnfoldsIn

\* A sum of two functions that is nowhere above the sum of two others is not above
\* it in total.
LEMMA SumMonotone ==
    ASSUME NEW S, IsFiniteSet(S), NEW a \in [S -> Int], NEW b \in [S -> Int], NEW c \in [S -> Int],
           NEW d \in [S -> Int], \A j \in S : a[j] + b[j] <= c[j] + d[j]
    PROVE  SumOf(a, S)[S] + SumOf(b, S)[S] <= SumOf(c, S)[S] + SumOf(d, S)[S]
<1> DEFINE A == SumOf(a, S)
           B == SumOf(b, S)
           C == SumOf(c, S)
           D == SumOf(d, S)
<1>1. \A s \in SUBSET S : /\ A[s] = Unfolded(a, A, s) /\ A[s] \in Int
                             /\ B[s] = Unfolded(b, B, s) /\ B[s] \in Int
                             /\ C[s] = Unfolded(c, C, s) /\ C[s] \in Int
                             /\ D[s] = Unfolded(d, D, s) /\ D[s] \in Int
  BY SumUnfolds
<1> HIDE DEF A, B, C, D
<1> DEFINE T == {s \in SUBSET S : ~(A[s] + B[s] <= C[s] + D[s])}
<1>2. T = {}
  <2>0. SUFFICES ASSUME T # {} PROVE FALSE
    OBVIOUS
  <2>1. PICK s \in T : \A r \in T : r \subseteq s => r = s
    <3>1. T \in SUBSET (SUBSET S)
      OBVIOUS
    <3> HIDE DEF T
    <3>2. IsFiniteSet(S) /\ T # {}
      BY <2>0
    <3>. QED BY <3>1, <3>2, SmallestSet
  <2>2. s # {}
    <3>1. A[{}] = 0 /\ B[{}] = 0 /\ C[{}] = 0 /\ D[{}] = 0
      BY <1>1 DEF Unfolded
    <3>2. A[{}] + B[{}] <= C[{}] + D[{}]
      BY <3>1
    <3>. QED BY <3>2
  <2> DEFINE x == Chosen(s)
             r == s \ {x}
  <2>3. x \in S /\ r \in SUBSET S /\ A[r] + B[r] <= C[r] + D[r]
    <3>1. x \in s /\ x \in S /\ r \in SUBSET S /\ r # s
      BY <2>2, ChosenSmaller
    <3>. QED BY <2>1, <3>1
  <2>4. A[s] = a[x] + A[r] /\ B[s] = b[x] + B[r] /\ C[s] = c[x] + C[r] /\ D[s] = d[x] + D[r]
    BY <1>1, <2>2 DEF Unfolded
  <2> HIDE DEF x, r
  <2>5. /\ a[x] \in Int /\ b[x] \in Int /\ c[x] \in Int /\ d[x] \in Int
        /\ A[r] \in Int /\ B[r] \in Int /\ C[r] \in Int /\ D[r] \in Int
        /\ a[x] + b[x] <= c[x] + d[x]
    BY <1>1, <2>3
  <2>. QED BY <2>3, <2>4, <2>5
<1>. QED BY <1>2 DEF A, B, C, D

\* A function that changes at one element only changes its sum by as much.
LEMMA SumChanges ==
    ASSUME NEW S, IsFiniteSet(S), NEW a \in [S -> Int], NEW b \in [S -> Int], NEW j \in S,
           \A k \in S \ {j} : a[k] = b[k]
    PROVE  SumOf(a, S)[S] = SumOf(b, S)[S] + (a[j] - b[j])
<1> DEFINE A == SumOf(a, S)
           B == SumOf(b, S)
           Due(s) == IF j \in s THEN a[j] - b[j] ELSE 0
<1>1. \A s \in SUBSET S : /\ A[s] = Unfolded(a, A, s) /\ A[s] \in Int
                             /\ B[s] = Unfolded(b, B, s) /\ B[s] \in Int
  BY SumUnfolds
<1> HIDE DEF A, B
<1> DEFINE T == {s \in SUBSET S : A[s] # B[s] + Due(s)}
<1>2. T = {}
  <2>0. SUFFICES ASSUME T # {} PROVE FALSE
    OBVIOUS
  <2>1. PICK s \in T : \A r \in T : r \subseteq s => r = s
    <3>1. T \in SUBSET (SUBSET S)
      OBVIOUS
    <3> HIDE DEF T
    <3>2. IsFiniteSet(S) /\ T # {}
      BY <2>0
    <3>. QED BY <3>1, <3>2, SmallestSet
  <2>2. s # {}
    <3>1. A[{}] = 0 /\ B[{}] = 0 /\ Due({}) = 0
      BY <1>1 DEF Unfolded
    <3>2. A[{}] = B[{}] + Due({})
      BY <3>1
    <3>3. A[s] # B[s] + Due(s)
      BY <2>1
    <3> HIDE DEF Due
    <3>. QED BY <3>2, <3>3
  <2> DEFINE x == Chosen(s)
             r == s \ {x}
  <2>3. x \in S /\ x \in s /\ r \in SUBSET S /\ A[r] = B[r] + Due(r)
    <3>1. x \in s /\ x \in S /\ r \in SUBSET S /\ r # s
      BY <2>2, ChosenSmaller
    <3>. QED BY <2>1, <3>1
  <2>4. A[s] = a[x] + A[r] /\ B[s] = b[x] + B[r]
    BY <1>1, <2>2 DEF Unfolded
  <2>5. /\ x = j => Due(s) = a[j] - b[j] /\ Due(r) = 0
        /\ x # j => Due(s) = Due(r) /\ a[x] = b[x]
    BY <2>3
  <2>6. Due(s) \in Int /\ Due(r) \in Int
    OBVIOUS
  <2>7. a[x] \in Int /\ b[x] \in Int /\ A[r] \in Int /\ B[r] \in Int
    BY <1>1, <2>3
  <2>8. A[s] # B[s] + Due(s)
    BY <2>1
  <2> HIDE DEF x, r, Due
  <2>. QED BY <2>3, <2>4, <2>5, <2>6, <2>7, <2>8
<1>. QED BY <1>2 DEF A, B

\* A sum of zeros is zero.
LEMMA SumZero == ASSUME NEW S, IsFiniteSet(S) PROVE SumOf([j \in S |-> 0], S)[S] = 0
<1> DEFINE z == [j \in S |-> 0]
           Z == SumOf(z, S)
<1>1. z \in [S -> Int] /\ \A j \in S : z[j] = 0
  OBVIOUS
<1> HIDE DEF z
<1>2. \A s \in SUBSET S : Z[s] = Unfolded(z, Z, s) /\ Z[s] \in Int
  BY <1>1, SumUnfolds
<1> HIDE DEF Z
<1> DEFINE T == {s \in SUBSET S : Z[s] # 0}
<1>3. T = {}
  <2>0. SUFFICES ASSUME T # {} PROVE FALSE
    OBVIOUS
  <2>1. PICK s \in T : \A r \in T : r \subseteq s => r = s
    <3>1. T \in SUBSET (SUBSET S)
      OBVIOUS
    <3> HIDE DEF T
    <3>2. IsFiniteSet(S) /\ T # {}
      BY <2>0
    <3>. QED BY <3>1, <3>2, SmallestSet
  <2>2. s # {}
    <3>1. Z[{}] = 0
      BY <1>2 DEF Unfolded
    <3>. QED BY <3>1
  <2>3. Z[s \ {Chosen(s)}] = 0 /\ z[Chosen(s)] = 0
    <3>1. Chosen(s) \in s /\ Chosen(s) \in S /\ s \ {Chosen(s)} \in SUBSET S /\ s \ {Chosen(s)} # s
      BY <2>2, ChosenSmaller
    <3>. QED BY <1>1, <2>1, <3>1
  <2>4. Z[s] = z[Chosen(s)] + Z[s \ {Chosen(s)}] /\ Z[s] # 0
    BY <1>2, <2>2 DEF Unfolded
  <2>. QED BY <2>3, <2>4
<1>. QED BY <1>3 DEF Z, z

\* A sum may be taken apart at any element.
LEMMA SumAny ==
    ASSUME NEW S, IsFiniteSet(S), NEW h \in [S -> Int], NEW s \in SUBSET S, NEW x \in s
    PROVE  SumOf(h, S)[s] = h[x] + SumOf(h, S)[s \ {x}]
<1> DEFINE H == SumOf(h, S)
           T == {t \in SUBSET S : \E y \in t : H[t] # h[y] + H[t \ {y}]}
<1>1. \A t \in SUBSET S : H[t] = Unfolded(h, H, t) /\ H[t] \in Int
  BY SumUnfolds
<1> HIDE DEF H
<1>2. T = {}
  <2>0. SUFFICES ASSUME T # {} PROVE FALSE
    OBVIOUS
  <2>1. PICK t \in T : \A r \in T : r \subseteq t => r = t
    <3>1. T \in SUBSET (SUBSET S)
      OBVIOUS
    <3> HIDE DEF T
    <3>2. IsFiniteSet(S) /\ T # {}
      BY <2>0
    <3>. QED BY <3>1, <3>2, SmallestSet
  <2>2. PICK y \in t : H[t] # h[y] + H[t \ {y}]
    BY <2>1
  <2> DEFINE z == Chosen(t)
             r == t \ {y, z}
  <2>3. z \in t /\ H[t] = h[z] + H[t \ {z}] /\ z # y
    <3>1. z \in t /\ H[t] = h[z] + H[t \ {z}]
      BY <1>1, <2>1, <2>2, ChosenSmaller DEF Unfolded
    <3>. QED BY <2>2, <3>1
  <2> HIDE DEF z
  <2>4. H[t \ {z}] = h[y] + H[r]
    <3>1. t \ {z} \in SUBSET S /\ t \ {z} # t /\ y \in t \ {z} /\ (t \ {z}) \ {y} = r
      BY <2>1, <2>2, <2>3
    <3>2. t \ {z} \notin T
      BY <2>1, <3>1
    <3>. QED BY <3>1, <3>2
  <2>5. H[t \ {y}] = h[z] + H[r]
    <3>1. t \ {y} \in SUBSET S /\ t \ {y} # t /\ z \in t \ {y} /\ (t \ {y}) \ {z} = r
      BY <2>1, <2>2, <2>3
    <3>2. t \ {y} \notin T
      BY <2>1, <3>1
    <3>. QED BY <3>1, <3>2
  <2>6. h[y] \in Int /\ h[z] \in Int /\ H[r] \in Int
    BY <1>1, <2>1, <2>2, <2>3
  <2> HIDE DEF r
  <2>. QED BY <2>2, <2>3, <2>4, <2>5, <2>6
<1>. QED BY <1>2 DEF H

\* A sum of natural numbers does not get smaller with its set.
LEMMA SumGrows ==
    ASSUME NEW S, IsFiniteSet(S), NEW h \in [S -> Nat], NEW s \in SUBSET S, NEW t \in SUBSET S, s \subseteq t
    PROVE  SumOf(h, S)[s] <= SumOf(h, S)[t]
<1> DEFINE H == SumOf(h, S)
           T == {u \in SUBSET S : s \subseteq u /\ ~(H[s] <= H[u])}
<1>0. h \in [S -> Int]
  OBVIOUS
<1>1. \A u \in SUBSET S : H[u] \in Int
  BY <1>0, SumUnfolds
<1>2. \A u \in SUBSET S : \A y \in u : H[u] = h[y] + H[u \ {y}]
  BY <1>0, SumAny
<1> HIDE DEF H
<1>3. T = {}
  <2>0. SUFFICES ASSUME T # {} PROVE FALSE
    OBVIOUS
  <2>1. PICK u \in T : \A r \in T : r \subseteq u => r = u
    <3>1. T \in SUBSET (SUBSET S)
      OBVIOUS
    <3> HIDE DEF T
    <3>2. IsFiniteSet(S) /\ T # {}
      BY <2>0
    <3>. QED BY <3>1, <3>2, SmallestSet
  <2>2. u # s
    BY <1>1, <2>1
  <2>3. PICK y \in u : y \notin s
    BY <2>1, <2>2
  <2> DEFINE r == u \ {y}
  <2>4. r \in SUBSET S /\ s \subseteq r /\ r # u /\ r \subseteq u
    BY <2>1, <2>3
  <2>5. H[s] <= H[r]
    BY <2>1, <2>4
  <2>6. H[u] = h[y] + H[r] /\ h[y] \in Nat /\ H[r] \in Int /\ H[s] \in Int /\ ~(H[s] <= H[u])
    BY <1>1, <1>2, <2>1, <2>3, <2>4
  <2> HIDE DEF r
  <2>. QED BY <2>5, <2>6
<1>. QED BY <1>3 DEF H

\* The sums over the prefixes of a sequence of natural numbers.
LEMMA SumPrefix ==
    ASSUME NEW n \in Nat, NEW h \in [1..n -> Nat], NEW B, B = SumOf(h, 1..n)
    PROVE  /\ B[1..0] = 0
           /\ \A k \in 0..n : B[1..k] \in Int /\ B[1..k] <= B[1..n]
           /\ \A k \in 1..n : h[k] \in Nat /\ B[1..k] = B[1..(k - 1)] + h[k]
<1> DEFINE D == 1..n
<1>0. IsFiniteSet(D)
  BY FS_Interval
<1>1. h \in [D -> Int] /\ h \in [D -> Nat] /\ B = SumOf(h, D)
  OBVIOUS
<1>2. \A k \in 0..n : 1..k \in SUBSET D
  OBVIOUS
<1>3. \A k \in 1..n : k \in D /\ k \in 1..k /\ (1..k) \ {k} = 1..(k - 1) /\ k - 1 \in 0..n /\ k \in 0..n
  OBVIOUS
<1>4. 1..0 = {} /\ D = 1..n /\ n \in 0..n
  OBVIOUS
<1> HIDE DEF D
<1>5. \A s \in SUBSET D : B[s] \in Int /\ B[s] = Unfolded(h, B, s)
  BY <1>0, <1>1, SumUnfolds
<1>6. \A s \in SUBSET D : \A x \in s : B[s] = h[x] + B[s \ {x}]
  <2>1. h \in [D -> Int]
    BY <1>1
  <2>2. \A s \in SUBSET D : \A x \in s : SumOf(h, D)[s] = h[x] + SumOf(h, D)[s \ {x}]
    BY <1>0, <2>1, SumAny
  <2>. QED BY <1>1, <2>2
<1>7. \A s, t \in SUBSET D : s \subseteq t => B[s] <= B[t]
  BY <1>0, <1>1, SumGrows
<1>8. B[1..0] = 0
  BY <1>4, <1>5 DEF Unfolded
<1>9. ASSUME NEW k \in 0..n PROVE B[1..k] \in Int /\ B[1..k] <= B[1..n]
  BY <1>2, <1>4, <1>5, <1>7
<1>10. ASSUME NEW k \in 1..n PROVE h[k] \in Nat /\ B[1..k] = B[1..(k - 1)] + h[k]
  <2>1. k \in D /\ k \in 1..k /\ 1..k \in SUBSET D /\ (1..k) \ {k} = 1..(k - 1) /\ 1..(k - 1) \in SUBSET D
    BY <1>2, <1>3
  <2>2. h[k] \in Nat /\ B[1..(k - 1)] \in Int
    BY <1>1, <1>5, <2>1
  <2>3. B[1..k] = h[k] + B[1..(k - 1)]
    BY <1>6, <2>1
  <2>. QED BY <2>2, <2>3
<1>. QED BY <1>8, <1>9, <1>10

\* The classes of a finite set add up to the set.
LEMMA SumClasses ==
    ASSUME NEW S, IsFiniteSet(S), NEW I, IsFiniteSet(I), NEW f \in [I -> S],
           NEW h, \A s \in S : h[s] = Cardinality({i \in I : f[i] = s})
    PROVE  SumOf(h, S)[S] = Cardinality(I)
<1> DEFINE H == SumOf(h, S)
           Of(t) == {i \in I : f[i] \in t}
           T == {t \in SUBSET S : H[t] # Cardinality(Of(t))}
<1>0. \A t : IsFiniteSet(Of(t)) /\ Cardinality(Of(t)) \in Nat
  BY FS_Subset, FS_CardinalityType
<1>1. \A x \in S : h[x] \in Int /\ h[x] = Cardinality({i \in I : f[i] = x})
  <2>1. ASSUME NEW x \in S PROVE Cardinality({i \in I : f[i] = x}) \in Nat
    BY FS_Subset, FS_CardinalityType
  <2>2. ASSUME NEW x \in S PROVE h[x] = Cardinality({i \in I : f[i] = x})
    OBVIOUS
  <2>. QED BY <2>1, <2>2
<1>2. \A t \in SUBSET S : H[t] = Unfolded(h, H, t) /\ H[t] \in Int
  BY <1>1, SumUnfoldsIn
<1> HIDE DEF H
<1>3. T = {}
  <2>0. SUFFICES ASSUME T # {} PROVE FALSE
    OBVIOUS
  <2>1. PICK t \in T : \A r \in T : r \subseteq t => r = t
    <3>1. T \in SUBSET (SUBSET S)
      OBVIOUS
    <3> HIDE DEF T
    <3>2. IsFiniteSet(S) /\ T # {}
      BY <2>0
    <3>. QED BY <3>1, <3>2, SmallestSet
  <2>2. t # {}
    <3>1. H[{}] = 0
      BY <1>2 DEF Unfolded
    <3>2. Of({}) = {}
      OBVIOUS
    <3>3. Cardinality(Of({})) = 0
      BY <3>2, FS_EmptySet
    <3>. QED BY <2>1, <3>1, <3>3
  <2> DEFINE x == Chosen(t)
             r == t \ {x}
             X == {i \in I : f[i] = x}
  <2>3. x \in t /\ x \in S /\ r \in SUBSET S /\ H[r] = Cardinality(Of(r))
    <3>1. x \in t /\ x \in S /\ r \in SUBSET S /\ r # t
      BY <2>2, ChosenSmaller
    <3>. QED BY <2>1, <3>1
  <2>4. H[t] = h[x] + H[r] /\ h[x] = Cardinality(X)
    BY <1>1, <1>2, <2>2, <2>3 DEF Unfolded
  <2>5. Of(t) = X \cup Of(r) /\ X \cap Of(r) = {} /\ IsFiniteSet(X)
    <3>1. Of(t) = X \cup Of(r) /\ X \cap Of(r) = {}
      BY <2>3
    <3>2. X \in SUBSET I
      OBVIOUS
    <3>. QED BY <3>1, <3>2, FS_Subset
  <2>6. Cardinality(Of(t)) = Cardinality(X) + Cardinality(Of(r)) /\ Cardinality(X) \in Nat
    <3> DEFINE O == Of(r)
    <3>1. IsFiniteSet(O) /\ Cardinality(O) \in Nat /\ Cardinality(X) \in Nat /\ Cardinality({}) = 0
      BY <1>0, <2>5, FS_CardinalityType, FS_EmptySet
    <3>2. X \cup O = Of(t) /\ X \cap O = {}
      BY <2>5
    <3> HIDE DEF O, X, Of
    <3>3. Cardinality(X \cup O) = Cardinality(X) + Cardinality(O) - Cardinality(X \cap O)
      BY <2>5, <3>1, FS_Union
    <3>4. Cardinality(X \cup O) = Cardinality(Of(t)) /\ Cardinality(X \cap O) = 0
      BY <3>1, <3>2
    <3>5. Cardinality(Of(t)) = Cardinality(X) + Cardinality(O)
      BY <3>1, <3>3, <3>4
    <3>. QED BY <3>1, <3>5 DEF O
  <2>7. H[t] # Cardinality(Of(t))
    BY <2>1
  <2>. QED BY <2>3, <2>4, <2>6, <2>7
<1>4. Of(S) = I
  OBVIOUS
<1>. QED BY <1>3, <1>4 DEF H

\* The first n of a finite set in a strict total order, given by the predecessors P[i] of each
\* element: there are no more than n, and no fewer unless all are taken.
LEMMA FirstOfOrder ==
    ASSUME NEW E, IsFiniteSet(E), NEW n \in Nat, NEW P \in [E -> SUBSET E],
           \A i \in E : i \notin P[i],
           \A i \in E : \A j \in E : i # j => i \in P[j] \/ j \in P[i],
           \A i \in E : \A j \in E : i \in P[j] => P[i] \subseteq P[j],
           NEW C, C = {i \in E : Cardinality(P[i]) < n}
    PROVE  /\ IsFiniteSet(C) /\ Cardinality(C) \in Nat /\ Cardinality(C) <= n
           /\ C # E => Cardinality(C) = n
<1> DEFINE rank == [i \in E |-> Cardinality(P[i])]
<1>1. \A i \in E : IsFiniteSet(P[i]) /\ rank[i] \in Nat /\ rank[i] = Cardinality(P[i]) /\ P[i] \in SUBSET E
  BY FS_Subset, FS_CardinalityType
<1>2. ASSUME NEW i \in E, NEW j \in E, i \in P[j] PROVE rank[i] < rank[j]
  <2>1. P[i] \in SUBSET P[j] /\ i \in P[j] /\ i \notin P[i]
    BY <1>2
  <2>2. Cardinality(P[i]) <= Cardinality(P[j]) /\ Cardinality(P[j]) # Cardinality(P[i])
    <3> DEFINE A == P[i]
               B == P[j]
    <3>1. IsFiniteSet(B) /\ A \in SUBSET B /\ A # B
      BY <1>1, <2>1
    <3> HIDE DEF A, B
    <3>2. Cardinality(A) <= Cardinality(B) /\ Cardinality(B) # Cardinality(A)
      BY <3>1, FS_Subset
    <3>. QED BY <3>2 DEF A, B
  <2>3. rank[i] = Cardinality(P[i]) /\ rank[j] = Cardinality(P[j]) /\ rank[i] \in Nat /\ rank[j] \in Nat
    BY <1>1
  <2> HIDE DEF rank
  <2>. QED BY <2>2, <2>3
<1> HIDE DEF rank
<1>3. C = {i \in E : rank[i] < n}
  BY <1>1
<1>4. IsFiniteSet(C) /\ Cardinality(C) \in Nat /\ C \subseteq E
  BY <1>3, FS_Subset, FS_CardinalityType
<1>5. Cardinality(C) <= n
  <2> DEFINE f == [i \in C |-> rank[i]]
             D == 0..(n - 1)
  <2>1. f \in [C -> D] /\ \A i, j \in C : f[i] = f[j] => i = j
    <3>1. f \in [C -> D]
      BY <1>1, <1>3
    <3>2. ASSUME NEW i \in C, NEW j \in C, i # j PROVE f[i] # f[j]
      <4>1. i \in E /\ j \in E /\ rank[i] \in Nat /\ rank[j] \in Nat /\ f[i] = rank[i] /\ f[j] = rank[j]
        BY <1>1, <1>4
      <4>2. rank[i] < rank[j] \/ rank[j] < rank[i]
        BY <1>2, <3>2, <4>1
      <4>. QED BY <4>1, <4>2
    <3>. QED BY <3>1, <3>2
  <2>2. IsFiniteSet(D) /\ Cardinality(D) = n
    BY FS_Interval
  <2> HIDE DEF f, D
  <2>3. f \in Injection(C, D)
    BY <2>1 DEF Injection, IsInjective
  <2>. QED BY <2>2, <2>3, FS_Injection
<1>6. ASSUME C # E PROVE Cardinality(C) = n
  <2> DEFINE T == {rank[i] : i \in E \ C}
  <2>1. T \in SUBSET Nat /\ T # {}
    <3>1. E \ C # {} /\ \A i \in E \ C : rank[i] \in Nat
      BY <1>1, <1>4, <1>6
    <3>2. PICK i \in E \ C : TRUE
      BY <3>1
    <3>3. rank[i] \in T
      BY <3>2
    <3>4. ASSUME NEW t \in T PROVE t \in Nat
      <4>1. PICK k \in E \ C : t = rank[k]
        OBVIOUS
      <4>. QED BY <3>1, <4>1
    <3>. QED BY <3>3, <3>4
  <2>2. PICK m \in T : \A k \in T : m <= k
    <3> HIDE DEF T
    <3>. QED BY <2>1, SmallestNat
  <2>3. PICK i \in E \ C : rank[i] = m
    BY <2>2
  <2>4. P[i] \in SUBSET C
    <3>1. SUFFICES ASSUME NEW j \in P[i], j \notin C PROVE FALSE
      OBVIOUS
    <3>2. rank[j] < rank[i] /\ rank[j] \in T
      BY <1>2, <2>3, <3>1
    <3>3. rank[i] <= rank[j] /\ rank[i] \in Nat /\ rank[j] \in Nat
      BY <1>1, <2>2, <2>3, <3>1, <3>2
    <3>. QED BY <3>2, <3>3
  <2>5. Cardinality(P[i]) <= Cardinality(C)
    BY <1>4, <2>4, FS_Subset
  <2>6. rank[i] >= n /\ rank[i] = Cardinality(P[i]) /\ rank[i] \in Nat
    BY <1>1, <1>3, <2>3
  <2>. QED BY <1>4, <1>5, <2>5, <2>6
<1>. QED BY <1>4, <1>5, <1>6
=============================================================================
