----------------------------- MODULE ProofLemmas -----------------------------
(***************************************************************************)
(* Induction over the naturals and over finite sets in a form that the     *)
(* provers can use, some arithmetic with products and quotients, what the  *)
(* operators on sequences do, and sums over finite sets.                   *)
(***************************************************************************)
EXTENDS Integers, Sequences, FiniteSets, FiniteSetsExt, Functions,
        FiniteSetTheorems, WellFoundedInduction, TLAPS

(* Every set of naturals that is not empty has a least element.            *)
LEMMA LeastNat ==
  ASSUME NEW S, S \subseteq Nat, S # {}
  PROVE  \E m \in S : \A k \in S : m <= k
<1> DEFINE R == {ss \in Nat \X Nat : ss[1] < ss[2]}
<1>1. IsWellFoundedOn(R, Nat)
  BY NatLessThanWellFounded DEF OpToRel
<1> HIDE DEF R
<1>2. PICK m \in S : \A y \in S : ~ (<<y, m>> \in R)
  BY <1>1, WFMin
<1>3. \A y \in S : ~(y < m)
  BY <1>2 DEF R
<1>. QED BY <1>3

(* Induction, with the set of the numbers that have the property.          *)
LEMMA NatSetInduction ==
  ASSUME NEW S, 0 \in S, \A n \in Nat : n \in S => n + 1 \in S
  PROVE  Nat \subseteq S
<1>1. SUFFICES ASSUME Nat \ S # {} PROVE FALSE
  OBVIOUS
<1>2. PICK m \in Nat \ S : \A k \in Nat \ S : m <= k
  BY <1>1, LeastNat
<1>3. m # 0 /\ m - 1 \in Nat /\ m - 1 \in S
  BY <1>2
<1>. QED BY <1>2, <1>3

(* The least element of a set of naturals that is not empty.                 *)
LEMMA MinIs ==
  ASSUME NEW S, S \subseteq Nat, S # {}
  PROVE  Min(S) \in S /\ \A x \in S : Min(S) <= x
BY LeastNat DEF Min

-----------------------------------------------------------------------------
(* Products of natural numbers are monotonic.                                *)
LEMMA MulMono ==
  ASSUME NEW x \in Nat, NEW y \in Nat, NEW d \in Nat, x <= y
  PROVE  x * d <= y * d
<1> DEFINE e == y - x
<1>1. e \in Nat /\ y = x + e OBVIOUS
<1> HIDE DEF e
<1>2. y * d = x * d + e * d /\ e * d \in Nat /\ x * d \in Nat BY <1>1
<1> QED BY <1>2

(* The quotient is the number of whole multiples.                            *)
LEMMA DivIs ==
  ASSUME NEW a \in Nat, NEW d \in Nat \ {0}, NEW b \in Nat
  PROVE  a \div d = b <=> b * d <= a /\ a < (b + 1) * d
<1> DEFINE k == a \div d
<1>1. k \in Nat /\ k * d <= a /\ a < (k + 1) * d
  OBVIOUS
<1> HIDE DEF k
<1>2. k < b => (k + 1) * d <= b * d BY <1>1, MulMono
<1>3. b < k => (b + 1) * d <= k * d BY <1>1, MulMono
<1> QED BY <1>1, <1>2, <1>3 DEF k

(* Division with remainder.                                                  *)
LEMMA DivMod ==
  ASSUME NEW a \in Nat, NEW d \in Nat \ {0}
  PROVE  a \div d \in Nat /\ a % d \in 0..d - 1 /\ a = (a \div d) * d + (a % d)
<1>1. \A x \in Nat, y \in Nat : y > 0 => x = (x \div y) * y + (x % y) OBVIOUS
<1>2. a \div d \in Nat /\ a % d \in 0..d - 1 OBVIOUS
<1>3. d \in Nat /\ d > 0 OBVIOUS
<1>4. a = (a \div d) * d + (a % d) BY <1>1, <1>3
<1> QED BY <1>2, <1>4

(* What is at most m multiples has a quotient of at most m.                  *)
LEMMA DivBound ==
  ASSUME NEW a \in Nat, NEW d \in Nat \ {0}, NEW m \in Nat, a <= m * d
  PROVE  a \div d \in 0..m
<1> DEFINE k == a \div d
<1>1. k \in Nat /\ k * d <= a
  OBVIOUS
<1> HIDE DEF k
<1>2. m < k => (m + 1) * d <= k * d BY <1>1, MulMono
<1>3. (m + 1) * d = m * d + d /\ m * d \in Nat /\ k * d \in Nat BY <1>1
<1> QED BY <1>1, <1>2, <1>3 DEF k

(* A remainder in range determines the quotient.                             *)
LEMMA DivModIs ==
  ASSUME NEW d \in Nat \ {0}, NEW c \in Nat, NEW m \in 0..d - 1, NEW a, a = c * d + m
  PROVE  a \in Nat /\ a \div d = c /\ a % d = m
<1>1. a \in Nat /\ c * d \in Nat OBVIOUS
<1>2. c * d <= a /\ a < (c + 1) * d BY <1>1
<1>3. a \div d = c BY <1>1, <1>2, DivIs
<1>4. PICK x \in 0..d - 1 : x = a % d /\ a = c * d + x BY <1>1, <1>3, DivMod
<1> QED BY <1>1, <1>3, <1>4

-----------------------------------------------------------------------------
(* A sequence is a function on the numbers up to its length.                 *)
LEMMA LenIs ==
  ASSUME NEW S, NEW s \in Seq(S)
  PROVE  /\ Len(s) \in Nat /\ DOMAIN s = 1 .. Len(s) /\ s \in [1 .. Len(s) -> S]
         /\ s # <<>> => Len(s) > 0
OBVIOUS

(* The empty sequence.                                                       *)
LEMMA EmptyIs ==
  ASSUME NEW S
  PROVE  <<>> \in Seq(S) /\ Len(<<>>) = 0
OBVIOUS

(* One sequence after another.                                               *)
LEMMA ConcatIs ==
  ASSUME NEW S, NEW s \in Seq(S), NEW t \in Seq(S)
  PROVE  /\ s \o t \in Seq(S) /\ Len(s \o t) = Len(s) + Len(t)
         /\ \A i \in 1 .. Len(s) + Len(t) :
              (s \o t)[i] = IF i <= Len(s) THEN s[i] ELSE t[i - Len(s)]
OBVIOUS

(* One more element.                                                         *)
LEMMA AppendIs ==
  ASSUME NEW S, NEW s \in Seq(S), NEW e \in S
  PROVE  /\ Append(s, e) \in Seq(S) /\ Len(Append(s, e)) = Len(s) + 1
         /\ Append(s, e)[Len(s) + 1] = e
         /\ \A i \in 1 .. Len(s) : Append(s, e)[i] = s[i]
OBVIOUS

(* A part of a sequence.                                                     *)
LEMMA SubSeqIs ==
  ASSUME NEW S, NEW s, NEW m \in Int, NEW n \in Int, \A i \in m .. n : s[i] \in S
  PROVE  /\ SubSeq(s, m, n) \in Seq(S)
         /\ Len(SubSeq(s, m, n)) = IF m <= n THEN n - m + 1 ELSE 0
         /\ \A i \in 1 .. n - m + 1 : SubSeq(s, m, n)[i] = s[m + i - 1]
OBVIOUS

Some(s) == CHOOSE x \in s : TRUE

SumBody(f, g, s) == IF s = {} THEN 0 ELSE f[Some(s)] + g[s \ {Some(s)}]

IsSum(f, S, g) == g = [s \in SUBSET S |-> SumBody(f, g, s)]

(* The sum of the community modules is the value of such a function.         *)
LEMMA SumDef == \A f, S : SumFunctionOnSet(f, S) = (CHOOSE g : IsSum(f, S, g))[S]
BY DEF SumFunctionOnSet, FoldFunctionOnSet, MapThenFoldSet, IsSum, SumBody, Some

(* The element taken out is in the set, and the rest has one element less.   *)
LEMMA Removed ==
  ASSUME NEW s, IsFiniteSet(s), s # {}
  PROVE  /\ Some(s) \in s
         /\ \A x \in s : Cardinality(s \ {x}) = Cardinality(s) - 1
<1>1. Some(s) \in s BY DEF Some
<1>2. \A x \in s : Cardinality(s \ {x}) = Cardinality(s) - 1
  BY FS_RemoveElement
<1> QED BY <1>1, <1>2

(* There is such a function, by induction over the size of the subsets.      *)
LEMMA SumExists ==
  ASSUME NEW f, NEW S, IsFiniteSet(S)
  PROVE  IsSum(f, S, CHOOSE g : IsSum(f, S, g))
<1> DEFINE T(n) == {t \in SUBSET S : Cardinality(t) <= n}
           P == {n \in Nat : \E g : g = [s \in T(n) |-> SumBody(f, g, s)]}
<1>0. \A t \in SUBSET S : IsFiniteSet(t) /\ Cardinality(t) \in Nat /\ (Cardinality(t) = 0 <=> t = {})
  BY FS_Subset, FS_CardinalityType, FS_EmptySet
<1>1. 0 \in P
  <2> DEFINE g == [s \in T(0) |-> 0]
  <2>1. T(0) = {{}}
    BY <1>0
  <2>2. g = [s \in T(0) |-> SumBody(f, g, s)]
    BY <2>1 DEF SumBody
  <2> QED BY <2>2
<1>2. ASSUME NEW n \in Nat, n \in P PROVE n + 1 \in P
  <2>1. PICK g : g = [s \in T(n) |-> SumBody(f, g, s)]
    BY <1>2
  <2> DEFINE h == [s \in T(n + 1) |-> SumBody(f, g, s)]
  <2>2. \A s \in T(n) : s \in T(n + 1) /\ h[s] = g[s]
    <3>1. T(n) \subseteq T(n + 1) BY <1>0
    <3> QED BY <3>1, <2>1
  <2>3. ASSUME NEW s \in T(n + 1) PROVE h[s] = SumBody(f, h, s)
    <3>1. CASE s = {} BY <3>1 DEF SumBody
    <3>2. CASE s # {}
      <4>1. s \ {Some(s)} \in T(n)
        BY <3>2, <1>0, Removed
      <4>2. h[s \ {Some(s)}] = g[s \ {Some(s)}] BY <4>1, <2>2
      <4> QED BY <4>2 DEF SumBody
    <3> QED BY <3>1, <3>2
  <2>4. h = [s \in T(n + 1) |-> SumBody(f, h, s)] BY <2>3
  <2> HIDE DEF h, T
  <2> QED BY <2>4
<1>3. Nat \subseteq P
  <2> HIDE DEF P
  <2> QED BY <1>1, <1>2, NatSetInduction
<1>4. PICK g : g = [s \in T(Cardinality(S)) |-> SumBody(f, g, s)]
  <2>1. Cardinality(S) \in Nat BY FS_CardinalityType
  <2> QED BY <1>3, <2>1
<1>5. T(Cardinality(S)) = SUBSET S
  BY FS_Subset
<1>6. IsSum(f, S, g) BY <1>4, <1>5 DEF IsSum
<1> QED BY <1>6

(* Two such functions agree where both are defined, and have values in Int.  *)
LEMMA SumUnique ==
  ASSUME NEW f, NEW e, NEW S, NEW T, IsFiniteSet(S), IsFiniteSet(T),
         NEW U, U \subseteq S, U \subseteq T, \A x \in U : f[x] = e[x] /\ f[x] \in Int,
         NEW g, NEW h, IsSum(f, S, g), IsSum(e, T, h)
  PROVE  \A s \in SUBSET U : g[s] = h[s] /\ g[s] \in Int
<1> DEFINE P == {n \in Nat : \A s \in SUBSET U : Cardinality(s) = n => g[s] = h[s] /\ g[s] \in Int}
<1>0. \A s \in SUBSET U : /\ IsFiniteSet(s) /\ Cardinality(s) \in Nat /\ (Cardinality(s) = 0 <=> s = {})
                          /\ s \in SUBSET S /\ s \in SUBSET T
  BY FS_Subset, FS_CardinalityType, FS_EmptySet
<1>1. 0 \in P
  <2>1. g[{}] = 0 /\ h[{}] = 0
    BY DEF IsSum, SumBody
  <2> QED BY <2>1, <1>0
<1>2. ASSUME NEW n \in Nat, n \in P PROVE n + 1 \in P
  <2>1. ASSUME NEW s \in SUBSET U, Cardinality(s) = n + 1 PROVE g[s] = h[s] /\ g[s] \in Int
    <3> DEFINE x == Some(s)
    <3>1. s # {}
      BY <2>1, <1>0
    <3>2. x \in s /\ s \ {x} \in SUBSET U /\ Cardinality(s \ {x}) = n
      BY <3>1, <2>1, <1>0, Removed
    <3>3. g[s \ {x}] = h[s \ {x}] /\ g[s \ {x}] \in Int
      BY <3>2, <1>2
    <3>4. g[s] = f[x] + g[s \ {x}]
      BY <3>1, <1>0 DEF IsSum, SumBody
    <3>5. h[s] = e[x] + h[s \ {x}]
      BY <3>1, <1>0 DEF IsSum, SumBody
    <3> QED BY <3>2, <3>3, <3>4, <3>5
  <2> QED BY <2>1
<1>3. Nat \subseteq P
  <2> HIDE DEF P
  <2> QED BY <1>1, <1>2, NatSetInduction
<1> QED BY <1>0, <1>3

(* Sums of functions that agree on a set are equal, and are integers.        *)
LEMMA SumCongruent ==
  ASSUME NEW S, IsFiniteSet(S), NEW f, NEW e, \A x \in S : f[x] = e[x] /\ f[x] \in Int
  PROVE  SumFunctionOnSet(f, S) = SumFunctionOnSet(e, S) /\ SumFunctionOnSet(f, S) \in Int
<1> DEFINE g == CHOOSE k : IsSum(f, S, k)
           h == CHOOSE k : IsSum(e, S, k)
<1>1. IsSum(f, S, g) /\ IsSum(e, S, h) BY SumExists
<1>2. SumFunctionOnSet(f, S) = g[S] /\ SumFunctionOnSet(e, S) = h[S] BY SumDef
<1> HIDE DEF g, h
<1>3. g[S] = h[S] /\ g[S] \in Int BY <1>1, SumUnique
<1> QED BY <1>2, <1>3

(* The sum over no elements is zero.                                         *)
LEMMA SumEmpty == \A f : SumFunctionOnSet(f, {}) = 0
<1> SUFFICES ASSUME NEW f PROVE SumFunctionOnSet(f, {}) = 0 OBVIOUS
<1> DEFINE g == CHOOSE k : IsSum(f, {}, k)
<1>1. IsSum(f, {}, g) BY SumExists, FS_EmptySet
<1>2. SumFunctionOnSet(f, {}) = g[{}] BY SumDef
<1> HIDE DEF g
<1> QED BY <1>1, <1>2 DEF IsSum, SumBody

(* Any element may be taken out of a sum.                                    *)
LEMMA SumRemove ==
  ASSUME NEW S, IsFiniteSet(S), NEW f, \A y \in S : f[y] \in Int, NEW x \in S
  PROVE  SumFunctionOnSet(f, S) = f[x] + SumFunctionOnSet(f, S \ {x})
<1> DEFINE g == CHOOSE k : IsSum(f, S, k)
           h == CHOOSE k : IsSum(f, S \ {x}, k)
           P == {n \in Nat : \A s \in SUBSET S : Cardinality(s) = n => \A y \in s : g[s] = f[y] + g[s \ {y}]}
<1>1. IsFiniteSet(S \ {x}) BY FS_Subset
<1>2. IsSum(f, S, g) /\ IsSum(f, S \ {x}, h) BY <1>1, SumExists
<1>3. SumFunctionOnSet(f, S) = g[S] /\ SumFunctionOnSet(f, S \ {x}) = h[S \ {x}] BY SumDef
<1> HIDE DEF g, h
<1>4. g[S \ {x}] = h[S \ {x}] BY <1>1, <1>2, SumUnique
<1>5. \A s \in SUBSET S : g[s] \in Int BY <1>2, SumUnique
<1>0. \A s \in SUBSET S : IsFiniteSet(s) /\ Cardinality(s) \in Nat /\ (Cardinality(s) = 0 <=> s = {})
  BY FS_Subset, FS_CardinalityType, FS_EmptySet
<1>6. 0 \in P BY <1>0
<1>7. ASSUME NEW n \in Nat, n \in P PROVE n + 1 \in P
  <2>1. ASSUME NEW s \in SUBSET S, Cardinality(s) = n + 1, NEW y \in s
        PROVE  g[s] = f[y] + g[s \ {y}]
    <3> DEFINE z == Some(s)
    <3>0. IsFiniteSet(s) /\ s # {} BY <1>0
    <3>1. z \in s /\ \A u \in s : s \ {u} \in SUBSET S /\ Cardinality(s \ {u}) = n
      BY <2>1, <3>0, Removed
    <3>2. g[s] = f[z] + g[s \ {z}]
      BY <2>1, <1>2 DEF IsSum, SumBody
    <3>3. CASE y = z BY <3>2, <3>3
    <3>4. CASE y # z
      <4>1. g[s \ {z}] = f[y] + g[(s \ {z}) \ {y}]
        BY <3>1, <3>4, <2>1, <1>7
      <4>2. g[s \ {y}] = f[z] + g[(s \ {y}) \ {z}]
        BY <3>1, <3>4, <2>1, <1>7
      <4>3. (s \ {y}) \ {z} = (s \ {z}) \ {y} OBVIOUS
      <4>4. f[y] \in Int /\ f[z] \in Int /\ g[(s \ {z}) \ {y}] \in Int
        BY <3>1, <1>5
      <4>5. g[(s \ {y}) \ {z}] = g[(s \ {z}) \ {y}] BY <4>3
      <4> HIDE DEF z
      <4> QED BY <4>1, <4>2, <4>4, <4>5, <3>2
    <3> QED BY <3>3, <3>4
  <2> QED BY <2>1
<1>8. Nat \subseteq P
  <2> HIDE DEF P
  <2> QED BY <1>6, <1>7, NatSetInduction
<1>9. g[S] = f[x] + g[S \ {x}] BY <1>8, <1>0
<1> QED BY <1>3, <1>4, <1>9

(* A sum of naturals is a natural.                                           *)
LEMMA SumNat ==
  ASSUME NEW S, IsFiniteSet(S), NEW f, \A y \in S : f[y] \in Nat
  PROVE  SumFunctionOnSet(f, S) \in Nat
<1> DEFINE P == {n \in Nat : \A s \in SUBSET S : Cardinality(s) = n => SumFunctionOnSet(f, s) \in Nat}
<1>0. \A s \in SUBSET S : IsFiniteSet(s) /\ Cardinality(s) \in Nat /\ (Cardinality(s) = 0 <=> s = {})
  BY FS_Subset, FS_CardinalityType, FS_EmptySet
<1>1. 0 \in P BY <1>0, SumEmpty
<1>2. ASSUME NEW n \in Nat, n \in P PROVE n + 1 \in P
  <2>1. ASSUME NEW s \in SUBSET S, Cardinality(s) = n + 1 PROVE SumFunctionOnSet(f, s) \in Nat
    <3> DEFINE x == Some(s)
    <3>0. s # {} BY <2>1, <1>0
    <3>1. x \in s /\ s \ {x} \in SUBSET S /\ Cardinality(s \ {x}) = n /\ IsFiniteSet(s)
      BY <2>1, <3>0, <1>0, Removed
    <3> HIDE DEF x
    <3>2. SumFunctionOnSet(f, s \ {x}) \in Nat BY <3>1, <1>2
    <3>3. SumFunctionOnSet(f, s) = f[x] + SumFunctionOnSet(f, s \ {x})
      BY <3>1, <1>0, SumRemove
    <3> QED BY <3>1, <3>2, <3>3
  <2> QED BY <2>1
<1>3. Nat \subseteq P
  <2> HIDE DEF P
  <2> QED BY <1>1, <1>2, NatSetInduction
<1> QED BY <1>0, <1>3

(* A sum of naturals that are at most m is at most m for each.               *)
LEMMA SumBound ==
  ASSUME NEW S, IsFiniteSet(S), NEW f, NEW m \in Nat, \A y \in S : f[y] \in 0..m
  PROVE  SumFunctionOnSet(f, S) \in Nat /\ SumFunctionOnSet(f, S) <= m * Cardinality(S)
<1> DEFINE P == {n \in Nat : \A s \in SUBSET S : Cardinality(s) = n => SumFunctionOnSet(f, s) <= m * n}
<1>0. \A s \in SUBSET S : IsFiniteSet(s) /\ Cardinality(s) \in Nat /\ (Cardinality(s) = 0 <=> s = {})
  BY FS_Subset, FS_CardinalityType, FS_EmptySet
<1>1. 0 \in P
  <2>1. SumFunctionOnSet(f, {}) = 0 /\ m * 0 = 0 BY SumEmpty
  <2> QED BY <2>1, <1>0
<1>2. ASSUME NEW n \in Nat, n \in P PROVE n + 1 \in P
  <2>1. ASSUME NEW s \in SUBSET S, Cardinality(s) = n + 1 PROVE SumFunctionOnSet(f, s) <= m * (n + 1)
    <3> DEFINE x == Some(s)
    <3>0. s # {} BY <2>1, <1>0
    <3>1. x \in s /\ s \ {x} \in SUBSET S /\ Cardinality(s \ {x}) = n /\ IsFiniteSet(s)
      BY <2>1, <3>0, <1>0, Removed
    <3> HIDE DEF x
    <3>2. SumFunctionOnSet(f, s \ {x}) <= m * n BY <3>1, <1>2
    <3>3. SumFunctionOnSet(f, s) = f[x] + SumFunctionOnSet(f, s \ {x})
      BY <3>1, <1>0, SumRemove
    <3>4. SumFunctionOnSet(f, s \ {x}) \in Nat /\ f[x] \in 0..m
      <4>1. IsFiniteSet(s \ {x}) /\ \A y \in s \ {x} : f[y] \in Nat BY <3>1, <1>0
      <4> QED BY <4>1, <3>1, SumNat
    <3>5. PICK t \in Nat : t = SumFunctionOnSet(f, s \ {x}) BY <3>4
    <3>6. m * (n + 1) = m * n + m /\ m * n \in Nat OBVIOUS
    <3> QED BY <3>2, <3>3, <3>4, <3>5, <3>6
  <2> QED BY <2>1
<1>3. Nat \subseteq P
  <2> HIDE DEF P
  <2> QED BY <1>1, <1>2, NatSetInduction
<1>4. \A y \in S : f[y] \in Nat OBVIOUS
<1>5. SumFunctionOnSet(f, S) \in Nat BY <1>4, SumNat
<1> QED BY <1>0, <1>3, <1>5

(* A sum in which one number changes.                                        *)
LEMMA SumChange ==
  ASSUME NEW S, IsFiniteSet(S), NEW f, NEW e, NEW x \in S,
         \A y \in S : f[y] \in Int, e[x] \in Int, \A y \in S \ {x} : e[y] = f[y]
  PROVE  SumFunctionOnSet(e, S) = SumFunctionOnSet(f, S) - f[x] + e[x]
<1>1. IsFiniteSet(S \ {x}) BY FS_RemoveElement
<1>2. SumFunctionOnSet(f, S) = f[x] + SumFunctionOnSet(f, S \ {x})
  BY SumRemove
<1>3. \A y \in S : e[y] \in Int OBVIOUS
<1>4. SumFunctionOnSet(e, S) = e[x] + SumFunctionOnSet(e, S \ {x})
  BY <1>3, SumRemove
<1>5. \A y \in S \ {x} : f[y] = e[y] /\ f[y] \in Int OBVIOUS
<1>6. SumFunctionOnSet(f, S \ {x}) = SumFunctionOnSet(e, S \ {x}) /\ SumFunctionOnSet(f, S \ {x}) \in Int
  BY <1>1, <1>5, SumCongruent
<1>7. PICK t \in Int : t = SumFunctionOnSet(f, S \ {x}) BY <1>6
<1> QED BY <1>2, <1>4, <1>6, <1>7

(* A sum that is as large as it can be.                                      *)
LEMMA SumFull ==
  ASSUME NEW S, IsFiniteSet(S), NEW f, NEW m \in Nat, \A y \in S : f[y] \in 0..m,
         SumFunctionOnSet(f, S) = m * Cardinality(S), NEW x \in S
  PROVE  f[x] = m
<1>1. IsFiniteSet(S \ {x}) /\ Cardinality(S \ {x}) = Cardinality(S) - 1 /\ Cardinality(S) \in Nat
  BY FS_RemoveElement, FS_CardinalityType
<1>2. \A y \in S : f[y] \in Int OBVIOUS
<1>3. SumFunctionOnSet(f, S) = f[x] + SumFunctionOnSet(f, S \ {x})
  BY <1>2, SumRemove
<1>4. \A y \in S \ {x} : f[y] \in 0..m OBVIOUS
<1>5. SumFunctionOnSet(f, S \ {x}) \in Nat /\ SumFunctionOnSet(f, S \ {x}) <= m * Cardinality(S \ {x})
  BY <1>1, <1>4, SumBound
<1>6. PICK t \in Nat : t = SumFunctionOnSet(f, S \ {x}) BY <1>5
<1>7. PICK n \in Nat : n = Cardinality(S) /\ n >= 1 /\ Cardinality(S \ {x}) = n - 1
  <2>1. Cardinality(S \ {x}) \in Nat BY <1>1, FS_CardinalityType
  <2> QED BY <1>1, <2>1
<1>8. PICK p \in Nat : p = m * n /\ m * (n - 1) = p - m BY <1>7
<1>9. f[x] + t = p BY <1>3, <1>6, <1>7, <1>8
<1>10. t <= p - m BY <1>5, <1>6, <1>7, <1>8
<1> QED BY <1>9, <1>10, <1>6, <1>8
=============================================================================
