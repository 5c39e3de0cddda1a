--------------------------- MODULE UbifsLogProofs ---------------------------
(***************************************************************************)
(* The log never runs out of room, for every size of the log and its LEBs, *)
(* every number of journal heads and every main area.  First the helpers   *)
(* of UbifsLog, then the sizes and types of the log, then LogInv, one      *)
(* lemma for each operation, and the theorems.                             *)
(***************************************************************************)
EXTENDS UbifsLog, ProofLemmas

USE ZenonT(30)

(***************************************************************************)
(* Sets of numbers, and what is at these places of a sequence.             *)
(***************************************************************************)
(* A finite set of numbers that is not empty has a greatest one.           *)
LEMMA MaxIs ==
  ASSUME NEW S, S \subseteq Nat, IsFiniteSet(S), S # {}
  PROVE  Max(S) \in S /\ \A x \in S : x <= Max(S)
<1> DEFINE Top(t) == \E m \in t : \A x \in t : x <= m
           P == {n \in Nat : \A t \in SUBSET S : Cardinality(t) = n + 1 => Top(t)}
<1>0. \A t \in SUBSET S : IsFiniteSet(t) /\ Cardinality(t) \in Nat /\ (Cardinality(t) = 0 <=> t = {})
  BY FS_Subset, FS_CardinalityType, FS_EmptySet
<1>1. 0 \in P
  <2> SUFFICES ASSUME NEW t \in SUBSET S, Cardinality(t) = 1 PROVE Top(t) BY SMTT(30)
  <2>1. PICK x : t = {x} BY <1>0, FS_Singleton
  <2>2. x \in Nat BY <2>1
  <2> QED BY <2>1, <2>2, SMTT(30)
<1>2. \A n \in Nat : n \in P => n + 1 \in P
  <2> SUFFICES ASSUME NEW n \in Nat, n \in P, NEW t \in SUBSET S, Cardinality(t) = n + 1 + 1 PROVE Top(t)
    BY SMTT(30)
  <2>1. PICK y : y \in t BY <1>0, SMTT(30)
  <2>2. Cardinality(t \ {y}) = n + 1 BY <1>0, <2>1, Removed, SMTT(30)
  <2>3. PICK m \in t \ {y} : \A x \in t \ {y} : x <= m BY <2>2
  <2>4. m \in Nat /\ y \in Nat BY <2>1, <2>3
  <2>5. CASE y <= m
    <3>1. \A x \in t : x <= m BY <2>3, <2>5
    <3> QED BY <2>3, <3>1
  <2>6. CASE m < y
    <3>1. \A x \in t : x <= y
      <4> SUFFICES ASSUME NEW x \in t PROVE x <= y OBVIOUS
      <4>1. x \in Nat OBVIOUS
      <4> QED BY <4>1, <2>3, <2>4, <2>6, SMTT(30)
    <3> QED BY <2>1, <3>1
  <2> QED BY <2>4, <2>5, <2>6, SMTT(30)
<1>3. Nat \subseteq P
  <2> HIDE DEF P
  <2> QED BY <1>1, <1>2, NatSetInduction
<1>4. PICK n \in Nat : Cardinality(S) = n + 1
  <2>1. Cardinality(S) \in Nat /\ Cardinality(S) # 0 BY <1>0
  <2>2. Cardinality(S) - 1 \in Nat /\ Cardinality(S) = (Cardinality(S) - 1) + 1 BY <2>1, SMTT(30)
  <2> QED BY <2>2
<1>5. Top(S) BY <1>3, <1>4
<1>6. PICK m \in S : \A x \in S : x <= m BY <1>5
<1>7. \A y \in S : m >= y BY <1>6
<1>8. \A y \in S : Max(S) >= y /\ Max(S) \in S BY <1>7 DEF Max
<1>9. Max(S) \in S BY <1>6, <1>8
<1> QED BY <1>8, <1>9

(* How many elements of S are up to x.                                       *)
Rank(S, x) == Cardinality({y \in S : y <= x})

(* The rank grows with the element.                                          *)
LEMMA RankGrows ==
  ASSUME NEW S, S \subseteq Nat, IsFiniteSet(S), NEW x \in S, NEW y \in S, x < y
  PROVE  Rank(S, x) < Rank(S, y)
<1> DEFINE a == {z \in S : z <= x}
           b == {z \in S : z <= y}
<1>1. IsFiniteSet(b) /\ IsFiniteSet(a) BY FS_Subset
<1>2. a \subseteq b
  <2> SUFFICES ASSUME NEW z \in S, z <= x PROVE z <= y OBVIOUS
  <2>1. x \in Nat /\ y \in Nat /\ z \in Nat OBVIOUS
  <2> QED BY <2>1, SMTT(30)
<1>3. x \in Nat /\ y \in Nat OBVIOUS
<1>4. y \in b /\ y \notin a BY <1>3, SMTT(30)
<1>5. Cardinality(a) \in Nat /\ Cardinality(b) \in Nat BY <1>1, FS_CardinalityType
<1> HIDE DEF a, b
<1>6. Cardinality(a) <= Cardinality(b) /\ Cardinality(a) # Cardinality(b) BY <1>1, <1>2, <1>4, FS_Subset
<1>7. Cardinality(a) < Cardinality(b) BY <1>5, <1>6, SMTT(30)
<1> QED BY <1>7 DEF Rank, a, b

(* Ranks go from one to the number of elements.                              *)
LEMMA RankRange ==
  ASSUME NEW S, S \subseteq Nat, IsFiniteSet(S), NEW x \in S
  PROVE  Rank(S, x) \in 1 .. Cardinality(S)
<1> DEFINE a == {z \in S : z <= x}
<1>1. IsFiniteSet(a) /\ Cardinality(a) <= Cardinality(S) /\ Cardinality(a) \in Nat /\ Cardinality(S) \in Nat
  BY FS_Subset, FS_CardinalityType
<1>2. x \in Nat OBVIOUS
<1>3. x \in a BY <1>2, SMTT(30)
<1> HIDE DEF a
<1>4. Cardinality(a) # 0 BY <1>1, <1>3, FS_EmptySet
<1> QED BY <1>1, <1>4, SMTT(30) DEF Rank, a

(* Every one of these is the rank of an element.                             *)
LEMMA RankHit ==
  ASSUME NEW S, S \subseteq Nat, IsFiniteSet(S), NEW k \in 1 .. Cardinality(S)
  PROVE  \E x \in S : Rank(S, x) = k
<1> DEFINE A == {x \in S : Rank(S, x) >= k}
<1>0. Cardinality(S) \in Nat /\ S # {} BY FS_CardinalityType, FS_EmptySet, SMTT(30)
<1>1. A # {}
  <2>1. Max(S) \in S /\ \A x \in S : x <= Max(S) BY <1>0, MaxIs
  <2>2. {y \in S : y <= Max(S)} = S BY <2>1
  <2>3. Rank(S, Max(S)) = Cardinality(S) BY <2>2 DEF Rank
  <2>4. Rank(S, Max(S)) >= k BY <2>3, <1>0, SMTT(30)
  <2> QED BY <2>1, <2>4
<1>2. PICK x \in A : \A y \in A : x <= y
  <2>1. A \subseteq Nat OBVIOUS
  <2> HIDE DEF A
  <2> QED BY <1>1, <2>1, LeastNat
<1>3. x \in S /\ Rank(S, x) >= k /\ x \in Nat /\ Rank(S, x) \in Nat
  <2>1. x \in S /\ Rank(S, x) >= k /\ x \in Nat OBVIOUS
  <2>2. Rank(S, x) \in 1 .. Cardinality(S) BY <2>1, RankRange
  <2> QED BY <2>1, <2>2, SMTT(30)
<1>4. \A y \in S : y < x => Rank(S, y) < k
  <2> SUFFICES ASSUME NEW y \in S, y < x, ~(Rank(S, y) < k) PROVE FALSE OBVIOUS
  <2>0. Rank(S, y) \in 1 .. Cardinality(S) /\ y \in Nat BY RankRange
  <2>1. Rank(S, y) \in Nat /\ y \in Nat BY <2>0, SMTT(30)
  <2>2. y \in A BY <2>1, SMTT(30)
  <2>3. x <= y BY <2>2, <1>2
  <2> QED BY <2>1, <2>3, <1>3, SMTT(30)
<1> DEFINE B == {y \in S : y <= x} \ {x}
<1> HIDE DEF A
<1>5. IsFiniteSet({y \in S : y <= x}) BY FS_Subset
<1>6. x \in {y \in S : y <= x} BY <1>3, SMTT(30)
<1>7. Cardinality(B) = Rank(S, x) - 1 /\ IsFiniteSet(B) BY <1>5, <1>6, FS_RemoveElement DEF Rank
<1>8. SUFFICES ASSUME Rank(S, x) > k PROVE FALSE BY <1>3, SMTT(30)
<1>9. B # {}
  <2> HIDE DEF B
  <2>1. Cardinality(B) # 0 BY <1>7, <1>8, <1>3, SMTT(30)
  <2> QED BY <1>7, <2>1, FS_EmptySet
<1>10. B \subseteq Nat /\ B \subseteq S /\ \A y \in B : y < x
  <2>1. \A y \in B : y \in S /\ y \in Nat /\ y <= x /\ y # x OBVIOUS
  <2>2. \A y \in B : y < x BY <2>1, <1>3, SMTT(30)
  <2> QED BY <2>1, <2>2
<1>11. Max(B) \in B /\ \A y \in B : y <= Max(B)
  <2> HIDE DEF B
  <2> QED BY <1>7, <1>9, <1>10, MaxIs
<1> DEFINE w == Max(B)
<1>12. w \in S /\ w < x /\ w \in Nat BY <1>10, <1>11
<1>13. {y \in S : y <= w} = B
  <2>1. ASSUME NEW y \in S, y <= w PROVE y \in B
    <3>1. y \in Nat OBVIOUS
    <3>2. y <= x /\ y # x BY <3>1, <2>1, <1>12, <1>3, SMTT(30)
    <3> QED BY <3>2
  <2>2. ASSUME NEW y \in B PROVE y \in S /\ y <= w BY <1>10, <1>11
  <2> HIDE DEF B, w
  <2> QED BY <2>1, <2>2
<1>14. Rank(S, w) = Rank(S, x) - 1
  <2> HIDE DEF B
  <2> QED BY <1>13, <1>7 DEF Rank
<1>15. Rank(S, w) < k BY <1>4, <1>12
<1> QED BY <1>14, <1>15, <1>8, <1>3, SMTT(30)

(* Sorted: every element once, in ascending order.                           *)
LEMMA SortedIs ==
  ASSUME NEW S, S \subseteq Nat, IsFiniteSet(S)
  PROVE  /\ Cardinality(S) \in Nat
         /\ Sorted(S) \in [1 .. Cardinality(S) -> S]
         /\ \A i, j \in 1 .. Cardinality(S) : i < j => Sorted(S)[i] < Sorted(S)[j]
         /\ \A x \in S : \E i \in 1 .. Cardinality(S) : Sorted(S)[i] = x
<1>0. Cardinality(S) \in Nat BY FS_CardinalityType
<1> DEFINE n == Cardinality(S)
           pick(k) == CHOOSE x \in S : Rank(S, x) = k
<1>1. Sorted(S) = [k \in 1 .. n |-> pick(k)] BY DEF Sorted, Rank
<1>2. ASSUME NEW k \in 1 .. n PROVE pick(k) \in S /\ Rank(S, pick(k)) = k
  <2>1. \E x \in S : Rank(S, x) = k BY RankHit
  <2> QED BY <2>1
<1> HIDE DEF n, pick
<1>3. ASSUME NEW x \in S, NEW y \in S, Rank(S, x) = Rank(S, y) PROVE x = y
  <2>1. x \in Nat /\ y \in Nat OBVIOUS
  <2>2. ~(x < y) /\ ~(y < x)
    <3>1. Rank(S, x) \in 1 .. n /\ Rank(S, y) \in 1 .. n BY RankRange DEF n
    <3>2. Rank(S, x) \in Int /\ Rank(S, y) \in Int BY <3>1, SMTT(30)
    <3>3. ASSUME x < y PROVE FALSE
      <4>1. Rank(S, x) < Rank(S, y) BY <3>3, RankGrows
      <4> QED BY <4>1, <3>2, <1>3, SMTT(30)
    <3>4. ASSUME y < x PROVE FALSE
      <4>1. Rank(S, y) < Rank(S, x) BY <3>4, RankGrows
      <4> QED BY <4>1, <3>2, <1>3, SMTT(30)
    <3> QED BY <3>3, <3>4
  <2> QED BY <2>1, <2>2, SMTT(30)
<1>4. ASSUME NEW i \in 1 .. n, NEW j \in 1 .. n, i < j PROVE pick(i) < pick(j)
  <2>1. pick(i) \in S /\ pick(j) \in S /\ Rank(S, pick(i)) = i /\ Rank(S, pick(j)) = j BY <1>2
  <2>2. pick(i) \in Nat /\ pick(j) \in Nat BY <2>1
  <2>3. SUFFICES ASSUME ~(pick(i) < pick(j)) PROVE FALSE OBVIOUS
  <2>4. pick(j) = pick(i) \/ pick(j) < pick(i) BY <2>2, <2>3, SMTT(30)
  <2>5. CASE pick(j) = pick(i) BY <2>1, <2>5, <1>4, SMTT(30)
  <2>6. CASE pick(j) < pick(i)
    <3>1. Rank(S, pick(j)) < Rank(S, pick(i)) BY <2>1, <2>6, RankGrows
    <3> QED BY <3>1, <2>1, <1>4, SMTT(30)
  <2> QED BY <2>4, <2>5, <2>6
<1>5. ASSUME NEW x \in S PROVE \E i \in 1 .. n : Sorted(S)[i] = x
  <2>1. Rank(S, x) \in 1 .. n BY RankRange DEF n
  <2>2. pick(Rank(S, x)) \in S /\ Rank(S, pick(Rank(S, x))) = Rank(S, x) BY <1>2, <2>1
  <2>3. pick(Rank(S, x)) = x BY <1>3, <2>2
  <2>4. Sorted(S)[Rank(S, x)] = x BY <1>1, <2>1, <2>3
  <2> QED BY <2>1, <2>4
<1> QED BY <1>0, <1>1, <1>2, <1>4, <1>5 DEF n

(* What Sub takes out of a sequence are elements of it.                      *)
LEMMA SubType ==
  ASSUME NEW T, NEW s \in Seq(T), NEW S, S \subseteq DOMAIN s
  PROVE  /\ Sub(s, S) \in Seq(T) /\ Len(Sub(s, S)) = Cardinality(S)
         /\ Cardinality(S) \in Nat /\ IsFiniteSet(S) /\ S \subseteq Nat
         /\ \A k \in 1 .. Cardinality(S) : Sub(s, S)[k] = s[Sorted(S)[k]] /\ Sorted(S)[k] \in S
<1>1. DOMAIN s = 1 .. Len(s) /\ Len(s) \in Nat BY LenIs
<1>2. IsFiniteSet(1 .. Len(s)) BY <1>1, FS_Interval, SMTT(30)
<1>3. IsFiniteSet(S) /\ S \subseteq Nat
  <2>1. S \in SUBSET (1 .. Len(s)) BY <1>1
  <2> QED BY <1>2, <2>1, FS_Subset, SMTT(30)
<1>4. Cardinality(S) \in Nat /\ Sorted(S) \in [1 .. Cardinality(S) -> S] BY <1>3, SortedIs
<1>5. \A k \in 1 .. Cardinality(S) : s[Sorted(S)[k]] \in T
  <2>1. \A i \in DOMAIN s : s[i] \in T BY <1>1, SMTT(30)
  <2> QED BY <1>4, <2>1
<1> QED BY <1>3, <1>4, <1>5, SMTT(30) DEF Sub

(* The sequence of the joined prefixes.                                      *)
IsJoin(ss, g) == g = [n \in 0 .. Len(ss) |-> IF n = 0 THEN <<>> ELSE g[n - 1] \o ss[n]]

(* Two sequences are the same up to k.                                       *)
Agree(ss, tt, k) == \A i \in 1 .. k : ss[i] = tt[i]

(* There is such a sequence.                                                 *)
LEMMA JoinExists ==
  ASSUME NEW T, NEW ss \in Seq(Seq(T))
  PROVE  \E g : IsJoin(ss, g)
<1> DEFINE Pre(n, g) == /\ g = [i \in 0 .. n |-> g[i]]
                        /\ \A i \in 0 .. n : g[i] = IF i = 0 THEN <<>> ELSE g[i - 1] \o ss[i]
           Ex(n) == \E g : Pre(n, g)
           P == {n \in Nat : Ex(n)}
<1>0. Len(ss) \in Nat BY LenIs
<1>1. 0 \in P
  <2>1. Pre(0, [i \in 0 .. 0 |-> <<>>]) BY SMTT(30)
  <2> QED BY <2>1
<1>2. \A n \in Nat : n \in P => n + 1 \in P
  <2> HIDE DEF Ex
  <2> SUFFICES ASSUME NEW n \in Nat, n \in P PROVE Ex(n + 1) BY SMTT(30)
  <2>1. PICK g : Pre(n, g) BY DEF Ex
  <2> DEFINE h == [i \in 0 .. n + 1 |-> IF i = n + 1 THEN g[n] \o ss[n + 1] ELSE g[i]]
  <2>2. ASSUME NEW i \in 0 .. n + 1 PROVE h[i] = IF i = 0 THEN <<>> ELSE h[i - 1] \o ss[i]
    <3>1. CASE i = n + 1
      <4>0. n + 1 \in 0 .. n + 1 /\ n \in 0 .. n + 1 /\ n # n + 1 BY SMTT(30)
      <4>1. h[n + 1] = g[n] \o ss[n + 1] /\ h[n] = g[n] BY <4>0
      <4>2. i # 0 /\ i - 1 = n BY <3>1, SMTT(30)
      <4> HIDE DEF h
      <4> QED BY <3>1, <4>1, <4>2
    <3>2. CASE i # n + 1
      <4>1. i \in 0 .. n /\ (i # 0 => i - 1 \in 0 .. n) BY <3>2, SMTT(30)
      <4>2. g[i] = IF i = 0 THEN <<>> ELSE g[i - 1] \o ss[i] BY <2>1, <4>1
      <4>3. h[i] = g[i] /\ (i # 0 => h[i - 1] = g[i - 1]) BY <4>1, <3>2, SMTT(30)
      <4> QED BY <4>2, <4>3
    <3> QED BY <3>1, <3>2
  <2>3. Pre(n + 1, h) BY <2>2
  <2> QED BY <2>3 DEF Ex
<1>3. Nat \subseteq P
  <2> HIDE DEF P
  <2> QED BY <1>1, <1>2, NatSetInduction
<1>4. PICK g : Pre(Len(ss), g)
  <2> HIDE DEF Ex
  <2>1. Ex(Len(ss)) BY <1>0, <1>3
  <2> QED BY <2>1 DEF Ex
<1> QED BY <1>4 DEF IsJoin

(* It depends on the sequences it joins only.                                *)
LEMMA JoinUnique ==
  ASSUME NEW ss, NEW tt, Len(ss) \in Nat, Len(tt) \in Nat, NEW k \in Nat, k <= Len(ss), k <= Len(tt),
         Agree(ss, tt, k), NEW g, NEW h, IsJoin(ss, g), IsJoin(tt, h)
  PROVE  g[k] = h[k]
<1> DEFINE P == {n \in Nat : n <= k => g[n] = h[n]}
<1>1. 0 \in P BY SMTT(30) DEF IsJoin
<1>2. \A n \in Nat : n \in P => n + 1 \in P
  <2> SUFFICES ASSUME NEW n \in Nat, n \in P, n + 1 <= k PROVE g[n + 1] = h[n + 1] BY SMTT(30)
  <2>1. g[n] = h[n] /\ ss[n + 1] = tt[n + 1] BY SMTT(30) DEF Agree
  <2>2. /\ n + 1 \in 0 .. Len(ss) /\ n + 1 \in 0 .. Len(tt) /\ n + 1 # 0 /\ (n + 1) - 1 = n BY SMTT(30)
  <2>3. g[n + 1] = g[(n + 1) - 1] \o ss[n + 1] BY <2>2 DEF IsJoin
  <2>4. h[n + 1] = h[(n + 1) - 1] \o tt[n + 1] BY <2>2 DEF IsJoin
  <2> QED BY <2>1, <2>2, <2>3, <2>4
<1>3. Nat \subseteq P
  <2> HIDE DEF P
  <2> QED BY <1>1, <1>2, NatSetInduction
<1> QED BY <1>3, SMTT(30)

(* Nothing to join.                                                          *)
LEMMA JoinedEmpty ==
  ASSUME NEW T, NEW ss \in Seq(Seq(T)), Len(ss) = 0
  PROVE  Joined(ss) = <<>>
<1>1. PICK g : IsJoin(ss, g) BY JoinExists
<1> DEFINE g0 == CHOOSE g0 : IsJoin(ss, g0)
<1>2. IsJoin(ss, g0) BY <1>1
<1>3. Joined(ss) = g0[Len(ss)] BY DEF Joined, IsJoin
<1> HIDE DEF g0
<1> QED BY <1>2, <1>3, SMTT(30) DEF IsJoin

(* One sequence more.                                                        *)
LEMMA JoinedStep ==
  ASSUME NEW T, NEW ss \in Seq(Seq(T)), NEW tt \in Seq(Seq(T)), Len(tt) = Len(ss) + 1,
         \A i \in 1 .. Len(ss) : tt[i] = ss[i]
  PROVE  Joined(tt) = Joined(ss) \o tt[Len(tt)]
<1> DEFINE g == CHOOSE g : IsJoin(ss, g)
           h == CHOOSE h : IsJoin(tt, h)
<1>0. Len(ss) \in Nat /\ Len(tt) \in Nat BY LenIs
<1>1. (\E x : IsJoin(ss, x)) /\ \E x : IsJoin(tt, x) BY JoinExists
<1>2. IsJoin(ss, g) /\ IsJoin(tt, h) BY <1>1
<1>3. Joined(ss) = g[Len(ss)] /\ Joined(tt) = h[Len(tt)] BY DEF Joined, IsJoin
<1> HIDE DEF g, h
<1>4. g[Len(ss)] = h[Len(ss)]
  <2>0. Len(ss) <= Len(ss) /\ Len(ss) <= Len(tt) BY <1>0, SMTT(30)
  <2>1. PICK k \in Nat : k = Len(ss) /\ k <= Len(ss) /\ k <= Len(tt) BY <1>0, <2>0
  <2>2. Agree(ss, tt, k) BY <2>1 DEF Agree
  <2>3. g[k] = h[k] BY <1>0, <1>2, <2>1, <2>2, JoinUnique, SMTT(30)
  <2> QED BY <2>1, <2>3
<1>5. Len(tt) \in 0 .. Len(tt) /\ Len(tt) # 0 /\ Len(tt) - 1 = Len(ss) BY <1>0, SMTT(30)
<1>6. h[Len(tt)] = h[Len(tt) - 1] \o tt[Len(tt)] BY <1>2, <1>5 DEF IsJoin
<1> QED BY <1>3, <1>4, <1>5, <1>6

(* The type and the length of what is joined.                                *)
LEMMA JoinedType ==
  ASSUME NEW T, NEW c \in Nat, NEW ss \in Seq(Seq(T)), \A i \in 1 .. Len(ss) : Len(ss[i]) <= c
  PROVE  /\ Joined(ss) \in Seq(T) /\ Len(Joined(ss)) <= Len(ss) * c
         /\ Len(ss) > 0 /\ Len(ss[1]) < c => Len(Joined(ss)) < Len(ss) * c
<1> DEFINE Fit(s) == \A i \in 1 .. Len(s) : Len(s[i]) <= c
           OK(s, n) == /\ Joined(s) \in Seq(T) /\ Len(Joined(s)) <= n * c
                       /\ n > 0 /\ Len(s[1]) < c => Len(Joined(s)) < n * c
           All(n) == \A s \in Seq(Seq(T)) : Len(s) = n /\ Fit(s) => OK(s, n)
           P == {n \in Nat : All(n)}
<1>1. 0 \in P
  <2> SUFFICES ASSUME NEW s \in Seq(Seq(T)), Len(s) = 0 PROVE OK(s, 0) OBVIOUS
  <2>1. Joined(s) = <<>> BY JoinedEmpty
  <2>2. <<>> \in Seq(T) /\ Len(<<>>) = 0 /\ 0 * c = 0 BY EmptyIs, SMTT(30)
  <2> QED BY <2>1, <2>2, SMTT(30)
<1>2. \A n \in Nat : n \in P => n + 1 \in P
  <2> HIDE DEF Fit, OK, All
  <2> SUFFICES ASSUME NEW n \in Nat, All(n) PROVE All(n + 1) BY SMTT(30)
  <2> SUFFICES ASSUME NEW s \in Seq(Seq(T)), Len(s) = n + 1, Fit(s) PROVE OK(s, n + 1) BY DEF All
  <2> DEFINE r == [i \in 1 .. n |-> s[i]]
  <2>1. /\ \A i \in 1 .. n : r[i] = s[i]
        /\ \A i \in 1 .. n + 1 : s[i] \in Seq(T) /\ Len(s[i]) \in Nat /\ Len(s[i]) <= c
    <3>1. \A i \in 1 .. n + 1 : s[i] \in Seq(T) BY LenIs
    <3>2. \A i \in 1 .. n + 1 : Len(s[i]) \in Nat BY <3>1, LenIs
    <3> QED BY <3>1, <3>2 DEF Fit
  <2>2. r \in Seq(Seq(T)) /\ Len(r) = n BY <2>1, SMTT(30)
  <2> HIDE DEF r
  <2>3. Fit(r) BY <2>1, <2>2, SMTT(30) DEF Fit
  <2>4. OK(r, n) BY <2>2, <2>3 DEF All
  <2>5. Joined(s) = Joined(r) \o s[n + 1] BY <2>1, <2>2, JoinedStep
  <2>6. n + 1 \in 1 .. n + 1 /\ 1 \in 1 .. n + 1 BY SMTT(30)
  <2>7. PICK a \in Nat, b \in Nat, m \in Nat :
          /\ a = Len(Joined(r)) /\ b = Len(s[n + 1]) /\ m = n * c /\ b <= c
          /\ Joined(s) \in Seq(T) /\ Len(Joined(s)) = a + b /\ a <= m
    <3>1. Joined(r) \in Seq(T) /\ Len(Joined(r)) <= n * c BY <2>4 DEF OK
    <3>2. s[n + 1] \in Seq(T) /\ Len(s[n + 1]) \in Nat /\ Len(s[n + 1]) <= c BY <2>1, <2>6
    <3>3. Len(Joined(r)) \in Nat BY <3>1, LenIs
    <3>4. Joined(s) \in Seq(T) /\ Len(Joined(s)) = Len(Joined(r)) + Len(s[n + 1])
      BY <2>5, <3>1, <3>2, ConcatIs
    <3>5. n * c \in Nat BY SMTT(30)
    <3> QED BY <3>1, <3>2, <3>3, <3>4, <3>5
  <2>8. (n + 1) * c = m + c BY <2>7, SMTT(30)
  <2>9. ASSUME Len(s[1]) < c PROVE a + b < m + c
    <3>1. CASE n = 0
      <4>1. b < c BY <2>7, <2>9, <3>1, SMTT(30)
      <4> QED BY <4>1, <2>7, SMTT(30)
    <3>2. CASE n > 0
      <4>1. r[1] = s[1] BY <2>1, <3>2, SMTT(30)
      <4>2. a < m BY <2>4, <2>7, <2>9, <3>2, <4>1 DEF OK
      <4> QED BY <4>2, <2>7, SMTT(30)
    <3> QED BY <3>1, <3>2, SMTT(30)
  <2> QED BY <2>7, <2>8, <2>9, SMTT(30) DEF OK
<1>3. Nat \subseteq P
  <2> HIDE DEF P
  <2> QED BY <1>1, <1>2, NatSetInduction
<1>4. Len(ss) \in Nat BY LenIs
<1>5. All(Len(ss))
  <2> HIDE DEF All
  <2> QED BY <1>3, <1>4
<1> QED BY <1>5

(* A sum in two parts: g of every element, and what is missing for the       *)
(* elements of T.                                                            *)
LEMMA SumSplit ==
  ASSUME NEW S, IsFiniteSet(S), NEW T, T \subseteq S, NEW f, NEW g, NEW h,
         \A x \in S : f[x] \in Int /\ g[x] \in Int,
         \A x \in T : h[x] = f[x] - g[x],
         \A x \in S \ T : f[x] = g[x]
  PROVE  SumFunctionOnSet(f, S) = SumFunctionOnSet(g, S) + SumFunctionOnSet(h, T)
<1> DEFINE Eq(s) == SumFunctionOnSet(f, s) = SumFunctionOnSet(g, s) + SumFunctionOnSet(h, s \cap T)
           P == {n \in Nat : \A s \in SUBSET S : Cardinality(s) = n => Eq(s)}
<1>0. \A s \in SUBSET S : /\ IsFiniteSet(s) /\ Cardinality(s) \in Nat /\ (Cardinality(s) = 0 <=> s = {})
                          /\ IsFiniteSet(s \cap T)
  BY FS_Subset, FS_CardinalityType, FS_EmptySet
<1>1. 0 \in P
  <2> SUFFICES ASSUME NEW s \in SUBSET S, Cardinality(s) = 0 PROVE Eq(s) OBVIOUS
  <2>1. s = {} /\ s \cap T = {} BY <1>0
  <2> QED BY <2>1, SumEmpty, SMTT(30)
<1>2. \A n \in Nat : n \in P => n + 1 \in P
  <2> HIDE DEF Eq
  <2> SUFFICES ASSUME NEW n \in Nat, n \in P, NEW s \in SUBSET S, Cardinality(s) = n + 1 PROVE Eq(s)
    BY SMTT(30)
  <2>a. n + 1 # 0 /\ n + 1 - 1 = n BY SMTT(30)
  <2>b. IsFiniteSet(s) /\ s # {} BY <1>0, <2>a
  <2>1. PICK x : x \in s BY <2>b
  <2> DEFINE s1 == s \ {x}
  <2>2. Cardinality(s1) = n /\ s1 \in SUBSET S BY <2>a, <2>b, <2>1, Removed, SMTT(30)
  <2>3. Eq(s1) BY <2>2
  <2>4. /\ SumFunctionOnSet(f, s) = f[x] + SumFunctionOnSet(f, s1)
        /\ SumFunctionOnSet(g, s) = g[x] + SumFunctionOnSet(g, s1)
    <3>1. \A y \in s : f[y] \in Int /\ g[y] \in Int OBVIOUS
    <3> QED BY <1>0, <2>1, <3>1, SumRemove
  <2>5. f[x] \in Int /\ g[x] \in Int BY <2>1
  <2>6. /\ SumFunctionOnSet(f, s1) \in Int /\ SumFunctionOnSet(g, s1) \in Int
        /\ SumFunctionOnSet(h, s1 \cap T) \in Int
    <3>1. \A y \in s1 : f[y] = f[y] /\ f[y] \in Int /\ g[y] = g[y] /\ g[y] \in Int BY <2>2
    <3>2. \A y \in s1 \cap T : h[y] = h[y] /\ h[y] \in Int BY <2>2, SMTT(30)
    <3> HIDE DEF s1
    <3> QED BY <1>0, <2>2, <3>1, <3>2, SumCongruent
  <2>7. CASE x \in T
    <3>1. x \in s \cap T /\ (s \cap T) \ {x} = s1 \cap T BY <2>1, <2>7
    <3>2. \A y \in s \cap T : h[y] \in Int BY SMTT(30)
    <3>3. SumFunctionOnSet(h, s \cap T) = h[x] + SumFunctionOnSet(h, s1 \cap T)
      <4>1. IsFiniteSet(s \cap T) BY <1>0
      <4>2. SumFunctionOnSet(h, s \cap T) = h[x] + SumFunctionOnSet(h, (s \cap T) \ {x})
        <5> DEFINE R == s \cap T
        <5> HIDE DEF R
        <5>1. x \in R /\ IsFiniteSet(R) /\ \A y \in R : h[y] \in Int BY <3>1, <3>2, <4>1 DEF R
        <5>2. SumFunctionOnSet(h, R) = h[x] + SumFunctionOnSet(h, R \ {x}) BY <5>1, SumRemove
        <5> QED BY <5>2 DEF R
      <4> QED BY <3>1, <4>2
    <3>4. h[x] = f[x] - g[x] BY <2>7
    <3> HIDE DEF s1
    <3> QED BY <2>3, <2>4, <2>5, <2>6, <3>3, <3>4, SMTT(30) DEF Eq
  <2>8. CASE x \notin T
    <3>1. s \cap T = s1 \cap T /\ f[x] = g[x] BY <2>1, <2>8
    <3> HIDE DEF s1
    <3>2. SumFunctionOnSet(h, s \cap T) = SumFunctionOnSet(h, s1 \cap T) BY <3>1
    <3> QED BY <2>3, <2>4, <2>5, <2>6, <3>1, <3>2, SMTT(30) DEF Eq
  <2> QED BY <2>7, <2>8
<1>3. Nat \subseteq P
  <2> HIDE DEF P
  <2> QED BY <1>1, <1>2, NatSetInduction
<1>4. Cardinality(S) \in P /\ S \in SUBSET S BY <1>0, <1>3
<1>5. Eq(S)
  <2> HIDE DEF Eq
  <2> QED BY <1>4
<1>6. S \cap T = T OBVIOUS
<1> QED BY <1>5, <1>6

(***************************************************************************)
(* The state.                                                              *)
(***************************************************************************)
RefNodes == [type : {"ref"}, lnum : Main, offs : 0 .. LebSize, jhead : Heads, sqnum : Nat]
CsNodes == [type : {"cs"}, no : Nat, sqnum : Nat]
Nodes == CsNodes \cup RefNodes

LebType == [nodes : Seq(Nodes), endpt : Nat, torn : BOOLEAN]

(* The nodes of a log LEB fit in what is written of it.                    *)
Lebs == {leb \in LebType : leb.endpt <= LogSize /\ Len(leb.nodes) <= leb.endpt * PerUnit}

BudsType(b) == /\ DOMAIN b \subseteq Main /\ b = [l \in DOMAIN b |-> b[l]]
               /\ \A l \in DOMAIN b : b[l] \in Bud

DiskTypes(f, s, m, fi, d) ==
  /\ f \in [Log -> Lebs] /\ s \in [Log -> Lebs]
  /\ m \in [lnum : Log, cmt_no : Nat, sqnum : Nat, dirty : BOOLEAN]
  /\ fi \in [Main -> 0 .. LebSize] /\ d \in [Main -> Nat]

MemoryTypes(b, w, head, tail, old, bb, cbb, no, sq) ==
  /\ BudsType(b)
  /\ w \in [Heads -> [lnum : Main \cup {NoLeb}, offs : 0 .. LebSize]]
  /\ head \in [lnum : Log, offs : Nat] /\ tail \in Log /\ old \in Log
  /\ bb \in Int /\ cbb \in Int /\ no \in Nat /\ sq \in Nat

LogTypes ==
  /\ sb \in Superblocks
  /\ DiskTypes(flash, stale, mst, fill, dsq)
  /\ MemoryTypes(buds, wbuf, lhead, ltail, old_ltail, bud_bytes, cmt_bud_bytes, cmt_no, max_sqnum)

(* The log head is the end of what is written.                             *)
HeadAtEnd(head, f) == head.offs = f[head.lnum].endpt /\ ~f[head.lnum].torn

(* A journal head writes at the end of the data of its own bud.            *)
HeadsOK(w, b, fi) ==
  \A h \in Heads : w[h].lnum # NoLeb =>
    /\ w[h].lnum \in DOMAIN b /\ b[w[h].lnum].jhead = h
    /\ fi[w[h].lnum] = w[h].offs

(* Every bud has a journal head that points to it.                         *)
HeadsOnly(w, b) == \A l \in DOMAIN b : w[b[l].jhead].lnum = l

Resting(f, b, w, fi, head, min, bb) ==
  HeadsOK(w, b, fi) /\ HeadAtEnd(head, f) /\ bb = BudBytes(b) /\ min = LogSize

Committing(f, b, w, fi, head) ==
  /\ HeadsOK(w, b, fi) /\ HeadsOnly(w, b)
  /\ HeadAtEnd(head, f) /\ head.offs \in 1 .. LogSize - 1

(* What holds at each place of the program.                                *)
Phases(p, f, b, w, fi, head, tail, min, bb, cbb) ==
  /\ p \in {"off", "failed", "rest", "full", "started", "ended", "error", "done"}
  /\ p = "rest" => Resting(f, b, w, fi, head, min, bb) /\ Next1(head.lnum) # tail
  /\ p = "full" => /\ Resting(f, b, w, fi, head, min, bb) /\ Next1(head.lnum) = tail
                   /\ f[tail].nodes # <<>> /\ f[tail].nodes[1].type = "cs"
  /\ p = "started" => Committing(f, b, w, fi, head) /\ bb - cbb = BudBytes(b)
  /\ p = "ended" => /\ Committing(f, b, w, fi, head) /\ bb = BudBytes(b) /\ min = LogSize
                    /\ head.lnum = tail

LogInv ==
  /\ LogTypes
  /\ Phases(pc, flash, buds, wbuf, fill, lhead, ltail, min_log_bytes, bud_bytes, cmt_bud_bytes)

(* The superblock.                                                           *)
LEMMA Sizes ==
  ASSUME sb \in Superblocks
  PROVE  /\ LogLebs \in Nat /\ LogLebs >= 2 /\ LogSize \in Nat /\ PerUnit \in Nat \ {0}
         /\ JheadCnt \in Nat \ {0} /\ LebSize \in Nat \ {0} /\ MaxBudBytes \in Nat /\ MaxSqnum \in Nat
         /\ (LogSize - 1) * PerUnit >= JheadCnt + 1 /\ LogSize >= 2
         /\ MaxBudBytes > (JheadCnt + 2) * LebSize
         /\ Main \subseteq Nat /\ IsFiniteSet(Main)
<1>1. /\ LogLebs \in Nat /\ LogLebs >= 2 /\ LogSize \in Nat /\ PerUnit \in Nat \ {0}
      /\ JheadCnt \in Nat \ {0} /\ LebSize \in Nat \ {0} /\ MaxBudBytes \in Nat /\ MaxSqnum \in Nat
      /\ (LogSize - 1) * PerUnit >= JheadCnt + 1
      /\ MaxBudBytes > (JheadCnt + 2) * LebSize
      /\ Main \subseteq Nat /\ IsFiniteSet(Main)
  BY SuperblockAssumption
     DEF LogLebs, LogSize, PerUnit, JheadCnt, LebSize, MaxBudBytes, MaxSqnum, Main
<1>2. LogSize >= 2
  <2> SUFFICES ASSUME LogSize <= 1 PROVE FALSE BY <1>1, SMTT(30)
  <2>1. PICK z \in Nat, p \in Nat, s \in Nat : z = LogSize /\ p = PerUnit /\ s = JheadCnt BY <1>1
  <2>2. (z - 1) * p >= s + 1 /\ (z = 0 \/ z = 1) BY <1>1, <2>1, SMTT(30)
  <2>3. CASE z = 0
    <3>1. (z - 1) * p = 0 - p BY <2>3, SMTT(30)
    <3> QED BY <3>1, <2>2, SMTT(30)
  <2>4. CASE z = 1
    <3>1. (z - 1) * p = 0 BY <2>4, SMTT(30)
    <3> QED BY <3>1, <2>2, SMTT(30)
  <2> QED BY <2>2, <2>3, <2>4
<1> QED BY <1>1, <1>2

(* Positions in the ring of the log LEBs.                                    *)
LEMMA ModIs ==
  ASSUME NEW n \in Nat \ {0}, NEW a \in 0 .. 2 * n - 1
  PROVE  a % n = IF a < n THEN a ELSE a - n
<1>1. CASE a < n
  <2>1. a = 0 * n + a /\ a \in 0 .. n - 1 BY <1>1, SMTT(30)
  <2> QED BY <1>1, <2>1, DivModIs, SMTT(30)
<1>2. CASE ~(a < n)
  <2>1. PICK c \in Nat : c = 1 OBVIOUS
  <2>2. PICK m \in 0 .. n - 1 : m = a - n BY <1>2, SMTT(30)
  <2>3. a = c * n + m BY <2>1, <2>2, SMTT(30)
  <2>4. a % n = m BY <2>3, DivModIs
  <2> QED BY <1>2, <2>2, <2>4
<1> QED BY <1>1, <1>2

(* ubifs_next_log_lnum()                                                     *)
LEMMA NextIs ==
  ASSUME sb \in Superblocks, NEW l \in Log
  PROVE  /\ Next1(l) = IF l = LogLebs - 1 THEN 0 ELSE l + 1
         /\ Next1(l) \in Log /\ Next1(l) # l
<1>1. LogLebs \in Nat \ {0} /\ LogLebs >= 2 BY Sizes, SMTT(30)
<1>2. l \in 0 .. LogLebs - 1 BY <1>1 DEF Log
<1>a. PICK a \in 0 .. 2 * LogLebs - 1 : a = l + 1 BY <1>1, <1>2, SMTT(30)
<1>b. a % LogLebs = IF a < LogLebs THEN a ELSE a - LogLebs BY <1>1, ModIs
<1>3. Next1(l) = a % LogLebs BY <1>a DEF Next1
<1> QED BY <1>1, <1>2, <1>a, <1>b, <1>3, SMTT(30) DEF Log

(* What n things take in parts of d, the last one filled up.                 *)
LEMMA CeilIs ==
  ASSUME NEW n \in Nat, NEW d \in Nat \ {0}, NEW k, k = (n + d - 1) \div d
  PROVE  /\ k \in Nat /\ n <= k * d
         /\ \A m \in Nat : n <= m * d => k <= m
         /\ n > 0 => k > 0
<1>2. PICK a \in Nat : a = n + d - 1 BY SMTT(30)
<1>3. k = a \div d BY <1>2
<1>4. k \in Nat /\ k * d <= a /\ a < (k + 1) * d
  <2>1. a \div d \in Nat BY DivMod
  <2>2. k \in Nat BY <1>3, <2>1
  <2> QED BY <1>3, <2>2, DivIs
<1>5. k * d \in Nat /\ (k + 1) * d = k * d + d BY <1>4, SMTT(30)
<1>6. n <= k * d BY <1>2, <1>4, <1>5, SMTT(30)
<1>7. ASSUME NEW m \in Nat, n <= m * d PROVE k <= m
  <2> SUFFICES ASSUME m + 1 <= k PROVE FALSE BY <1>4, SMTT(30)
  <2>1. (m + 1) * d <= k * d BY <1>4, MulMono, SMTT(30)
  <2>2. (m + 1) * d = m * d + d /\ m * d \in Nat BY SMTT(30)
  <2> QED BY <1>2, <2>1, <2>2, <1>7, <1>4, <1>5, SMTT(30)
<1>8. n > 0 => k > 0
  <2> SUFFICES ASSUME n > 0, k = 0 PROVE FALSE BY <1>4, SMTT(30)
  <2>1. k * d = 0 BY SMTT(30)
  <2> QED BY <2>1, <1>6, SMTT(30)
<1> QED BY <1>4, <1>6, <1>7, <1>8

(* Units of packed nodes.                                                    *)
LEMMA UnitsIs ==
  ASSUME sb \in Superblocks, NEW n \in Nat
  PROVE  /\ Units(n) \in Nat /\ n <= Units(n) * PerUnit
         /\ \A m \in Nat : n <= m * PerUnit => Units(n) <= m
         /\ n > 0 => Units(n) > 0
<1>1. PICK d \in Nat \ {0} : d = PerUnit BY Sizes
<1>2. Units(n) = (n + d - 1) \div d BY <1>1 DEF Units
<1>3. PICK k : k = Units(n) OBVIOUS
<1>4. /\ k \in Nat /\ n <= k * d /\ (n > 0 => k > 0)
      /\ \A m \in Nat : n <= m * d => k <= m
  BY <1>2, <1>3, CeilIs
<1> QED BY <1>1, <1>3, <1>4

(* Appending nodes to a log LEB, whole or in part.                           *)
LEMMA AppendType ==
  ASSUME sb \in Superblocks, NEW leb \in Lebs, NEW new \in Seq(Nodes), Len(new) > 0,
         leb.endpt + Units(Len(new)) <= LogSize
  PROVE  /\ Append1(leb, new) \in Lebs /\ Append1(leb, new).nodes # <<>>
         /\ TornAppend(leb, new) \subseteq Lebs
<1>1. PerUnit \in Nat \ {0} /\ LogSize \in Nat BY Sizes
<1>2. /\ leb.nodes \in Seq(Nodes) /\ leb.endpt \in Nat /\ Len(leb.nodes) <= leb.endpt * PerUnit
      /\ Len(leb.nodes) \in Nat /\ Len(new) \in Nat
  BY LenIs DEF Lebs, LebType
<1> DEFINE G(s, n, t) == [nodes |-> leb.nodes \o s, endpt |-> leb.endpt + Units(n), torn |-> t]
<1>3. ASSUME NEW s \in Seq(Nodes), Len(s) <= Len(new), NEW t \in BOOLEAN
      PROVE  G(s, Len(s), t) \in Lebs
  <2>1. Len(s) \in Nat BY LenIs
  <2>2. PICK u \in Nat, v \in Nat : /\ u = Units(Len(s)) /\ v = Units(Len(new))
                                    /\ Len(s) <= u * PerUnit /\ u <= v
    <3>1. Units(Len(new)) \in Nat /\ Len(new) <= Units(Len(new)) * PerUnit BY <1>2, UnitsIs
    <3>2. PICK v \in Nat : v = Units(Len(new)) BY <3>1
    <3>3. v * PerUnit \in Nat BY <1>1, SMTT(30)
    <3>4. Len(s) <= v * PerUnit BY <3>1, <3>2, <3>3, <2>1, <1>2, <1>3, SMTT(30)
    <3>5. Units(Len(s)) \in Nat /\ Len(s) <= Units(Len(s)) * PerUnit /\ Units(Len(s)) <= v
      BY <3>4, <2>1, UnitsIs
    <3> QED BY <3>2, <3>5
  <2>3. leb.nodes \o s \in Seq(Nodes) /\ Len(leb.nodes \o s) = Len(leb.nodes) + Len(s)
    BY <1>2, ConcatIs
  <2>4. (leb.endpt + u) * PerUnit = leb.endpt * PerUnit + u * PerUnit
        /\ leb.endpt * PerUnit \in Nat /\ u * PerUnit \in Nat
    BY <1>1, <1>2, SMTT(30)
  <2>5. Len(leb.nodes) + Len(s) <= (leb.endpt + u) * PerUnit BY <1>2, <2>1, <2>2, <2>4, SMTT(30)
  <2>6. leb.endpt + u <= LogSize /\ leb.endpt + u \in Nat BY <1>1, <1>2, <2>2, SMTT(30)
  <2> QED BY <2>2, <2>3, <2>5, <2>6 DEF Lebs, LebType
<1>4. Append1(leb, new) \in Lebs
  <2>1. Append1(leb, new) = G(new, Len(new), FALSE) BY DEF Append1
  <2>2. FALSE \in BOOLEAN /\ Len(new) <= Len(new) BY <1>2, SMTT(30)
  <2> HIDE DEF G
  <2>3. G(new, Len(new), FALSE) \in Lebs BY <2>2, <1>3
  <2> QED BY <2>1, <2>3
<1>5. Append1(leb, new).nodes # <<>>
  <2>1. Append1(leb, new).nodes = leb.nodes \o new BY DEF Append1
  <2>2. Len(leb.nodes \o new) = Len(leb.nodes) + Len(new) BY <1>2, ConcatIs
  <2> QED BY <2>1, <2>2, <1>2, EmptyIs, SMTT(30)
<1>6. ASSUME NEW k \in 0 .. Len(new) - 1
      PROVE  G(SubSeq(new, 1, k), k, TRUE) \in Lebs
  <2>1. SubSeq(new, 1, k) \in Seq(Nodes) /\ Len(SubSeq(new, 1, k)) = k
    <3>1. \A i \in 1 .. k : new[i] \in Nodes BY <1>2, SMTT(30)
    <3> QED BY <1>2, <3>1, SubSeqIs, SMTT(30)
  <2>2. Len(SubSeq(new, 1, k)) <= Len(new) BY <2>1, <1>2, SMTT(30)
  <2> HIDE DEF G
  <2>3. G(SubSeq(new, 1, k), Len(SubSeq(new, 1, k)), TRUE) \in Lebs BY <2>1, <2>2, <1>3
  <2> QED BY <2>1, <2>3
<1> QED BY <1>4, <1>5, <1>6 DEF TornAppend

(* An erased LEB.                                                            *)
LEMMA BlankType ==
  ASSUME sb \in Superblocks
  PROVE  Blank \in Lebs
<1>1. PerUnit \in Nat \ {0} /\ LogSize \in Nat BY Sizes
<1>2. 0 * PerUnit = 0 BY <1>1, SMTT(30)
<1> QED BY <1>1, <1>2, SMTT(30) DEF Blank, Lebs, LebType

(* The reference nodes of a LEB.                                             *)
LEMMA RefsType ==
  ASSUME NEW leb \in Lebs
  PROVE  /\ Refs(leb) \in Seq(RefNodes) /\ Len(Refs(leb)) <= Len(leb.nodes)
         /\ leb.nodes # <<>> /\ leb.nodes[1].type = "cs" => Len(Refs(leb)) < Len(leb.nodes)
<1> DEFINE s == leb.nodes
           S == {i \in DOMAIN s : s[i].type = "ref"}
<1>1. s \in Seq(Nodes) /\ Len(s) \in Nat /\ DOMAIN s = 1 .. Len(s) BY LenIs DEF Lebs, LebType
<1>2. Refs(leb) = Sub(s, S) BY DEF Refs
<1>3. S \subseteq DOMAIN s OBVIOUS
<1> HIDE DEF S, s
<1>4. /\ Sub(s, S) \in Seq(Nodes) /\ Len(Sub(s, S)) = Cardinality(S) /\ Cardinality(S) \in Nat
      /\ \A k \in 1 .. Cardinality(S) : Sub(s, S)[k] = s[Sorted(S)[k]] /\ Sorted(S)[k] \in S
  BY <1>1, <1>3, SubType
<1>5. \A k \in 1 .. Cardinality(S) : Sub(s, S)[k] \in RefNodes
  <2> SUFFICES ASSUME NEW k \in 1 .. Cardinality(S) PROVE Sub(s, S)[k] \in RefNodes OBVIOUS
  <2>1. PICK i \in S : Sub(s, S)[k] = s[i] BY <1>4
  <2>2. s[i] \in Nodes /\ s[i].type = "ref" BY <1>1, <2>1, SMTT(30) DEF S
  <2> QED BY <2>1, <2>2 DEF Nodes, CsNodes
<1>6. Sub(s, S) \in Seq(RefNodes) BY <1>4, <1>5, SMTT(30)
<1>7. IsFiniteSet(1 .. Len(s)) /\ Cardinality(1 .. Len(s)) = Len(s) BY <1>1, FS_Interval, SMTT(30)
<1>8. Cardinality(S) <= Len(s) BY <1>1, <1>3, <1>7, FS_Subset, SMTT(30)
<1>9. ASSUME s # <<>>, s[1].type = "cs" PROVE Cardinality(S) < Len(s)
  <2>1. 1 \in 1 .. Len(s) /\ 1 \notin S BY <1>1, <1>9, EmptyIs, SMTT(30) DEF S
  <2>2. Cardinality(S) # Len(s) BY <1>1, <1>3, <1>7, <2>1, FS_Subset
  <2> QED BY <1>1, <1>4, <1>8, <2>2, SMTT(30)
<1> QED BY <1>2, <1>4, <1>6, <1>8, <1>9 DEF s

(* The first references.                                                     *)
LEMMA FirstType ==
  ASSUME NEW T, NEW refs \in Seq(T)
  PROVE  FirstRefs(refs) \in Seq(T) /\ Len(FirstRefs(refs)) <= Len(refs)
<1> DEFINE S == {i \in DOMAIN refs : \A j \in 1 .. i - 1 : refs[j].lnum # refs[i].lnum}
<1>1. FirstRefs(refs) = Sub(refs, S) BY DEF FirstRefs
<1>2. S \subseteq DOMAIN refs OBVIOUS
<1> HIDE DEF S
<1>3. Sub(refs, S) \in Seq(T) /\ Len(Sub(refs, S)) = Cardinality(S) BY <1>2, SubType
<1>4. DOMAIN refs = 1 .. Len(refs) /\ Len(refs) \in Nat BY LenIs
<1>5. IsFiniteSet(1 .. Len(refs)) /\ Cardinality(1 .. Len(refs)) = Len(refs) BY <1>4, FS_Interval, SMTT(30)
<1>6. Cardinality(S) <= Len(refs) BY <1>2, <1>4, <1>5, FS_Subset, SMTT(30)
<1> QED BY <1>1, <1>3, <1>6

(* The buds of a sequence of references.                                     *)
LEMMA BudsOfType ==
  ASSUME NEW refs \in Seq(RefNodes)
  PROVE  BudsType(BudsOf(refs)) /\ DOMAIN BudsOf(refs) = {refs[i].lnum : i \in DOMAIN refs}
<1> DEFINE D == {refs[i].lnum : i \in DOMAIN refs}
           at(l) == refs[CHOOSE i \in DOMAIN refs : refs[i].lnum = l]
<1>1. BudsOf(refs) = [l \in D |-> [start |-> at(l).offs, jhead |-> at(l).jhead]] BY DEF BudsOf
<1>2. \A i \in DOMAIN refs : refs[i] \in RefNodes BY LenIs
<1>3. \A l \in D : at(l) \in RefNodes BY <1>2
<1>4. D \subseteq Main BY <1>2 DEF RefNodes
<1> HIDE DEF D, at
<1>5. \A l \in D : [start |-> at(l).offs, jhead |-> at(l).jhead] \in Bud BY <1>3 DEF RefNodes, Bud
<1>6. BudsType(BudsOf(refs)) /\ DOMAIN BudsOf(refs) = D BY <1>1, <1>4, <1>5 DEF BudsType
<1> QED BY <1>6 DEF D

Left(b) == [l \in DOMAIN b |-> LebSize - b[l].start]

(* The space that is left in the buds: c->bud_bytes as a sum.                *)
LEMMA BudBytesIs ==
  ASSUME sb \in Superblocks, NEW b, BudsType(b)
  PROVE  /\ BudBytes(b) = SumFunctionOnSet(Left(b), DOMAIN b)
         /\ IsFiniteSet(DOMAIN b) /\ DOMAIN b \subseteq Main
         /\ \A l \in DOMAIN b : Left(b)[l] \in 0 .. LebSize
<1>1. LebSize \in Nat /\ IsFiniteSet(Main) BY Sizes
<1>2. DOMAIN b \subseteq Main /\ \A l \in DOMAIN b : b[l].start \in 0 .. LebSize BY DEF BudsType, Bud
<1>3. IsFiniteSet(DOMAIN b) BY <1>1, <1>2, FS_Subset
<1>4. DOMAIN Left(b) = DOMAIN b BY DEF Left
<1>5. BudBytes(b) = SumFunctionOnSet(Left(b), DOMAIN b) BY <1>4 DEF BudBytes, Left, SumFunction
<1>6. \A l \in DOMAIN b : Left(b)[l] \in 0 .. LebSize BY <1>1, <1>2, SMTT(30) DEF Left
<1> QED BY <1>2, <1>3, <1>5, <1>6

(* ubifs_add_bud(): one bud more.                                            *)
LEMMA BudBytesMore ==
  ASSUME sb \in Superblocks, NEW b, BudsType(b), NEW l \in Main, l \notin DOMAIN b,
         NEW o \in 0 .. LebSize, NEW h \in Heads
  PROVE  /\ BudsType(WithBud(b, l, o, h))
         /\ BudBytes(WithBud(b, l, o, h)) = BudBytes(b) + LebSize - o
<1> DEFINE w == WithBud(b, l, o, h)
<1>1. LebSize \in Nat /\ Main \subseteq Nat BY Sizes
<1>2. /\ DOMAIN w = DOMAIN b \cup {l} /\ w[l] = [start |-> o, jhead |-> h]
      /\ \A x \in DOMAIN b : w[x] = b[x]
  BY DEF WithBud
<1>3. BudsType(w)
  <2>1. w[l] \in Bud BY <1>2, SMTT(30) DEF Bud
  <2>2. \A x \in DOMAIN w : w[x] \in Bud BY <1>2, <2>1 DEF BudsType
  <2>3. w = [x \in DOMAIN w |-> w[x]] BY <1>2 DEF WithBud
  <2>4. DOMAIN w \subseteq Main BY <1>2 DEF BudsType
  <2> QED BY <2>2, <2>3, <2>4 DEF BudsType
<1> HIDE DEF w
<1>4. /\ BudBytes(b) = SumFunctionOnSet(Left(b), DOMAIN b) /\ IsFiniteSet(DOMAIN b)
      /\ \A x \in DOMAIN b : Left(b)[x] \in 0 .. LebSize
  BY BudBytesIs
<1>5. /\ BudBytes(w) = SumFunctionOnSet(Left(w), DOMAIN w) /\ IsFiniteSet(DOMAIN w)
      /\ \A x \in DOMAIN w : Left(w)[x] \in 0 .. LebSize
  BY <1>3, BudBytesIs
<1>6. l \in DOMAIN w /\ DOMAIN w \ {l} = DOMAIN b BY <1>2
<1>7. SumFunctionOnSet(Left(w), DOMAIN w) = Left(w)[l] + SumFunctionOnSet(Left(w), DOMAIN b)
  <2>1. \A x \in DOMAIN w : Left(w)[x] \in Int BY <1>1, <1>5, SMTT(30)
  <2>2. SumFunctionOnSet(Left(w), DOMAIN w) = Left(w)[l] + SumFunctionOnSet(Left(w), DOMAIN w \ {l})
    BY <1>5, <1>6, <2>1, SumRemove
  <2> QED BY <1>6, <2>2
<1>8. SumFunctionOnSet(Left(w), DOMAIN b) = SumFunctionOnSet(Left(b), DOMAIN b)
      /\ SumFunctionOnSet(Left(b), DOMAIN b) \in Int
  <2>1. \A x \in DOMAIN b : Left(b)[x] = Left(w)[x] /\ Left(b)[x] \in Int
    BY <1>1, <1>2, <1>4, <1>6, SMTT(30) DEF Left
  <2> QED BY <1>4, <2>1, SumCongruent
<1>9. Left(w)[l] = LebSize - o BY <1>2, <1>6, SMTT(30) DEF Left
<1>10. BudBytes(w) = BudBytes(b) + LebSize - o BY <1>1, <1>4, <1>5, <1>7, <1>8, <1>9, SMTT(30)
<1> QED BY <1>3, <1>10 DEF w

(* At most one bud for every journal head.                                   *)
LEMMA BudBytesBound ==
  ASSUME sb \in Superblocks, NEW b, BudsType(b), NEW H, \A l \in DOMAIN b : H[b[l].jhead] = l
  PROVE  BudBytes(b) \in Nat /\ BudBytes(b) <= LebSize * JheadCnt
<1> DEFINE f == [l \in DOMAIN b |-> b[l].jhead]
<1>1. LebSize \in Nat /\ JheadCnt \in Nat BY Sizes
<1>2. /\ BudBytes(b) = SumFunctionOnSet(Left(b), DOMAIN b) /\ IsFiniteSet(DOMAIN b)
      /\ \A l \in DOMAIN b : Left(b)[l] \in 0 .. LebSize
  BY BudBytesIs
<1>3. BudBytes(b) \in Nat /\ BudBytes(b) <= LebSize * Cardinality(DOMAIN b) BY <1>1, <1>2, SumBound
<1>4. IsFiniteSet(Heads) /\ Cardinality(Heads) = JheadCnt
  <2>1. IsFiniteSet(0 .. JheadCnt - 1) /\ Cardinality(0 .. JheadCnt - 1) = JheadCnt
    BY <1>1, FS_Interval, SMTT(30)
  <2> QED BY <2>1 DEF Heads
<1>5. f \in Injection(DOMAIN b, Heads)
  <2>1. \A l \in DOMAIN b : b[l].jhead \in Heads BY DEF BudsType, Bud
  <2>2. f \in [DOMAIN b -> Heads] BY <2>1
  <2>3. \A x, y \in DOMAIN b : f[x] = f[y] => x = y OBVIOUS
  <2> QED BY <2>2, <2>3 DEF Injection, IsInjective
<1>6. Cardinality(DOMAIN b) <= JheadCnt /\ Cardinality(DOMAIN b) \in Nat
  BY <1>2, <1>4, <1>5, FS_Injection, FS_CardinalityType
<1>7. PICK x \in Nat, y \in Nat, z \in Nat : x = Cardinality(DOMAIN b) /\ y = JheadCnt /\ z = LebSize
  BY <1>1, <1>6
<1>8. x * z <= y * z BY <1>6, <1>7, MulMono
<1>9. LebSize * Cardinality(DOMAIN b) = x * z /\ LebSize * JheadCnt = y * z /\ x * z \in Nat /\ y * z \in Nat
  BY <1>7, SMTT(30)
<1> QED BY <1>3, <1>8, <1>9, SMTT(30)

(* remove_buds(): what is removed from the buds and what stays.              *)
LEMMA BudBytesCommit ==
  ASSUME LogTypes, NEW b, b = [l \in HeadBuds |-> [buds[l] EXCEPT !.start = wbuf[buds[l].jhead].offs]]
  PROVE  /\ BudsType(b) /\ RemovedBytes \in Int
         /\ BudBytes(buds) = RemovedBytes + BudBytes(b)
         /\ \A l \in DOMAIN b : b[l].jhead = buds[l].jhead
<1> DEFINE g == [l \in DOMAIN buds |-> (IF l \in HeadBuds THEN wbuf[buds[l].jhead].offs ELSE LebSize)
                                        - buds[l].start]
<1>1. sb \in Superblocks /\ BudsType(buds) BY DEF LogTypes, MemoryTypes
<1>2. LebSize \in Nat BY <1>1, Sizes
<1>3. HeadBuds \subseteq DOMAIN buds BY DEF HeadBuds
<1>4. \A l \in DOMAIN buds : /\ buds[l].start \in 0 .. LebSize /\ buds[l].jhead \in Heads
                             /\ wbuf[buds[l].jhead].offs \in 0 .. LebSize
  BY DEF LogTypes, MemoryTypes, BudsType, Bud
<1>5. /\ DOMAIN b = HeadBuds
      /\ \A l \in HeadBuds : b[l].start = wbuf[buds[l].jhead].offs /\ b[l].jhead = buds[l].jhead
                             /\ b[l] \in Bud
  <2> SUFFICES ASSUME NEW l \in HeadBuds
               PROVE  /\ b[l].start = wbuf[buds[l].jhead].offs /\ b[l].jhead = buds[l].jhead
                      /\ b[l] \in Bud
    OBVIOUS
  <2>1. buds[l] \in Bud BY <1>3, <1>1 DEF BudsType
  <2>2. b[l] = [buds[l] EXCEPT !.start = wbuf[buds[l].jhead].offs] OBVIOUS
  <2> QED BY <2>1, <2>2, <1>3, <1>4 DEF Bud
<1>6. BudsType(b)
  <2>1. b = [l \in DOMAIN b |-> b[l]] BY <1>5
  <2>2. DOMAIN b \subseteq Main BY <1>1, <1>3, <1>5 DEF BudsType
  <2> QED BY <1>5, <2>1, <2>2 DEF BudsType
<1>7. RemovedBytes = SumFunctionOnSet(g, DOMAIN buds) BY DEF RemovedBytes, SumFunction
<1>8. /\ BudBytes(buds) = SumFunctionOnSet(Left(buds), DOMAIN buds) /\ IsFiniteSet(DOMAIN buds)
      /\ BudBytes(b) = SumFunctionOnSet(Left(b), HeadBuds)
  BY <1>1, <1>5, <1>6, BudBytesIs
<1>9. /\ \A l \in DOMAIN buds : Left(buds)[l] \in Int /\ g[l] \in Int
      /\ \A l \in HeadBuds : Left(b)[l] = Left(buds)[l] - g[l]
      /\ \A l \in DOMAIN buds \ HeadBuds : Left(buds)[l] = g[l]
  BY <1>2, <1>3, <1>4, <1>5, SMTT(30) DEF Left
<1> HIDE DEF g
<1>10. SumFunctionOnSet(Left(buds), DOMAIN buds)
         = SumFunctionOnSet(g, DOMAIN buds) + SumFunctionOnSet(Left(b), HeadBuds)
  BY <1>3, <1>8, <1>9, SumSplit, SMTT(30)
<1>11. SumFunctionOnSet(g, DOMAIN buds) \in Int
  <2>1. \A l \in DOMAIN buds : g[l] = g[l] /\ g[l] \in Int BY <1>9
  <2> QED BY <1>8, <2>1, SumCongruent
<1> QED BY <1>5, <1>6, <1>7, <1>8, <1>10, <1>11

(* Positions in the ring.                                                    *)
LEMMA RingType ==
  ASSUME sb \in Superblocks, NEW a \in Log, NEW i \in Nat
  PROVE  /\ (a + i) % LogLebs \in Log /\ (a + 0) % LogLebs = a
         /\ i < LogLebs => (a + i) % LogLebs = IF a + i < LogLebs THEN a + i ELSE (a + i) - LogLebs
<1>1. LogLebs \in Nat \ {0} BY Sizes, SMTT(30)
<1>2. a \in 0 .. LogLebs - 1 BY DEF Log
<1>3. a + i \in Nat /\ a + 0 \in Nat BY <1>2, SMTT(30)
<1>4. \A x \in Nat : x % LogLebs \in Log BY <1>1, DivMod DEF Log
<1>5. \A x \in 0 .. 2 * LogLebs - 1 : x % LogLebs = IF x < LogLebs THEN x ELSE x - LogLebs
  BY <1>1, ModIs
<1>6. a + 0 \in 0 .. 2 * LogLebs - 1 /\ a + 0 < LogLebs /\ a + 0 = a BY <1>1, <1>2, SMTT(30)
<1>7. i < LogLebs => a + i \in 0 .. 2 * LogLebs - 1 BY <1>1, <1>2, SMTT(30)
<1>8. (a + 0) % LogLebs = a BY <1>5, <1>6
<1>9. i < LogLebs => (a + i) % LogLebs = IF a + i < LogLebs THEN a + i ELSE (a + i) - LogLebs
  BY <1>5, <1>7
<1> QED BY <1>3, <1>4, <1>8, <1>9

(* The distance from one log LEB to another, as ubifs_log_post_commit() and  *)
(* ubifs_consolidate_log() go round the log.                                 *)
LEMMA DistanceIs ==
  ASSUME sb \in Superblocks, NEW a \in Log, NEW l \in Log, NEW d, d = (l - a + LogLebs) % LogLebs
  PROVE  /\ d \in 0 .. LogLebs - 1 /\ d = IF l < a THEN l - a + LogLebs ELSE l - a
         /\ (a + d) % LogLebs = l
         /\ \A i \in 0 .. LogLebs - 1 : (a + i) % LogLebs = l => i = d
<1>1. LogLebs \in Nat \ {0} BY Sizes, SMTT(30)
<1>2. a \in 0 .. LogLebs - 1 /\ l \in 0 .. LogLebs - 1 BY DEF Log
<1>3. PICK x \in 0 .. 2 * LogLebs - 1 : x = l - a + LogLebs BY <1>1, <1>2, SMTT(30)
<1>4. x % LogLebs = IF x < LogLebs THEN x ELSE x - LogLebs BY <1>1, ModIs
<1>5. d = x % LogLebs BY <1>3
<1>6. d \in 0 .. LogLebs - 1 /\ d = IF l < a THEN l - a + LogLebs ELSE l - a
  BY <1>1, <1>2, <1>3, <1>4, <1>5, SMTT(30)
<1>7. ASSUME NEW i \in 0 .. LogLebs - 1
      PROVE  (a + i) % LogLebs = l <=> i = d
  <2>1. i \in Nat /\ i < LogLebs BY <1>1, SMTT(30)
  <2>2. (a + i) % LogLebs = IF a + i < LogLebs THEN a + i ELSE (a + i) - LogLebs BY <2>1, RingType
  <2>3. PICK y \in Int : y = (a + i) % LogLebs BY <2>2, <1>1, <1>2, SMTT(30)
  <2>4. y = l <=> i = d BY <2>2, <2>3, <1>1, <1>2, <1>6, SMTT(30)
  <2> QED BY <2>3, <2>4
<1> QED BY <1>6, <1>7

(* The first references name different LEBs.                                 *)
LEMMA FirstDiffer ==
  ASSUME NEW T, NEW refs \in Seq(T)
  PROVE  \A i, j \in DOMAIN FirstRefs(refs) :
           FirstRefs(refs)[i].lnum = FirstRefs(refs)[j].lnum => i = j
<1> DEFINE S == {i \in DOMAIN refs : \A j \in 1 .. i - 1 : refs[j].lnum # refs[i].lnum}
<1>1. FirstRefs(refs) = Sub(refs, S) BY DEF FirstRefs
<1>2. S \subseteq DOMAIN refs /\ DOMAIN refs = 1 .. Len(refs) /\ Len(refs) \in Nat BY LenIs
<1>3. \A x, y \in S : refs[x].lnum = refs[y].lnum => x = y
  <2> SUFFICES ASSUME NEW x \in S, NEW y \in S, refs[x].lnum = refs[y].lnum, x < y PROVE FALSE
    BY <1>2, SMTT(30)
  <2> QED BY <1>2, SMTT(30)
<1> HIDE DEF S
<1>4. /\ DOMAIN Sub(refs, S) = 1 .. Cardinality(S)
      /\ \A k \in 1 .. Cardinality(S) : Sub(refs, S)[k] = refs[Sorted(S)[k]] /\ Sorted(S)[k] \in S
      /\ \A k, n \in 1 .. Cardinality(S) : Sorted(S)[k] = Sorted(S)[n] => k = n
  <2>1. /\ Sub(refs, S) \in Seq(T) /\ Len(Sub(refs, S)) = Cardinality(S) /\ Cardinality(S) \in Nat
        /\ IsFiniteSet(S) /\ S \subseteq Nat
        /\ \A k \in 1 .. Cardinality(S) : Sub(refs, S)[k] = refs[Sorted(S)[k]] /\ Sorted(S)[k] \in S
    BY <1>2, SubType
  <2>2. \A k, n \in 1 .. Cardinality(S) : k < n => Sorted(S)[k] < Sorted(S)[n] BY <2>1, SortedIs
  <2>3. ASSUME NEW k \in 1 .. Cardinality(S), NEW n \in 1 .. Cardinality(S), k < n
        PROVE  Sorted(S)[k] # Sorted(S)[n]
    <3>1. Sorted(S)[k] \in Nat /\ Sorted(S)[n] \in Nat BY <2>1
    <3> QED BY <2>2, <2>3, <3>1, SMTT(30)
  <2>4. DOMAIN Sub(refs, S) = 1 .. Cardinality(S) BY DEF Sub
  <2> QED BY <2>1, <2>3, <2>4, SMTT(30)
<1> QED BY <1>1, <1>3, <1>4, SMTT(30)

(* The nodes of a log LEB are no more than fit in one when they are packed.  *)
LEMMA LebFits ==
  ASSUME sb \in Superblocks, NEW leb \in Lebs
  PROVE  /\ leb.nodes \in Seq(Nodes) /\ Len(leb.nodes) \in Nat /\ Len(leb.nodes) <= LogSize * PerUnit
         /\ Len(Refs(leb)) \in Nat /\ Len(Refs(leb)) <= LogSize * PerUnit
         /\ leb.nodes # <<>> /\ leb.nodes[1].type = "cs" => Len(Refs(leb)) < LogSize * PerUnit
<1>1. LogSize \in Nat /\ PerUnit \in Nat BY Sizes
<1>2. /\ leb.nodes \in Seq(Nodes) /\ Len(leb.nodes) \in Nat /\ leb.endpt \in Nat /\ leb.endpt <= LogSize
      /\ Len(leb.nodes) <= leb.endpt * PerUnit
  BY LenIs DEF Lebs, LebType
<1>3. leb.endpt * PerUnit <= LogSize * PerUnit BY <1>1, <1>2, MulMono
<1>4. leb.endpt * PerUnit \in Nat /\ LogSize * PerUnit \in Nat BY <1>1, <1>2, SMTT(30)
<1>5. Len(leb.nodes) <= LogSize * PerUnit BY <1>2, <1>3, <1>4, SMTT(30)
<1>6. /\ Refs(leb) \in Seq(RefNodes) /\ Len(Refs(leb)) <= Len(leb.nodes)
      /\ leb.nodes # <<>> /\ leb.nodes[1].type = "cs" => Len(Refs(leb)) < Len(leb.nodes)
  BY RefsType
<1>7. Len(Refs(leb)) \in Nat BY <1>6, LenIs
<1> QED BY <1>2, <1>4, <1>5, <1>6, <1>7, SMTT(30)

(* The values of a function on a finite set.                                 *)
LEMMA ImageFinite ==
  ASSUME NEW S, IsFiniteSet(S), NEW f, NEW T, T = {f[x] : x \in S}
  PROVE  IsFiniteSet(T)
<1> DEFINE g == [x \in S |-> f[x]]
<1>1. g \in Surjection(S, T) BY DEF Surjection
<1> HIDE DEF g
<1> QED BY <1>1, FS_Surjection

(* ubifs_replay_journal() when it accepts the log: the head is at the end of *)
(* the last LEB that holds nodes, and every LEB has its first reference.     *)
LEMMA ReplayIs ==
  ASSUME LogTypes, NEW r, r = Replay(flash, mst), r.ok
  PROVE  /\ r.lhead.lnum \in Log /\ r.lhead.offs = flash[r.lhead.lnum].endpt
         /\ r.lhead = [lnum |-> r.lhead.lnum, offs |-> r.lhead.offs]
         /\ flash[r.lhead.lnum].nodes # <<>>
         /\ flash[r.lhead.lnum].torn => r.lhead.lnum \in r.torn
         /\ flash[mst.lnum].nodes # <<>> /\ flash[mst.lnum].nodes[1].type = "cs"
         /\ r.first \in Seq(RefNodes) /\ r.buds = BudsOf(r.first)
         /\ \A i, j \in DOMAIN r.first : r.first[i].lnum = r.first[j].lnum => i = j
         /\ r.sqnum \in Nat
<1> DEFINE At(i) == flash[(mst.lnum + i) % LogLebs]
           sound == /\ At(0).nodes # <<>>
                    /\ At(0).nodes[1].type = "cs"
                    /\ At(0).nodes[1].no = mst.cmt_no
           cs == At(0).nodes[1].sqnum
           S == {i \in 1 .. LogLebs : i = LogLebs \/ EndOfLog(At(i), cs)}
           cnt == Min(S)
           scanned == 0 .. Min({cnt, LogLebs - 1})
           nodes == Joined([i \in 1 .. cnt |-> At(i - 1).nodes])
           refs == Joined([i \in 1 .. cnt |-> Refs(At(i - 1))])
           first == FirstRefs(refs)
           K == /\ \A i \in scanned : At(i).torn =>
                     CanRecoverLeb(flash, mst, (mst.lnum + i) % LogLebs, cs)
                /\ \A i \in DOMAIN nodes : nodes[i].sqnum >= cs
                /\ \A i \in 0 .. cnt - 1 : \A k \in 2 .. Len(At(i).nodes) :
                     At(i).nodes[k].type = "ref"
                /\ ValidRefs(refs)
           torn == {(mst.lnum + i) % LogLebs : i \in {j \in scanned : At(j).torn}}
           sqs == {mst.sqnum} \cup {nodes[i].sqnum : i \in DOMAIN nodes}
                  \cup {dsq[l] : l \in DOMAIN BudsOf(first)}
<1>1. Replay(flash, mst) =
        IF ~sound THEN [ok |-> FALSE]
        ELSE [ok |-> K, torn |-> torn,
              lhead |-> [lnum |-> (mst.lnum + cnt - 1) % LogLebs, offs |-> At(cnt - 1).endpt],
              first |-> first, buds |-> BudsOf(first), sqnum |-> Max(sqs)]
  BY DEF Replay
<1> HIDE DEF sound, K, torn, sqs, first, cnt
<1>2. /\ sound /\ r.torn = torn /\ r.first = first /\ r.buds = BudsOf(first) /\ r.sqnum = Max(sqs)
      /\ r.lhead = [lnum |-> (mst.lnum + cnt - 1) % LogLebs, offs |-> At(cnt - 1).endpt]
  <2> HIDE DEF At
  <2> QED BY <1>1, SMTT(30)
<1>3. /\ sb \in Superblocks /\ mst.lnum \in Log /\ mst.sqnum \in Nat /\ flash \in [Log -> Lebs]
      /\ LogLebs \in Nat /\ LogLebs >= 2 /\ dsq \in [Main -> Nat]
  BY Sizes DEF LogTypes, DiskTypes
<1>4. \A i \in Nat : (mst.lnum + i) % LogLebs \in Log /\ (mst.lnum + 0) % LogLebs = mst.lnum
  BY <1>3, RingType
<1>5. cnt \in S /\ \A x \in S : cnt <= x
  <2>1. S \subseteq Nat BY <1>3, SMTT(30)
  <2>2. LogLebs \in S BY <1>3, SMTT(30)
  <2> HIDE DEF S
  <2> QED BY <2>1, <2>2, MinIs DEF cnt
<1>6. cnt \in 1 .. LogLebs /\ cnt - 1 \in 0 .. LogLebs - 1 /\ cnt - 1 \in Nat /\ cnt \in Nat BY <1>3, <1>5, SMTT(30)
<1>7. r.lhead.lnum = (mst.lnum + (cnt - 1)) % LogLebs /\ r.lhead.lnum \in Log
      /\ r.lhead.offs = flash[r.lhead.lnum].endpt
  <2>1. r.lhead.lnum = (mst.lnum + (cnt - 1)) % LogLebs BY <1>2, SMTT(30)
  <2>2. r.lhead.offs = At(cnt - 1).endpt
    <3> HIDE DEF At
    <3> QED BY <1>2, SMTT(30)
  <2> QED BY <2>1, <2>2, <1>4, <1>6
<1>8. flash[mst.lnum].nodes # <<>> /\ flash[mst.lnum].nodes[1].type = "cs"
  <2>1. At(0) = flash[mst.lnum]
    <3>1. 0 \in Nat /\ (mst.lnum + 0) % LogLebs = mst.lnum BY <1>4
    <3> QED BY <3>1
  <2>2. At(0).nodes # <<>> /\ At(0).nodes[1].type = "cs" BY <1>2 DEF sound
  <2> QED BY <2>1, <2>2
<1>9. flash[r.lhead.lnum].nodes # <<>>
  <2>1. CASE cnt = 1
    <3>1. cnt - 1 = 0 BY <2>1, SMTT(30)
    <3>2. r.lhead.lnum = mst.lnum BY <3>1, <1>7, <1>4
    <3> QED BY <3>2, <1>8
  <2>2. CASE cnt # 1
    <3>1. cnt - 1 \in 1 .. LogLebs /\ ~(cnt <= cnt - 1) BY <2>2, <1>6, <1>3, SMTT(30)
    <3>2. cnt - 1 \notin S
      <4> HIDE DEF S
      <4> QED BY <3>1, <1>5
    <3>3. ~EndOfLog(At(cnt - 1), cs) BY <3>1, <3>2
    <3>4. At(cnt - 1).nodes # <<>> BY <3>3 DEF EndOfLog
    <3> QED BY <3>4, <1>7
  <2> QED BY <2>1, <2>2
<1>10. flash[r.lhead.lnum].torn => r.lhead.lnum \in r.torn
  <2>1. cnt - 1 \in scanned
    <3>1. PICK c \in Nat, n \in Nat : c = cnt /\ n = LogLebs - 1 /\ c - 1 <= n /\ c >= 1 BY <1>6, <1>3, SMTT(30)
    <3>2. Min({c, n}) \in {c, n}
      <4>1. {c, n} \subseteq Nat /\ {c, n} # {} OBVIOUS
      <4> QED BY <4>1, MinIs
    <3>3. c - 1 \in 0 .. Min({c, n}) BY <3>1, <3>2, SMTT(30)
    <3> QED BY <3>1, <3>3
  <2> HIDE DEF scanned
  <2>2. At(cnt - 1).torn => (mst.lnum + (cnt - 1)) % LogLebs \in torn BY <2>1 DEF torn
  <2> QED BY <2>2, <1>7, <1>2
<1>11. first \in Seq(RefNodes) /\ (\A i, j \in DOMAIN first : first[i].lnum = first[j].lnum => i = j)
       /\ (\A i \in DOMAIN nodes : nodes[i].sqnum \in Nat) /\ IsFiniteSet(DOMAIN nodes)
  <2>1. \A i \in 1 .. cnt : At(i - 1) \in Lebs
    <3> SUFFICES ASSUME NEW i \in 1 .. cnt PROVE At(i - 1) \in Lebs OBVIOUS
    <3>1. i - 1 \in Nat BY <1>6, SMTT(30)
    <3>2. (mst.lnum + (i - 1)) % LogLebs \in Log BY <3>1, <1>4
    <3> QED BY <3>2, <1>3
  <2> HIDE DEF At
  <2> DEFINE rr == [i \in 1 .. cnt |-> Refs(At(i - 1))]
             nn == [i \in 1 .. cnt |-> At(i - 1).nodes]
  <2>2. rr \in Seq(Seq(RefNodes)) /\ Len(rr) = cnt
    <3>1. \A i \in 1 .. cnt : Refs(At(i - 1)) \in Seq(RefNodes) BY <2>1, RefsType
    <3> QED BY <3>1, <1>6, SMTT(30)
  <2>3. nn \in Seq(Seq(Nodes)) /\ Len(nn) = cnt
    <3>1. \A i \in 1 .. cnt : At(i - 1).nodes \in Seq(Nodes) BY <2>1 DEF Lebs, LebType
    <3> QED BY <3>1, <1>6, SMTT(30)
  <2>4. refs = Joined(rr) /\ nodes = Joined(nn) OBVIOUS
  <2> HIDE DEF rr, nn, refs, nodes
  <2>a. LogSize \in Nat /\ PerUnit \in Nat BY <1>3, Sizes
  <2>b. LogSize * PerUnit \in Nat BY <2>a, SMTT(30)
  <2>5. Joined(rr) \in Seq(RefNodes)
    <3>1. \A i \in 1 .. Len(rr) : Len(rr[i]) <= LogSize * PerUnit BY <1>3, <2>1, <2>2, LebFits DEF rr
    <3> QED BY <2>2, <2>b, <3>1, JoinedType
  <2>6. Joined(nn) \in Seq(Nodes)
    <3>1. \A i \in 1 .. Len(nn) : Len(nn[i]) <= LogSize * PerUnit BY <1>3, <2>1, <2>3, LebFits DEF nn
    <3> QED BY <2>3, <2>b, <3>1, JoinedType
  <2>7. first \in Seq(RefNodes) BY <2>4, <2>5, FirstType DEF first
  <2>8. \A i, j \in DOMAIN first : first[i].lnum = first[j].lnum => i = j
    BY <2>4, <2>5, FirstDiffer DEF first
  <2>9. \A i \in DOMAIN nodes : nodes[i] \in Nodes BY <2>4, <2>6, SMTT(30)
  <2>10. \A i \in DOMAIN nodes : nodes[i].sqnum \in Nat BY <2>9 DEF Nodes, CsNodes, RefNodes
  <2>11. IsFiniteSet(DOMAIN nodes)
    <3>1. Len(nodes) \in Nat /\ DOMAIN nodes = 1 .. Len(nodes) BY <2>4, <2>6, SMTT(30)
    <3> QED BY <3>1, FS_Interval, SMTT(30)
  <2> QED BY <2>7, <2>8, <2>10, <2>11
<1>12. Max(sqs) \in Nat
  <2> DEFINE D == DOMAIN BudsOf(first)
             f == [i \in DOMAIN nodes |-> nodes[i].sqnum]
             A == {f[i] : i \in DOMAIN nodes}
             B == {dsq[l] : l \in D}
  <2>1. D \subseteq Main BY <1>11, BudsOfType DEF BudsType
  <2>2. IsFiniteSet(D) BY <2>1, <1>3, Sizes, FS_Subset
  <2> HIDE DEF D
  <2>3. B \subseteq Nat BY <2>1, <1>3
  <2>4. A \subseteq Nat BY <1>11
  <2>5. IsFiniteSet(B) BY <2>2, ImageFinite
  <2>6. IsFiniteSet(A)
    <3> HIDE DEF f, nodes
    <3> QED BY <1>11, ImageFinite
  <2>7. sqs = ({mst.sqnum} \cup A) \cup B BY DEF sqs, D
  <2> HIDE DEF A, B
  <2>8. IsFiniteSet({mst.sqnum}) BY FS_Singleton
  <2>9. IsFiniteSet({mst.sqnum} \cup A) BY <2>6, <2>8, FS_Union
  <2>10. IsFiniteSet(sqs) BY <2>5, <2>7, <2>9, FS_Union
  <2>11. sqs \subseteq Nat /\ sqs # {} BY <2>3, <2>4, <2>7, <1>3
  <2> QED BY <2>10, <2>11, MaxIs
<1> QED BY <1>12, <1>2, <1>7, <1>8, <1>9, <1>10, <1>11

(***************************************************************************)
(* The steps.                                                              *)
(***************************************************************************)
(* The superblock does not change, so the invariant of the next state is the *)
(* one of its values.                                                        *)
LEMMA InvNext ==
  ASSUME sb' = sb, sb \in Superblocks,
         DiskTypes(flash', stale', mst', fill', dsq'),
         MemoryTypes(buds', wbuf', lhead', ltail', old_ltail', bud_bytes', cmt_bud_bytes', cmt_no', max_sqnum'),
         Phases(pc', flash', buds', wbuf', fill', lhead', ltail', min_log_bytes', bud_bytes', cmt_bud_bytes')
  PROVE  LogInv'
<1>1. /\ LogLebs' = LogLebs /\ LogSize' = LogSize /\ PerUnit' = PerUnit /\ JheadCnt' = JheadCnt
      /\ Main' = Main /\ LebSize' = LebSize
  BY DEF LogLebs, LogSize, PerUnit, JheadCnt, Main, LebSize
<1>2. Log' = Log /\ Heads' = Heads /\ NoLeb' = NoLeb BY <1>1 DEF Log, Heads, NoLeb
<1>3. Lebs' = Lebs /\ Bud' = Bud
  BY <1>1, <1>2 DEF Lebs, LebType, Nodes, CsNodes, RefNodes, Bud
<1>4. BudsType(buds)' = BudsType(buds') /\ BudBytes(buds)' = BudBytes(buds')
  BY <1>1, <1>3 DEF BudsType, BudBytes
<1>5. DiskTypes(flash, stale, mst, fill, dsq)' = DiskTypes(flash', stale', mst', fill', dsq')
  BY <1>1, <1>2, <1>3 DEF DiskTypes
<1>6. MemoryTypes(buds, wbuf, lhead, ltail, old_ltail, bud_bytes, cmt_bud_bytes, cmt_no, max_sqnum)'
      = MemoryTypes(buds', wbuf', lhead', ltail', old_ltail', bud_bytes', cmt_bud_bytes', cmt_no', max_sqnum')
  BY <1>1, <1>2, <1>4 DEF MemoryTypes
<1>7. HeadsOK(wbuf, buds, fill)' = HeadsOK(wbuf', buds', fill')
      /\ HeadsOnly(wbuf, buds)' = HeadsOnly(wbuf', buds')
      /\ HeadAtEnd(lhead, flash)' = HeadAtEnd(lhead', flash')
      /\ Next1(lhead.lnum)' = Next1(lhead'.lnum)
  BY <1>1, <1>2 DEF HeadsOK, HeadsOnly, HeadAtEnd, Next1
<1>8. /\ Resting(flash, buds, wbuf, fill, lhead, min_log_bytes, bud_bytes)'
         = Resting(flash', buds', wbuf', fill', lhead', min_log_bytes', bud_bytes')
      /\ Committing(flash, buds, wbuf, fill, lhead)' = Committing(flash', buds', wbuf', fill', lhead')
  BY <1>1, <1>4, <1>7 DEF Resting, Committing
<1>9. Phases(pc, flash, buds, wbuf, fill, lhead, ltail, min_log_bytes, bud_bytes, cmt_bud_bytes)'
  BY <1>1, <1>4, <1>7, <1>8 DEF Phases
<1> QED BY <1>5, <1>6, <1>9 DEF LogInv, LogTypes

(* What is in memory when the file system is not mounted.                    *)
LEMMA UnmountedTypes ==
  ASSUME sb \in Superblocks, Unmounted
  PROVE  MemoryTypes(buds', wbuf', lhead', ltail', old_ltail', bud_bytes', cmt_bud_bytes', cmt_no', max_sqnum')
<1>1. LogLebs \in Nat /\ LogLebs >= 2 /\ LebSize \in Nat BY Sizes
<1>2. 0 \in Log BY <1>1, SMTT(30) DEF Log
<1>3. BudsType(buds') 
  <2>1. buds' = <<>> BY DEF Unmounted
  <2>2. DOMAIN buds' = {} BY <2>1, SMTT(30)
  <2>3. buds' = [l \in {} |-> buds'[l]] BY <2>1, SMTT(30)
  <2> QED BY <2>2, <2>3 DEF BudsType
<1>4. wbuf' \in [Heads -> [lnum : Main \cup {NoLeb}, offs : 0 .. LebSize]] BY <1>1, SMTT(30) DEF Unmounted
<1> QED BY <1>2, <1>3, <1>4, SMTT(30) DEF Unmounted, MemoryTypes

(* What holds when the file system is not in use.                            *)
LEMMA IdlePhase ==
  ASSUME NEW p \in {"off", "failed", "error", "done"}, NEW f, NEW b, NEW w, NEW fi, NEW head, NEW tail,
         NEW min, NEW bb, NEW cbb
  PROVE  Phases(p, f, b, w, fi, head, tail, min, bb, cbb)
BY DEF Phases

(* The process ends, or the power goes.                                      *)
LEMMA StopStep ==
  ASSUME LogInv, sb' = sb, Stop \/ PowerCut
  PROVE  LogInv'
<1>1. sb \in Superblocks /\ DiskTypes(flash, stale, mst, fill, dsq) BY DEF LogInv, LogTypes
<1>2. pc' = "off" /\ Unmounted BY DEF Stop, PowerCut
<1>3. MemoryTypes(buds', wbuf', lhead', ltail', old_ltail', bud_bytes', cmt_bud_bytes', cmt_no', max_sqnum')
  BY <1>1, <1>2, UnmountedTypes
<1>4. Phases(pc', flash', buds', wbuf', fill', lhead', ltail', min_log_bytes', bud_bytes', cmt_bud_bytes')
  BY <1>2, IdlePhase
<1>5. DiskTypes(flash', stale', mst', fill', dsq')
  <2>1. CASE Stop BY <1>1, <2>1 DEF Stop, disk
  <2>2. CASE PowerCut
    <3>1. flash' \in AfterCut /\ stale' = flash' /\ UNCHANGED <<mst, fill, dsq>> BY <2>2 DEF PowerCut
    <3>2. flash' \in [Log -> Lebs]
      <4>1. flash \in [Log -> Lebs] /\ stale \in [Log -> Lebs] BY <1>1 DEF DiskTypes
      <4>2. PICK S \in SUBSET {l \in Log : stale[l] # flash[l]} :
              flash' = [l \in Log |-> IF l \in S THEN stale[l] ELSE flash[l]]
        BY <3>1 DEF AfterCut
      <4> QED BY <4>1, <4>2
    <3> QED BY <1>1, <3>1, <3>2 DEF DiskTypes
  <2> QED BY <2>1, <2>2
<1> QED BY <1>1, <1>3, <1>4, <1>5, InvNext

(* do_commit() writes the master node.                                       *)
LEMMA EndCommitStep ==
  ASSUME LogInv, sb' = sb, NEW final \in BOOLEAN, EndCommit(final) \/ EndCommitFails(final)
  PROVE  LogInv'
<1>1. /\ sb \in Superblocks /\ DiskTypes(flash, stale, mst, fill, dsq)
      /\ MemoryTypes(buds, wbuf, lhead, ltail, old_ltail, bud_bytes, cmt_bud_bytes, cmt_no, max_sqnum)
  BY DEF LogInv, LogTypes
<1>2. pc = "started" BY DEF EndCommit, EndCommitFails
<1>3. Committing(flash, buds, wbuf, fill, lhead) /\ bud_bytes - cmt_bud_bytes = BudBytes(buds)
  BY <1>2 DEF LogInv, Phases
<1>4. lhead.lnum \in Log /\ max_sqnum + 1 \in Nat /\ bud_bytes - cmt_bud_bytes \in Int /\ cmt_no \in Nat
  BY <1>1, SMTT(30) DEF MemoryTypes
<1>5. NewMaster(final) \in [lnum : Log, cmt_no : Nat, sqnum : Nat, dirty : BOOLEAN]
  BY <1>4 DEF NewMaster
<1>6. CASE EndCommit(final)
  <2>1. /\ old_ltail' = ltail /\ ltail' = lhead.lnum /\ min_log_bytes' = LogSize
        /\ bud_bytes' = bud_bytes - cmt_bud_bytes /\ mst' = NewMaster(final) /\ max_sqnum' = max_sqnum + 1
        /\ pc' = "ended"
        /\ UNCHANGED <<flash, stale, fill, dsq, buds, wbuf, lhead, cmt_bud_bytes, cmt_no>>
    BY <1>6 DEF EndCommit
  <2>2. DiskTypes(flash', stale', mst', fill', dsq') BY <1>1, <1>5, <2>1 DEF DiskTypes
  <2>3. MemoryTypes(buds', wbuf', lhead', ltail', old_ltail', bud_bytes', cmt_bud_bytes', cmt_no', max_sqnum')
    BY <1>1, <1>4, <2>1 DEF MemoryTypes
  <2>4. Phases(pc', flash', buds', wbuf', fill', lhead', ltail', min_log_bytes', bud_bytes', cmt_bud_bytes')
    BY <1>3, <2>1 DEF Phases
  <2> QED BY <1>1, <2>2, <2>3, <2>4, InvNext
<1>7. CASE EndCommitFails(final)
  <2>1. /\ mst' = NewMaster(final) \/ mst' = mst
        /\ pc' = "error" /\ UNCHANGED <<flash, stale, fill, dsq, buds, wbuf, lhead, ltail, old_ltail>>
        /\ UNCHANGED <<bud_bytes, cmt_bud_bytes, cmt_no, max_sqnum>>
    BY <1>7 DEF EndCommitFails, acct
  <2>2. DiskTypes(flash', stale', mst', fill', dsq') BY <1>1, <1>5, <2>1 DEF DiskTypes
  <2>3. MemoryTypes(buds', wbuf', lhead', ltail', old_ltail', bud_bytes', cmt_bud_bytes', cmt_no', max_sqnum')
    BY <1>1, <2>1
  <2>4. Phases(pc', flash', buds', wbuf', fill', lhead', ltail', min_log_bytes', bud_bytes', cmt_bud_bytes')
    BY <2>1, IdlePhase
  <2> QED BY <1>1, <2>2, <2>3, <2>4, InvNext
<1> QED BY <1>6, <1>7

(* Unmapping LEBs of the log.                                                *)
LEMMA UnmapTypes ==
  ASSUME LogTypes, NEW S, LebUnmap(S)
  PROVE  /\ flash' \in [Log -> Lebs] /\ stale' \in [Log -> Lebs]
         /\ \A l \in Log \ S : flash'[l] = flash[l]
<1>1. sb \in Superblocks /\ flash \in [Log -> Lebs] /\ stale \in [Log -> Lebs] BY DEF LogTypes, DiskTypes
<1>2. Blank \in Lebs BY <1>1, BlankType
<1> QED BY <1>1, <1>2 DEF LebUnmap

(* ubifs_log_post_commit() does not reach the new tail.                      *)
LEMMA PostCommitStep ==
  ASSUME LogInv, sb' = sb, PostCommit \/ PostCommitFails
  PROVE  LogInv'
<1>1. /\ sb \in Superblocks /\ DiskTypes(flash, stale, mst, fill, dsq)
      /\ MemoryTypes(buds, wbuf, lhead, ltail, old_ltail, bud_bytes, cmt_bud_bytes, cmt_no, max_sqnum)
  BY DEF LogInv, LogTypes
<1>2. PICK S : LebUnmap(S) /\ (PostCommit => S = OldLog(OldLogCnt)) /\ UNCHANGED <<mst, fill, dsq>>
               /\ UNCHANGED <<buds, wbuf, lhead, ltail, old_ltail>>
               /\ UNCHANGED <<min_log_bytes, bud_bytes, cmt_bud_bytes, cmt_no, max_sqnum>>
  BY DEF PostCommit, PostCommitFails, acct
<1>3. flash' \in [Log -> Lebs] /\ stale' \in [Log -> Lebs] /\ \A l \in Log \ S : flash'[l] = flash[l]
  BY <1>2, UnmapTypes DEF LogInv
<1>4. DiskTypes(flash', stale', mst', fill', dsq') BY <1>1, <1>2, <1>3 DEF DiskTypes
<1>5. MemoryTypes(buds', wbuf', lhead', ltail', old_ltail', bud_bytes', cmt_bud_bytes', cmt_no', max_sqnum')
  BY <1>1, <1>2
<1>6. Phases(pc', flash', buds', wbuf', fill', lhead', ltail', min_log_bytes', bud_bytes', cmt_bud_bytes')
  <2>1. CASE pc' \in {"done", "error"} BY <2>1, IdlePhase
  <2>2. CASE PostCommit /\ pc' = "rest"
    <3>1. pc = "ended" BY <2>2 DEF PostCommit
    <3>2. /\ Committing(flash, buds, wbuf, fill, lhead) /\ bud_bytes = BudBytes(buds)
          /\ min_log_bytes = LogSize /\ lhead.lnum = ltail
      BY <3>1 DEF LogInv, Phases
    <3>3. ltail \in Log /\ old_ltail \in Log BY <1>1 DEF MemoryTypes
    <3>4. /\ OldLogCnt \in 0 .. LogLebs - 1
          /\ \A i \in 0 .. LogLebs - 1 : (old_ltail + i) % LogLebs = ltail => i = OldLogCnt
      BY <1>1, <3>3, DistanceIs, SMTT(30) DEF OldLogCnt
    <3>5. ltail \notin OldLog(OldLogCnt)
      <4> SUFFICES ASSUME NEW i \in 0 .. OldLogCnt - 1, (old_ltail + i) % LogLebs = ltail PROVE FALSE
        BY DEF OldLog
      <4>1. LogLebs \in Nat BY <1>1, Sizes
      <4>2. i \in 0 .. LogLebs - 1 /\ i # OldLogCnt BY <3>4, <4>1, SMTT(30)
      <4> QED BY <3>4, <4>2
    <3>6. flash'[lhead.lnum] = flash[lhead.lnum] BY <1>2, <1>3, <2>2, <3>2, <3>3, <3>5
    <3>7. Resting(flash', buds', wbuf', fill', lhead', min_log_bytes', bud_bytes')
      BY <1>2, <3>2, <3>6 DEF Resting, Committing, HeadAtEnd
    <3>8. Next1(lhead'.lnum) # ltail' BY <1>1, <1>2, <3>2, <3>3, NextIs
    <3> QED BY <2>2, <3>7, <3>8 DEF Phases
  <2> QED BY <2>1, <2>2 DEF PostCommit, PostCommitFails
<1> QED BY <1>1, <1>4, <1>5, <1>6, InvNext

(* A node goes to a journal head.                                            *)
LEMMA WriteNodeStep ==
  ASSUME LogInv, sb' = sb, NEW h \in Heads, WriteNode(h)
  PROVE  LogInv'
<1> DEFINE l == wbuf[h].lnum
<1>1. /\ sb \in Superblocks /\ DiskTypes(flash, stale, mst, fill, dsq)
      /\ MemoryTypes(buds, wbuf, lhead, ltail, old_ltail, bud_bytes, cmt_bud_bytes, cmt_no, max_sqnum)
  BY DEF LogInv, LogTypes
<1>2. /\ pc = "rest" /\ pc' = "rest" /\ l # NoLeb /\ wbuf[h].offs < LebSize
      /\ max_sqnum' = max_sqnum + 1 /\ fill' = [fill EXCEPT ![l] = @ + 1]
      /\ dsq' = [dsq EXCEPT ![l] = max_sqnum + 1] /\ wbuf' = [wbuf EXCEPT ![h].offs = @ + 1]
      /\ UNCHANGED <<flash, stale, mst, buds, lhead, ltail, old_ltail>>
      /\ UNCHANGED <<min_log_bytes, bud_bytes, cmt_bud_bytes, cmt_no>>
  BY DEF WriteNode
<1>3. Resting(flash, buds, wbuf, fill, lhead, min_log_bytes, bud_bytes) /\ Next1(lhead.lnum) # ltail
  BY <1>2 DEF LogInv, Phases
<1>4. /\ wbuf \in [Heads -> [lnum : Main \cup {NoLeb}, offs : 0 .. LebSize]] /\ max_sqnum \in Nat
      /\ fill \in [Main -> 0 .. LebSize] /\ dsq \in [Main -> Nat] /\ LebSize \in Nat
  BY <1>1, Sizes DEF MemoryTypes, DiskTypes
<1>5. l \in Main /\ wbuf[h].offs \in 0 .. LebSize /\ wbuf[h].offs + 1 \in 0 .. LebSize BY <1>2, <1>4, SMTT(30)
<1>6. HeadsOK(wbuf, buds, fill) BY <1>3 DEF Resting
<1>7. fill[l] = wbuf[h].offs BY <1>2, <1>6 DEF HeadsOK
<1>8. fill' \in [Main -> 0 .. LebSize] /\ dsq' \in [Main -> Nat] BY <1>2, <1>4, <1>5, <1>7, SMTT(30)
<1>9. /\ wbuf'[h].lnum = wbuf[h].lnum /\ wbuf'[h].offs = wbuf[h].offs + 1
      /\ wbuf'[h] \in [lnum : Main \cup {NoLeb}, offs : 0 .. LebSize]
      /\ \A g \in Heads \ {h} : wbuf'[g] = wbuf[g]
      /\ wbuf' \in [Heads -> [lnum : Main \cup {NoLeb}, offs : 0 .. LebSize]]
  <2>1. wbuf[h] \in [lnum : Main \cup {NoLeb}, offs : 0 .. LebSize] BY <1>4
  <2>2. wbuf' = [wbuf EXCEPT ![h] = [wbuf[h] EXCEPT !.offs = wbuf[h].offs + 1]] BY <1>2
  <2>3. [wbuf[h] EXCEPT !.offs = wbuf[h].offs + 1] \in [lnum : Main \cup {NoLeb}, offs : 0 .. LebSize]
    BY <2>1, <1>5
  <2> QED BY <1>4, <2>1, <2>2, <2>3
<1>10. DiskTypes(flash', stale', mst', fill', dsq') BY <1>1, <1>2, <1>8 DEF DiskTypes
<1>11. MemoryTypes(buds', wbuf', lhead', ltail', old_ltail', bud_bytes', cmt_bud_bytes', cmt_no', max_sqnum')
  BY <1>1, <1>2, <1>4, <1>9, SMTT(30) DEF MemoryTypes
<1>12. HeadsOK(wbuf', buds', fill')
  <2> SUFFICES ASSUME NEW g \in Heads, wbuf'[g].lnum # NoLeb
               PROVE  /\ wbuf'[g].lnum \in DOMAIN buds /\ buds[wbuf'[g].lnum].jhead = g
                      /\ fill'[wbuf'[g].lnum] = wbuf'[g].offs
    BY <1>2 DEF HeadsOK
  <2>1. wbuf'[g].lnum = wbuf[g].lnum BY <1>9
  <2>2. wbuf[g].lnum \in DOMAIN buds /\ buds[wbuf[g].lnum].jhead = g /\ fill[wbuf[g].lnum] = wbuf[g].offs
    BY <1>6, <2>1 DEF HeadsOK
  <2>3. CASE g = h
    <3>1. fill'[l] = fill[l] + 1 BY <1>2, <1>4, <1>5
    <3> QED BY <2>1, <2>2, <2>3, <3>1, <1>9
  <2>4. CASE g # h
    <3>1. wbuf[g].lnum # l
      <4>1. buds[l].jhead = h BY <1>2, <1>6 DEF HeadsOK
      <4> QED BY <2>2, <2>4, <4>1
    <3>2. wbuf[g].lnum \in Main BY <1>4, <2>1
    <3>3. fill'[wbuf[g].lnum] = fill[wbuf[g].lnum] BY <1>2, <1>4, <3>1, <3>2
    <3>4. wbuf'[g] = wbuf[g] BY <1>9, <2>4
    <3> QED BY <2>2, <3>3, <3>4
  <2> QED BY <2>3, <2>4
<1>13. Phases(pc', flash', buds', wbuf', fill', lhead', ltail', min_log_bytes', bud_bytes', cmt_bud_bytes')
  BY <1>2, <1>3, <1>12 DEF Phases, Resting
<1> QED BY <1>1, <1>10, <1>11, <1>13, InvNext

(* The log head of the next reference node: there is room in the LEB, and it *)
(* is not the last one before the tail.                                      *)
LEMMA HeadForRefIs ==
  ASSUME LogInv, pc = "rest", EmptyLogBytes - 1 >= LogSize
  PROVE  /\ HeadForRef.lnum \in Log /\ HeadForRef.offs \in 0 .. LogSize - 1
         /\ HeadForRef = [lnum |-> HeadForRef.lnum, offs |-> HeadForRef.offs]
         /\ Next1(HeadForRef.lnum) # ltail
         /\ HeadForRef.offs # 0 => HeadForRef.offs = flash[HeadForRef.lnum].endpt
<1>1. /\ sb \in Superblocks /\ lhead \in [lnum : Log, offs : Nat] /\ ltail \in Log /\ flash \in [Log -> Lebs]
  BY DEF LogInv, LogTypes, MemoryTypes, DiskTypes
<1>2. lhead.offs = flash[lhead.lnum].endpt /\ Next1(lhead.lnum) # ltail
  BY DEF LogInv, Phases, Resting, HeadAtEnd
<1>3. lhead.lnum \in Log /\ lhead.offs \in Nat /\ lhead.offs <= LogSize BY <1>1, <1>2 DEF Lebs
<1>4. LogLebs \in Nat /\ LogLebs >= 2 /\ LogSize \in Nat /\ LogSize >= 2 BY <1>1, Sizes
<1>5. CASE lhead.offs <= LogSize - 1
  <2>1. HeadForRef = lhead BY <1>3, <1>4, <1>5, SMTT(30) DEF HeadForRef
  <2> QED BY <1>1, <1>2, <1>3, <1>4, <1>5, <2>1, SMTT(30)
<1>6. CASE lhead.offs > LogSize - 1
  <2>1. HeadForRef = [lnum |-> Next1(lhead.lnum), offs |-> 0] BY <1>6 DEF HeadForRef
  <2>2. /\ Next1(lhead.lnum) = IF lhead.lnum = LogLebs - 1 THEN 0 ELSE lhead.lnum + 1
        /\ Next1(lhead.lnum) \in Log
    BY <1>1, <1>3, NextIs
  <2>3. Next1(Next1(lhead.lnum)) = IF Next1(lhead.lnum) = LogLebs - 1 THEN 0 ELSE Next1(lhead.lnum) + 1
    BY <1>1, <2>2, NextIs
  <2>4. Next1(Next1(lhead.lnum)) # ltail
    <3> SUFFICES ASSUME Next1(Next1(lhead.lnum)) = ltail PROVE FALSE OBVIOUS
    <3>0. /\ lhead.lnum \in Nat /\ ltail \in Nat /\ lhead.lnum <= LogLebs - 1 /\ ltail <= LogLebs - 1
      BY <1>1, <1>3, <1>4, SMTT(30) DEF Log
    <3>1. PICK n \in Nat, z \in Nat, a \in Nat, t \in Nat :
            /\ n = LogLebs /\ z = LogSize /\ a = lhead.lnum /\ t = ltail
            /\ n >= 2 /\ z >= 2 /\ a <= n - 1 /\ t <= n - 1
      BY <3>0, <1>4
    <3>2. lhead.offs = z BY <1>3, <1>4, <1>6, <3>1, SMTT(30)
    <3>3. PICK az \in Nat, tz \in Nat, nz \in Nat : az = a * z /\ tz = t * z /\ nz = n * z BY <3>1, SMTT(30)
    <3>4. EmptyLogBytes = IF az + z > tz THEN (nz - (az + z)) + tz
                          ELSE IF az + z # tz THEN tz - (az + z) ELSE IF a # t THEN 0 ELSE nz
      BY <3>1, <3>2, <3>3 DEF EmptyLogBytes
    <3>5. (a = n - 1 /\ t = 1) \/ (a = n - 2 /\ t = 0) \/ t = a + 2
      <4>1. t = IF Next1(a) = n - 1 THEN 0 ELSE Next1(a) + 1 BY <2>3, <3>1
      <4>2. Next1(a) = IF a = n - 1 THEN 0 ELSE a + 1 BY <2>2, <3>1
      <4>3. PICK x \in Nat : x = Next1(a) BY <4>2, SMTT(30)
      <4> QED BY <3>1, <4>1, <4>2, <4>3, SMTT(30)
    <3>6. CASE a = n - 1 /\ t = 1
      <4>1. nz = az + z /\ tz = z BY <3>1, <3>3, <3>6, SMTT(30)
      <4>2. 2 * z <= nz BY <3>1, <3>3, MulMono
      <4> QED BY <4>1, <4>2, <3>1, <3>4, SMTT(30)
    <3>7. CASE a = n - 2 /\ t = 0
      <4>1. nz = az + 2 * z /\ tz = 0 BY <3>1, <3>3, <3>7, SMTT(30)
      <4> QED BY <4>1, <3>1, <3>4, SMTT(30)
    <3>8. CASE t = a + 2
      <4>1. tz = az + 2 * z BY <3>1, <3>3, <3>8, SMTT(30)
      <4> QED BY <4>1, <3>1, <3>4, SMTT(30)
    <3> QED BY <3>5, <3>6, <3>7, <3>8
  <2> QED BY <1>4, <2>1, <2>2, <2>4, SMTT(30)
<1> QED BY <1>3, <1>4, <1>5, <1>6, SMTT(30)

(* The log LEB that takes the next reference node.                           *)
LEMMA RefFits ==
  ASSUME LogInv, pc = "rest", EmptyLogBytes - 1 >= LogSize,
         NEW leb, leb = IF HeadForRef.offs = 0 THEN Blank ELSE flash[HeadForRef.lnum],
         NEW ref \in RefNodes
  PROVE  /\ Append1(leb, <<ref>>) \in Lebs /\ TornAppend(leb, <<ref>>) \subseteq Lebs
         /\ Append1(leb, <<ref>>).endpt = HeadForRef.offs + 1 /\ ~Append1(leb, <<ref>>).torn
<1>1. sb \in Superblocks /\ flash \in [Log -> Lebs] BY DEF LogInv, LogTypes, DiskTypes
<1>2. /\ HeadForRef.lnum \in Log /\ HeadForRef.offs \in 0 .. LogSize - 1
      /\ HeadForRef.offs # 0 => HeadForRef.offs = flash[HeadForRef.lnum].endpt
  BY HeadForRefIs
<1>3. leb \in Lebs /\ leb.endpt = HeadForRef.offs
  <2>1. Blank \in Lebs /\ Blank.endpt = 0 BY <1>1, BlankType DEF Blank
  <2> QED BY <1>1, <1>2, <2>1
<1>4. <<ref>> \in Seq(Nodes) /\ Len(<<ref>>) = 1 BY SMTT(30) DEF Nodes
<1>5. Units(1) = 1
  <2>1. PerUnit \in Nat \ {0} BY <1>1, Sizes
  <2>2. 1 <= 1 * PerUnit BY <2>1, SMTT(30)
  <2>3. Units(1) \in Nat /\ Units(1) <= 1 /\ Units(1) > 0 BY <1>1, <2>2, UnitsIs, SMTT(30)
  <2> QED BY <2>3, SMTT(30)
<1>6. LogSize \in Nat BY <1>1, Sizes
<1>7. leb.endpt + Units(Len(<<ref>>)) <= LogSize BY <1>2, <1>3, <1>4, <1>5, <1>6, SMTT(30)
<1>8. Append1(leb, <<ref>>) \in Lebs /\ TornAppend(leb, <<ref>>) \subseteq Lebs
  <2>1. Len(<<ref>>) > 0 BY <1>4, SMTT(30)
  <2> QED BY <1>1, <1>3, <1>4, <1>7, <2>1, AppendType
<1>9. Append1(leb, <<ref>>).endpt = leb.endpt + Units(1) /\ ~Append1(leb, <<ref>>).torn BY <1>4 DEF Append1
<1> QED BY <1>3, <1>5, <1>8, <1>9

(* A LEB of the log is written.                                              *)
LEMMA PutTypes ==
  ASSUME LogTypes, NEW l \in Log, NEW leb \in Lebs, LebPut(l, leb)
  PROVE  flash' \in [Log -> Lebs] /\ stale' \in [Log -> Lebs] /\ flash'[l] = leb
<1>1. flash \in [Log -> Lebs] /\ stale \in [Log -> Lebs] BY DEF LogTypes, DiskTypes
<1> QED BY <1>1 DEF LebPut

(* ubifs_add_bud_to_log()                                                    *)
LEMMA AddBudStep ==
  ASSUME LogInv, sb' = sb, NEW h \in Heads, NEW l \in Main, NEW o \in 0 .. LebSize - 1, AddBud(h, l, o)
  PROVE  LogInv'
<1> DEFINE hd == HeadForRef
           leb == IF hd.offs = 0 THEN Blank ELSE flash[hd.lnum]
           ref == RefNode(l, o, h, max_sqnum + 1)
<1>1. /\ sb \in Superblocks /\ DiskTypes(flash, stale, mst, fill, dsq)
      /\ MemoryTypes(buds, wbuf, lhead, ltail, old_ltail, bud_bytes, cmt_bud_bytes, cmt_no, max_sqnum)
  BY DEF LogInv, LogTypes
<1>2. /\ pc = "rest" /\ pc' = "rest" /\ CanBeBud(l, o) /\ LogHasRoom(o)
      /\ LebPut(hd.lnum, Append1(leb, <<ref>>)) /\ lhead' = [hd EXCEPT !.offs = @ + 1]
      /\ buds' = WithBud(buds, l, o, h) /\ wbuf' = [wbuf EXCEPT ![h] = [lnum |-> l, offs |-> o]]
      /\ fill' = [fill EXCEPT ![l] = o] /\ dsq' = [dsq EXCEPT ![l] = IF o = 0 THEN 0 ELSE @]
      /\ bud_bytes' = bud_bytes + LebSize - o /\ max_sqnum' = max_sqnum + 1
      /\ UNCHANGED <<mst, ltail, old_ltail, min_log_bytes, cmt_bud_bytes, cmt_no>>
  BY DEF AddBud
<1>3. Resting(flash, buds, wbuf, fill, lhead, min_log_bytes, bud_bytes)
  BY <1>2 DEF LogInv, Phases
<1>4. EmptyLogBytes - 1 >= LogSize BY <1>2, <1>3 DEF LogHasRoom, Resting
<1>5. /\ hd.lnum \in Log /\ hd.offs \in 0 .. LogSize - 1 /\ hd = [lnum |-> hd.lnum, offs |-> hd.offs]
      /\ Next1(hd.lnum) # ltail
  BY <1>2, <1>4, HeadForRefIs
<1>6. /\ LebSize \in Nat /\ LogSize \in Nat /\ max_sqnum \in Nat /\ o \in 0 .. LebSize /\ bud_bytes \in Int
      /\ BudsType(buds) /\ l \notin DOMAIN buds
  BY <1>1, <1>2, Sizes, SMTT(30) DEF MemoryTypes, CanBeBud
<1>7. ref \in RefNodes BY <1>6, SMTT(30) DEF RefNode, RefNodes
<1>8. Append1(leb, <<ref>>) \in Lebs /\ Append1(leb, <<ref>>).endpt = hd.offs + 1 /\ ~Append1(leb, <<ref>>).torn
  <2> HIDE DEF ref
  <2> QED BY <1>2, <1>4, <1>7, RefFits
<1>9. flash' \in [Log -> Lebs] /\ stale' \in [Log -> Lebs] /\ flash'[hd.lnum] = Append1(leb, <<ref>>)
  <2> HIDE DEF ref, leb, hd
  <2> QED BY <1>2, <1>5, <1>8, PutTypes DEF LogInv
<1> HIDE DEF hd, leb, ref
<1>10. lhead'.lnum = hd.lnum /\ lhead'.offs = hd.offs + 1 /\ lhead' \in [lnum : Log, offs : Nat]
  BY <1>2, <1>5, SMTT(30)
<1>11. BudsType(buds') /\ BudBytes(buds') = BudBytes(buds) + LebSize - o
  BY <1>1, <1>2, <1>6, BudBytesMore
<1>12. /\ wbuf \in [Heads -> [lnum : Main \cup {NoLeb}, offs : 0 .. LebSize]]
       /\ fill \in [Main -> 0 .. LebSize] /\ dsq \in [Main -> Nat]
  BY <1>1 DEF MemoryTypes, DiskTypes
<1>13. fill' \in [Main -> 0 .. LebSize] /\ dsq' \in [Main -> Nat] BY <1>2, <1>6, <1>12
<1>14. wbuf' \in [Heads -> [lnum : Main \cup {NoLeb}, offs : 0 .. LebSize]] BY <1>2, <1>6, <1>12
<1>15. DiskTypes(flash', stale', mst', fill', dsq') BY <1>1, <1>2, <1>9, <1>13 DEF DiskTypes
<1>16. MemoryTypes(buds', wbuf', lhead', ltail', old_ltail', bud_bytes', cmt_bud_bytes', cmt_no', max_sqnum')
  BY <1>1, <1>2, <1>6, <1>10, <1>11, <1>14, SMTT(30) DEF MemoryTypes
<1>17. HeadsOK(wbuf', buds', fill')
  <2> SUFFICES ASSUME NEW g \in Heads, wbuf'[g].lnum # NoLeb
               PROVE  /\ wbuf'[g].lnum \in DOMAIN buds' /\ buds'[wbuf'[g].lnum].jhead = g
                      /\ fill'[wbuf'[g].lnum] = wbuf'[g].offs
    BY DEF HeadsOK
  <2>1. /\ DOMAIN buds' = DOMAIN buds \cup {l} /\ buds'[l] = [start |-> o, jhead |-> h]
        /\ \A x \in DOMAIN buds : x # l => buds'[x] = buds[x]
    BY <1>2 DEF WithBud
  <2>2. CASE g = h
    <3>1. wbuf'[g] = [lnum |-> l, offs |-> o] BY <1>2, <1>12, <2>2
    <3>2. fill'[l] = o BY <1>2, <1>12
    <3> QED BY <2>1, <2>2, <3>1, <3>2, SMTT(30)
  <2>3. CASE g # h
    <3>1. wbuf'[g] = wbuf[g] BY <1>2, <1>12, <2>3
    <3>2. wbuf[g].lnum \in DOMAIN buds /\ buds[wbuf[g].lnum].jhead = g /\ fill[wbuf[g].lnum] = wbuf[g].offs
      BY <1>3, <3>1 DEF Resting, HeadsOK
    <3>3. wbuf[g].lnum # l /\ wbuf[g].lnum \in Main BY <1>6, <3>2 DEF BudsType
    <3>4. fill'[wbuf[g].lnum] = fill[wbuf[g].lnum] BY <1>2, <1>12, <3>3
    <3> QED BY <2>1, <3>1, <3>2, <3>3, <3>4
  <2> QED BY <2>2, <2>3
<1>18. HeadAtEnd(lhead', flash') BY <1>8, <1>9, <1>10 DEF HeadAtEnd
<1>19. bud_bytes' = BudBytes(buds') /\ min_log_bytes' = LogSize BY <1>2, <1>3, <1>11 DEF Resting
<1>20. Next1(lhead'.lnum) # ltail' BY <1>2, <1>5, <1>10
<1>21. Phases(pc', flash', buds', wbuf', fill', lhead', ltail', min_log_bytes', bud_bytes', cmt_bud_bytes')
  BY <1>2, <1>17, <1>18, <1>19, <1>20 DEF Phases, Resting
<1> QED BY <1>1, <1>15, <1>16, <1>21, InvNext

(* ubifs_add_bud_to_log() when the reference node cannot be written.         *)
LEMMA AddBudFailsStep ==
  ASSUME LogInv, sb' = sb, NEW h \in Heads, NEW l \in Main, NEW o \in 0 .. LebSize - 1, AddBudFails(h, l, o)
  PROVE  LogInv'
<1> DEFINE hd == HeadForRef
           leb == IF hd.offs = 0 THEN Blank ELSE flash[hd.lnum]
           ref == RefNode(l, o, h, max_sqnum + 1)
<1>1. /\ sb \in Superblocks /\ DiskTypes(flash, stale, mst, fill, dsq)
      /\ MemoryTypes(buds, wbuf, lhead, ltail, old_ltail, bud_bytes, cmt_bud_bytes, cmt_no, max_sqnum)
  BY DEF LogInv, LogTypes
<1>2. /\ pc = "rest" /\ pc' = "error" /\ LogHasRoom(o)
      /\ \E new \in TornAppend(leb, <<ref>>) :
           IF new = Blank THEN LebUnmap({hd.lnum}) ELSE LebPut(hd.lnum, new)
      /\ fill' = [fill EXCEPT ![l] = o] /\ dsq' = [dsq EXCEPT ![l] = IF o = 0 THEN 0 ELSE @]
      /\ UNCHANGED <<mst, buds, wbuf, lhead, ltail, old_ltail>>
      /\ UNCHANGED <<bud_bytes, cmt_bud_bytes, cmt_no, max_sqnum>>
  BY DEF AddBudFails, acct
<1>3. EmptyLogBytes - 1 >= LogSize BY <1>2 DEF LogHasRoom, Resting, LogInv, Phases
<1>4. hd.lnum \in Log BY <1>2, <1>3, HeadForRefIs
<1>5. LebSize \in Nat /\ max_sqnum \in Nat /\ o \in 0 .. LebSize BY <1>1, Sizes, SMTT(30) DEF MemoryTypes
<1>6. ref \in RefNodes BY <1>5, SMTT(30) DEF RefNode, RefNodes
<1>7. TornAppend(leb, <<ref>>) \subseteq Lebs
  <2> HIDE DEF ref
  <2> QED BY <1>2, <1>3, <1>6, RefFits
<1> HIDE DEF hd, leb, ref
<1>8. flash' \in [Log -> Lebs] /\ stale' \in [Log -> Lebs]
  <2>1. PICK new \in Lebs : IF new = Blank THEN LebUnmap({hd.lnum}) ELSE LebPut(hd.lnum, new) BY <1>2, <1>7
  <2> QED BY <1>4, <2>1, UnmapTypes, PutTypes DEF LogInv
<1>9. fill' \in [Main -> 0 .. LebSize] /\ dsq' \in [Main -> Nat] BY <1>1, <1>2, <1>5 DEF DiskTypes
<1>10. DiskTypes(flash', stale', mst', fill', dsq') BY <1>1, <1>2, <1>8, <1>9 DEF DiskTypes
<1>11. MemoryTypes(buds', wbuf', lhead', ltail', old_ltail', bud_bytes', cmt_bud_bytes', cmt_no', max_sqnum')
  BY <1>1, <1>2
<1>12. Phases(pc', flash', buds', wbuf', fill', lhead', ltail', min_log_bytes', bud_bytes', cmt_bud_bytes')
  BY <1>2, IdlePhase
<1> QED BY <1>1, <1>10, <1>11, <1>12, InvNext

(* ubifs_log_start_commit(): the nodes it writes fit in a LEB, with room for *)
(* another reference node.                                                   *)
LEMMA CommitNodesAre ==
  ASSUME LogTypes
  PROVE  /\ CommitNodes \in Seq(Nodes) /\ Len(CommitNodes) > 0 /\ Len(CommitNodes) \in Nat
         /\ Units(Len(CommitNodes)) \in 1 .. LogSize - 1
         /\ CommitLeb \in Log
<1> DEFINE S == {h \in Heads : wbuf[h].lnum # NoLeb /\ wbuf[h].offs # LebSize}
           n == Cardinality(S)
           R == [i \in 1 .. Len(OpenHeads) |->
                   LET w == wbuf[OpenHeads[i]] IN
                   RefNode(w.lnum, w.offs, OpenHeads[i], max_sqnum + 1 + i)]
           C == CsNode(cmt_no + 1, max_sqnum + 1)
<1>1. /\ sb \in Superblocks /\ wbuf \in [Heads -> [lnum : Main \cup {NoLeb}, offs : 0 .. LebSize]]
      /\ cmt_no \in Nat /\ max_sqnum \in Nat /\ lhead.lnum \in Log
  BY DEF LogTypes, MemoryTypes
<1>2. /\ JheadCnt \in Nat /\ PerUnit \in Nat \ {0} /\ LogSize \in Nat /\ LogSize >= 2
      /\ (LogSize - 1) * PerUnit >= JheadCnt + 1
  BY <1>1, Sizes
<1>3. IsFiniteSet(Heads) /\ Cardinality(Heads) = JheadCnt /\ Heads \subseteq Nat
  <2>1. IsFiniteSet(0 .. JheadCnt - 1) /\ Cardinality(0 .. JheadCnt - 1) = JheadCnt BY <1>2, FS_Interval, SMTT(30)
  <2> QED BY <1>2, <2>1, SMTT(30) DEF Heads
<1>4. S \subseteq Heads OBVIOUS
<1>5. OpenHeads = Sorted(S) BY DEF OpenHeads
<1>6. \A h \in S : wbuf[h].lnum \in Main /\ wbuf[h].offs \in 0 .. LebSize BY <1>1
<1> HIDE DEF S
<1>7. IsFiniteSet(S) /\ n <= JheadCnt /\ S \subseteq Nat /\ n \in Nat
  BY <1>3, <1>4, FS_Subset, FS_CardinalityType
<1>8. Sorted(S) \in [1 .. n -> S] BY <1>7, SortedIs
<1> HIDE DEF n
<1>9. Len(OpenHeads) = n /\ \A i \in 1 .. n : OpenHeads[i] \in S BY <1>5, <1>7, <1>8, SMTT(30)
<1>10. R \in Seq(Nodes) /\ Len(R) = n
  <2>1. \A i \in 1 .. n : R[i] \in Nodes
    <3> SUFFICES ASSUME NEW i \in 1 .. n PROVE R[i] \in Nodes OBVIOUS
    <3>1. PICK h \in S : h = OpenHeads[i] BY <1>9
    <3>2. h \in Heads /\ wbuf[h].lnum \in Main /\ wbuf[h].offs \in 0 .. LebSize BY <1>4, <1>6
    <3>3. R[i] = RefNode(wbuf[h].lnum, wbuf[h].offs, h, max_sqnum + 1 + i) BY <1>9, <3>1
    <3>4. max_sqnum + 1 + i \in Nat BY <1>1, <1>7, SMTT(30)
    <3>5. RefNode(wbuf[h].lnum, wbuf[h].offs, h, max_sqnum + 1 + i) \in RefNodes
      BY <3>2, <3>4 DEF RefNode, RefNodes
    <3> QED BY <3>3, <3>5 DEF Nodes
  <2>2. R = [i \in 1 .. n |-> R[i]] BY <1>9
  <2> HIDE DEF R
  <2> QED BY <1>7, <2>1, <2>2, SMTT(30)
<1>11. C \in Nodes BY <1>1, SMTT(30) DEF CsNode, CsNodes, Nodes
<1>12. CommitNodes = <<C>> \o R BY DEF CommitNodes
<1> HIDE DEF R, C
<1>13. <<C>> \in Seq(Nodes) /\ Len(<<C>>) = 1 BY <1>11, SMTT(30)
<1>14. CommitNodes \in Seq(Nodes) /\ Len(CommitNodes) = 1 + n BY <1>10, <1>12, <1>13, ConcatIs
<1>15. Units(Len(CommitNodes)) \in 1 .. LogSize - 1
  <2>1. PICK k \in Nat, z \in Nat : k = 1 + n /\ z = LogSize - 1 BY <1>2, <1>7, SMTT(30)
  <2>2. k <= z * PerUnit
    <3>1. (LogSize - 1) * PerUnit = z * PerUnit BY <2>1
    <3>2. z * PerUnit \in Nat BY <1>2, SMTT(30)
    <3> QED BY <1>2, <1>7, <2>1, <3>1, <3>2, SMTT(30)
  <2>3. Units(k) \in Nat /\ Units(k) <= z /\ (k > 0 => Units(k) > 0) BY <1>1, <2>2, UnitsIs
  <2>4. k > 0 BY <1>7, <2>1, SMTT(30)
  <2> QED BY <1>2, <1>14, <2>1, <2>3, <2>4, SMTT(30)
<1>16. CommitLeb \in Log BY <1>1, NextIs DEF CommitLeb
<1> QED BY <1>7, <1>14, <1>15, <1>16, SMTT(30)

(* ubifs_log_start_commit()                                                  *)
LEMMA StartCommitStep ==
  ASSUME LogInv, sb' = sb, StartCommit
  PROVE  LogInv'
<1> DEFINE leb == Append1(Blank, CommitNodes)
           u == Units(Len(CommitNodes))
<1>1. /\ sb \in Superblocks /\ DiskTypes(flash, stale, mst, fill, dsq) /\ LogTypes
      /\ MemoryTypes(buds, wbuf, lhead, ltail, old_ltail, bud_bytes, cmt_bud_bytes, cmt_no, max_sqnum)
  BY DEF LogInv, LogTypes
<1>2. /\ pc = "rest" /\ pc' = "started" /\ LebPut(CommitLeb, leb)
      /\ lhead' = [lnum |-> CommitLeb, offs |-> u] /\ cmt_bud_bytes' = RemovedBytes
      /\ buds' = [l \in HeadBuds |-> [buds[l] EXCEPT !.start = wbuf[buds[l].jhead].offs]]
      /\ cmt_no' = cmt_no + 1 /\ max_sqnum' = max_sqnum + Len(CommitNodes)
      /\ UNCHANGED <<mst, fill, dsq, wbuf, ltail, old_ltail, bud_bytes>>
  BY DEF StartCommit
<1>3. Resting(flash, buds, wbuf, fill, lhead, min_log_bytes, bud_bytes)
  BY <1>2 DEF LogInv, Phases
<1>4. /\ CommitNodes \in Seq(Nodes) /\ Len(CommitNodes) > 0 /\ Len(CommitNodes) \in Nat
      /\ u \in 1 .. LogSize - 1 /\ CommitLeb \in Log
  BY <1>1, CommitNodesAre
<1>5. LogSize \in Nat /\ max_sqnum \in Nat /\ cmt_no \in Nat /\ bud_bytes \in Int
  BY <1>1, Sizes DEF MemoryTypes
<1>6. Blank \in Lebs /\ Blank.endpt = 0 BY <1>1, BlankType DEF Blank
<1>7. leb \in Lebs BY <1>1, <1>4, <1>5, <1>6, AppendType, SMTT(30)
<1>8. leb.endpt = u /\ ~leb.torn BY <1>4, <1>5, <1>6, SMTT(30) DEF Append1
<1> HIDE DEF leb, u
<1>9. flash' \in [Log -> Lebs] /\ stale' \in [Log -> Lebs] /\ flash'[CommitLeb] = leb
  BY <1>1, <1>2, <1>4, <1>7, PutTypes
<1>10. /\ BudsType(buds') /\ RemovedBytes \in Int /\ BudBytes(buds) = RemovedBytes + BudBytes(buds')
       /\ DOMAIN buds' = HeadBuds /\ \A l \in HeadBuds : buds'[l].jhead = buds[l].jhead
  BY <1>1, <1>2, BudBytesCommit
<1>11. lhead' \in [lnum : Log, offs : Nat] /\ lhead'.offs = u /\ lhead'.lnum = CommitLeb BY <1>2, <1>4, <1>5, SMTT(30)
<1>12. DiskTypes(flash', stale', mst', fill', dsq') BY <1>1, <1>2, <1>9 DEF DiskTypes
<1>13. cmt_no' \in Nat /\ max_sqnum' \in Nat BY <1>2, <1>4, <1>5, SMTT(30)
<1>14. MemoryTypes(buds', wbuf', lhead', ltail', old_ltail', bud_bytes', cmt_bud_bytes', cmt_no', max_sqnum')
  BY <1>1, <1>2, <1>10, <1>11, <1>13 DEF MemoryTypes
<1>15. HeadsOK(wbuf', buds', fill')
  <2> SUFFICES ASSUME NEW g \in Heads, wbuf[g].lnum # NoLeb
               PROVE  /\ wbuf[g].lnum \in DOMAIN buds' /\ buds'[wbuf[g].lnum].jhead = g
                      /\ fill[wbuf[g].lnum] = wbuf[g].offs
    BY <1>2 DEF HeadsOK
  <2>1. wbuf[g].lnum \in DOMAIN buds /\ buds[wbuf[g].lnum].jhead = g /\ fill[wbuf[g].lnum] = wbuf[g].offs
    BY <1>3 DEF Resting, HeadsOK
  <2>2. wbuf[g].lnum \in HeadBuds BY <2>1 DEF HeadBuds
  <2> QED BY <1>10, <2>1, <2>2
<1>16. HeadsOnly(wbuf', buds') BY <1>2, <1>10 DEF HeadsOnly, HeadBuds
<1>17. HeadAtEnd(lhead', flash') BY <1>8, <1>9, <1>11 DEF HeadAtEnd
<1>18. bud_bytes' - cmt_bud_bytes' = BudBytes(buds')
  <2>1. BudBytes(buds') \in Int /\ bud_bytes = BudBytes(buds)
    <3>1. BudBytes(buds) \in Int BY <1>3, <1>5 DEF Resting
    <3>2. \A l \in DOMAIN buds' : wbuf'[buds'[l].jhead].lnum = l BY <1>16 DEF HeadsOnly
    <3>3. PICK H : H = [h \in Heads |-> wbuf'[h].lnum] OBVIOUS
    <3>4. \A l \in DOMAIN buds' : buds'[l].jhead \in Heads BY <1>10 DEF BudsType, Bud
    <3>5. \A l \in DOMAIN buds' : H[buds'[l].jhead] = l BY <3>2, <3>3, <3>4
    <3>6. BudBytes(buds') \in Nat BY <1>1, <1>10, <3>5, BudBytesBound
    <3> QED BY <1>3, <3>6, SMTT(30) DEF Resting
  <2> QED BY <1>2, <1>5, <1>10, <2>1, SMTT(30)
<1>19. lhead'.offs \in 1 .. LogSize - 1 BY <1>4, <1>11
<1>20. Phases(pc', flash', buds', wbuf', fill', lhead', ltail', min_log_bytes', bud_bytes', cmt_bud_bytes')
  BY <1>2, <1>15, <1>16, <1>17, <1>18, <1>19 DEF Phases, Committing
<1> QED BY <1>1, <1>12, <1>14, <1>20, InvNext

(* ubifs_log_start_commit() when the nodes cannot be written.                *)
LEMMA StartCommitFailsStep ==
  ASSUME LogInv, sb' = sb, StartCommitFails
  PROVE  LogInv'
<1>1. /\ sb \in Superblocks /\ DiskTypes(flash, stale, mst, fill, dsq) /\ LogTypes
      /\ MemoryTypes(buds, wbuf, lhead, ltail, old_ltail, bud_bytes, cmt_bud_bytes, cmt_no, max_sqnum)
  BY DEF LogInv, LogTypes
<1>2. /\ pc' = "error"
      /\ \E new \in TornAppend(Blank, CommitNodes) :
           IF new = Blank THEN LebUnmap({CommitLeb}) ELSE LebPut(CommitLeb, new)
      /\ UNCHANGED <<mst, fill, dsq, buds, wbuf, lhead, ltail, old_ltail>>
      /\ UNCHANGED <<bud_bytes, cmt_bud_bytes, cmt_no, max_sqnum>>
  BY DEF StartCommitFails, acct
<1>3. /\ CommitNodes \in Seq(Nodes) /\ Len(CommitNodes) > 0
      /\ Units(Len(CommitNodes)) \in 1 .. LogSize - 1 /\ CommitLeb \in Log
  BY <1>1, CommitNodesAre
<1>4. LogSize \in Nat BY <1>1, Sizes
<1>5. Blank \in Lebs /\ Blank.endpt = 0 BY <1>1, BlankType DEF Blank
<1>6. TornAppend(Blank, CommitNodes) \subseteq Lebs BY <1>1, <1>3, <1>4, <1>5, AppendType, SMTT(30)
<1>7. flash' \in [Log -> Lebs] /\ stale' \in [Log -> Lebs]
  <2>1. PICK new \in Lebs : IF new = Blank THEN LebUnmap({CommitLeb}) ELSE LebPut(CommitLeb, new) BY <1>2, <1>6
  <2> QED BY <1>1, <1>3, <2>1, UnmapTypes, PutTypes
<1>8. DiskTypes(flash', stale', mst', fill', dsq') BY <1>1, <1>2, <1>7 DEF DiskTypes
<1>9. MemoryTypes(buds', wbuf', lhead', ltail', old_ltail', bud_bytes', cmt_bud_bytes', cmt_no', max_sqnum')
  BY <1>1, <1>2
<1>10. Phases(pc', flash', buds', wbuf', fill', lhead', ltail', min_log_bytes', bud_bytes', cmt_bud_bytes')
  BY <1>2, IdlePhase
<1> QED BY <1>1, <1>8, <1>9, <1>10, InvNext

(* set_bud_lprops(): a journal head without buds has no LEB, another one is  *)
(* at the end of one of its own buds.                                        *)
LEMMA HeadsReplayed ==
  ASSUME LogTypes, NEW first \in Seq(RefNodes), NEW h \in Heads, NEW w, w = HeadAfterReplay(first, h),
         \A i, j \in DOMAIN first : first[i].lnum = first[j].lnum => i = j
  PROVE  /\ w \in [lnum : Main \cup {NoLeb}, offs : 0 .. LebSize]
         /\ w.lnum # NoLeb => /\ w.lnum \in DOMAIN BudsOf(first) /\ BudsOf(first)[w.lnum].jhead = h
                              /\ fill[w.lnum] = w.offs
<1> DEFINE mine == {i \in DOMAIN first : first[i].jhead = h}
<1>1. sb \in Superblocks /\ fill \in [Main -> 0 .. LebSize] /\ LebSize \in Nat
  BY Sizes DEF LogTypes, DiskTypes
<1>2. Len(first) \in Nat /\ DOMAIN first = 1 .. Len(first) /\ \A i \in DOMAIN first : first[i] \in RefNodes
  BY LenIs, SMTT(30)
<1>3. CASE mine = {}
  <2>1. w = [lnum |-> NoLeb, offs |-> 0] BY <1>3 DEF HeadAfterReplay
  <2>2. 0 \in 0 .. LebSize BY <1>1, SMTT(30)
  <2> QED BY <2>1, <2>2, SMTT(30)
<1>4. CASE mine # {}
  <2>1. IsFiniteSet(mine) /\ mine \subseteq Nat
    <3>1. IsFiniteSet(1 .. Len(first)) BY <1>2, FS_Interval, SMTT(30)
    <3>2. mine \subseteq 1 .. Len(first) BY <1>2
    <3> QED BY <3>1, <3>2, FS_Subset, SMTT(30)
  <2>2. Max(mine) \in mine BY <1>4, <2>1, MaxIs
  <2>3. PICK k \in DOMAIN first : k = Max(mine) /\ first[k].jhead = h BY <2>2
  <2>4. PICK l : l = first[k].lnum OBVIOUS
  <2>5. w = [lnum |-> l, offs |-> fill[l]] BY <1>4, <2>3, <2>4 DEF HeadAfterReplay
  <2>6. first[k] \in RefNodes BY <1>2
  <2>7. l \in Main BY <2>4, <2>6 DEF RefNodes
  <2>8. fill[l] \in 0 .. LebSize BY <1>1, <2>7
  <2>9. l \in {first[i].lnum : i \in DOMAIN first} BY <2>4
  <2>10. DOMAIN BudsOf(first) = {first[i].lnum : i \in DOMAIN first} BY BudsOfType
  <2>11. PICK c : c = CHOOSE i \in DOMAIN first : first[i].lnum = l OBVIOUS
  <2>12. c \in DOMAIN first /\ first[c].lnum = l BY <2>4, <2>11
  <2>13. c = k BY <2>4, <2>12
  <2>14. BudsOf(first)[l] = [start |-> first[c].offs, jhead |-> first[c].jhead] BY <2>9, <2>11 DEF BudsOf
  <2>15. BudsOf(first)[l].jhead = h BY <2>3, <2>13, <2>14, SMTT(30)
  <2>16. w.lnum = l /\ w.offs = fill[l] BY <2>5, SMTT(30)
  <2> QED BY <2>5, <2>7, <2>8, <2>9, <2>10, <2>15, <2>16
<1> QED BY <1>3, <1>4

(* ubifs_recover_leb() of the unsound LEBs of the log.                       *)
LEMMA FixTypes ==
  ASSUME LogTypes, NEW S, FixUncleanLebs(S)
  PROVE  /\ flash' \in [Log -> Lebs] /\ stale' \in [Log -> Lebs]
         /\ \A l \in Log : flash[l].nodes # <<>> =>
              /\ flash'[l].nodes = flash[l].nodes /\ flash'[l].endpt = flash[l].endpt
              /\ flash'[l].torn => flash[l].torn /\ l \notin S
<1> DEFINE F(l) == [flash[l] EXCEPT !.torn = FALSE]
<1>1. sb \in Superblocks /\ flash \in [Log -> Lebs] /\ stale \in [Log -> Lebs] BY DEF LogTypes, DiskTypes
<1>2. Blank \in Lebs BY <1>1, BlankType
<1>3. \A leb \in Lebs : LET g == [leb EXCEPT !.torn = FALSE] IN
        g \in LebType /\ g.nodes = leb.nodes /\ g.endpt = leb.endpt /\ g.torn = FALSE
  BY DEF Lebs, LebType
<1>4. \A l \in Log : /\ F(l) \in Lebs /\ F(l).nodes = flash[l].nodes
                     /\ F(l).endpt = flash[l].endpt /\ F(l).torn = FALSE
  <2> SUFFICES ASSUME NEW l \in Log
               PROVE  /\ F(l) \in Lebs /\ F(l).nodes = flash[l].nodes
                      /\ F(l).endpt = flash[l].endpt /\ F(l).torn = FALSE
    OBVIOUS
  <2>1. flash[l] \in Lebs BY <1>1
  <2>2. F(l) \in LebType /\ F(l).nodes = flash[l].nodes /\ F(l).endpt = flash[l].endpt /\ F(l).torn = FALSE
    BY <1>3, <2>1
  <2> HIDE DEF F
  <2>3. F(l) \in Lebs BY <2>1, <2>2 DEF Lebs
  <2> QED BY <2>2, <2>3
<1>5. /\ flash' = [l \in Log |-> IF l \notin S THEN flash[l] ELSE IF flash[l].nodes = <<>> THEN Blank ELSE F(l)]
      /\ stale' = [l \in Log |-> IF l \notin S THEN stale[l] ELSE
                                  IF flash[l].nodes # <<>> THEN F(l) ELSE
                                  IF "rcvry" \in Faults THEN stale[l] ELSE Blank]
  BY DEF FixUncleanLebs
<1> HIDE DEF F
<1> QED BY <1>1, <1>2, <1>4, <1>5

(* ubifs_load_filesystem()                                                   *)
LEMMA MountStep ==
  ASSUME LogInv, sb' = sb, Mount
  PROVE  LogInv'
<1>1. /\ sb \in Superblocks /\ DiskTypes(flash, stale, mst, fill, dsq) /\ LogTypes
  BY DEF LogInv, LogTypes
<1>2. PICK r : r = Replay(flash, mst) OBVIOUS
<1>3. UNCHANGED <<fill, dsq>> BY DEF Mount
<1>4. CASE ~r.ok
  <2>1. pc' = "failed" /\ UNCHANGED <<flash, stale, mst>> /\ Unmounted BY <1>2, <1>4 DEF Mount
  <2>2. DiskTypes(flash', stale', mst', fill', dsq') BY <1>1, <1>3, <2>1 DEF DiskTypes
  <2>3. MemoryTypes(buds', wbuf', lhead', ltail', old_ltail', bud_bytes', cmt_bud_bytes', cmt_no', max_sqnum')
    BY <1>1, <2>1, UnmountedTypes
  <2>4. Phases(pc', flash', buds', wbuf', fill', lhead', ltail', min_log_bytes', bud_bytes', cmt_bud_bytes')
    BY <2>1, IdlePhase
  <2> QED BY <1>1, <2>2, <2>3, <2>4, InvNext
<1>5. CASE r.ok
  <2>1. /\ FixUncleanLebs(r.torn)
        /\ mst' = IF mst.dirty THEN mst ELSE [mst EXCEPT !.dirty = TRUE, !.sqnum = @ + 1]
        /\ buds' = r.buds /\ wbuf' = [h \in Heads |-> HeadAfterReplay(r.first, h)]
        /\ lhead' = r.lhead /\ ltail' = mst.lnum /\ old_ltail' = 0
        /\ min_log_bytes' = LogSize /\ bud_bytes' = BudBytes(r.buds) /\ cmt_bud_bytes' = 0
        /\ cmt_no' = mst.cmt_no /\ max_sqnum' = Max({r.sqnum, mst'.sqnum})
        /\ pc' = IF LogIsFull(r.lhead.lnum, mst.lnum) THEN "full" ELSE "rest"
    BY <1>2, <1>5 DEF Mount
  <2>2. /\ r.lhead.lnum \in Log /\ r.lhead.offs = flash[r.lhead.lnum].endpt
        /\ r.lhead = [lnum |-> r.lhead.lnum, offs |-> r.lhead.offs]
        /\ flash[r.lhead.lnum].nodes # <<>> /\ (flash[r.lhead.lnum].torn => r.lhead.lnum \in r.torn)
        /\ flash[mst.lnum].nodes # <<>> /\ flash[mst.lnum].nodes[1].type = "cs"
        /\ r.first \in Seq(RefNodes) /\ r.buds = BudsOf(r.first)
        /\ \A i, j \in DOMAIN r.first : r.first[i].lnum = r.first[j].lnum => i = j
        /\ r.sqnum \in Nat
    BY <1>1, <1>2, <1>5, ReplayIs
  <2>3. /\ mst \in [lnum : Log, cmt_no : Nat, sqnum : Nat, dirty : BOOLEAN] /\ flash \in [Log -> Lebs]
        /\ fill \in [Main -> 0 .. LebSize] /\ dsq \in [Main -> Nat]
    BY <1>1 DEF DiskTypes
  <2>4. mst' \in [lnum : Log, cmt_no : Nat, sqnum : Nat, dirty : BOOLEAN]
    <3>1. CASE mst.dirty BY <2>1, <2>3, <3>1
    <3>2. CASE ~mst.dirty
      <4>1. mst' = [mst EXCEPT !.dirty = TRUE, !.sqnum = @ + 1] BY <2>1, <3>2
      <4>2. mst' = [lnum |-> mst.lnum, cmt_no |-> mst.cmt_no, sqnum |-> mst.sqnum + 1, dirty |-> TRUE]
        BY <2>3, <4>1
      <4>3. mst.sqnum + 1 \in Nat BY <2>3, SMTT(30)
      <4> QED BY <2>3, <4>2, <4>3
    <3> QED BY <3>1, <3>2
  <2>5. max_sqnum' \in Nat
    <3>1. PICK a, b : a = r.sqnum /\ b = mst'.sqnum OBVIOUS
    <3>2. a \in Nat /\ b \in Nat BY <2>2, <2>4, <3>1
    <3>3. IsFiniteSet({a, b})
      <4>1. IsFiniteSet({a}) BY FS_Singleton
      <4>2. IsFiniteSet({a} \cup {b}) BY <4>1, FS_AddElement
      <4>3. {a} \cup {b} = {a, b} OBVIOUS
      <4> QED BY <4>2, <4>3
    <3>4. Max({a, b}) \in {a, b} BY <3>2, <3>3, MaxIs
    <3> QED BY <2>1, <3>1, <3>2, <3>4
  <2>6. /\ flash' \in [Log -> Lebs] /\ stale' \in [Log -> Lebs]
        /\ \A l \in Log : flash[l].nodes # <<>> =>
             /\ flash'[l].nodes = flash[l].nodes /\ flash'[l].endpt = flash[l].endpt
             /\ flash'[l].torn => flash[l].torn /\ l \notin r.torn
    BY <1>1, <2>1, FixTypes
  <2>7. BudsType(buds') /\ bud_bytes' = BudBytes(buds') /\ bud_bytes' \in Int
    <3>1. BudsType(buds') BY <2>1, <2>2, BudsOfType
    <3>2. /\ BudBytes(buds') = SumFunctionOnSet(Left(buds'), DOMAIN buds') /\ IsFiniteSet(DOMAIN buds')
          /\ \A l \in DOMAIN buds' : Left(buds')[l] \in 0 .. LebSize
      BY <1>1, <3>1, BudBytesIs
    <3>3. LebSize \in Nat BY <1>1, Sizes
    <3>4. BudBytes(buds') \in Nat BY <3>2, <3>3, SumBound
    <3>5. BudBytes(buds') \in Int BY <3>4, SMTT(30)
    <3> QED BY <2>1, <3>1, <3>5
  <2>8. \A h \in Heads :
          /\ wbuf'[h] \in [lnum : Main \cup {NoLeb}, offs : 0 .. LebSize]
          /\ wbuf'[h].lnum # NoLeb => /\ wbuf'[h].lnum \in DOMAIN buds' /\ buds'[wbuf'[h].lnum].jhead = h
                                      /\ fill[wbuf'[h].lnum] = wbuf'[h].offs
    <3> SUFFICES ASSUME NEW h \in Heads
                 PROVE  /\ wbuf'[h] \in [lnum : Main \cup {NoLeb}, offs : 0 .. LebSize]
                        /\ wbuf'[h].lnum # NoLeb =>
                             /\ wbuf'[h].lnum \in DOMAIN buds' /\ buds'[wbuf'[h].lnum].jhead = h
                             /\ fill[wbuf'[h].lnum] = wbuf'[h].offs
      OBVIOUS
    <3>1. wbuf'[h] = HeadAfterReplay(r.first, h) BY <2>1
    <3>2. buds' = BudsOf(r.first) BY <2>1, <2>2
    <3> QED BY <1>1, <2>2, <3>1, <3>2, HeadsReplayed, SMTT(30)
  <2>9. wbuf' \in [Heads -> [lnum : Main \cup {NoLeb}, offs : 0 .. LebSize]] BY <2>1, <2>8
  <2>10. DiskTypes(flash', stale', mst', fill', dsq') BY <1>3, <2>3, <2>4, <2>6 DEF DiskTypes
  <2>11. lhead' \in [lnum : Log, offs : Nat] /\ mst.lnum \in Log /\ mst.cmt_no \in Nat /\ 0 \in Log
    <3>1. flash[r.lhead.lnum].endpt \in Nat BY <2>2, <2>3 DEF Lebs, LebType
    <3>2. 0 \in Log BY <1>1, Sizes, SMTT(30) DEF Log
    <3> QED BY <2>1, <2>2, <2>3, <3>1, <3>2
  <2>12. MemoryTypes(buds', wbuf', lhead', ltail', old_ltail', bud_bytes', cmt_bud_bytes', cmt_no', max_sqnum')
    BY <2>1, <2>5, <2>7, <2>9, <2>11, SMTT(30) DEF MemoryTypes
  <2>13. HeadAtEnd(lhead', flash') BY <2>1, <2>2, <2>6 DEF HeadAtEnd
  <2>14. Resting(flash', buds', wbuf', fill', lhead', min_log_bytes', bud_bytes')
    BY <1>3, <2>1, <2>7, <2>8, <2>13 DEF Resting, HeadsOK
  <2>15. flash'[ltail'].nodes # <<>> /\ flash'[ltail'].nodes[1].type = "cs" BY <2>1, <2>2, <2>6, <2>11
  <2>16. Phases(pc', flash', buds', wbuf', fill', lhead', ltail', min_log_bytes', bud_bytes', cmt_bud_bytes')
    BY <2>1, <2>14, <2>15 DEF Phases, LogIsFull
  <2> QED BY <1>1, <2>10, <2>12, <2>16, InvNext
<1> QED BY <1>4, <1>5

(* Nodes cut into LEBs.                                                      *)
LEMMA CutType ==
  ASSUME sb \in Superblocks, NEW nodes \in Seq(Nodes), NEW k \in Nat \ {0}, NEW cap, cap = LogSize * PerUnit,
         NEW s, s = SubSeq(nodes, (k - 1) * cap + 1, Min({k * cap, Len(nodes)}))
  PROVE  [nodes |-> s, endpt |-> Units(Len(s)), torn |-> FALSE] \in Lebs
<1>1. LogSize \in Nat /\ PerUnit \in Nat BY Sizes
<1>2. PICK c \in Nat : c = cap BY <1>1, SMTT(30)
<1>3. PICK p \in Nat, q \in Nat, n \in Nat : p = (k - 1) * cap /\ q = k * cap /\ n = Len(nodes) /\ q = p + cap
  <2>1. k - 1 \in Nat /\ k = (k - 1) + 1 BY SMTT(30)
  <2>2. PICK j \in Nat : j = k - 1 BY <2>1
  <2>3. j * c \in Nat /\ (j + 1) * c = j * c + c BY SMTT(30)
  <2>4. k * cap = (j + 1) * c /\ (k - 1) * cap = j * c BY <1>2, <2>1, <2>2
  <2>5. (j + 1) * c \in Nat BY <2>3, SMTT(30)
  <2>6. Len(nodes) \in Nat BY LenIs
  <2> QED BY <1>2, <2>3, <2>4, <2>5, <2>6
<1>4. PICK m : m = Min({q, n}) OBVIOUS
<1>5. m \in Nat /\ m <= q /\ m <= n
  <2>1. {q, n} \subseteq Nat /\ {q, n} # {} OBVIOUS
  <2>2. m \in {q, n} /\ \A x \in {q, n} : m <= x BY <1>4, <2>1, MinIs
  <2> QED BY <2>2
<1>6. s = SubSeq(nodes, p + 1, m) BY <1>3, <1>4
<1>7. \A i \in p + 1 .. m : nodes[i] \in Nodes
  <2>1. \A i \in 1 .. n : nodes[i] \in Nodes BY <1>3, LenIs
  <2>2. \A i \in p + 1 .. m : i \in 1 .. n BY <1>5, SMTT(30)
  <2> QED BY <2>1, <2>2
<1>8. s \in Seq(Nodes) /\ Len(s) = IF p + 1 <= m THEN m - (p + 1) + 1 ELSE 0
  <2>1. PICK a \in Int : a = p + 1 BY SMTT(30)
  <2>2. m \in Int BY <1>5, SMTT(30)
  <2>3. s = SubSeq(nodes, a, m) /\ \A i \in a .. m : nodes[i] \in Nodes BY <1>6, <1>7, <2>1
  <2>4. SubSeq(nodes, a, m) \in Seq(Nodes) /\ Len(SubSeq(nodes, a, m)) = IF a <= m THEN m - a + 1 ELSE 0
    BY <2>2, <2>3, SubSeqIs
  <2> QED BY <2>1, <2>3, <2>4
<1>9. Len(s) \in Nat /\ Len(s) <= LogSize * PerUnit
  <2>1. PICK len : len = Len(s) OBVIOUS
  <2>2. len \in Nat /\ len <= c
    <3>1. len = IF p + 1 <= m THEN m - (p + 1) + 1 ELSE 0 BY <1>8, <2>1
    <3>2. m <= p + c BY <1>2, <1>3, <1>5
    <3> QED BY <1>5, <3>1, <3>2, SMTT(30)
  <2> QED BY <1>2, <2>1, <2>2
<1>10. Units(Len(s)) \in Nat /\ Units(Len(s)) <= LogSize /\ Len(s) <= Units(Len(s)) * PerUnit
  BY <1>1, <1>9, UnitsIs
<1> QED BY <1>8, <1>10 DEF Lebs, LebType

(* ubifs_consolidate_log(): what it writes fits in the log.                  *)
LEMMA ConsolidatedIs ==
  ASSUME LogInv, pc = "full"
  PROVE  /\ Len(Consolidated) \in 1 .. LogLebs
         /\ \A k \in 1 .. Len(Consolidated) : Consolidated[k] \in Lebs /\ ~Consolidated[k].torn
<1> DEFINE cnt == ((lhead.lnum - ltail + LogLebs) % LogLebs) + 1
           At(i) == flash[(ltail + i) % LogLebs]
           rr == [i \in 1 .. cnt |-> Refs(At(i - 1))]
           first == FirstRefs(Joined(rr))
           nodes == <<At(0).nodes[1]>> \o first
           cap == LogSize * PerUnit
           n == (Len(nodes) + cap - 1) \div cap
           Leb(k) == LET s == SubSeq(nodes, (k - 1) * cap + 1, Min({k * cap, Len(nodes)})) IN
                     [nodes |-> s, endpt |-> Units(Len(s)), torn |-> FALSE]
<1>1. Consolidated = [k \in 1 .. n |-> Leb(k)] BY DEF Consolidated
<1>2. /\ sb \in Superblocks /\ lhead.lnum \in Log /\ ltail \in Log /\ flash \in [Log -> Lebs]
      /\ LogLebs \in Nat /\ LogLebs >= 2 /\ LogSize \in Nat /\ LogSize >= 2 /\ PerUnit \in Nat \ {0}
  BY Sizes DEF LogInv, LogTypes, DiskTypes, MemoryTypes
<1>3. Next1(lhead.lnum) = ltail /\ flash[ltail].nodes # <<>> /\ flash[ltail].nodes[1].type = "cs"
  BY DEF LogInv, Phases
<1>4. cnt = LogLebs
  <2>1. PICK d : d = (lhead.lnum - ltail + LogLebs) % LogLebs OBVIOUS
  <2>2. d = IF lhead.lnum < ltail THEN lhead.lnum - ltail + LogLebs ELSE lhead.lnum - ltail
    <3>1. PICK a \in Log, l \in Log : a = ltail /\ l = lhead.lnum BY <1>2
    <3>2. d = (l - a + LogLebs) % LogLebs BY <2>1, <3>1
    <3>3. d = IF l < a THEN l - a + LogLebs ELSE l - a BY <1>2, <3>2, DistanceIs
    <3> QED BY <3>1, <3>3
  <2>3. ltail = IF lhead.lnum = LogLebs - 1 THEN 0 ELSE lhead.lnum + 1 BY <1>2, <1>3, NextIs
  <2>4. lhead.lnum \in 0 .. LogLebs - 1 BY <1>2 DEF Log
  <2>5. d = LogLebs - 1 BY <1>2, <2>2, <2>3, <2>4, SMTT(30)
  <2> QED BY <1>2, <2>1, <2>5, SMTT(30)
<1>5. \A i \in Nat : At(i) \in Lebs BY <1>2, RingType
<1>6. At(0) = flash[ltail]
  <2>1. (ltail + 0) % LogLebs = ltail BY <1>2, RingType
  <2> QED BY <2>1
<1> HIDE DEF At, cnt
<1>7. PICK c \in Nat : c = cap /\ c > 0
  <2>1. cap \in Nat /\ cap > 0 BY <1>2, SMTT(30)
  <2> QED BY <2>1
<1>8. rr \in Seq(Seq(RefNodes)) /\ Len(rr) = LogLebs
  <2>1. \A i \in 1 .. LogLebs : i - 1 \in Nat BY <1>2, SMTT(30)
  <2>2. \A i \in 1 .. LogLebs : Refs(At(i - 1)) \in Seq(RefNodes) BY <1>5, <2>1, RefsType
  <2> QED BY <1>2, <1>4, <2>2, SMTT(30)
<1>9. (\A i \in 1 .. Len(rr) : Len(rr[i]) <= c) /\ Len(rr[1]) < c
  <2>1. \A i \in 1 .. LogLebs : i - 1 \in Nat BY <1>2, SMTT(30)
  <2>2. \A i \in 1 .. LogLebs : rr[i] = Refs(At(i - 1)) BY <1>4
  <2>3. \A i \in 1 .. LogLebs : Len(Refs(At(i - 1))) <= c BY <1>2, <1>5, <1>7, <2>1, LebFits
  <2>4. 1 \in 1 .. LogLebs /\ 1 - 1 = 0 BY <1>2, SMTT(30)
  <2>5. rr[1] = Refs(flash[ltail])
    <3>1. rr[1] = Refs(At(1 - 1)) BY <2>2, <2>4
    <3> QED BY <1>6, <2>4, <3>1
  <2>6. flash[ltail] \in Lebs BY <1>2
  <2>7. Len(Refs(flash[ltail])) < c BY <1>2, <1>3, <1>7, <2>6, LebFits
  <2> QED BY <1>8, <2>2, <2>3, <2>5, <2>7
<1> HIDE DEF rr
<1>10. Joined(rr) \in Seq(RefNodes) /\ Len(Joined(rr)) < LogLebs * c
  <2>1. Len(rr) > 0 BY <1>2, <1>8, SMTT(30)
  <2> QED BY <1>8, <1>9, <2>1, JoinedType
<1>11. first \in Seq(RefNodes) /\ Len(first) <= Len(Joined(rr)) BY <1>10, FirstType
<1> HIDE DEF first
<1>12. nodes \in Seq(Nodes) /\ Len(nodes) = 1 + Len(first)
  <2>1. flash[ltail] \in Lebs BY <1>2
  <2>2. flash[ltail].nodes \in Seq(Nodes) BY <2>1 DEF Lebs, LebType
  <2>3. At(0).nodes[1] \in Nodes BY <1>3, <1>6, <2>2, SMTT(30)
  <2>4. PICK e \in Nodes : e = At(0).nodes[1] BY <2>3
  <2>5. <<e>> \in Seq(Nodes) /\ Len(<<e>>) = 1 BY SMTT(30)
  <2>6. first \in Seq(Nodes) BY <1>11, SMTT(30) DEF Nodes
  <2>7. <<e>> \o first \in Seq(Nodes) /\ Len(<<e>> \o first) = 1 + Len(first) BY <2>5, <2>6, ConcatIs
  <2> QED BY <2>4, <2>7
<1> HIDE DEF nodes
<1>13. Len(nodes) \in Nat /\ Len(nodes) > 0 /\ Len(nodes) <= LogLebs * c
  <2>1. Len(first) \in Nat /\ Len(Joined(rr)) \in Nat BY <1>10, <1>11, LenIs
  <2>2. LogLebs * c \in Nat BY <1>2, SMTT(30)
  <2> QED BY <1>10, <1>11, <1>12, <2>1, <2>2, SMTT(30)
<1>14. n \in Nat /\ n <= LogLebs /\ n > 0
  <2>a. PICK len \in Nat : len = Len(nodes) BY <1>13
  <2>b. c \in Nat \ {0} BY <1>7, SMTT(30)
  <2>1. PICK k : k = (len + c - 1) \div c OBVIOUS
  <2>2. k \in Nat /\ (\A m \in Nat : len <= m * c => k <= m) /\ (len > 0 => k > 0) BY <2>b, <2>1, CeilIs, SMTT(30)
  <2>3. k = n BY <1>7, <2>a, <2>1
  <2> QED BY <1>2, <1>13, <2>a, <2>2, <2>3
<1> HIDE DEF n
<1>15. \A k \in 1 .. n : Leb(k) \in Lebs /\ ~Leb(k).torn
  <2> SUFFICES ASSUME NEW k \in 1 .. n PROVE Leb(k) \in Lebs /\ ~Leb(k).torn OBVIOUS
  <2>1. k \in Nat \ {0} BY <1>14, SMTT(30)
  <2>2. Leb(k) \in Lebs BY <1>2, <1>12, <2>1, CutType
  <2> QED BY <2>2
<1> HIDE DEF Leb
<1>16. Len(Consolidated) = n /\ \A k \in 1 .. n : Consolidated[k] = Leb(k) BY <1>1, <1>14, SMTT(30)
<1>17. n \in 1 .. LogLebs BY <1>2, <1>14, SMTT(30)
<1> QED BY <1>15, <1>16, <1>17

(* The LEBs that ubifs_consolidate_log() writes and unmaps.                  *)
LEMMA ConsolidateTypes ==
  ASSUME LogInv, pc = "full", NEW k \in 0 .. Len(Consolidated), NEW u, ConsolidateLebs(k, u)
  PROVE  /\ flash' \in [Log -> Lebs] /\ stale' \in [Log -> Lebs]
         /\ \A l \in Log : \A i \in 0 .. k - 1 : (ltail + i) % LogLebs = l => flash'[l] = Consolidated[i + 1]
<1> DEFINE Pos(l) == (l - ltail + LogLebs) % LogLebs
<1>1. /\ sb \in Superblocks /\ ltail \in Log /\ flash \in [Log -> Lebs] /\ stale \in [Log -> Lebs]
      /\ LogLebs \in Nat /\ LogTypes
  BY Sizes DEF LogInv, LogTypes, DiskTypes, MemoryTypes
<1>2. /\ Len(Consolidated) \in 1 .. LogLebs
      /\ \A j \in 1 .. Len(Consolidated) : Consolidated[j] \in Lebs
  BY ConsolidatedIs
<1>3. \A l \in Log : /\ Pos(l) \in 0 .. LogLebs - 1
                     /\ \A i \in 0 .. LogLebs - 1 : (ltail + i) % LogLebs = l => i = Pos(l)
  BY <1>1, DistanceIs, SMTT(30)
<1>4. /\ flash' = [l \in Log |-> IF Pos(l) < k THEN Consolidated[Pos(l) + 1] ELSE
                                 IF Pos(l) < k + u THEN Blank ELSE flash[l]]
      /\ stale' = [l \in Log |-> IF Pos(l) < k THEN Consolidated[Pos(l) + 1] ELSE
                                 IF Pos(l) < k + u /\ "rcvry" \notin Faults THEN Blank ELSE stale[l]]
  BY DEF ConsolidateLebs
<1> HIDE DEF Pos
<1>5. \A l \in Log : Pos(l) < k => Pos(l) + 1 \in 1 .. Len(Consolidated) BY <1>1, <1>2, <1>3, SMTT(30)
<1>6. \A l \in Log : Pos(l) < k => Consolidated[Pos(l) + 1] \in Lebs BY <1>2, <1>5
<1>7. Blank \in Lebs BY <1>1, BlankType
<1>8. flash' \in [Log -> Lebs] /\ stale' \in [Log -> Lebs] BY <1>1, <1>4, <1>6, <1>7
<1>9. ASSUME NEW l \in Log, NEW i \in 0 .. k - 1, (ltail + i) % LogLebs = l
      PROVE  flash'[l] = Consolidated[i + 1]
  <2>1. i \in 0 .. LogLebs - 1 /\ i < k BY <1>1, <1>2, SMTT(30)
  <2>2. i = Pos(l) BY <1>3, <1>9, <2>1
  <2> QED BY <1>4, <2>1, <2>2
<1> QED BY <1>8, <1>9

(* ubifs_consolidate_log()                                                   *)
LEMMA ConsolidateStep ==
  ASSUME LogInv, sb' = sb, Consolidate \/ ConsolidateFails
  PROVE  LogInv'
<1> DEFINE n == Len(Consolidated)
           last == (ltail + n - 1) % LogLebs
<1>1. /\ sb \in Superblocks /\ DiskTypes(flash, stale, mst, fill, dsq)
      /\ MemoryTypes(buds, wbuf, lhead, ltail, old_ltail, bud_bytes, cmt_bud_bytes, cmt_no, max_sqnum)
  BY DEF LogInv, LogTypes
<1>2. /\ pc = "full" /\ UNCHANGED <<mst, fill, dsq, buds, wbuf, ltail, old_ltail>>
      /\ UNCHANGED <<min_log_bytes, bud_bytes, cmt_bud_bytes, cmt_no, max_sqnum>>
  BY DEF Consolidate, ConsolidateFails, acct
<1>3. /\ n \in 1 .. LogLebs
      /\ \A j \in 1 .. n : Consolidated[j] \in Lebs /\ ~Consolidated[j].torn
  BY <1>2, ConsolidatedIs
<1>4. /\ Resting(flash, buds, wbuf, fill, lhead, min_log_bytes, bud_bytes) /\ Next1(lhead.lnum) = ltail
  BY <1>2 DEF LogInv, Phases
<1>5. LogLebs \in Nat /\ lhead.lnum \in Log /\ ltail \in Log /\ 0 \in 0 .. n /\ n \in 0 .. n
  BY <1>1, <1>3, Sizes, SMTT(30) DEF MemoryTypes
<1>6. CASE \/ ConsolidateFails
           \/ Consolidate /\ last = lhead.lnum
  <2>1. /\ pc' \in {"error", "failed"} /\ lhead' = lhead
        /\ \E k \in 0 .. n : \E u : ConsolidateLebs(k, u)
    <3>1. CASE ConsolidateFails
      BY <3>1 DEF ConsolidateFails
    <3>2. CASE Consolidate /\ last = lhead.lnum
      BY <1>5, <3>2 DEF Consolidate
    <3> QED BY <1>6, <3>1, <3>2
  <2> HIDE DEF n
  <2>2. flash' \in [Log -> Lebs] /\ stale' \in [Log -> Lebs] BY <1>2, <2>1, ConsolidateTypes DEF n
  <2>3. DiskTypes(flash', stale', mst', fill', dsq') BY <1>1, <1>2, <2>2 DEF DiskTypes
  <2>4. MemoryTypes(buds', wbuf', lhead', ltail', old_ltail', bud_bytes', cmt_bud_bytes', cmt_no', max_sqnum')
    BY <1>1, <1>2, <2>1
  <2>5. Phases(pc', flash', buds', wbuf', fill', lhead', ltail', min_log_bytes', bud_bytes', cmt_bud_bytes')
    BY <2>1, IdlePhase
  <2> QED BY <1>1, <2>3, <2>4, <2>5, InvNext
<1>7. CASE Consolidate /\ last # lhead.lnum
  <2>1. /\ ConsolidateLebs(n, LogLebs - n)
        /\ lhead' = [lnum |-> last, offs |-> Consolidated[n].endpt] /\ pc' = "rest"
    BY <1>7 DEF Consolidate
  <2>2. /\ flash' \in [Log -> Lebs] /\ stale' \in [Log -> Lebs]
        /\ \A l \in Log : \A i \in 0 .. n - 1 : (ltail + i) % LogLebs = l => flash'[l] = Consolidated[i + 1]
    BY <1>2, <1>5, <2>1, ConsolidateTypes
  <2> HIDE DEF n
  <2>3. n - 1 \in 0 .. n - 1 /\ n - 1 \in Nat /\ (n - 1) + 1 = n /\ n \in 1 .. n BY <1>3, <1>5, SMTT(30)
  <2>4. last \in Log /\ last = (ltail + (n - 1)) % LogLebs BY <1>1, <1>5, <2>3, RingType
  <2> HIDE DEF last
  <2>5. flash'[last] = Consolidated[n]
    <3>1. PICK i \in 0 .. n - 1 : i = n - 1 BY <2>3
    <3>2. flash'[last] = Consolidated[i + 1] BY <2>2, <2>4, <3>1
    <3> QED BY <2>3, <3>1, <3>2
  <2>6. Consolidated[n] \in Lebs /\ ~Consolidated[n].torn BY <1>3, <2>3
  <2>7. Consolidated[n].endpt \in Nat BY <2>6 DEF Lebs, LebType
  <2>8. lhead' \in [lnum : Log, offs : Nat] /\ lhead'.lnum = last /\ lhead'.offs = Consolidated[n].endpt
    BY <2>1, <2>4, <2>7
  <2>9. Next1(last) # ltail
    <3>1. /\ Next1(last) = IF last = LogLebs - 1 THEN 0 ELSE last + 1
          /\ Next1(lhead.lnum) = IF lhead.lnum = LogLebs - 1 THEN 0 ELSE lhead.lnum + 1
      BY <1>1, <1>5, <2>4, NextIs
    <3>2. last \in 0 .. LogLebs - 1 /\ lhead.lnum \in 0 .. LogLebs - 1 BY <1>5, <2>4 DEF Log
    <3> QED BY <1>4, <1>5, <1>7, <3>1, <3>2, SMTT(30)
  <2>10. DiskTypes(flash', stale', mst', fill', dsq') BY <1>1, <1>2, <2>2 DEF DiskTypes
  <2>11. MemoryTypes(buds', wbuf', lhead', ltail', old_ltail', bud_bytes', cmt_bud_bytes', cmt_no', max_sqnum')
    BY <1>1, <1>2, <2>8 DEF MemoryTypes
  <2>12. HeadAtEnd(lhead', flash') BY <2>5, <2>6, <2>8 DEF HeadAtEnd
  <2>13. Phases(pc', flash', buds', wbuf', fill', lhead', ltail', min_log_bytes', bud_bytes', cmt_bud_bytes')
    BY <1>2, <1>4, <2>1, <2>8, <2>9, <2>12 DEF Phases, Resting
  <2> QED BY <1>1, <2>10, <2>11, <2>13, InvNext
<1> QED BY <1>6, <1>7

(***************************************************************************)
(* The theorems.                                                           *)
(***************************************************************************)
(* mkfs.ubifs writes a log with a commit start node in its first LEB.        *)
LEMMA InitInv == Init => LogInv
<1> SUFFICES ASSUME Init PROVE LogInv OBVIOUS
<1>1. sb \in Superblocks BY DEF Init
<1>2. LogLebs \in Nat /\ LogLebs >= 2 /\ LogSize \in Nat /\ LogSize >= 2 /\ PerUnit \in Nat \ {0} /\ LebSize \in Nat
  BY <1>1, Sizes
<1>3. 0 \in Log /\ 0 \in 0 .. LebSize BY <1>2, SMTT(30) DEF Log
<1>4. Blank \in Lebs /\ Blank.endpt = 0 BY <1>1, BlankType DEF Blank
<1>5. Append1(Blank, <<CsNode(0, 1)>>) \in Lebs
  <2>1. CsNode(0, 1) \in Nodes BY DEF CsNode, CsNodes, Nodes
  <2>2. PICK new : new = <<CsNode(0, 1)>> OBVIOUS
  <2>3. new \in Seq(Nodes) /\ Len(new) = 1 BY <2>1, <2>2, SMTT(30)
  <2>4. Units(1) \in Nat /\ Units(1) <= 1
    <3>1. 1 \in Nat /\ 1 <= 1 * PerUnit BY <1>2, SMTT(30)
    <3> QED BY <1>1, <3>1, UnitsIs
  <2>5. Len(new) > 0 /\ Blank.endpt + Units(Len(new)) <= LogSize BY <1>2, <1>4, <2>3, <2>4, SMTT(30)
  <2> QED BY <1>1, <1>4, <2>2, <2>3, <2>5, AppendType
<1>6. flash \in [Log -> Lebs] /\ stale \in [Log -> Lebs] BY <1>4, <1>5 DEF Init
<1>7. DiskTypes(flash, stale, mst, fill, dsq) BY <1>3, <1>6 DEF Init, DiskTypes
<1>8. MemoryTypes(buds, wbuf, lhead, ltail, old_ltail, bud_bytes, cmt_bud_bytes, cmt_no, max_sqnum)
  <2>1. BudsType(buds) BY SMTT(30) DEF Init, BudsType
  <2> QED BY <1>3, <2>1, SMTT(30) DEF Init, MemoryTypes
<1>9. Phases(pc, flash, buds, wbuf, fill, lhead, ltail, min_log_bytes, bud_bytes, cmt_bud_bytes)
  <2>1. pc = "off" BY DEF Init
  <2> QED BY <2>1, IdlePhase
<1> QED BY <1>1, <1>7, <1>8, <1>9 DEF LogInv, LogTypes

(* Every operation of the log keeps the invariant.                           *)
LEMMA StepInv == LogInv /\ [Next]_vars => LogInv'
<1> SUFFICES ASSUME LogInv, [Next]_vars PROVE LogInv' OBVIOUS
<1>1. CASE UNCHANGED vars
  <2>1. /\ UNCHANGED <<sb, flash, stale, mst, fill, dsq, pc, buds, wbuf>>
        /\ UNCHANGED <<lhead, ltail, old_ltail, min_log_bytes, bud_bytes, cmt_bud_bytes, cmt_no, max_sqnum>>
    BY <1>1 DEF vars, disk, acct
  <2>2. /\ sb \in Superblocks /\ DiskTypes(flash, stale, mst, fill, dsq)
        /\ MemoryTypes(buds, wbuf, lhead, ltail, old_ltail, bud_bytes, cmt_bud_bytes, cmt_no, max_sqnum)
        /\ Phases(pc, flash, buds, wbuf, fill, lhead, ltail, min_log_bytes, bud_bytes, cmt_bud_bytes)
    BY DEF LogInv, LogTypes
  <2>3. DiskTypes(flash', stale', mst', fill', dsq') BY <2>1, <2>2 DEF DiskTypes
  <2>4. MemoryTypes(buds', wbuf', lhead', ltail', old_ltail', bud_bytes', cmt_bud_bytes', cmt_no', max_sqnum')
    BY <2>1, <2>2
  <2>5. Phases(pc', flash', buds', wbuf', fill', lhead', ltail', min_log_bytes', bud_bytes', cmt_bud_bytes')
    BY <2>1, <2>2 DEF Phases
  <2> QED BY <2>1, <2>2, <2>3, <2>4, <2>5, InvNext
<1>2. CASE Next
  <2>1. sb' = sb BY <1>2 DEF Next
  <2>2. CASE Mount BY <2>1, <2>2, MountStep
  <2>3. CASE Consolidate \/ ConsolidateFails BY <2>1, <2>3, ConsolidateStep
  <2>4. CASE \E h \in Heads : WriteNode(h) BY <2>1, <2>4, WriteNodeStep
  <2>5. ASSUME NEW h \in Heads, NEW l \in Main, NEW o \in 0 .. LebSize - 1,
               AddBud(h, l, o) \/ AddBudFails(h, l, o)
        PROVE  LogInv'
    BY <2>1, <2>5, AddBudStep, AddBudFailsStep
  <2>6. CASE StartCommit BY <2>1, <2>6, StartCommitStep
  <2>7. CASE StartCommitFails BY <2>1, <2>7, StartCommitFailsStep
  <2>8. CASE \E final \in BOOLEAN : EndCommit(final) \/ EndCommitFails(final) BY <2>1, <2>8, EndCommitStep
  <2>9. CASE PostCommit \/ PostCommitFails BY <2>1, <2>9, PostCommitStep
  <2>10. CASE Stop \/ PowerCut BY <2>1, <2>10, StopStep
  <2> QED BY <1>2, <2>2, <2>3, <2>4, <2>5, <2>6, <2>7, <2>8, <2>9, <2>10 DEF Next
<1> QED BY <1>1, <1>2

(* The invariant of the log holds in every state, whatever commits, writes   *)
(* and recoveries failed before.                                             *)
THEOREM LogInvariant == Spec => []LogInv
BY InitInv, StepInv, PTL DEF Spec

(* While the journal is in use the log head is at the end of what is written *)
(* of its LEB and can move to a LEB that is not the tail: the assertions in  *)
(* ubifs_add_bud_to_log() and ubifs_log_start_commit() hold.                 *)
THEOREM HeadHasRoom == Spec => []HeadRoom
<1>1. LogInv => HeadRoom BY DEF LogInv, Phases, Resting, HeadAtEnd, HeadRoom
<1> QED BY <1>1, LogInvariant, PTL

(* c->bud_bytes is the space of the buds, whatever was recovered, added,     *)
(* removed by a commit or moved forward with a journal head.                 *)
THEOREM BudBytesExact == Spec => []BudBytesRight
<1>1. LogInv => BudBytesRight BY DEF LogInv, Phases, Resting, BudBytesRight
<1> QED BY <1>1, LogInvariant, PTL

(* make_reservation() never needs more than one commit: after it there is    *)
(* room in the log for a reference node and in the journal for a bud.        *)
THEOREM RoomAfterCommit == Spec => []CommitMakesRoom
<1>1. LogInv => CommitMakesRoom
  <2> SUFFICES ASSUME LogInv, pc = "ended", NEW o \in 0 .. LebSize - 1 PROVE LogHasRoom(o)
    BY DEF CommitMakesRoom
  <2>1. /\ Committing(flash, buds, wbuf, fill, lhead) /\ bud_bytes = BudBytes(buds)
        /\ min_log_bytes = LogSize /\ lhead.lnum = ltail
    BY DEF LogInv, Phases
  <2>2. /\ sb \in Superblocks /\ ltail \in Log /\ BudsType(buds) /\ LogLebs \in Nat /\ LogLebs >= 2
        /\ LogSize \in Nat /\ LebSize \in Nat /\ JheadCnt \in Nat /\ MaxBudBytes \in Nat
        /\ MaxBudBytes > (JheadCnt + 2) * LebSize
    BY Sizes DEF LogInv, LogTypes, MemoryTypes
  <2>3. EmptyLogBytes - 1 >= min_log_bytes
    <3>1. PICK t \in Nat, s \in Nat, p \in Nat : t = ltail * LogSize /\ s = LogSize /\ p = lhead.offs
      <4>1. ltail \in Nat BY <2>2, SMTT(30) DEF Log
      <4>2. ltail * LogSize \in Nat BY <2>2, <4>1, SMTT(30)
      <4>3. lhead.offs \in Nat BY <2>1, <2>2, SMTT(30) DEF Committing
      <4> QED BY <2>2, <4>2, <4>3
    <3>2. lhead.lnum * LogSize = t BY <2>1, <3>1
    <3>3. p > 0 /\ p < s BY <2>1, <2>2, <3>1, SMTT(30) DEF Committing
    <3>4. EmptyLogBytes = LogLebs * LogSize - (t + p) + t BY <3>1, <3>2, <3>3, SMTT(30) DEF EmptyLogBytes
    <3>5. PICK z \in Nat : z = LogLebs * LogSize /\ z >= s + s
      <4>1. 2 * s <= LogLebs * s BY <2>2, MulMono
      <4> QED BY <2>2, <3>1, <4>1, SMTT(30)
    <3>6. EmptyLogBytes = z - (t + p) + t BY <3>4, <3>5
    <3> QED BY <2>1, <3>1, <3>3, <3>5, <3>6, SMTT(30)
  <2>4. bud_bytes + LebSize - o <= MaxBudBytes
    <3>1. PICK H : H = [h \in Heads |-> wbuf[h].lnum] OBVIOUS
    <3>2. \A l \in DOMAIN buds : buds[l].jhead \in Heads BY <2>2 DEF BudsType, Bud
    <3>3. \A l \in DOMAIN buds : H[buds[l].jhead] = l BY <2>1, <3>1, <3>2 DEF Committing, HeadsOnly
    <3>4. BudBytes(buds) \in Nat /\ BudBytes(buds) <= LebSize * JheadCnt BY <2>2, <3>3, BudBytesBound
    <3>5. PICK b \in Nat, s \in Nat, z \in Nat, m \in Nat :
             b = bud_bytes /\ s = LebSize /\ z = LebSize * JheadCnt /\ m = MaxBudBytes
      BY <2>1, <2>2, <3>4, SMTT(30)
    <3>6. (JheadCnt + 2) * LebSize = z + s + s BY <2>2, <3>5, SMTT(30)
    <3>7. b <= z /\ m > z + s + s /\ o \in 0 .. s - 1 BY <2>1, <2>2, <3>4, <3>5, <3>6
    <3>8. b + s - o <= m BY <3>7, SMTT(30)
    <3> QED BY <3>5, <3>8
  <2> QED BY <2>3, <2>4 DEF LogHasRoom
<1> QED BY <1>1, LogInvariant, PTL
=============================================================================
