---------------------------- MODULE McastTheorems ----------------------------
(***************************************************************************)
(* Reception is exact and what is written is the image.  First what the    *)
(* operators compute: where the blocks are put, how the decoder shuffles   *)
(* the packets and what it gives back, and what the sum of the packets     *)
(* held is.  Then the theorems.                                            *)
(***************************************************************************)
EXTENDS McastImageProofs, ProofLemmas

USE ZenonT(30)

(* The next erase block that is not bad.                                     *)
LEMMA PlaceIs ==
  ASSUME inst \in Instances, NEW o \in Nat
  PROVE  /\ Place(o) \in Nat /\ o <= Place(o) /\ Place(o) \notin inst.bad
         /\ \A c \in o .. Place(o) - 1 : c \in inst.bad
         /\ SkipBad(o) = Place(o)
         /\ inst.file_mode => Place(o) = o
<1> DEFINE S == {b \in o .. o + inst.size : b \notin inst.bad}
<1>1. inst.size \in Nat /\ inst.bad \subseteq 0 .. inst.size - 1 /\ (inst.file_mode => inst.bad = {})
  BY InstancesOK
<1>2. S \subseteq Nat /\ o + inst.size \in S BY <1>1, SMTT(30)
<1>3. Min(S) \in S /\ \A x \in S : Min(S) <= x
  <2> HIDE DEF S
  <2> QED BY <1>2, MinIs
<1>4. SkipBad(o) = Min(S) BY DEF SkipBad
<1>5. SkipBad(o) \in S /\ \A x \in S : SkipBad(o) <= x BY <1>3, <1>4
<1>6. inst.file_mode => SkipBad(o) = o BY <1>1, <1>5, SMTT(30)
<1>7. Place(o) = SkipBad(o) BY <1>6 DEF Place
<1>8. \A c \in o .. Place(o) - 1 : c \in inst.bad
  <2> SUFFICES ASSUME NEW c \in o .. Place(o) - 1, c \notin inst.bad PROVE FALSE OBVIOUS
  <2>1. Place(o) \in o .. o + inst.size BY <1>5, <1>7
  <2>2. c \in S BY <1>1, <2>1, SMTT(30)
  <2> QED BY <1>5, <1>7, <2>1, <2>2, SMTT(30)
<1> QED BY <1>1, <1>5, <1>6, <1>7, <1>8, SMTT(30)

(* mtdoffset as the allocation loop computes it.                             *)
LEMMA OffsetsExist ==
  ASSUME inst \in Instances
  PROVE  /\ Mtdoffsets \in [0 .. inst.nr_blocks -> Nat] /\ Mtdoffsets[0] = 0
         /\ \A i \in 1 .. inst.nr_blocks : Mtdoffsets[i] = Place(Mtdoffsets[i - 1]) + 1
<1> DEFINE Rec(f, n) == f \in [0 .. n -> Nat] /\ f[0] = 0 /\ \A i \in 1 .. n : f[i] = Place(f[i - 1]) + 1
           P == {n \in Nat : \E f : Rec(f, n)}
           N == inst.nr_blocks
<1>1. 0 \in P
  <2>1. Rec([i \in 0 .. 0 |-> 0], 0) BY SMTT(30)
  <2> QED BY <2>1
<1>2. ASSUME NEW n \in Nat, n \in P PROVE n + 1 \in P
  <2>1. PICK f : Rec(f, n) BY <1>2
  <2> DEFINE g == [i \in 0 .. n + 1 |-> IF i <= n THEN f[i] ELSE Place(f[n]) + 1]
  <2>2. f[n] \in Nat /\ Place(f[n]) + 1 \in Nat BY <2>1, PlaceIs, SMTT(30)
  <2>3. g \in [0 .. n + 1 -> Nat] /\ g[0] = 0 BY <2>1, <2>2, SMTT(30)
  <2>4. ASSUME NEW i \in 1 .. n + 1 PROVE g[i] = Place(g[i - 1]) + 1
    <3>1. CASE i <= n BY <2>1, <3>1, SMTT(30)
    <3>2. CASE i = n + 1 BY <2>1, <3>2, SMTT(30)
    <3> QED BY <3>1, <3>2, SMTT(30)
  <2> HIDE DEF g
  <2>5. Rec(g, n + 1) BY <2>3, <2>4
  <2> QED BY <2>5, SMTT(30)
<1>3. N \in Nat BY InstancesOK
<1>4. N \in P
  <2> HIDE DEF P
  <2> QED BY <1>1, <1>2, <1>3, NatSetInduction
<1>5. PICK f : Rec(f, N) BY <1>4
<1> DEFINE D(h) == [i \in 0 .. N |-> IF i = 0 THEN 0 ELSE Place(h[i - 1]) + 1]
<1>6. f = D(f) BY <1>3, <1>5, SMTT(30)
<1>7. Mtdoffsets = CHOOSE h : h = D(h) BY DEF Mtdoffsets
<1>8. Mtdoffsets = D(Mtdoffsets) BY <1>6, <1>7
<1> DEFINE Q == {n \in Nat : n <= N => Mtdoffsets[n] \in Nat}
<1>9. 0 \in Q BY <1>8, <1>3, SMTT(30)
<1>10. ASSUME NEW n \in Nat, n \in Q PROVE n + 1 \in Q
  <2> SUFFICES ASSUME n + 1 <= N PROVE Mtdoffsets[n + 1] \in Nat BY SMTT(30)
  <2>1. Mtdoffsets[n] \in Nat BY <1>3, <1>10, SMTT(30)
  <2>2. Mtdoffsets[n + 1] = Place(Mtdoffsets[n]) + 1 BY <1>8, <1>3, SMTT(30)
  <2> QED BY <2>1, <2>2, PlaceIs, SMTT(30)
<1>11. Nat \subseteq Q
  <2> HIDE DEF Q
  <2> QED BY <1>9, <1>10, NatSetInduction
<1>12. Mtdoffsets \in [0 .. N -> Nat]
  <2>1. \A i \in 0 .. N : Mtdoffsets[i] \in Nat BY <1>11, <1>3, SMTT(30)
  <2>2. Mtdoffsets = [i \in 0 .. N |-> Mtdoffsets[i]] BY <1>8
  <2> QED BY <2>1, <2>2
<1>13. Mtdoffsets[0] = 0 /\ \A i \in 1 .. N : Mtdoffsets[i] = Place(Mtdoffsets[i - 1]) + 1
  BY <1>8, <1>3, SMTT(30)
<1> QED BY <1>12, <1>13

(* The places are given out in order, and the first i good erase blocks are  *)
(* below mtdoffset when i blocks have theirs.                                *)
LEMMA OffsetsAre ==
  ASSUME inst \in Instances
  PROVE  /\ \A i, j \in 0 .. inst.nr_blocks : i < j => Place(Mtdoffsets[i]) < Mtdoffsets[j]
         /\ inst.file_mode => \A i \in 0 .. inst.nr_blocks : Mtdoffsets[i] = i
         /\ \A i \in 0 .. inst.nr_blocks :
              LET S == {x \in 0 .. Mtdoffsets[i] - 1 : x \notin inst.bad}
              IN  IsFiniteSet(S) /\ Cardinality(S) = i
<1> DEFINE N == inst.nr_blocks
           M == Mtdoffsets
           S(i) == {x \in 0 .. M[i] - 1 : x \notin inst.bad}
           P == {j \in Nat : j <= N =>
                   /\ \A i \in 0 .. j - 1 : Place(M[i]) < M[j]
                   /\ inst.file_mode => M[j] = j
                   /\ IsFiniteSet(S(j)) /\ Cardinality(S(j)) = j}
<1>0. N \in Nat BY InstancesOK
<1>1. /\ M \in [0 .. N -> Nat] /\ M[0] = 0
      /\ \A i \in 1 .. N : M[i] = Place(M[i - 1]) + 1
  BY OffsetsExist
<1> HIDE DEF M
<1>9. M \in [0 .. N -> Nat] BY <1>1
<1>2. 0 \in P
  <2>1. S(0) = {} BY <1>1, SMTT(30)
  <2>2. IsFiniteSet({}) /\ Cardinality({}) = 0 BY FS_EmptySet
  <2>3. inst.file_mode => M[0] = 0 BY <1>1
  <2> HIDE DEF S
  <2>4. IsFiniteSet(S(0)) /\ Cardinality(S(0)) = 0 BY <2>1, <2>2
  <2>5. \A i \in 0 .. 0 - 1 : Place(M[i]) < M[0] BY SMTT(30)
  <2> QED BY <2>3, <2>4, <2>5
<1>3. ASSUME NEW j \in Nat, j \in P PROVE j + 1 \in P
  <2> SUFFICES ASSUME j + 1 <= N
               PROVE  /\ \A i \in 0 .. j : Place(M[i]) < M[j + 1]
                      /\ inst.file_mode => M[j + 1] = j + 1
                      /\ IsFiniteSet(S(j + 1)) /\ Cardinality(S(j + 1)) = j + 1
    BY SMTT(30)
  <2>1. j \in 0 .. N /\ M[j] \in Nat /\ M[j + 1] = Place(M[j]) + 1 BY <1>0, <1>1, SMTT(30)
  <2>2. /\ Place(M[j]) \in Nat /\ M[j] <= Place(M[j]) /\ Place(M[j]) \notin inst.bad
        /\ \A c \in M[j] .. Place(M[j]) - 1 : c \in inst.bad
        /\ inst.file_mode => Place(M[j]) = M[j]
    BY <2>1, PlaceIs
  <2>3. /\ \A i \in 0 .. j - 1 : Place(M[i]) < M[j]
        /\ inst.file_mode => M[j] = j
        /\ IsFiniteSet(S(j)) /\ Cardinality(S(j)) = j
    BY <1>3, <1>0, SMTT(30)
  <2>4. S(j + 1) = S(j) \cup {Place(M[j])} /\ Place(M[j]) \notin S(j)
    BY <2>1, <2>2, SMTT(30)
  <2>5. IsFiniteSet(S(j + 1)) /\ Cardinality(S(j + 1)) = j + 1
    <3> HIDE DEF S
    <3> QED BY <2>3, <2>4, FS_AddElement, SMTT(30)
  <2>6. ASSUME NEW i \in 0 .. j PROVE Place(M[i]) < M[j + 1]
    <3>1. CASE i = j BY <3>1, <2>1, <2>2, SMTT(30)
    <3>2. CASE i < j
      <4>1. M[i] \in Nat BY <1>0, <1>9, SMTT(30)
      <4>2. Place(M[i]) \in Nat BY <4>1, PlaceIs
      <4> QED BY <4>2, <3>2, <2>1, <2>2, <2>3, SMTT(30)
    <3> QED BY <3>1, <3>2, SMTT(30)
  <2> QED BY <2>1, <2>2, <2>3, <2>5, <2>6
<1>4. Nat \subseteq P
  <2> HIDE DEF P
  <2> QED BY <1>2, <1>3, NatSetInduction
<1>5. ASSUME NEW j \in 0 .. N
      PROVE  /\ \A i \in 0 .. j - 1 : Place(M[i]) < M[j]
             /\ inst.file_mode => M[j] = j
             /\ IsFiniteSet(S(j)) /\ Cardinality(S(j)) = j
  <2>1. j \in Nat /\ j <= N BY <1>0, SMTT(30)
  <2>2. j \in P BY <2>1, <1>4
  <2> QED BY <2>1, <2>2
<1>6. \A i, j \in 0 .. N : i < j => Place(M[i]) < M[j]
  <2> SUFFICES ASSUME NEW i \in 0 .. N, NEW j \in 0 .. N, i < j PROVE Place(M[i]) < M[j] OBVIOUS
  <2>1. i \in 0 .. j - 1 BY <1>0, SMTT(30)
  <2> QED BY <2>1, <1>5
<1>7. inst.file_mode => \A i \in 0 .. N : M[i] = i BY <1>5
<1>8. \A i \in 0 .. N : IsFiniteSet(S(i)) /\ Cardinality(S(i)) = i BY <1>5
<1> QED BY <1>6, <1>7, <1>8 DEF M

(* On a device with a good erase block for every block, every place is on    *)
(* the device.                                                               *)
LEMMA RoomForAll ==
  ASSUME inst \in Instances, NEW b \in Blocks,
         Cardinality((0 .. inst.size - 1) \ inst.bad) >= inst.nr_blocks
  PROVE  Mtdoffsets[b] < inst.size /\ Place(Mtdoffsets[b]) < inst.size
<1> DEFINE o == Mtdoffsets[b]
           S == {x \in 0 .. o - 1 : x \notin inst.bad}
           G == (0 .. inst.size - 1) \ inst.bad
<1>1. inst.size \in Nat /\ inst.nr_blocks \in Nat /\ b \in 0 .. inst.nr_blocks /\ b < inst.nr_blocks
  BY InstancesOK, SMTT(30) DEF Blocks
<1>2. o \in Nat BY <1>1, OffsetsExist
<1>3. IsFiniteSet(S) /\ Cardinality(S) = b BY <1>1, OffsetsAre
<1>4. /\ Place(o) \in Nat /\ o <= Place(o)
      /\ \A c \in o .. Place(o) - 1 : c \in inst.bad
  BY <1>2, PlaceIs
<1> HIDE DEF o
<1>5. SUFFICES ASSUME Place(o) >= inst.size PROVE FALSE
  BY <1>1, <1>2, <1>4, SMTT(30) DEF o
<1>6. G \subseteq S BY <1>1, <1>2, <1>4, <1>5, SMTT(30)
<1> HIDE DEF G, S
<1>7. Cardinality(G) <= Cardinality(S) BY <1>3, <1>6, FS_Subset
<1>8. Cardinality(G) >= inst.nr_blocks BY DEF G
<1>9. Cardinality(G) \in Nat BY <1>3, <1>6, FS_Subset, FS_CardinalityType
<1> QED BY <1>1, <1>3, <1>7, <1>8, <1>9, SMTT(30)

(* shuffle() after t turns: it has found no error, the packets are those     *)
(* given, each with its index, those before i are where they belong, and     *)
(* every turn has advanced i or settled a packet.                            *)
Settled(s, k) == {j \in 0 .. k - 1 : s.index[j] = j}

ShuffleOK(s, index, k, t) ==
  /\ s \in [i : 0 .. k, err : {FALSE}, index : [0 .. k - 1 -> Nat], pos : [0 .. k - 1 -> 0 .. k - 1]]
  /\ \A j \in 0 .. k - 1 : s.index[j] = index[s.pos[j]]
  /\ \A j, l \in 0 .. k - 1 : s.index[j] = s.index[l] => j = l
  /\ \A j \in 0 .. s.i - 1 : s.index[j] >= k \/ s.index[j] = j
  /\ s.i = k \/ s.i + Cardinality(Settled(s, k)) >= t

(* Packets settled are among the k.                                          *)
LEMMA SettledCount ==
  ASSUME NEW s, NEW k \in Nat
  PROVE  IsFiniteSet(Settled(s, k)) /\ Cardinality(Settled(s, k)) \in 0 .. k
<1>1. IsFiniteSet(0 .. k - 1) /\ Cardinality(0 .. k - 1) = k BY FS_Interval, SMTT(30)
<1>2. Settled(s, k) \subseteq 0 .. k - 1 BY DEF Settled
<1>3. IsFiniteSet(Settled(s, k)) /\ Cardinality(Settled(s, k)) <= k BY <1>1, <1>2, FS_Subset
<1> QED BY <1>3, FS_CardinalityType, SMTT(30)

(* One turn of the loop in shuffle().                                        *)
LEMMA TurnKeeps ==
  ASSUME NEW index, NEW k \in Nat, NEW t \in Nat, NEW s, ShuffleOK(s, index, k, t)
  PROVE  ShuffleOK(Turn(s, k), index, k, t + 1)
<1> DEFINE c == s.index[s.i]
<1>0. /\ s \in [i : 0 .. k, err : {FALSE}, index : [0 .. k - 1 -> Nat], pos : [0 .. k - 1 -> 0 .. k - 1]]
      /\ \A j \in 0 .. k - 1 : s.index[j] = index[s.pos[j]]
      /\ \A j, l \in 0 .. k - 1 : s.index[j] = s.index[l] => j = l
      /\ \A j \in 0 .. s.i - 1 : s.index[j] >= k \/ s.index[j] = j
      /\ s.i = k \/ s.i + Cardinality(Settled(s, k)) >= t
  BY DEF ShuffleOK
<1>5. /\ s.i \in 0 .. k /\ s.err = FALSE /\ DOMAIN s = {"i", "err", "index", "pos"}
      /\ s.index \in [0 .. k - 1 -> Nat] /\ s.pos \in [0 .. k - 1 -> 0 .. k - 1]
  BY <1>0
<1>6. \A j, l \in 0 .. k - 1 : s.index[j] = s.index[l] => j = l BY <1>0
<1>1. IsFiniteSet(Settled(s, k)) /\ Cardinality(Settled(s, k)) \in 0 .. k BY SettledCount
<1>2. CASE s.i >= k
  <2>1. Turn(s, k) = s /\ s.i = k BY <1>5, <1>2, SMTT(30) DEF Turn
  <2> QED BY <2>1, <1>0 DEF ShuffleOK
<1>3. CASE s.i < k /\ (c >= k \/ c = s.i)
  <2>1. Turn(s, k) = [s EXCEPT !.i = s.i + 1] BY <1>5, <1>3, SMTT(30) DEF Turn
  <2> DEFINE z == [s EXCEPT !.i = s.i + 1]
  <2>2. z.i = s.i + 1 /\ z.err = FALSE /\ z.index = s.index /\ z.pos = s.pos /\ DOMAIN z = {"i", "err", "index", "pos"}
    BY <1>0
  <2>3. z \in [i : 0 .. k, err : {FALSE}, index : [0 .. k - 1 -> Nat], pos : [0 .. k - 1 -> 0 .. k - 1]]
    <3>1. s.i + 1 \in 0 .. k BY <1>5, <1>3, SMTT(30)
    <3> QED BY <1>5, <3>1
  <2> HIDE DEF z
  <2>4. Settled(z, k) = Settled(s, k) BY <2>2 DEF Settled
  <2>5. z.i + Cardinality(Settled(z, k)) >= t + 1 BY <1>0, <1>1, <1>3, <2>2, <2>4, SMTT(30)
  <2>6. \A j \in 0 .. z.i - 1 : z.index[j] >= k \/ z.index[j] = j BY <1>0, <1>3, <2>2, SMTT(30)
  <2> QED BY <2>1, <2>2, <2>3, <2>5, <2>6, <1>0 DEF ShuffleOK, z
<1>4. CASE s.i < k /\ c < k /\ c # s.i
  <2>1. s.i \in 0 .. k - 1 /\ c \in 0 .. k - 1 BY <1>0, <1>4, SMTT(30)
  <2>2. s.index[c] # c BY <1>0, <1>4, <2>1
  <2> DEFINE ni == [s.index EXCEPT ![s.i] = s.index[c], ![c] = c]
             np == [s.pos EXCEPT ![s.i] = s.pos[c], ![c] = s.pos[s.i]]
             z == [s EXCEPT !.index = ni, !.pos = np]
  <2>3. Turn(s, k) = z BY <1>5, <1>4, <2>2, SMTT(30) DEF Turn
  <2>4. /\ ni \in [0 .. k - 1 -> Nat] /\ ni[c] = c /\ ni[s.i] = s.index[c]
        /\ \A j \in 0 .. k - 1 : j # c /\ j # s.i => ni[j] = s.index[j]
    BY <1>0, <1>4, <2>1
  <2>5. /\ np \in [0 .. k - 1 -> 0 .. k - 1] /\ np[c] = s.pos[s.i] /\ np[s.i] = s.pos[c]
        /\ \A j \in 0 .. k - 1 : j # c /\ j # s.i => np[j] = s.pos[j]
    BY <1>0, <1>4, <2>1
  <2> HIDE DEF ni, np
  <2>6. z.i = s.i /\ z.err = FALSE /\ z.index = ni /\ z.pos = np BY <1>5
  <2>7. z \in [i : 0 .. k, err : {FALSE}, index : [0 .. k - 1 -> Nat], pos : [0 .. k - 1 -> 0 .. k - 1]]
    BY <1>5, <2>4, <2>5
  <2> HIDE DEF z
  <2>8. ASSUME NEW j \in 0 .. k - 1 PROVE z.index[j] = index[z.pos[j]]
    <3>0. s.index[s.i] = index[s.pos[s.i]] /\ s.index[c] = index[s.pos[c]] /\ s.index[j] = index[s.pos[j]]
      BY <1>0, <2>1
    <3>1. CASE j = c
      <4>1. z.index[j] = c /\ z.pos[j] = s.pos[s.i] BY <3>1, <2>4, <2>5, <2>6
      <4> QED BY <4>1, <3>0
    <3>2. CASE j = s.i
      <4>1. z.index[j] = s.index[c] /\ z.pos[j] = s.pos[c] BY <3>2, <2>4, <2>5, <2>6
      <4> QED BY <4>1, <3>0
    <3>3. CASE j # c /\ j # s.i BY <3>3, <3>0, <2>4, <2>5, <2>6
    <3> QED BY <3>1, <3>2, <3>3
  <2>9. \A j, l \in 0 .. k - 1 : z.index[j] = z.index[l] => j = l
    <3>1. ASSUME NEW j \in 0 .. k - 1 PROVE z.index[j] = s.index[IF j = c THEN s.i ELSE IF j = s.i THEN c ELSE j]
      BY <2>4, <2>6
    <3>2. ASSUME NEW j \in 0 .. k - 1, NEW l \in 0 .. k - 1, z.index[j] = z.index[l] PROVE j = l
      <4> DEFINE J(x) == IF x = c THEN s.i ELSE IF x = s.i THEN c ELSE x
      <4>1. J(j) \in 0 .. k - 1 /\ J(l) \in 0 .. k - 1 BY <2>1
      <4>2. s.index[J(j)] = s.index[J(l)] BY <3>1, <3>2
      <4>3. J(j) = J(l) BY <4>1, <4>2, <1>6
      <4> QED BY <4>3, <1>4
    <3> QED BY <3>2
  <2>10. \A j \in 0 .. z.i - 1 : z.index[j] >= k \/ z.index[j] = j
    <3> SUFFICES ASSUME NEW j \in 0 .. s.i - 1 PROVE ni[j] >= k \/ ni[j] = j BY <2>6
    <3>1. s.index[j] >= k \/ s.index[j] = j BY <1>0
    <3>2. j \in 0 .. k - 1 /\ j # s.i BY <1>4, <1>5, SMTT(30)
    <3>3. CASE j = c BY <3>3, <2>4
    <3>4. CASE j # c BY <3>1, <3>2, <3>4, <2>4
    <3> QED BY <3>3, <3>4
  <2>11. Settled(s, k) \cup {c} \subseteq Settled(z, k) /\ c \notin Settled(s, k)
    BY <1>4, <2>1, <2>2, <2>4, <2>6 DEF Settled
  <2>12. Cardinality(Settled(z, k)) >= Cardinality(Settled(s, k)) + 1 /\ Cardinality(Settled(z, k)) \in 0 .. k
    <3>1. IsFiniteSet(Settled(z, k)) /\ Cardinality(Settled(z, k)) \in 0 .. k BY SettledCount
    <3>2. /\ IsFiniteSet(Settled(s, k) \cup {c})
          /\ Cardinality(Settled(s, k) \cup {c}) = Cardinality(Settled(s, k)) + 1
      BY <1>1, <2>11, FS_AddElement
    <3>3. Cardinality(Settled(s, k) \cup {c}) <= Cardinality(Settled(z, k))
      BY <3>1, <2>11, FS_Subset
    <3> QED BY <3>1, <3>2, <3>3, <1>1
  <2>13. z.i + Cardinality(Settled(z, k)) >= t + 1 BY <1>0, <1>1, <1>4, <2>6, <2>12, SMTT(30)
  <2> QED BY <2>3, <2>7, <2>8, <2>9, <2>10, <2>13 DEF ShuffleOK
<1> QED BY <1>0, <1>2, <1>3, <1>4, SMTT(30)

(* shuffle() of different indices finds no error, and puts every source      *)
(* packet that was received in its own position.                             *)
LEMMA ShuffleIs ==
  ASSUME NEW k \in Nat, NEW index \in [0 .. k - 1 -> Nat],
         \A j, l \in 0 .. k - 1 : index[j] = index[l] => j = l
  PROVE  /\ Shuffled(index, k).err = FALSE
         /\ Shuffled(index, k).index \in [0 .. k - 1 -> Nat]
         /\ Shuffled(index, k).pos \in [0 .. k - 1 -> 0 .. k - 1]
         /\ \A j \in 0 .. k - 1 :
              /\ Shuffled(index, k).index[j] = index[Shuffled(index, k).pos[j]]
              /\ Shuffled(index, k).index[j] >= k \/ Shuffled(index, k).index[j] = j
<1> DEFINE S0 == [i |-> 0, err |-> FALSE, index |-> index, pos |-> [j \in 0 .. k - 1 |-> j]]
           D(f, n) == [t \in 0 .. n |-> IF t = 0 THEN S0 ELSE Turn(f[t - 1], k)]
           P == {n \in Nat : \E f : f = D(f, n)}
<1>1. 0 \in P
  <2> DEFINE f == [t \in 0 .. 0 |-> S0]
  <2>1. f = D(f, 0) BY SMTT(30)
  <2> QED BY <2>1
<1>2. ASSUME NEW n \in Nat, n \in P PROVE n + 1 \in P
  <2>1. PICK f : f = D(f, n) BY <1>2
  <2> DEFINE g == [t \in 0 .. n + 1 |-> IF t <= n THEN f[t] ELSE Turn(f[n], k)]
  <2>2. ASSUME NEW t \in 0 .. n + 1 PROVE g[t] = D(g, n + 1)[t]
    <3>1. CASE t = 0
      <4>1. g[t] = f[t] BY <3>1, SMTT(30)
      <4>2. f[t] = S0 BY <3>1, <2>1, SMTT(30)
      <4> QED BY <4>1, <4>2, <3>1
    <3>2. CASE t # 0 /\ t <= n
      <4>1. g[t] = f[t] /\ g[t - 1] = f[t - 1] BY <3>2, SMTT(30)
      <4>2. f[t] = Turn(f[t - 1], k)
        <5>1. t \in 0 .. n BY <3>2, SMTT(30)
        <5>2. f[t] = D(f, n)[t] BY <2>1
        <5> QED BY <5>1, <5>2, <3>2
      <4> QED BY <4>1, <4>2, <3>2
    <3>3. CASE t = n + 1
      <4>1. g[t] = Turn(f[n], k) /\ g[t - 1] = f[n] BY <3>3, SMTT(30)
      <4> QED BY <4>1, <3>3, SMTT(30)
    <3> QED BY <3>1, <3>2, <3>3, SMTT(30)
  <2>3. DOMAIN g = 0 .. n + 1 /\ DOMAIN D(g, n + 1) = 0 .. n + 1 OBVIOUS
  <2>4. g = D(g, n + 1)
    <3> DEFINE h == D(g, n + 1)
    <3>1. h = [t \in 0 .. n + 1 |-> h[t]] /\ g = [t \in 0 .. n + 1 |-> g[t]] BY SMTT(30)
    <3> HIDE DEF h, g
    <3>2. \A t \in 0 .. n + 1 : g[t] = h[t] BY <2>2 DEF h
    <3>3. g = h BY <3>1, <3>2
    <3> QED BY <3>3 DEF h
  <2> HIDE DEF g, D
  <2> QED BY <2>4, SMTT(30)
<1>3. 2 * k \in P
  <2> HIDE DEF P
  <2>1. 2 * k \in Nat BY SMTT(30)
  <2> QED BY <2>1, <1>1, <1>2, NatSetInduction
<1> DEFINE a == CHOOSE f : f = D(f, 2 * k)
<1>4. a = D(a, 2 * k) BY <1>3
<1>5. Shuffled(index, k) = a[2 * k] BY DEF Shuffled
<1> HIDE DEF a
<1>6. ShuffleOK(S0, index, k, 0)
  <2>1. Cardinality(Settled(S0, k)) \in 0 .. k BY SettledCount
  <2>2. S0 \in [i : 0 .. k, err : {FALSE}, index : [0 .. k - 1 -> Nat], pos : [0 .. k - 1 -> 0 .. k - 1]]
    BY SMTT(30)
  <2> QED BY <2>1, <2>2, SMTT(30) DEF ShuffleOK
<1> DEFINE Q == {t \in Nat : t <= 2 * k => ShuffleOK(a[t], index, k, t)}
<1>7. 0 \in Q
  <2>1. a[0] = S0 BY <1>4, SMTT(30)
  <2> HIDE DEF S0
  <2> QED BY <2>1, <1>6
<1>8. ASSUME NEW t \in Nat, t \in Q PROVE t + 1 \in Q
  <2> SUFFICES ASSUME t + 1 <= 2 * k PROVE ShuffleOK(a[t + 1], index, k, t + 1) BY SMTT(30)
  <2>1. a[t + 1] = Turn(a[t], k)
    <3>1. t + 1 \in 0 .. 2 * k /\ t + 1 # 0 /\ (t + 1) - 1 = t BY SMTT(30)
    <3>2. a[t + 1] = D(a, 2 * k)[t + 1] BY <1>4
    <3> QED BY <3>1, <3>2
  <2>2. ShuffleOK(a[t], index, k, t) BY <1>8, SMTT(30)
  <2> QED BY <2>1, <2>2, TurnKeeps, SMTT(30)
<1>9. ShuffleOK(a[2 * k], index, k, 2 * k)
  <2> HIDE DEF Q
  <2>1. Nat \subseteq Q BY <1>7, <1>8, NatSetInduction
  <2> QED BY <2>1, SMTT(30) DEF Q
<1>10. Cardinality(Settled(a[2 * k], k)) \in 0 .. k BY SettledCount
<1> DEFINE z == a[2 * k]
<1>11. /\ z \in [i : 0 .. k, err : {FALSE}, index : [0 .. k - 1 -> Nat], pos : [0 .. k - 1 -> 0 .. k - 1]]
       /\ z.i = k \/ z.i + Cardinality(Settled(z, k)) >= 2 * k
  BY <1>9 DEF ShuffleOK
<1>12. z.i = k
  <2>1. PICK y \in 0 .. k : y = z.i BY <1>11
  <2>2. PICK x \in 0 .. k : x = Cardinality(Settled(z, k)) BY <1>10
  <2>3. y = k \/ y + x >= 2 * k BY <1>11, <2>1, <2>2
  <2> QED BY <2>1, <2>2, <2>3, SMTT(30)
<1>13. \A j \in 0 .. k - 1 : z.index[j] = index[z.pos[j]] /\ (z.index[j] >= k \/ z.index[j] = j)
  BY <1>9, <1>12 DEF ShuffleOK
<1> QED BY <1>5, <1>11, <1>13

(* The packets read back are those received.                                 *)
LEMMA ReadBack ==
  ASSUME inst \in Instances, NEW image, NEW b, NEW e \in EntryType,
         IndicesOK(image, e), ParkedOK(image, b, e, flash), e.nr_pkts >= pkts_per_block,
         NEW i \in 0 .. pkts_per_block - 1
  PROVE  SrcPkts(e)[i] = fec_encode_linear(image, b, e.pkt_indices[i + 1])
<1> DEFINE k == pkts_per_block
<1>1. /\ k \in Nat \ {0} /\ inst.erasesize \in Nat \ {0} /\ PKT_SIZE \in Nat \ {0}
  BY Sizes, InstancesOK, SizesOK
<1>2. e.ofs = inst.erasesize /\ Len(e.wbuf) = k * PKT_SIZE - inst.erasesize
  BY CompleteParked
<1>3. /\ \A n \in 1 .. e.ofs : flash[e.blk][n] = Unit(image, b, e.pkt_indices, n)
      /\ \A n \in 1 .. Len(e.wbuf) : e.wbuf[n] = Unit(image, b, e.pkt_indices, e.ofs + n)
  BY DEF ParkedOK
<1> DEFINE B(n) == IF n <= inst.erasesize THEN flash[e.blk][n] ELSE e.wbuf[n - inst.erasesize]
<1>4. ASSUME NEW u \in 1 .. PKT_SIZE
      PROVE  B(i * PKT_SIZE + u) = <<image, b, e.pkt_indices[i + 1], u>>
  <2> DEFINE n == i * PKT_SIZE + u
  <2> HIDE DEF k
  <2>1. i \in Nat /\ i + 1 <= k /\ i * PKT_SIZE \in Nat BY <1>1, SMTT(30) DEF k
  <2>2. (i + 1) * PKT_SIZE <= k * PKT_SIZE BY <1>1, <2>1, MulMono, SMTT(30)
  <2>3. (i + 1) * PKT_SIZE = i * PKT_SIZE + PKT_SIZE BY <1>1, <2>1, SMTT(30)
  <2>4. n \in Nat /\ 1 <= n /\ n <= k * PKT_SIZE
    <3>1. PICK x \in Nat : x = i * PKT_SIZE BY <2>1
    <3>2. PICK y \in Nat : y = k * PKT_SIZE BY <1>1, SMTT(30)
    <3> QED BY <3>1, <3>2, <2>2, <2>3, <1>1, SMTT(30)
  <2>5. Unit(image, b, e.pkt_indices, n) = <<image, b, e.pkt_indices[i + 1], u>>
    BY <2>1, UnitOfPacket
  <2>6. PICK y \in Nat : y = k * PKT_SIZE BY <1>1, SMTT(30)
  <2> HIDE DEF n
  <2>7. CASE n <= inst.erasesize BY <2>7, <2>4, <2>5, <1>1, <1>2, <1>3, SMTT(30) DEF n
  <2>8. CASE n > inst.erasesize
    <3>1. n - inst.erasesize \in 1 .. Len(e.wbuf) BY <2>8, <2>4, <2>6, <1>1, <1>2, SMTT(30)
    <3>2. e.ofs + (n - inst.erasesize) = n BY <1>1, <1>2, <2>4, SMTT(30)
    <3>3. e.wbuf[n - inst.erasesize] = Unit(image, b, e.pkt_indices, n) BY <3>1, <3>2, <1>3
    <3>4. B(n) = e.wbuf[n - inst.erasesize] BY <2>8, <2>4, <1>1, SMTT(30)
    <3> QED BY <3>3, <3>4, <2>5 DEF n
  <2> QED BY <2>4, <2>7, <2>8, <1>1, SMTT(30)
<1>5. SrcPkts(e)[i] = [u \in 1 .. PKT_SIZE |-> B(i * PKT_SIZE + u)]
  BY DEF SrcPkts
<1> HIDE DEF B
<1> QED BY <1>4, <1>5 DEF fec_encode_linear

(* fec_decode() of a complete block finds no error, and gives back the       *)
(* block, whichever packets were received and in whatever order.             *)
LEMMA DecodeIs ==
  ASSUME inst \in Instances, NEW b \in Blocks, NEW image \in 1 .. inst.images, NEW e \in EntryType,
         IndicesOK(image, e), ParkedOK(image, b, e, flash), e.nr_pkts >= pkts_per_block
  PROVE  ~Decoded(e).err /\ DecodeBuf(Decoded(e).pkt) = Block(image, b)
<1> DEFINE k == pkts_per_block
           s == Shuffled(Indices(e), k)
           src == [j \in 0 .. k - 1 |-> SrcPkts(e)[s.pos[j]]]
           owners == {o \in (1 .. inst.images) \X (0 .. inst.nr_blocks - 1) :
                        \A j \in 0 .. k - 1 : src[j] = fec_encode_linear(o[1], o[2], s.index[j])}
           o == CHOOSE o \in owners : TRUE
           row(j) == IF s.index[j] < k THEN src[j]
                     ELSE IF owners = {} THEN [u \in 1 .. PKT_SIZE |-> Garbage]
                     ELSE fec_encode_linear(o[1], o[2], j)
<1>1. /\ k \in Nat \ {0} /\ inst.erasesize \in Nat \ {0} /\ PKT_SIZE \in Nat \ {0}
  BY Sizes, InstancesOK, SizesOK
<1>2. Len(e.pkt_indices) = k BY CompleteParked
<1>3. /\ \A i \in 1 .. k : e.pkt_indices[i] \in 0 .. total_pkts_per_block - 1
      /\ \A i, j \in 1 .. k : e.pkt_indices[i] = e.pkt_indices[j] => i = j
  BY <1>2 DEF IndicesOK
<1> HIDE DEF k
<1>4. /\ Indices(e) \in [0 .. k - 1 -> Nat]
      /\ \A j \in 0 .. k - 1 : Indices(e)[j] = e.pkt_indices[j + 1] /\ Indices(e)[j] \in 0 .. total_pkts_per_block - 1
  BY <1>1, <1>3, SMTT(30) DEF Indices, k
<1>5. ASSUME NEW j \in 0 .. k - 1, NEW l \in 0 .. k - 1, Indices(e)[j] = Indices(e)[l] PROVE j = l
  <2>1. j + 1 \in 1 .. k /\ l + 1 \in 1 .. k BY <1>1, SMTT(30)
  <2>2. j + 1 = l + 1 BY <2>1, <1>3, <1>4, <1>5
  <2> QED BY <2>2, SMTT(30)
<1>6. /\ s.err = FALSE /\ s.index \in [0 .. k - 1 -> Nat] /\ s.pos \in [0 .. k - 1 -> 0 .. k - 1]
      /\ \A j \in 0 .. k - 1 : s.index[j] = Indices(e)[s.pos[j]] /\ (s.index[j] >= k \/ s.index[j] = j)
  <2>1. \A j, l \in 0 .. k - 1 : Indices(e)[j] = Indices(e)[l] => j = l BY <1>5
  <2> QED BY <1>1, <1>4, <2>1, ShuffleIs
<1> HIDE DEF s
<1>7. \A j \in 0 .. k - 1 : src[j] = fec_encode_linear(image, b, s.index[j])
  <2> SUFFICES ASSUME NEW j \in 0 .. k - 1 PROVE src[j] = fec_encode_linear(image, b, s.index[j])
    OBVIOUS
  <2>1. s.pos[j] \in 0 .. k - 1 BY <1>6
  <2>2. SrcPkts(e)[s.pos[j]] = fec_encode_linear(image, b, e.pkt_indices[s.pos[j] + 1])
    BY <2>1, ReadBack DEF k
  <2>3. s.index[j] = e.pkt_indices[s.pos[j] + 1] BY <2>1, <1>4, <1>6
  <2>4. src[j] = SrcPkts(e)[s.pos[j]] OBVIOUS
  <2> QED BY <2>2, <2>3, <2>4
<1> HIDE DEF src
<1>8. <<image, b>> \in owners BY <1>7 DEF Blocks
<1>9. o[1] = image /\ o[2] = b
  <2>1. o \in owners BY <1>8
  <2>2. 0 \in 0 .. k - 1 /\ 1 \in 1 .. PKT_SIZE BY <1>1, SMTT(30)
  <2>3. src[0] = fec_encode_linear(o[1], o[2], s.index[0]) BY <2>1, <2>2
  <2>4. src[0] = fec_encode_linear(image, b, s.index[0]) BY <1>7, <2>2
  <2>5. src[0][1] = <<o[1], o[2], s.index[0], 1>> BY <2>2, <2>3 DEF fec_encode_linear
  <2>6. src[0][1] = <<image, b, s.index[0], 1>> BY <2>2, <2>4 DEF fec_encode_linear
  <2> QED BY <2>5, <2>6, SMTT(30)
<1>10. \A j \in 0 .. k - 1 : row(j) = fec_encode_linear(image, b, j)
  <2> SUFFICES ASSUME NEW j \in 0 .. k - 1 PROVE row(j) = fec_encode_linear(image, b, j) OBVIOUS
  <2>1. owners # {} BY <1>8
  <2> HIDE DEF owners, o
  <2>2. CASE s.index[j] < k
    <3>1. s.index[j] \in Nat /\ (s.index[j] >= k \/ s.index[j] = j) BY <1>6
    <3>2. s.index[j] = j BY <2>2, <3>1, <1>1, SMTT(30)
    <3> QED BY <3>2, <2>2, <1>7
  <2>3. CASE ~(s.index[j] < k) BY <2>1, <2>3, <1>9
  <2> QED BY <2>2, <2>3
<1>11. Decoded(e) = [err |-> s.err \/ \E j \in 0 .. k - 1 : s.index[j] >= total_pkts_per_block,
                     pkt |-> [j \in 0 .. k - 1 |-> row(j)]]
  BY DEF Decoded, fec_decode, k, s, src
<1> HIDE DEF row
<1>12. ~Decoded(e).err
  <2>1. \A j \in 0 .. k - 1 : ~(s.index[j] >= total_pkts_per_block)
    <3> SUFFICES ASSUME NEW j \in 0 .. k - 1 PROVE ~(s.index[j] >= total_pkts_per_block) OBVIOUS
    <3>1. s.pos[j] \in 0 .. k - 1 BY <1>6
    <3>2. s.index[j] \in 0 .. total_pkts_per_block - 1 BY <3>1, <1>4, <1>6
    <3>3. total_pkts_per_block \in Nat BY Sizes
    <3> QED BY <3>2, <3>3, SMTT(30)
  <2> DEFINE E == s.err \/ \E j \in 0 .. k - 1 : s.index[j] >= total_pkts_per_block
             T == [j \in 0 .. k - 1 |-> row(j)]
  <2>2. ~E BY <2>1, <1>6
  <2>3. Decoded(e) = [err |-> E, pkt |-> T] BY <1>11
  <2> HIDE DEF E, T
  <2>4. Decoded(e).err = E BY <2>3, SMTT(30)
  <2> QED BY <2>2, <2>4
<1>13. ASSUME NEW u \in 1 .. inst.erasesize
       PROVE  Decoded(e).pkt[(u - 1) \div PKT_SIZE][1 + ((u - 1) % PKT_SIZE)]
                = <<image, b, (u - 1) \div PKT_SIZE, 1 + ((u - 1) % PKT_SIZE)>>
  <2> DEFINE q == (u - 1) \div PKT_SIZE
             r == (u - 1) % PKT_SIZE
  <2>1. q \in Nat /\ r \in 0 .. PKT_SIZE - 1 /\ u - 1 = q * PKT_SIZE + r
    <3>1. PICK a \in Nat : a = u - 1 BY <1>1, SMTT(30)
    <3> QED BY <3>1, <1>1, DivMod
  <2> HIDE DEF q, r
  <2>2. q < k
    <3> SUFFICES ASSUME k <= q PROVE FALSE BY <1>1, <2>1, SMTT(30)
    <3>1. k * PKT_SIZE <= q * PKT_SIZE BY <1>1, <2>1, MulMono
    <3>2. inst.erasesize <= k * PKT_SIZE BY Sizes DEF k
    <3>3. PICK x \in Nat : x = k * PKT_SIZE BY <1>1, SMTT(30)
    <3>4. PICK y \in Nat : y = q * PKT_SIZE BY <1>1, <2>1, SMTT(30)
    <3> QED BY <3>1, <3>2, <3>3, <3>4, <2>1, <1>1, SMTT(30)
  <2>3. Decoded(e).pkt[q] = fec_encode_linear(image, b, q) BY <2>1, <2>2, <1>1, <1>10, <1>11, SMTT(30)
  <2>4. 1 + r \in 1 .. PKT_SIZE BY <2>1, <1>1, SMTT(30)
  <2>5. fec_encode_linear(image, b, q)[1 + r] = <<image, b, q, 1 + r>> BY <2>4 DEF fec_encode_linear
  <2> QED BY <2>3, <2>5 DEF q, r
<1>14. DecodeBuf(Decoded(e).pkt) = Block(image, b) BY <1>13 DEF DecodeBuf, Block
<1> QED BY <1>12, <1>14

(* The sum over the blocks is defined.                                       *)
LEMMA BlocksFinite ==
  ASSUME inst \in Instances
  PROVE  /\ IsFiniteSet(Blocks) /\ Cardinality(Blocks) = inst.nr_blocks /\ inst.nr_blocks \in Nat \ {0}
         /\ 0 \in Blocks /\ \A b \in Blocks : b \in Nat
<1>1. inst.nr_blocks \in Nat \ {0} BY InstancesOK
<1>2. IsFiniteSet(0 .. inst.nr_blocks - 1) /\ Cardinality(0 .. inst.nr_blocks - 1) = inst.nr_blocks
  <2>1. PICK n \in Nat \ {0} : n = inst.nr_blocks BY <1>1
  <2>2. IsFiniteSet(0 .. n - 1) /\ Cardinality(0 .. n - 1) = n BY FS_Interval, SMTT(30)
  <2> QED BY <2>1, <2>2
<1> QED BY <1>1, <1>2, SMTT(30) DEF Blocks

(* The first packet gives every block a place: on the device, if it is large *)
(* enough.                                                                   *)
LEMMA AllocIs ==
  ASSUME McTypes, rcv.nr_blocks = 0, Nothing, NEW pkt, pkt.totcrc \in 1 .. inst.images
  PROVE  LET t == AllocEraseblocks(pkt) IN
         /\ DOMAIN t.rcv = RcvFields /\ t.rcv.pc = rcv.pc /\ t.rcv.faults = rcv.faults
         /\ t.rcv.image_crc = pkt.totcrc
         /\ RecvInv(t.rcv, t.eb, flash)
         /\ OnlyNetwork => t.ok /\ \A b \in Blocks : t.eb[b].blk < inst.size
<1> DEFINE M == Mtdoffsets
           N == inst.nr_blocks
           r == [rcv EXCEPT !.nr_blocks = N, !.image_crc = pkt.totcrc, !.mtdoffset = M[N]]
           E(b) == Entry(Place(M[b]), 0, <<>>, 0, <<>>, 0)
           eb == [b \in 0 .. N - 1 |-> E(b)]
           ok == inst.file_mode \/ \A i \in 0 .. N - 1 : M[i] < inst.size
<1>0. inst \in Instances BY DEF McTypes
<1>1. N \in Nat \ {0} /\ inst.size \in Nat /\ PKT_SIZE \in Nat \ {0} /\ WBUF_SIZE \in Nat \ {0}
  BY <1>0, InstancesOK, SizesOK, SMTT(30)
<1>2. AllocEraseblocks(pkt) = [ok |-> ok, rcv |-> r, eb |-> eb] BY DEF AllocEraseblocks
<1>3. /\ r.nr_blocks = N /\ r.image_crc = pkt.totcrc /\ r.mtdoffset = M[N] /\ r.pc = rcv.pc
      /\ r.faults = rcv.faults /\ r.rewrites = rcv.rewrites /\ r.block_nr = rcv.block_nr
      /\ r.total_pkts = rcv.total_pkts /\ DOMAIN r = RcvFields
  BY DEF McTypes, RcvFields
<1> HIDE DEF r
<1>4. /\ M \in [0 .. N -> Nat] /\ \A i, j \in 0 .. N : i < j => Place(M[i]) < M[j]
  BY <1>0, OffsetsExist, OffsetsAre
<1>5. inst.file_mode => \A i \in 0 .. N : M[i] = i BY <1>0, OffsetsAre
<1> HIDE DEF M
<1>6. ASSUME NEW b \in Blocks
      PROVE  /\ eb[b] = E(b) /\ Place(M[b]) \in Nat /\ Place(M[b]) \notin inst.bad
             /\ Place(M[b]) < M[N] /\ (inst.file_mode => Place(M[b]) = b)
  <2>1. b \in 0 .. N /\ b < N /\ N \in 0 .. N BY <1>1, SMTT(30) DEF Blocks
  <2>2. M[b] \in Nat BY <1>4, <2>1
  <2>3. Place(M[b]) \in Nat /\ Place(M[b]) \notin inst.bad /\ (inst.file_mode => Place(M[b]) = M[b])
    BY <1>0, <2>2, PlaceIs
  <2> QED BY <2>1, <2>3, <1>4, <1>5 DEF Blocks
<1>7. ASSUME NEW b \in Blocks, NEW c \in Blocks, Place(M[b]) = Place(M[c]) PROVE b = c
  <2>1. b \in 0 .. N /\ c \in 0 .. N /\ b \in Nat /\ c \in Nat BY <1>1, SMTT(30) DEF Blocks
  <2>2. /\ M[b] \in Nat /\ M[c] \in Nat BY <1>4, <2>1
  <2>3. Place(M[b]) \in Nat /\ M[b] <= Place(M[b]) /\ Place(M[c]) \in Nat /\ M[c] <= Place(M[c])
    BY <1>0, <2>2, PlaceIs
  <2>4. CASE b < c
    <3>1. Place(M[b]) < M[c] BY <2>1, <2>4, <1>4
    <3> QED BY <3>1, <2>2, <2>3, <1>7, SMTT(30)
  <2>5. CASE c < b
    <3>1. Place(M[c]) < M[b] BY <2>1, <2>5, <1>4
    <3> QED BY <3>1, <2>2, <2>3, <1>7, SMTT(30)
  <2> QED BY <2>1, <2>4, <2>5, SMTT(30)
<1>8. \A b \in Blocks : /\ eb[b].blk = Place(M[b]) /\ eb[b].ofs = 0 /\ eb[b].wbuf = <<>> /\ eb[b].nr_pkts = 0
                        /\ eb[b].pkt_indices = <<>> /\ eb[b].crc = 0 /\ eb[b] \in EntryType
  <2> SUFFICES ASSUME NEW b \in Blocks
               PROVE  /\ eb[b].blk = Place(M[b]) /\ eb[b].ofs = 0 /\ eb[b].wbuf = <<>> /\ eb[b].nr_pkts = 0
                      /\ eb[b].pkt_indices = <<>> /\ eb[b].crc = 0 /\ eb[b] \in EntryType
    OBVIOUS
  <2>1. eb[b] = [blk |-> Place(M[b]), ofs |-> 0, wbuf |-> <<>>, nr_pkts |-> 0, pkt_indices |-> <<>>, crc |-> 0]
    BY <1>6 DEF Entry
  <2>2. Place(M[b]) \in Nat BY <1>6
  <2>3. <<>> \in Seq(Stored) /\ <<>> \in Seq(Nat) BY EmptyIs
  <2> HIDE DEF eb, E
  <2>4. eb[b] \in EntryType BY <2>1, <2>2, <2>3, SMTT(30) DEF EntryType
  <2> QED BY <2>1, <2>4, SMTT(30)
<1>9. DOMAIN eb = Blocks BY DEF Blocks
<1> HIDE DEF eb, E
<1>10. PlacesOK(eb) BY <1>6, <1>7, <1>8, <1>9, SMTT(30) DEF PlacesOK
<1>11. FlashType(flash) /\ FreeBlank(eb, flash)
  BY <1>1 DEF Nothing, FlashType, FreeBlank, BlankBlock
<1>12. ASSUME NEW b \in Blocks PROVE IndicesOK(r.image_crc, eb[b])
  <2>1. pkts_per_block \in Nat \ {0} BY <1>0, Sizes
  <2> QED BY <2>1, <1>8, SMTT(30) DEF IndicesOK
<1>13. ASSUME NEW b \in Blocks PROVE ParkedOK(r.image_crc, b, eb[b], flash)
  <2>0. eb[b].blk = Place(M[b]) /\ eb[b].ofs = 0 /\ eb[b].wbuf = <<>> /\ eb[b].pkt_indices = <<>> /\ eb[b].blk \in Nat
    BY <1>6, <1>8
  <2>1. \E m \in 0 .. eb[b].ofs : eb[b].ofs = m * WBUF_SIZE
    <3>1. 0 \in 0 .. eb[b].ofs /\ eb[b].ofs = 0 * WBUF_SIZE BY <2>0, <1>1, SMTT(30)
    <3> QED BY <3>1
  <2>2. Len(eb[b].wbuf) = 0 /\ Len(eb[b].pkt_indices) = 0 BY <2>0
  <2>3. eb[b].ofs + Len(eb[b].wbuf) = Len(eb[b].pkt_indices) * PKT_SIZE BY <2>0, <2>2, <1>1, SMTT(30)
  <2>4. eb[b].blk < inst.size => flash[eb[b].blk] = BlankBlock
    BY <2>0, <1>1, SMTT(30) DEF Nothing
  <2>5. eb[b].blk < inst.size => \A n \in 1 .. inst.erasesize : flash[eb[b].blk][n] = Blank
    BY <2>4 DEF BlankBlock
  <2> QED BY <1>1, <2>0, <2>1, <2>2, <2>3, <2>5, SMTT(30) DEF ParkedOK
<1>14. TotalPkts(eb) = 0
  <2> DEFINE f == [b \in Blocks |-> Len(eb[b].pkt_indices)]
  <2>1. \A b \in Blocks : f[b] \in 0 .. 0 BY <1>8, SMTT(30)
  <2>2. IsFiniteSet(Blocks) /\ Cardinality(Blocks) \in Nat BY <1>0, BlocksFinite
  <2> HIDE DEF f
  <2>3. SumFunctionOnSet(f, Blocks) \in Nat /\ SumFunctionOnSet(f, Blocks) <= 0 * Cardinality(Blocks)
    BY <2>1, <2>2, SumBound, SMTT(30)
  <2> QED BY <2>2, <2>3, SMTT(30) DEF TotalPkts, f
<1>15. M[N] \in Nat BY <1>1, <1>4, SMTT(30)
<1>16. RecvInv(r, eb, flash)
  BY <1>3, <1>6, <1>8, <1>10, <1>11, <1>12, <1>13, <1>14, <1>15 DEF RecvInv, Nothing
<1>17. OnlyNetwork => ok /\ \A b \in Blocks : eb[b].blk < inst.size
  <2> SUFFICES ASSUME OnlyNetwork PROVE ok /\ \A b \in Blocks : eb[b].blk < inst.size OBVIOUS
  <2>1. \A b \in Blocks : M[b] < inst.size /\ Place(M[b]) < inst.size
    BY <1>0, RoomForAll DEF OnlyNetwork, M
  <2> QED BY <2>1, <1>8 DEF Blocks
<1> HIDE DEF ok
<1>18. AllocEraseblocks(pkt).ok = ok /\ AllocEraseblocks(pkt).rcv = r /\ AllocEraseblocks(pkt).eb = eb
  BY <1>2, SMTT(30)
<1> QED BY <1>3, <1>16, <1>17, <1>18

(* Every sum of the packets held is a natural number.                        *)
LEMMA TotalChange ==
  ASSUME inst \in Instances, NEW eb, DOMAIN eb = Blocks, \A c \in Blocks : eb[c] \in EntryType,
         NEW b \in Blocks, NEW e \in EntryType
  PROVE  TotalPkts([eb EXCEPT ![b] = e]) = TotalPkts(eb) - Len(eb[b].pkt_indices) + Len(e.pkt_indices)
<1> DEFINE eb2 == [eb EXCEPT ![b] = e]
           f == [c \in Blocks |-> Len(eb[c].pkt_indices)]
           g == [c \in Blocks |-> Len(eb2[c].pkt_indices)]
<1>1. IsFiniteSet(Blocks) BY BlocksFinite
<1>2. eb2[b] = e /\ \A c \in Blocks \ {b} : eb2[c] = eb[c] OBVIOUS
<1>3. \A c \in Blocks : f[c] \in Int BY SMTT(30) DEF EntryType
<1> HIDE DEF eb2
<1>4. g[b] = Len(e.pkt_indices) /\ g[b] \in Int BY <1>2, SMTT(30) DEF EntryType
<1>5. \A c \in Blocks \ {b} : g[c] = f[c] BY <1>2
<1>6. f[b] = Len(eb[b].pkt_indices) OBVIOUS
<1> HIDE DEF f, g
<1>7. SumFunctionOnSet(g, Blocks) = SumFunctionOnSet(f, Blocks) - f[b] + g[b]
  <2>1. g[b] \in Int BY <1>4
  <2> QED BY <1>1, <1>3, <2>1, <1>5, SumChange, SMTT(30)
<1> QED BY <1>4, <1>6, <1>7 DEF TotalPkts, f, g, eb2

(* The count of the packets held.                                            *)
LEMMA CountIs ==
  ASSUME inst \in Instances
  PROVE  CountFacts
<1> SUFFICES ASSUME NEW eb, DOMAIN eb = Blocks, \A c \in Blocks : eb[c] \in EntryType
             PROVE  /\ TotalPkts(eb) \in Int
                    /\ /\ TotalPkts(eb) = inst.nr_blocks * pkts_per_block
                       /\ \A c \in Blocks : Len(eb[c].pkt_indices) <= pkts_per_block
                       => \A c \in Blocks : Len(eb[c].pkt_indices) = pkts_per_block
  BY TotalChange DEF CountFacts
<1> DEFINE f == [c \in Blocks |-> Len(eb[c].pkt_indices)]
<1>1. IsFiniteSet(Blocks) /\ Cardinality(Blocks) = inst.nr_blocks /\ inst.nr_blocks \in Nat
  BY BlocksFinite
<1>2. pkts_per_block \in Nat BY Sizes
<1>3. \A c \in Blocks : f[c] \in Nat /\ f[c] = Len(eb[c].pkt_indices) BY SMTT(30) DEF EntryType
<1>4. TotalPkts(eb) = SumFunctionOnSet(f, Blocks) BY DEF TotalPkts
<1> HIDE DEF f
<1>5. TotalPkts(eb) \in Nat BY <1>1, <1>3, <1>4, SumNat
<1>6. ASSUME TotalPkts(eb) = inst.nr_blocks * pkts_per_block,
             \A c \in Blocks : Len(eb[c].pkt_indices) <= pkts_per_block, NEW c \in Blocks
      PROVE  Len(eb[c].pkt_indices) = pkts_per_block
  <2>1. \A d \in Blocks : f[d] \in 0 .. pkts_per_block BY <1>2, <1>3, <1>6, SMTT(30)
  <2>2. SumFunctionOnSet(f, Blocks) = pkts_per_block * Cardinality(Blocks) BY <1>1, <1>2, <1>4, <1>6, SMTT(30)
  <2>3. f[c] = pkts_per_block BY <1>1, <1>2, <2>1, <2>2, SumFull, SMTT(30)
  <2> QED BY <1>3, <2>3
<1> QED BY <1>5, <1>6, SMTT(30)

(* The operators compute what the steps rely on.                             *)
LEMMA OperatorsAre ==
  ASSUME McTypes
  PROVE  OperatorFacts
<1>1. inst \in Instances BY DEF McTypes
<1>2. PlaceFacts BY <1>1, PlaceIs DEF PlaceFacts
<1>3. AllocFacts BY AllocIs DEF AllocFacts
<1>4. CountFacts BY <1>1, CountIs
<1>5. DecodeFacts BY <1>1, DecodeIs DEF DecodeFacts
<1> QED BY <1>2, <1>3, <1>4, <1>5 DEF OperatorFacts

(* What is on the device when recv_image exits, from the invariant.          *)
LEMMA WrittenFollows == McInv => ImageWritten
<1> SUFFICES ASSUME McInv PROVE ImageWritten OBVIOUS
<1>1. ASSUME rcv.pc = "done", inst.rewrites - rcv.rewrites <= 1, NEW b \in DOMAIN eraseblocks
      PROVE  flash[eraseblocks[b].blk] =
               [u \in 1 .. inst.erasesize |->
                  <<rcv.image_crc, b, (u - 1) \div PKT_SIZE, 1 + ((u - 1) % PKT_SIZE)>>]
  <2>1. rcv.nr_blocks \in {0, inst.nr_blocks} /\ inst \in Instances BY DEF McInv, McTypes
  <2>2. inst.nr_blocks \in Nat \ {0} BY <2>1, InstancesOK
  <2>3. CASE rcv.nr_blocks = 0
    <3>1. eraseblocks = <<>> BY <2>3 DEF McInv, Nothing
    <3> QED BY <3>1, SMTT(30)
  <2>4. CASE rcv.nr_blocks # 0
    <3>1. rcv.nr_blocks > 0 BY <2>1, <2>2, <2>4, SMTT(30)
    <3>2. WriteInv(rcv, eraseblocks, flash) BY <1>1, <3>1 DEF McInv, Rewritten
    <3>3. b \in Blocks BY <3>2 DEF WriteInv, PlacesOK
    <3>4. rcv.block_nr + 1 = inst.nr_blocks /\ rcv.block_nr \in Blocks BY <1>1, <3>2 DEF WriteInv
    <3>5. ~(b > rcv.block_nr) BY <2>2, <3>3, <3>4, SMTT(30) DEF Blocks
    <3>6. flash[eraseblocks[b].blk] = Block(rcv.image_crc, b) BY <1>1, <3>2, <3>3, <3>5 DEF WriteInv
    <3> QED BY <3>6 DEF Block
  <2> QED BY <2>3, <2>4
<1>2. ASSUME rcv.pc = "failed"
      PROVE  \/ inst.errors \/ inst.faults + inst.rewrites > 0 \/ inst.images > 1
             \/ Cardinality((0 .. inst.size - 1) \ inst.bad) < inst.nr_blocks
  <2>1. ~OnlyNetwork BY <1>2 DEF McInv, NetworkInv
  <2>2. inst \in Instances BY DEF McInv, McTypes
  <2>3. /\ inst.nr_blocks \in Nat /\ inst.images \in Nat \ {0} /\ inst.faults \in Nat
        /\ inst.rewrites \in Nat /\ inst.size \in Nat
    BY <2>2, InstancesOK
  <2>4. Cardinality((0 .. inst.size - 1) \ inst.bad) \in Nat
    <3>1. IsFiniteSet(0 .. inst.size - 1) BY <2>3, FS_Interval, SMTT(30)
    <3>2. IsFiniteSet((0 .. inst.size - 1) \ inst.bad) BY <3>1, FS_Difference
    <3> QED BY <3>2, FS_CardinalityType
  <2> QED BY <2>1, <2>3, <2>4, SMTT(30) DEF OnlyNetwork
<1> QED BY <1>1, <1>2 DEF ImageWritten

(* The invariant holds in every state of every reception.                    *)
LEMMA McInvariant == Spec => []McInv
<1>1. McInv /\ [Next]_vars => McInv'
  <2>1. McInv => OperatorFacts BY OperatorsAre DEF McInv
  <2> QED BY <2>1, NextMc
<1> QED BY <1>1, InitMc, PTL DEF Spec

(* Whatever the network loses, garbles, repeats or brings of another image,  *)
(* and whatever write of packets fails, the receiver holds of every block    *)
(* exactly the different packets it lists: the units written to flash and    *)
(* the units still in the write buffer are those packets one after the       *)
(* other, no two blocks share an eraseblock, none is bad, and the count that *)
(* ends the receive loop is the number held (recv_image.c:190-356).          *)
THEOREM ReceptionExact == Spec => []HeldExactly
<1> QED BY McInvariant, HeldFollows, PTL

(* When recv_image exits with success every block of the image is whole in   *)
(* the eraseblock it was said to be written to, from whichever packets it    *)
(* was decoded, even if one write of decoded data failed on the way; and it  *)
(* gives up only if the device failed or is too small or a second image is   *)
(* sent (recv_image.c:358-480).                                              *)
THEOREM McastImageWritten == Spec => []ImageWritten
<1> QED BY McInvariant, WrittenFollows, PTL
=============================================================================
