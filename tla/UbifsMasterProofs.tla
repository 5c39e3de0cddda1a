--------------------------- MODULE UbifsMasterProofs ---------------------------
(***************************************************************************)
(* Proofs about UbifsMaster, for every number of slots per LEB.            *)
(*                                                                         *)
(* Every state of a master LEB is a row: n sound nodes, then at most one   *)
(* slot with a damaged node, then blank slots.  The first lemmas say what  *)
(* the code reads from a row and from a pair of rows; the inductive        *)
(* invariant says which pairs occur at each point of the program.          *)
(***************************************************************************)
EXTENDS UbifsMaster, TLAPS

USE ZenonT(30)

(* Min, as used by ubifs_scan() and get_master_node(), is the least element. *)
LEMMA MinIsLeast ==
  ASSUME NEW S \in SUBSET Int, NEW m \in S, \A y \in S : m <= y
  PROVE  Min(S) = m
<1>1. \E x \in S : \A y \in S : x <= y
  OBVIOUS
<1>2. /\ Min(S) \in S
      /\ \A y \in S : Min(S) <= y
  BY <1>1 DEF Min
<1>3. Min(S) <= m /\ m <= Min(S)
  BY <1>2
<1>4. Min(S) \in Int /\ m \in Int
  BY <1>2
<1> QED
  BY <1>3, <1>4, SMTT(30)

(* n sound nodes, possibly one damaged slot behind them, blank after that.  *)
IsRow(leb, n) ==
  /\ n \in 0 .. Slots
  /\ \A i \in Offs : i < n => leb[i].kind = "node"
  /\ n < Slots => leb[n].kind # "node"
  /\ \A i \in Offs : i > n => leb[i].kind = "ff"

IsClean(leb, n) == n < Slots => leb[n].kind = "ff"

(* What ubifs_scan() and get_master_node() find in a row.                   *)
LEMMA RowRead ==
  ASSUME NEW leb \in [Offs -> Slot], NEW n, IsRow(leb, n)
  PROVE  /\ NodesCnt(leb) = n
         /\ ScansClean(leb) <=> IsClean(leb, n)
         /\ MstNode(leb).ok
         /\ MstNode(leb).offs = n - 1
         /\ MstNode(leb).cor <=> ~IsClean(leb, n)
<1> USE SlotsAssumption DEF Offs, IsRow
<1>1. NodesCnt(leb) = n
  <2> DEFINE S == {i \in 0 .. Slots : i = Slots \/ leb[i].kind # "node"}
  <2>1. n \in S /\ S \in SUBSET Int /\ \A y \in S : n <= y
    BY SMTT(30)
  <2> HIDE DEF S
  <2>2. Min(S) = n
    BY <2>1, MinIsLeast
  <2> QED
    BY <2>2 DEF NodesCnt, S
<1>2. ScansClean(leb) <=> IsClean(leb, n)
  BY <1>1, SMTT(30) DEF ScansClean, IsClean
<1> DEFINE d == n < Slots /\ leb[n].kind = "corrupt"
<1>3. FirstNonMagic(leb) = IF d THEN n + 1 ELSE n
  <2> DEFINE S == {i \in 0 .. Slots : i = Slots \/ leb[i].kind \in {"ff", "garbage"}}
             m == IF d THEN n + 1 ELSE n
  <2>1. n < Slots => leb[n].kind \in {"ff", "garbage", "corrupt"}
    BY SMTT(30) DEF Slot, Kinds
  <2>2. m \in S /\ S \in SUBSET Int
    BY <2>1, SMTT(30)
  <2>3. \A y \in S : m <= y
    BY <2>1, SMTT(30)
  <2> HIDE DEF S, m
  <2>4. Min(S) = m
    BY <2>2, <2>3, MinIsLeast
  <2> QED
    BY <2>4 DEF FirstNonMagic, S, m
<1>4. LastSound(leb) = n - 1
  BY <1>3, SMTT(30) DEF LastSound
<1>5. MstNode(leb).ok
  BY <1>4, SMTT(30) DEF MstNode
<1>6. MstNode(leb).offs = n - 1
  BY <1>4 DEF MstNode
<1>7. MstNode(leb).cor <=> ~IsClean(leb, n)
  <2>1. (n - 1) + 1 = n
    BY SMTT(30)
  <2>2. MstNode(leb).cor = (n < Slots /\ leb[n].kind # "ff")
    BY <1>4, <2>1 DEF MstNode
  <2> QED
    BY <2>2 DEF IsClean
<1> QED
  BY <1>1, <1>2, <1>5, <1>6, <1>7

(* The pairs of rows a stop can leave in LEB 1 (a) and LEB 2 (b), r being    *)
(* the contents to be read: the LEBs agree; LEB 1 is one node ahead; LEB 1   *)
(* was wrapped and LEB 2 is full or empty; LEB 1 was rewritten by recovery;  *)
(* LEB 1 is empty.                                                           *)
SameRows(a, b, r, n1, n2) ==
  /\ n1 = n2 /\ n1 > 0
  /\ SameMaster(a[n1 - 1], b[n1 - 1])
  /\ ContentsOf(a[n1 - 1]) = r

AheadRows(a, r, n1, n2) ==
  /\ n1 = n2 + 1 /\ n2 > 0
  /\ IsClean(a, n1)
  /\ ContentsOf(a[n1 - 1]) = r

WrappedRows(a, r, n1, n2) ==
  /\ n1 = 1 /\ n2 \in {0, Slots}
  /\ IsClean(a, 1)
  /\ ContentsOf(a[0]) = r

RecoveredRows(a, r, n1) ==
  /\ n1 = 1
  /\ IsClean(a, 1)
  /\ a[0].rcvry
  /\ ContentsOf(a[0]) = r

EmptyRows(b, r, n1, n2) ==
  /\ n1 = 0 /\ n2 = Slots
  /\ ContentsOf(b[Slots - 1]) = r

Consistent(a, b, r, n1, n2) ==
  /\ IsRow(a, n1) /\ IsRow(b, n2)
  /\ \/ SameRows(a, b, r, n1, n2)
     \/ AheadRows(a, r, n1, n2)
     \/ WrappedRows(a, r, n1, n2)
     \/ RecoveredRows(a, r, n1)
     \/ EmptyRows(b, r, n1, n2)

(* From each such pair scan_for_master() and ubifs_recover_master_node()     *)
(* read r.                                                                   *)
LEMMA ConsistentRead ==
  ASSUME NEW f \in [Lebs -> [Offs -> Slot]], NEW r, NEW n1, NEW n2,
         Consistent(f[1], f[2], r, n1, n2)
  PROVE  /\ Readable(f)
         /\ ContentsOf(ReadMaster(f)) = r
<1> USE SlotsAssumption
<1> DEFINE m1 == MstNode(f[1])
           m2 == MstNode(f[2])
<1>1. f[1] \in [Offs -> Slot] /\ f[2] \in [Offs -> Slot]
  BY DEF Lebs
<1>2. n1 \in 0 .. Slots /\ n2 \in 0 .. Slots
  BY DEF Consistent, IsRow
<1>3. /\ NodesCnt(f[1]) = n1
      /\ ScansClean(f[1]) <=> IsClean(f[1], n1)
      /\ m1.ok
      /\ m1.offs = n1 - 1
      /\ m1.cor <=> ~IsClean(f[1], n1)
  BY <1>1, RowRead DEF Consistent
<1>4. /\ NodesCnt(f[2]) = n2
      /\ ScansClean(f[2]) <=> IsClean(f[2], n2)
      /\ m2.ok
      /\ m2.offs = n2 - 1
      /\ m2.cor <=> ~IsClean(f[2], n2)
  BY <1>1, RowRead DEF Consistent
<1>5. ScanForMaster(f) => n1 = n2 /\ n1 > 0
  BY <1>3, <1>4 DEF ScanForMaster
<1> HIDE DEF m1, m2
<1> DEFINE o1 == n1 - 1
           o2 == n2 - 1
<1>6. Recover(f) =
        IF o1 >= 0 THEN
          IF f[1][o1].rcvry /\ o1 = 0 /\ ~m1.cor THEN 1
          ELSE IF o2 >= 0 THEN
            IF o1 = o2 THEN IF SameMaster(f[1][o1], f[2][o2]) THEN 1 ELSE 0
            ELSE IF o2 + 1 = o1 \/ Wrapped(o1, o2)
            THEN IF m1.cor THEN 0 ELSE 1
            ELSE 0
          ELSE IF o1 # 0 \/ m1.cor THEN 0 ELSE 1
        ELSE IF o2 < 0 \/ o2 + 1 < Slots THEN 0 ELSE 2
  BY <1>3, <1>4 DEF Recover, m1, m2
<1>7. Recover(f) = 1 => ReadMaster(f) = f[1][n1 - 1]
  BY <1>3 DEF ReadMaster, m1
<1>8. ScanForMaster(f) => ReadMaster(f) = f[1][n1 - 1]
  BY <1>3 DEF ReadMaster
<1>9. Recover(f) = 2 /\ ~ScanForMaster(f) => ReadMaster(f) = f[2][n2 - 1]
  BY <1>4 DEF ReadMaster, m2
<1>10. CASE SameRows(f[1], f[2], r, n1, n2)
  <2>1. Recover(f) = 1
    BY <1>2, <1>6, <1>10, SMTT(30) DEF SameRows
  <2> QED
    BY <1>7, <1>10, <2>1, SMTT(30) DEF SameRows, Readable
<1>11. CASE AheadRows(f[1], r, n1, n2)
  <2>1. Recover(f) = 1
    BY <1>2, <1>3, <1>6, <1>11, SMTT(30) DEF AheadRows, Wrapped
  <2> QED
    BY <1>7, <1>11, <2>1, SMTT(30) DEF AheadRows, Readable
<1>12. CASE WrappedRows(f[1], r, n1, n2)
  <2>1. Recover(f) = 1
    BY <1>2, <1>3, <1>6, <1>12, SMTT(30) DEF WrappedRows, Wrapped
  <2> QED
    BY <1>7, <1>12, <2>1, SMTT(30) DEF WrappedRows, Readable
<1>13. CASE RecoveredRows(f[1], r, n1)
  <2>1. Recover(f) = 1
    BY <1>2, <1>3, <1>6, <1>13, SMTT(30) DEF RecoveredRows
  <2> QED
    BY <1>7, <1>13, <2>1, SMTT(30) DEF RecoveredRows, Readable
<1>14. CASE EmptyRows(f[2], r, n1, n2)
  <2>1. Recover(f) = 2
    BY <1>2, <1>6, <1>14, SMTT(30) DEF EmptyRows
  <2>2. ~ScanForMaster(f)
    BY <1>5, <1>14, SMTT(30) DEF EmptyRows
  <2> QED
    BY <1>9, <1>14, <2>1, <2>2, SMTT(30) DEF EmptyRows, Readable
<1> QED
  BY <1>10, <1>11, <1>12, <1>13, <1>14 DEF Consistent

-----------------------------------------------------------------------------
(* The inductive invariant.                                                 *)

(* Both LEBs hold n nodes, no damage, and end in the same node r.           *)
Settled(f, n, r) ==
  /\ IsRow(f[1], n) /\ IsClean(f[1], n)
  /\ IsRow(f[2], n) /\ IsClean(f[2], n)
  /\ SameRows(f[1], f[2], r, n, n)

(* LEB 1 ends in slot o with the contents being written, which now count.   *)
Leb1Written(o) ==
  /\ IsRow(flash[1], o + 1) /\ IsClean(flash[1], o + 1)
  /\ flash[1][o] = Node(mst, FALSE)
  /\ stale[1] = flash[1]
  /\ mst = root

(* What is on flash at each point of the program.                           *)
PcInv ==
  /\ pc \in {"active", "done"} =>
       mst = root /\ stale = flash /\ Settled(flash, mst_offs + 1, root)
  /\ pc = "unmap1" =>
       mst_offs = Slots - 1 /\ stale = flash /\ Settled(flash, Slots, root)
  /\ pc = "write1" /\ mst_offs > 0 =>
       stale = flash /\ Settled(flash, mst_offs, root)
  /\ pc = "write1" /\ mst_offs = 0 =>
       flash[1] = Blank /\ stale[2] = flash[2] /\ Settled(stale, Slots, root)
  /\ pc = "unmap2" =>
       mst_offs = 0 /\ Leb1Written(0) /\ stale[2] = flash[2] /\ IsRow(flash[2], Slots)
  /\ pc = "write2" /\ mst_offs > 0 =>
       /\ Leb1Written(mst_offs) /\ stale[2] = flash[2]
       /\ IsRow(flash[2], mst_offs) /\ IsClean(flash[2], mst_offs)
  /\ pc = "write2" /\ mst_offs = 0 =>
       Leb1Written(0) /\ flash[2] = Blank /\ IsRow(stale[2], Slots)
  /\ pc \in {"rcvry1", "rcvry2"} =>
       mst = root /\ mst_offs = 0
  /\ pc = "rcvry2" =>
       flash[1] = Row(Node(mst, TRUE)) /\ stale[1] = flash[1]

(* Whatever the LEBs read as after a stop, it is a pair to read r from.      *)
Cut(f, st, r) ==
  /\ \A a \in {f[1], st[1]}, b \in {f[2], st[2]} :
       \E n1, n2 \in 0 .. Slots : Consistent(a, b, r, n1, n2)
  /\ \A l \in Lebs : st[l] = f[l] \/ f[l] = Blank

CutInv == Cut(flash, stale, root)

(* Contents are numbered in the order they are created, and the journal is  *)
(* written under contents that count and are marked dirty.                  *)
VerInv ==
  /\ ver >= 1 /\ root.ver <= ver
  /\ \A j \in jrnl : j <= ver
  /\ pc \in Writing => mst.ver = ver /\ \A j \in jrnl : j < ver
  /\ pc \in {"unmap1", "write1"} => root.ver < ver
  /\ pc = "active" => mst.dirty
  /\ root.ver \in jrnl => root.dirty

IInv == TypeOK /\ PcInv /\ CutInv /\ VerInv

(* What programming the slot behind a clean row gives.                      *)
LEMMA RowProgram ==
  ASSUME NEW leb \in [Offs -> Slot], NEW n \in Offs,
         IsRow(leb, n), IsClean(leb, n), NEW s \in Slot
  PROVE  LET p == [leb EXCEPT ![n] = s] IN
         /\ p \in [Offs -> Slot]
         /\ p[n] = s
         /\ \A i \in Offs : i # n => p[i] = leb[i]
         /\ s.kind = "node" => IsRow(p, n + 1) /\ IsClean(p, n + 1)
         /\ s.kind # "node" => IsRow(p, n)
BY SlotsAssumption, SMTT(30) DEF IsRow, IsClean, Offs

(* An unmapped master LEB reads as a row without nodes.                      *)
LEMMA RowBlank ==
  /\ Blank \in [Offs -> Slot]
  /\ IsRow(Blank, 0) /\ IsClean(Blank, 0)
BY SlotsAssumption, SMTT(30) DEF IsRow, IsClean, Offs, Blank, FF, NoNode, Slot, Kinds

(* A master LEB that was changed atomically to one node is a row of one.     *)
LEMMA RowOne ==
  ASSUME NEW s \in Slot, s.kind = "node"
  PROVE  /\ Row(s) \in [Offs -> Slot]
         /\ Row(s)[0] = s
         /\ IsRow(Row(s), 1) /\ IsClean(Row(s), 1)
BY SlotsAssumption, SMTT(30) DEF IsRow, IsClean, Offs, Row, FF, NoNode, Slot, Kinds

(* What a master node written by ubifs_write_master says is what is read     *)
(* back.                                                                     *)
LEMMA NodeIsSlot ==
  ASSUME NEW m \in Contents, NEW r \in BOOLEAN
  PROVE  /\ Node(m, r) \in Slot
         /\ Node(m, r).kind = "node"
         /\ Node(m, r).rcvry = r
         /\ ContentsOf(Node(m, r)) = m
         /\ Node(m, r) # FF
BY DEF Node, Slot, Kinds, Contents, ContentsOf, FF, NoNode

(* A master node whose write was cut is either whole or no node.             *)
LEMMA TornIsSlot ==
  ASSUME NEW m \in Contents, NEW s \in Torn(Node(m, FALSE))
  PROVE  /\ s \in Slot
         /\ s.kind = "node" => s = Node(m, FALSE)
<1>1. Node(m, FALSE) \in Slot
  BY NodeIsSlot
<1>2. CASE s = Node(m, FALSE)
  BY <1>1, <1>2
<1>3. ASSUME NEW k \in Kinds, k # "node", s = NoNode(k)
      PROVE  s \in Slot /\ s.kind # "node"
  BY <1>3 DEF NoNode, Slot
<1> QED
  BY <1>2, <1>3 DEF Torn, FF, Kinds

(* Settled LEBs can be read after a stop.                                   *)
LEMMA SettledCut ==
  ASSUME NEW f, NEW n, NEW r, Settled(f, n, r)
  PROVE  Cut(f, f, r)
<1>1. n \in 0 .. Slots
  BY DEF Settled, IsRow
<1>2. Consistent(f[1], f[2], r, n, n)
  BY DEF Settled, Consistent
<1> QED
  BY <1>1, <1>2 DEF Cut

(* The file system mkfs.ubifs leaves, with both master LEBs holding the      *)
(* first node.                                                               *)
LEMMA InitInv == Init => IInv
<1> SUFFICES ASSUME Init PROVE IInv
  OBVIOUS
<1> USE SlotsAssumption
<1> DEFINE s == Node(FirstMaster, FALSE)
<1>1. FirstMaster \in Contents /\ FirstMaster.ver = 1
  BY DEF FirstMaster, Contents
<1>2. s \in Slot /\ s.kind = "node" /\ ContentsOf(s) = FirstMaster
  BY <1>1, NodeIsSlot
<1> HIDE DEF s
<1>3. /\ flash[1] = Row(s) /\ flash[2] = Row(s)
      /\ flash = [l \in Lebs |-> Row(s)]
  BY DEF Init, Lebs, s
<1>4. /\ Row(s) \in [Offs -> Slot] /\ Row(s)[0] = s
      /\ IsRow(Row(s), 1) /\ IsClean(Row(s), 1)
  BY <1>2, RowOne
<1>5. Settled(flash, 1, root)
  <2>1. SameMaster(s, s)
    BY DEF SameMaster
  <2>2. root = FirstMaster /\ 1 - 1 = 0
    BY SMTT(30) DEF Init
  <2>3. SameRows(Row(s), Row(s), root, 1, 1)
    BY <1>2, <1>4, <2>1, <2>2, SMTT(30) DEF SameRows
  <2> QED
    BY <1>3, <1>4, <2>3 DEF Settled
<1>6. TypeOK
  <2>1. flash \in [Lebs -> [Offs -> Slot]] /\ stale = flash
    BY <1>3, <1>4 DEF Init
  <2>2. mst_offs \in Offs
    BY SMTT(30) DEF Init, Offs
  <2> QED
    BY <1>1, <2>1, <2>2 DEF Init, TypeOK, Pcs
<1>7. CutInv
  BY <1>5, SettledCut DEF CutInv, Init
<1>8. PcInv /\ VerInv
  BY <1>1, SMTT(30) DEF Init, PcInv, VerInv, Writing
<1> QED
  BY <1>6, <1>7, <1>8 DEF IInv

(* The start of ubifs_write_master() behind slot o of settled LEBs.         *)
LEMMA StartWriteInv ==
  ASSUME TypeOK, VerInv, NEW m \in Contents, NEW o \in Offs,
         StartWrite(m, o),
         flash' \in [Lebs -> [Offs -> Slot]], stale' = flash',
         root' = root, jrnl' = jrnl, Settled(flash', o + 1, root)
  PROVE  IInv'
<1> USE SlotsAssumption
<1>1. /\ ver' = ver + 1 /\ mst' = [ver |-> ver + 1, dirty |-> m.dirty]
      /\ pc' = FirstStep(o) /\ mst_offs' = IF Full(o) THEN o ELSE o + 1
  BY DEF StartWrite
<1>2. mst' \in Contents /\ mst'.ver = ver'
  BY <1>1, SMTT(30) DEF TypeOK, Contents
<1>3. CASE Full(o)
  <2>1. pc' = "unmap1" /\ mst_offs' = o /\ o + 1 = Slots /\ o = Slots - 1
    BY <1>1, <1>3, SMTT(30) DEF Full, FirstStep, Offs
  <2>2. TypeOK'
    BY <1>1, <1>2, <2>1, SMTT(30) DEF TypeOK, Pcs
  <2>3. PcInv'
    BY <2>1 DEF PcInv
  <2>4. VerInv'
    BY <1>1, <1>2, <2>1, SMTT(30) DEF VerInv, TypeOK, Writing, Contents
  <2> QED
    BY <2>2, <2>3, <2>4, SettledCut DEF IInv, CutInv
<1>4. CASE ~Full(o)
  <2>1. pc' = "write1" /\ mst_offs' = o + 1 /\ o + 1 \in Offs /\ o + 1 > 0
    BY <1>1, <1>4, SMTT(30) DEF Full, FirstStep, Offs
  <2>2. TypeOK'
    BY <1>1, <1>2, <2>1, SMTT(30) DEF TypeOK, Pcs
  <2>3. PcInv'
    BY <2>1, SMTT(30) DEF PcInv
  <2>4. VerInv'
    BY <1>1, <1>2, <2>1, SMTT(30) DEF VerInv, TypeOK, Writing, Contents
  <2> QED
    BY <2>2, <2>3, <2>4, SettledCut DEF IInv, CutInv
<1> QED
  BY <1>3, <1>4

(* The end of a read-write mount that found settled LEBs.                   *)
LEMMA LoadedInv ==
  ASSUME TypeOK, VerInv, NEW o \in Offs, Loaded(root, o),
         flash' \in [Lebs -> [Offs -> Slot]], stale' = flash',
         root' = root, jrnl' = jrnl, Settled(flash', o + 1, root)
  PROVE  IInv'
<1>1. root \in Contents
  BY DEF TypeOK
<1>2. CASE root.dirty
  <2>1. pc' = "active" /\ mst' = root /\ mst_offs' = o /\ ver' = ver
    BY <1>2 DEF Loaded
  <2>2. TypeOK'
    BY <1>1, <2>1 DEF TypeOK, Pcs
  <2>3. PcInv'
    BY <2>1 DEF PcInv
  <2>4. VerInv'
    BY <1>2, <2>1 DEF VerInv, Writing
  <2> QED
    BY <2>2, <2>3, <2>4, SettledCut DEF IInv, CutInv
<1>3. CASE ~root.dirty
  <2>1. StartWrite([root EXCEPT !.dirty = TRUE], o)
    BY <1>3 DEF Loaded
  <2>2. [root EXCEPT !.dirty = TRUE] \in Contents
    BY <1>1 DEF Contents
  <2> QED
    BY <2>1, <2>2, StartWriteInv
<1> QED
  BY <1>2, <1>3

(* What a stop leaves is of the right shape and pairs old with new rows.     *)
LEMMA AfterCutPairs ==
  ASSUME TypeOK, NEW f \in AfterCut
  PROVE  /\ f \in [Lebs -> [Offs -> Slot]]
         /\ f[1] \in {flash[1], stale[1]}
         /\ f[2] \in {flash[2], stale[2]}
BY DEF AfterCut, TypeOK, Lebs

(* A power cut may leave the master area as it is.                           *)
LEMMA FlashAfterCut == TypeOK => flash \in AfterCut
<1> SUFFICES ASSUME TypeOK PROVE flash \in AfterCut
  OBVIOUS
<1>1. flash = [l \in Lebs |-> IF l \in {} THEN stale[l] ELSE flash[l]]
  BY DEF TypeOK
<1>2. \E S \in SUBSET Lebs :
        flash = [l \in Lebs |-> IF l \in S THEN stale[l] ELSE flash[l]]
  <2>1. {} \in SUBSET Lebs
    OBVIOUS
  <2> QED
    BY <1>1, <2>1
<1> QED
  BY <1>2 DEF AfterCut

(* The mount reads root from everything a stop can leave.                   *)
LEMMA CutRead ==
  ASSUME TypeOK, CutInv, NEW f \in AfterCut
  PROVE  Readable(f) /\ ContentsOf(ReadMaster(f)) = root
<1>1. PICK n1 \in 0 .. Slots, n2 \in 0 .. Slots :
           Consistent(f[1], f[2], root, n1, n2)
  BY AfterCutPairs DEF CutInv, Cut
<1> QED
  BY <1>1, AfterCutPairs, ConsistentRead

(* When scan_for_master() succeeds the LEBs are settled.                    *)
LEMMA ScanSettled ==
  ASSUME TypeOK, CutInv, ScanForMaster(flash)
  PROVE  LET n == NodesCnt(flash[1]) IN
         /\ n - 1 \in Offs
         /\ stale = flash
         /\ Settled(flash, n, root)
         /\ ContentsOf(ReadMaster(flash)) = root
<1> USE SlotsAssumption
<1> DEFINE n == NodesCnt(flash[1])
<1>1. flash[1] \in [Offs -> Slot] /\ flash[2] \in [Offs -> Slot]
  BY DEF TypeOK, Lebs
<1>2. PICK n1 \in 0 .. Slots, n2 \in 0 .. Slots :
           Consistent(flash[1], flash[2], root, n1, n2)
  BY DEF CutInv, Cut
<1>3. /\ n = n1 /\ NodesCnt(flash[2]) = n2
      /\ ScansClean(flash[1]) <=> IsClean(flash[1], n1)
      /\ ScansClean(flash[2]) <=> IsClean(flash[2], n2)
  BY <1>1, <1>2, RowRead DEF Consistent
<1>4. n1 = n2 /\ n1 > 0
  BY <1>3 DEF ScanForMaster
<1>5. ContentsOf(ReadMaster(flash)) = root /\ ReadMaster(flash) = flash[1][n - 1]
  BY CutRead, FlashAfterCut DEF ReadMaster
<1>6. Settled(flash, n, root)
  BY <1>2, <1>3, <1>4, <1>5 DEF Settled, SameRows, Consistent, ScanForMaster
<1>7. \A l \in Lebs : flash[l] # Blank
  <2>1. NodesCnt(Blank) = 0
    BY RowBlank, RowRead
  <2> QED
    BY <1>3, <1>4, <2>1, SMTT(30) DEF Lebs
<1>8. stale = flash
  <2>1. \A l \in Lebs : stale[l] = flash[l]
    BY <1>7 DEF CutInv, Cut
  <2> QED
    BY <2>1, SMTT(30) DEF TypeOK
<1> QED
  BY <1>3, <1>4, <1>5, <1>6, <1>8, SMTT(30) DEF Offs

(* Steps that only move the program counter to a place where nothing is      *)
(* being written keep the invariant.                                         *)
LEMMA IdleInv ==
  ASSUME IInv, pc' \in {"off", "ro", "error", "failed"}, mst' \in Contents,
         UNCHANGED <<flash, stale, mst_offs, ver, jrnl, root>>
  PROVE  IInv'
<1>1. TypeOK'
  BY DEF IInv, TypeOK, Pcs
<1>2. PcInv'
  BY DEF PcInv
<1>3. CutInv'
  BY DEF IInv, CutInv
<1>4. VerInv'
  BY DEF IInv, VerInv, Writing
<1> QED
  BY <1>1, <1>2, <1>3, <1>4 DEF IInv

(* A read-only open reads the newest valid master node and writes nothing.   *)
LEMMA MountROInv == IInv /\ MountRO => IInv'
<1> SUFFICES ASSUME IInv, MountRO PROVE IInv'
  OBVIOUS
<1>1. Readable(flash) /\ ContentsOf(ReadMaster(flash)) = root /\ root \in Contents
  BY CutRead, FlashAfterCut DEF IInv, TypeOK
<1>2. pc' = "ro" /\ mst' \in {root, [root EXCEPT !.dirty = TRUE]}
  BY <1>1 DEF MountRO
<1>3. mst' \in Contents
  BY <1>1, <1>2 DEF Contents
<1> QED
  BY <1>2, <1>3, IdleInv DEF MountRO

(* A read-write open finds the newest valid master node, by                  *)
(* ubifs_read_master or by recovery.                                         *)
LEMMA MountRWInv == IInv /\ MountRW => IInv'
<1> SUFFICES ASSUME IInv, MountRW PROVE IInv'
  OBVIOUS
<1>1. Readable(flash) /\ ContentsOf(ReadMaster(flash)) = root
  BY CutRead, FlashAfterCut DEF IInv
<1>2. UNCHANGED <<flash, stale, jrnl, root>>
  BY DEF MountRW
<1>3. CASE ScanForMaster(flash)
  <2> DEFINE n == NodesCnt(flash[1])
  <2>1. /\ n - 1 \in Offs
        /\ stale = flash
        /\ Settled(flash, n, root)
    BY <1>3, ScanSettled DEF IInv
  <2>2. Loaded(root, n - 1)
    BY <1>1, <1>3 DEF MountRW
  <2>3. (n - 1) + 1 = n
    BY <2>1, SMTT(30) DEF Settled, IsRow
  <2>4. Settled(flash', (n - 1) + 1, root)
    BY <1>2, <2>1, <2>3
  <2> HIDE DEF n
  <2> QED
    BY <1>2, <2>1, <2>2, <2>4, LoadedInv DEF IInv, TypeOK
<1>4. CASE ~ScanForMaster(flash)
  <2>1. pc' = "rcvry1" /\ mst' = root /\ mst_offs' = 0 /\ ver' = ver
    BY <1>1, <1>4 DEF MountRW, Readable
  <2>2. TypeOK'
    BY <1>2, <2>1, SlotsAssumption, SMTT(30) DEF IInv, TypeOK, Pcs, Offs
  <2>3. PcInv'
    BY <1>2, <2>1 DEF PcInv
  <2>4. CutInv'
    BY <1>2 DEF IInv, CutInv
  <2>5. VerInv'
    BY <1>2, <2>1 DEF IInv, VerInv, Writing
  <2> QED
    BY <2>2, <2>3, <2>4, <2>5 DEF IInv
<1> QED
  BY <1>3, <1>4

(* ubifs_recover_master_node rewrites the first master LEB atomically.       *)
LEMMA WriteRcvrd1Inv == IInv /\ WriteRcvrd1 => IInv'
<1> SUFFICES ASSUME IInv, WriteRcvrd1 PROVE IInv'
  OBVIOUS
<1> DEFINE w == Row(Node(mst, TRUE))
<1>1. /\ pc = "rcvry1" /\ pc' = "rcvry2"
      /\ flash' = [flash EXCEPT ![1] = w] /\ stale' = [stale EXCEPT ![1] = w]
      /\ UNCHANGED <<mst, mst_offs, ver, jrnl, root>>
  BY DEF WriteRcvrd1, LebChange
<1>2. mst = root /\ mst_offs = 0 /\ mst \in Contents
  BY <1>1 DEF IInv, PcInv, TypeOK
<1>3. /\ w \in [Offs -> Slot] /\ w[0].rcvry /\ ContentsOf(w[0]) = root
      /\ IsRow(w, 1) /\ IsClean(w, 1)
  BY <1>2, NodeIsSlot, RowOne
<1> HIDE DEF w
<1>4. /\ flash'[1] = w /\ stale'[1] = w
      /\ flash'[2] = flash[2] /\ stale'[2] = stale[2]
  BY <1>1, SMTT(30) DEF IInv, TypeOK, Lebs
<1>5. TypeOK'
  BY <1>1, <1>3 DEF IInv, TypeOK, Pcs
<1>6. PcInv'
  BY <1>1, <1>2, <1>4 DEF PcInv, w
<1>7. CutInv'
  <2>1. ASSUME NEW b \in {flash[2], stale[2]}
        PROVE  \E n1, n2 \in 0 .. Slots : Consistent(w, b, root, n1, n2)
    <3>1. PICK n1 \in 0 .. Slots, n2 \in 0 .. Slots :
                 Consistent(flash[1], b, root, n1, n2)
      BY DEF IInv, CutInv, Cut
    <3>2. RecoveredRows(w, root, 1)
      BY <1>3 DEF RecoveredRows
    <3>3. Consistent(w, b, root, 1, n2)
      BY <1>3, <3>1, <3>2 DEF Consistent
    <3> QED
      BY <3>1, <3>3, SlotsAssumption, SMTT(30)
  <2> QED
    BY <1>1, <1>4, <2>1 DEF IInv, CutInv, Cut, Lebs
<1>8. VerInv'
  BY <1>1 DEF IInv, VerInv, Writing
<1> QED
  BY <1>5, <1>6, <1>7, <1>8 DEF IInv

(* Then it rewrites the second one.                                          *)
LEMMA WriteRcvrd2Inv == IInv /\ WriteRcvrd2 => IInv'
<1> SUFFICES ASSUME IInv, WriteRcvrd2 PROVE IInv'
  OBVIOUS
<1> DEFINE s == Node(mst, TRUE)
<1>1. /\ pc = "rcvry2"
      /\ flash' = [flash EXCEPT ![2] = Row(s)] /\ stale' = [stale EXCEPT ![2] = Row(s)]
      /\ Loaded(mst, mst_offs)
      /\ UNCHANGED <<jrnl, root>>
  BY DEF WriteRcvrd2, LebChange
<1>2. /\ mst = root /\ mst_offs = 0 /\ mst \in Contents
      /\ flash[1] = Row(s) /\ stale[1] = flash[1]
  BY <1>1 DEF IInv, PcInv, TypeOK
<1>3. s \in Slot /\ s.kind = "node" /\ ContentsOf(s) = root
  BY <1>2, NodeIsSlot
<1> HIDE DEF s
<1>4. /\ Row(s) \in [Offs -> Slot] /\ Row(s)[0] = s
      /\ IsRow(Row(s), 1) /\ IsClean(Row(s), 1)
  BY <1>3, RowOne
<1>5. /\ flash'[1] = Row(s) /\ flash'[2] = Row(s)
      /\ stale' = flash' /\ flash' \in [Lebs -> [Offs -> Slot]]
  BY <1>1, <1>2, <1>4 DEF IInv, TypeOK, Lebs
<1>6. Settled(flash', 0 + 1, root)
  <2>1. SameMaster(s, s)
    BY DEF SameMaster
  <2>2. SameRows(Row(s), Row(s), root, 1, 1)
    BY <1>3, <1>4, <2>1, SMTT(30) DEF SameRows
  <2>3. Settled(flash', 1, root)
    BY <1>4, <1>5, <2>2 DEF Settled
  <2> QED
    BY <2>3, SMTT(30)
<1>7. 0 \in Offs
  BY SlotsAssumption, SMTT(30) DEF Offs
<1> QED
  BY <1>1, <1>2, <1>5, <1>6, <1>7, LoadedInv DEF IInv

(* The journal is written to only while the master node says dirty.          *)
LEMMA WriteJournalInv == IInv /\ WriteJournal => IInv'
<1> SUFFICES ASSUME IInv, WriteJournal PROVE IInv'
  OBVIOUS
<1>1. /\ pc = "active" /\ jrnl' = jrnl \cup {mst.ver}
      /\ UNCHANGED <<flash, stale, pc, mst, mst_offs, ver, root>>
  BY DEF WriteJournal
<1>2. mst = root /\ mst.dirty /\ mst.ver \in Nat
  BY <1>1 DEF IInv, PcInv, VerInv, TypeOK, Contents
<1>3. TypeOK'
  BY <1>1, <1>2 DEF IInv, TypeOK
<1>4. PcInv' /\ CutInv'
  BY <1>1 DEF IInv, PcInv, CutInv, Leb1Written
<1>5. VerInv'
  BY <1>1, <1>2 DEF IInv, VerInv, Writing
<1> QED
  BY <1>3, <1>4, <1>5 DEF IInv

(* A commit, the last one included, starts to write a master node.           *)
LEMMA CommitInv ==
  ASSUME IInv, NEW final \in BOOLEAN, Commit(final)
  PROVE  IInv'
<1>1. /\ pc = "active" /\ UNCHANGED <<flash, stale, jrnl, root>>
      /\ StartWrite([mst EXCEPT !.dirty = ~final], mst_offs)
  BY DEF Commit
<1>2. /\ stale = flash /\ Settled(flash, mst_offs + 1, root)
      /\ mst \in Contents /\ mst_offs \in Offs /\ flash \in [Lebs -> [Offs -> Slot]]
  BY <1>1 DEF IInv, PcInv, TypeOK
<1>3. [mst EXCEPT !.dirty = ~final] \in Contents
  BY <1>2 DEF Contents
<1> QED
  BY <1>1, <1>2, <1>3, StartWriteInv DEF IInv

(* The first master LEB is full: ubifs_write_master unmaps it.               *)
LEMMA Unmap1Inv == IInv /\ Unmap1 => IInv'
<1> SUFFICES ASSUME IInv, Unmap1 PROVE IInv'
  OBVIOUS
<1> USE SlotsAssumption
<1>1. /\ pc = "unmap1" /\ pc' = "write1" /\ mst_offs' = 0
      /\ flash' = [flash EXCEPT ![1] = Blank]
      /\ UNCHANGED <<stale, mst, ver, jrnl, root>>
  BY DEF Unmap1, LebUnmap
<1>2. stale = flash /\ Settled(flash, Slots, root)
  BY <1>1 DEF IInv, PcInv
<1>3. /\ flash'[1] = Blank /\ flash'[2] = flash[2]
      /\ stale'[1] = flash[1] /\ stale'[2] = flash[2]
  BY <1>1, <1>2, SMTT(30) DEF IInv, TypeOK, Lebs
<1>4. TypeOK'
  <2>1. flash' \in [Lebs -> [Offs -> Slot]]
    BY <1>1, RowBlank DEF IInv, TypeOK, Lebs
  <2>2. mst_offs' \in Offs
    BY <1>1, SMTT(30) DEF Offs
  <2> QED
    BY <1>1, <2>1, <2>2 DEF IInv, TypeOK, Pcs
<1>5. PcInv'
  BY <1>1, <1>2, <1>3, SMTT(30) DEF PcInv
<1>6. CutInv'
  <2>1. Consistent(flash[1], flash[2], root, Slots, Slots)
    BY <1>2 DEF Settled, Consistent
  <2>2. EmptyRows(flash[2], root, 0, Slots)
    BY <1>2 DEF Settled, EmptyRows, SameRows, SameMaster, ContentsOf
  <2>3. Consistent(Blank, flash[2], root, 0, Slots)
    BY <1>2, <2>2, RowBlank DEF Settled, Consistent
  <2> QED
    BY <1>1, <1>3, <2>1, <2>3, SMTT(30) DEF CutInv, Cut, Lebs
<1>7. VerInv'
  BY <1>1 DEF IInv, VerInv, Writing
<1> QED
  BY <1>4, <1>5, <1>6, <1>7 DEF IInv

(* The second master LEB is full: it is unmapped once the first one holds    *)
(* the new node.                                                             *)
LEMMA Unmap2Inv == IInv /\ Unmap2 => IInv'
<1> SUFFICES ASSUME IInv, Unmap2 PROVE IInv'
  OBVIOUS
<1> USE SlotsAssumption
<1>1. /\ pc = "unmap2" /\ pc' = "write2"
      /\ flash' = [flash EXCEPT ![2] = Blank]
      /\ UNCHANGED <<stale, mst, mst_offs, ver, jrnl, root>>
  BY DEF Unmap2, LebUnmap
<1>2. /\ mst_offs = 0 /\ stale[2] = flash[2] /\ IsRow(flash[2], Slots)
      /\ IsRow(flash[1], 1) /\ IsClean(flash[1], 1)
      /\ flash[1][0] = Node(mst, FALSE) /\ stale[1] = flash[1] /\ mst = root
  <2>1. 0 + 1 = 1
    BY SMTT(30)
  <2>2. mst_offs = 0 /\ Leb1Written(0) /\ stale[2] = flash[2] /\ IsRow(flash[2], Slots)
    BY <1>1 DEF IInv, PcInv
  <2> QED
    BY <2>1, <2>2 DEF Leb1Written
<1>3. /\ flash'[2] = Blank /\ flash'[1] = flash[1]
      /\ stale'[1] = flash[1] /\ stale'[2] = flash[2]
  BY <1>1, <1>2, SMTT(30) DEF IInv, TypeOK, Lebs
<1>4. TypeOK'
  BY <1>1, RowBlank DEF IInv, TypeOK, Pcs
<1>5. PcInv'
  <2>1. 0 + 1 = 1
    BY SMTT(30)
  <2>2. Leb1Written(0)'
    BY <1>1, <1>2, <1>3, <2>1 DEF Leb1Written
  <2> QED
    BY <1>1, <1>2, <1>3, <2>2, SMTT(30) DEF PcInv
<1>6. CutInv'
  <2>1. ContentsOf(flash[1][0]) = root
    BY <1>2, NodeIsSlot DEF IInv, TypeOK
  <2>2. Consistent(flash[1], flash[2], root, 1, Slots)
    BY <1>2, <2>1 DEF WrappedRows, Consistent
  <2>3. Consistent(flash[1], Blank, root, 1, 0)
    BY <1>2, <2>1, RowBlank DEF WrappedRows, Consistent
  <2> QED
    BY <1>1, <1>3, <2>2, <2>3, SMTT(30) DEF CutInv, Cut, Lebs
<1>7. VerInv'
  BY <1>1 DEF IInv, VerInv, Writing
<1> QED
  BY <1>4, <1>5, <1>6, <1>7 DEF IInv

(* Programming slot mst_offs of LEB 1, completely or not.                    *)
LEMMA Program1 ==
  ASSUME IInv, pc = "write1", NEW s \in Torn(Node(mst, FALSE)), s # FF,
         Program(1, s), root' = IF s.kind = "node" THEN mst ELSE root
  PROVE  /\ flash' \in [Lebs -> [Offs -> Slot]] /\ stale' \in [Lebs -> [Offs -> Slot]]
         /\ flash'[2] = flash[2] /\ stale'[2] = stale[2]
         /\ stale[2] = flash[2]
         /\ flash'[1] = stale'[1]
         /\ CutInv'
         /\ s.kind = "node" => /\ flash'[1][mst_offs] = Node(mst, FALSE)
                               /\ IsRow(flash'[1], mst_offs + 1)
                               /\ IsClean(flash'[1], mst_offs + 1)
<1> USE SlotsAssumption
<1> DEFINE o == mst_offs
           p == [flash[1] EXCEPT ![o] = s]
<1>1. /\ flash' = [flash EXCEPT ![1] = p]
      /\ stale' = [stale EXCEPT ![1] = p]
  BY DEF Program, LebChange
<1>2. /\ flash \in [Lebs -> [Offs -> Slot]] /\ stale \in [Lebs -> [Offs -> Slot]]
      /\ o \in Offs /\ mst \in Contents /\ root \in Contents
  BY DEF IInv, TypeOK
<1>3. s \in Slot /\ (s.kind = "node" => s = Node(mst, FALSE))
  BY <1>2, TornIsSlot
<1>4. ContentsOf(Node(mst, FALSE)) = mst
  BY <1>2, NodeIsSlot
<1>5. /\ IsRow(flash[1], o) /\ IsClean(flash[1], o)
      /\ stale[2] = flash[2]
  <2>1. CASE o > 0
    BY <2>1 DEF IInv, PcInv, Settled
  <2>2. CASE o = 0
    BY <2>2, RowBlank DEF IInv, PcInv
  <2> QED
    BY <1>2, <2>1, <2>2, SMTT(30) DEF Offs
<1>6. flash[1] \in [Offs -> Slot]
  BY <1>2 DEF Lebs
<1>7. /\ p \in [Offs -> Slot]
      /\ p[o] = s
      /\ \A i \in Offs : i # o => p[i] = flash[1][i]
      /\ s.kind = "node" => IsRow(p, o + 1) /\ IsClean(p, o + 1)
      /\ s.kind # "node" => IsRow(p, o)
  BY <1>2, <1>3, <1>5, <1>6, RowProgram
<1> HIDE DEF p
<1>8. /\ flash'[1] = p /\ stale'[1] = p
      /\ flash'[2] = flash[2] /\ stale'[2] = stale[2]
  BY <1>1, <1>2, SMTT(30) DEF Lebs
<1>9. flash' \in [Lebs -> [Offs -> Slot]] /\ stale' \in [Lebs -> [Offs -> Slot]]
  BY <1>1, <1>2, <1>7 DEF Lebs
<1>10. \E n1 \in 0 .. Slots, n2 \in 0 .. Slots :
         Consistent(p, flash[2], root', n1, n2)
  <2>1. CASE o > 0 /\ s.kind = "node"
    <3>1. Settled(flash, o, root)
      BY <2>1 DEF IInv, PcInv
    <3>2. o + 1 \in 0 .. Slots /\ o \in 0 .. Slots /\ (o + 1) - 1 = o
      BY <1>2, SMTT(30) DEF Offs
    <3>3. ContentsOf(p[(o + 1) - 1]) = root'
      BY <1>3, <1>4, <1>7, <2>1, <3>2
    <3>4. AheadRows(p, root', o + 1, o)
      BY <1>7, <2>1, <3>3 DEF AheadRows
    <3> QED
      BY <1>7, <2>1, <3>1, <3>2, <3>4 DEF Settled, Consistent
  <2>2. CASE o = 0 /\ s.kind = "node"
    <3>1. Settled(stale, Slots, root)
      BY <2>2 DEF IInv, PcInv
    <3>2. 0 + 1 = 1 /\ 1 \in 0 .. Slots /\ Slots \in 0 .. Slots
      BY SMTT(30)
    <3>3. IsRow(p, 1) /\ IsClean(p, 1)
      BY <1>7, <2>2, <3>2
    <3>4. WrappedRows(p, root', 1, Slots)
      BY <1>3, <1>4, <1>7, <2>2, <3>3 DEF WrappedRows
    <3> QED
      BY <1>5, <3>1, <3>2, <3>3, <3>4 DEF Settled, Consistent
  <2>3. CASE o > 0 /\ s.kind # "node"
    <3>1. Settled(flash, o, root)
      BY <2>3 DEF IInv, PcInv
    <3>2. p[o - 1] = flash[1][o - 1] /\ o \in 0 .. Slots
      BY <1>2, <1>7, <2>3, SMTT(30) DEF Offs
    <3>3. SameRows(p, flash[2], root, o, o)
      BY <3>1, <3>2 DEF Settled, SameRows
    <3> QED
      BY <1>7, <2>3, <3>1, <3>2, <3>3 DEF Settled, Consistent
  <2>4. CASE o = 0 /\ s.kind # "node"
    <3>1. Settled(stale, Slots, root)
      BY <2>4 DEF IInv, PcInv
    <3>2. IsRow(p, 0) /\ 0 \in 0 .. Slots /\ Slots \in 0 .. Slots
      BY <1>7, <2>4, SMTT(30)
    <3>3. EmptyRows(flash[2], root, 0, Slots)
      BY <1>5, <3>1 DEF Settled, EmptyRows, SameRows, SameMaster, ContentsOf
    <3> QED
      BY <1>5, <2>4, <3>1, <3>2, <3>3 DEF Settled, Consistent
  <2> QED
    BY <1>2, <2>1, <2>2, <2>3, <2>4, SMTT(30) DEF Offs
<1>11. CutInv'
  BY <1>5, <1>8, <1>10 DEF CutInv, Cut, Lebs
<1> QED
  BY <1>3, <1>5, <1>7, <1>8, <1>9, <1>11

(* Programming slot mst_offs of LEB 2.                                       *)
LEMMA Program2 ==
  ASSUME IInv, pc = "write2", NEW s \in Torn(Node(mst, FALSE)), s # FF,
         Program(2, s), root' = root
  PROVE  /\ flash' \in [Lebs -> [Offs -> Slot]] /\ stale' \in [Lebs -> [Offs -> Slot]]
         /\ CutInv'
         /\ s.kind = "node" => /\ mst = root /\ stale' = flash'
                               /\ Settled(flash', mst_offs + 1, root)
<1> USE SlotsAssumption
<1> DEFINE o == mst_offs
           p == [flash[2] EXCEPT ![o] = s]
<1>1. /\ flash' = [flash EXCEPT ![2] = p]
      /\ stale' = [stale EXCEPT ![2] = p]
  BY DEF Program, LebChange
<1>2. /\ flash \in [Lebs -> [Offs -> Slot]] /\ stale \in [Lebs -> [Offs -> Slot]]
      /\ o \in Offs /\ mst \in Contents /\ root \in Contents
  BY DEF IInv, TypeOK
<1>3. s \in Slot /\ (s.kind = "node" => s = Node(mst, FALSE))
  BY <1>2, TornIsSlot
<1>4. ContentsOf(Node(mst, FALSE)) = mst
  BY <1>2, NodeIsSlot
<1>5. /\ IsRow(flash[2], o) /\ IsClean(flash[2], o)
      /\ Leb1Written(o)
  <2>1. CASE o > 0
    BY <2>1 DEF IInv, PcInv
  <2>2. CASE o = 0
    BY <2>2, RowBlank DEF IInv, PcInv
  <2> QED
    BY <1>2, <2>1, <2>2, SMTT(30) DEF Offs
<1>6. flash[2] \in [Offs -> Slot]
  BY <1>2 DEF Lebs
<1>7. /\ p \in [Offs -> Slot]
      /\ p[o] = s
      /\ s.kind = "node" => IsRow(p, o + 1) /\ IsClean(p, o + 1)
      /\ s.kind # "node" => IsRow(p, o)
  BY <1>2, <1>3, <1>5, <1>6, RowProgram
<1> HIDE DEF p
<1>8. /\ flash'[2] = p /\ stale'[2] = p
      /\ flash'[1] = flash[1] /\ stale'[1] = flash[1]
  BY <1>1, <1>2, <1>5, SMTT(30) DEF Lebs, Leb1Written
<1>9. flash' \in [Lebs -> [Offs -> Slot]] /\ stale' \in [Lebs -> [Offs -> Slot]]
  BY <1>1, <1>2, <1>7 DEF Lebs
<1>10. /\ IsRow(flash[1], o + 1) /\ IsClean(flash[1], o + 1)
       /\ flash[1][o] = Node(mst, FALSE) /\ mst = root
       /\ ContentsOf(flash[1][o]) = root
  BY <1>4, <1>5 DEF Leb1Written
<1>11. o + 1 \in 0 .. Slots /\ o \in 0 .. Slots /\ (o + 1) - 1 = o /\ o + 1 > 0
  BY <1>2, SMTT(30) DEF Offs
<1>12. ASSUME s.kind = "node" PROVE SameRows(flash[1], p, root, o + 1, o + 1)
  <2>1. SameMaster(flash[1][o], p[o])
    BY <1>3, <1>7, <1>10, <1>12 DEF SameMaster
  <2> QED
    BY <1>10, <1>11, <2>1 DEF SameRows
<1>13. ASSUME s.kind = "node" PROVE Settled(flash', o + 1, root) /\ stale' = flash'
  <2>1. Settled(flash', o + 1, root)
    BY <1>7, <1>8, <1>10, <1>12, <1>13 DEF Settled
  <2>2. stale' = flash'
    BY <1>8, <1>9, SMTT(30) DEF Lebs
  <2> QED
    BY <2>1, <2>2
<1>14. \E n1 \in 0 .. Slots, n2 \in 0 .. Slots :
         Consistent(flash[1], p, root, n1, n2)
  <2>1. CASE s.kind = "node"
    BY <1>7, <1>10, <1>11, <1>12, <2>1 DEF Consistent
  <2>2. CASE s.kind # "node" /\ o > 0
    <3>1. AheadRows(flash[1], root, o + 1, o)
      BY <1>10, <1>11, <2>2 DEF AheadRows
    <3> QED
      BY <1>7, <1>10, <1>11, <2>2, <3>1 DEF Consistent
  <2>3. CASE s.kind # "node" /\ o = 0
    <3>1. 0 + 1 = 1
      BY SMTT(30)
    <3>2. IsRow(flash[1], 1) /\ WrappedRows(flash[1], root, 1, 0)
      BY <1>10, <2>3, <3>1 DEF WrappedRows
    <3>3. IsRow(p, 0) /\ 0 \in 0 .. Slots /\ 1 \in 0 .. Slots
      BY <1>7, <2>3, SMTT(30)
    <3> QED
      BY <3>2, <3>3 DEF Consistent
  <2> QED
    BY <1>2, <2>1, <2>2, <2>3, SMTT(30) DEF Offs
<1>15. CutInv'
  BY <1>8, <1>14 DEF CutInv, Cut, Lebs
<1> QED
  BY <1>9, <1>10, <1>13, <1>15

(* The new node is written to the first master LEB and is the newest from    *)
(* then on.                                                                  *)
LEMMA Write1Inv == IInv /\ Write1 => IInv'
<1> SUFFICES ASSUME IInv, Write1 PROVE IInv'
  OBVIOUS
<1> USE SlotsAssumption
<1>1. /\ pc = "write1" /\ Program(1, Node(mst, FALSE))
      /\ pc' = IF mst_offs = 0 THEN "unmap2" ELSE "write2"
      /\ root' = mst
      /\ UNCHANGED <<mst, mst_offs, ver, jrnl>>
  BY DEF Write1, AfterLeb1
<1>2. mst \in Contents /\ mst_offs \in Offs
  BY DEF IInv, TypeOK
<1>3. /\ Node(mst, FALSE).kind = "node" /\ Node(mst, FALSE) # FF
      /\ Node(mst, FALSE) \in Torn(Node(mst, FALSE))
  BY <1>2, NodeIsSlot DEF Torn
<1>4. /\ flash' \in [Lebs -> [Offs -> Slot]] /\ stale' \in [Lebs -> [Offs -> Slot]]
      /\ flash'[2] = flash[2] /\ stale'[2] = flash[2]
      /\ flash'[1] = stale'[1]
      /\ CutInv'
      /\ flash'[1][mst_offs] = Node(mst, FALSE)
      /\ IsRow(flash'[1], mst_offs + 1) /\ IsClean(flash'[1], mst_offs + 1)
  BY <1>1, <1>3, Program1
<1>5. TypeOK'
  BY <1>1, <1>4 DEF IInv, TypeOK, Pcs
<1>6. Leb1Written(mst_offs)'
  BY <1>1, <1>4 DEF Leb1Written
<1>7. PcInv'
  <2>1. CASE mst_offs = 0
    <3>1. Settled(stale, Slots, root) /\ stale[2] = flash[2]
      BY <1>1, <2>1 DEF IInv, PcInv
    <3>2. IsRow(flash'[2], Slots)
      BY <1>4, <3>1 DEF Settled
    <3>3. Leb1Written(0)'
      BY <1>1, <1>6, <2>1
    <3> QED
      BY <1>1, <1>4, <2>1, <3>2, <3>3 DEF PcInv
  <2>2. CASE mst_offs # 0
    <3>1. mst_offs > 0
      BY <1>2, <2>2, SMTT(30) DEF Offs
    <3>2. IsRow(flash[2], mst_offs) /\ IsClean(flash[2], mst_offs)
      BY <1>1, <3>1 DEF IInv, PcInv, Settled
    <3> QED
      BY <1>1, <1>4, <1>6, <2>2, <3>1, <3>2 DEF PcInv
  <2> QED
    BY <2>1, <2>2
<1>8. VerInv'
  BY <1>1, <1>2, SMTT(30) DEF IInv, VerInv, Writing, TypeOK, Contents
<1> QED
  BY <1>4, <1>5, <1>7, <1>8 DEF IInv

(* The new node is written to the second master LEB and both agree again.    *)
LEMMA Write2Inv == IInv /\ Write2 => IInv'
<1> SUFFICES ASSUME IInv, Write2 PROVE IInv'
  OBVIOUS
<1> USE SlotsAssumption
<1>1. /\ pc = "write2" /\ Program(2, Node(mst, FALSE))
      /\ pc' = IF mst.dirty THEN "active" ELSE "done"
      /\ UNCHANGED <<mst, mst_offs, ver, jrnl, root>>
  BY DEF Write2
<1>2. mst \in Contents /\ mst_offs \in Offs
  BY DEF IInv, TypeOK
<1>3. /\ Node(mst, FALSE).kind = "node" /\ Node(mst, FALSE) # FF
      /\ Node(mst, FALSE) \in Torn(Node(mst, FALSE))
  BY <1>2, NodeIsSlot DEF Torn
<1>4. /\ flash' \in [Lebs -> [Offs -> Slot]] /\ stale' \in [Lebs -> [Offs -> Slot]]
      /\ CutInv'
      /\ mst = root /\ stale' = flash' /\ Settled(flash', mst_offs + 1, root)
  BY <1>1, <1>3, Program2
<1>5. pc' \in {"active", "done"} /\ (pc' = "active" => mst.dirty)
  BY <1>1
<1>6. TypeOK'
  BY <1>1, <1>4, <1>5 DEF IInv, TypeOK, Pcs
<1>7. PcInv'
  BY <1>1, <1>4, <1>5 DEF PcInv
<1>8. VerInv'
  BY <1>1, <1>5 DEF IInv, VerInv, Writing
<1> QED
  BY <1>4, <1>6, <1>7, <1>8 DEF IInv

(* A write of a master node fails and leaves a torn node or a whole one.     *)
LEMMA WriteFailsInv ==
  ASSUME IInv, NEW l \in Lebs, WriteFails(l)
  PROVE  IInv'
<1> USE SlotsAssumption
<1>1. PICK s \in Torn(Node(mst, FALSE)) :
        /\ Program(l, s)
        /\ root' = IF l = 1 /\ s.kind = "node" THEN mst ELSE root
  BY DEF WriteFails
<1>2. /\ pc = IF l = 1 THEN "write1" ELSE "write2"
      /\ pc' = "error"
      /\ UNCHANGED <<mst, mst_offs, ver, jrnl>>
  BY DEF WriteFails
<1>3. CASE s = FF
  <2>1. UNCHANGED <<flash, stale, root>>
    BY <1>1, <1>3 DEF Program, FF, NoNode
  <2>2. mst' \in Contents
    BY <1>2 DEF IInv, TypeOK
  <2> QED
    BY <1>2, <2>1, <2>2, IdleInv
<1>4. CASE s # FF
  <2>1. /\ flash' \in [Lebs -> [Offs -> Slot]] /\ stale' \in [Lebs -> [Offs -> Slot]]
        /\ CutInv'
    <3>1. CASE l = 1
      BY <1>1, <1>2, <1>4, <3>1, Program1
    <3>2. CASE l = 2
      <4>1. pc = "write2" /\ Program(2, s) /\ root' = root
        BY <1>1, <1>2, <3>2, SMTT(30)
      <4> QED
        BY <1>4, <4>1, Program2
    <3> QED
      BY <3>1, <3>2 DEF Lebs
  <2>2. root' \in {mst, root} /\ root' \in Contents
    BY <1>1 DEF IInv, TypeOK
  <2>3. TypeOK'
    BY <1>2, <2>1, <2>2 DEF IInv, TypeOK, Pcs
  <2>4. PcInv'
    BY <1>2 DEF PcInv
  <2>5. VerInv'
    <3>1. pc \in Writing
      BY <1>2 DEF Writing
    <3> QED
      BY <1>1, <1>2, <2>2, <3>1, SMTT(30) DEF IInv, VerInv, Writing, TypeOK, Contents
  <2> QED
    BY <2>1, <2>3, <2>4, <2>5 DEF IInv
<1> QED
  BY <1>3, <1>4

(* A power cut brings back the master LEBs that were unmapped but not yet    *)
(* erased.                                                                   *)
LEMMA PowerCutInv == IInv /\ PowerCut => IInv'
<1> SUFFICES ASSUME IInv, PowerCut PROVE IInv'
  OBVIOUS
<1>1. /\ pc' = "off" /\ flash' \in AfterCut /\ stale' = flash'
      /\ UNCHANGED <<mst, mst_offs, ver, jrnl, root>>
  BY DEF PowerCut
<1>2. /\ flash' \in [Lebs -> [Offs -> Slot]]
      /\ flash'[1] \in {flash[1], stale[1]}
      /\ flash'[2] \in {flash[2], stale[2]}
  BY <1>1, AfterCutPairs DEF IInv
<1>3. TypeOK'
  BY <1>1, <1>2 DEF IInv, TypeOK, Pcs
<1>4. PcInv'
  BY <1>1 DEF PcInv
<1>5. CutInv'
  BY <1>1, <1>2, SMTT(30) DEF IInv, CutInv, Cut
<1>6. VerInv'
  BY <1>1 DEF IInv, VerInv, Writing
<1> QED
  BY <1>3, <1>4, <1>5, <1>6 DEF IInv

(* Every step of the program, and every cut, keeps the inductive invariant.  *)
LEMMA NextInv == IInv /\ [Next]_vars => IInv'
<1> SUFFICES ASSUME IInv, [Next]_vars PROVE IInv'
  OBVIOUS
<1>1. CASE OtherIOFails
  <2>1. mst' \in Contents
    BY <1>1 DEF OtherIOFails, IInv, TypeOK
  <2> QED
    BY <1>1, <2>1, IdleInv DEF OtherIOFails
<1>2. CASE Stop
  <2>1. mst' \in Contents
    BY <1>2 DEF Stop, IInv, TypeOK
  <2> QED
    BY <1>2, <2>1, IdleInv DEF Stop
<1>3. CASE UNCHANGED vars
  <2>1. TypeOK'
    BY <1>3 DEF vars, IInv, TypeOK
  <2>2. PcInv'
    BY <1>3 DEF vars, IInv, PcInv, Leb1Written
  <2>3. CutInv'
    BY <1>3 DEF vars, IInv, CutInv
  <2>4. VerInv'
    BY <1>3 DEF vars, IInv, VerInv
  <2> QED
    BY <2>1, <2>2, <2>3, <2>4 DEF IInv
<1> QED
  BY <1>1, <1>2, <1>3, MountROInv, MountRWInv, WriteRcvrd1Inv, WriteRcvrd2Inv,
     WriteJournalInv, CommitInv, Unmap1Inv, Write1Inv, Unmap2Inv, Write2Inv,
     WriteFailsInv, PowerCutInv DEF Next

(* The inductive invariant holds in every state.                             *)
LEMMA Invariant == Spec => []IInv
BY InitInv, NextInv, PTL DEF Spec

(* The state of the master area keeps its types, for every LEB size.         *)
THEOREM TypeCorrect == Spec => []TypeOK
<1>1. IInv => TypeOK
  BY DEF IInv
<1> QED
  BY <1>1, Invariant, PTL

(* At any point of ubifs_write_master() or of a recovery a power cut leaves  *)
(* a master area from which ubifs_read_master() obtains the newest master    *)
(* node that LEB 1 held completely.                                          *)
THEOREM MasterRecoverable == Spec => []Recoverable
<1>1. IInv => Recoverable
  BY CutRead DEF IInv, Recoverable
<1> QED
  BY <1>1, Invariant, PTL

(* ubifs_write_master() only programs blank pages with nothing behind them.  *)
THEOREM MasterNoOverwrite == Spec => []NoOverwrite
<1>1. ASSUME IInv, pc = "write1"
      PROVE  \A i \in Offs : i >= mst_offs => flash[1][i].kind = "ff"
  <2>1. mst_offs \in Offs
    BY <1>1 DEF IInv, TypeOK
  <2>2. IsRow(flash[1], mst_offs) /\ IsClean(flash[1], mst_offs)
    <3>1. CASE mst_offs > 0
      BY <1>1, <3>1 DEF IInv, PcInv, Settled
    <3>2. CASE mst_offs = 0
      BY <1>1, <3>2, RowBlank DEF IInv, PcInv
    <3> QED
      BY SlotsAssumption, <2>1, <3>1, <3>2, SMTT(30) DEF Offs
  <2> QED
    BY SlotsAssumption, <2>1, <2>2, SMTT(30) DEF IsRow, IsClean, Offs
<1>2. ASSUME IInv, pc = "write2"
      PROVE  \A i \in Offs : i >= mst_offs => flash[2][i].kind = "ff"
  <2>1. mst_offs \in Offs
    BY <1>2 DEF IInv, TypeOK
  <2>2. IsRow(flash[2], mst_offs) /\ IsClean(flash[2], mst_offs)
    <3>1. CASE mst_offs > 0
      BY <1>2, <3>1 DEF IInv, PcInv
    <3>2. CASE mst_offs = 0
      BY <1>2, <3>2, RowBlank DEF IInv, PcInv
    <3> QED
      BY SlotsAssumption, <2>1, <3>1, <3>2, SMTT(30) DEF Offs
  <2> QED
    BY SlotsAssumption, <2>1, <2>2, SMTT(30) DEF IsRow, IsClean, Offs
<1>3. IInv => NoOverwrite
  BY <1>1, <1>2 DEF NoOverwrite
<1> QED
  BY <1>3, Invariant, PTL

(* A journal written under the master node that will be read is announced by *)
(* that node's dirty flag.                                                   *)
THEOREM MasterJournalNeedsDirty == Spec => []JournalNeedsDirty
<1>1. IInv => JournalNeedsDirty
  BY DEF IInv, VerInv, JournalNeedsDirty
<1> QED
  BY <1>1, Invariant, PTL

(* The pending write of the abstract cell.                                   *)
Pend == IF pc \in Writing THEN mst ELSE NoPending

(* A new master node is pending exactly while ubifs_write_master is writing  *)
(* it.                                                                       *)
LEMMA PendNone ==
  ASSUME IInv
  PROVE  /\ pc \in Writing => Pend = mst /\ mst # NoPending
         /\ pc \notin Writing => Pend = NoPending
BY SMTT(30) DEF IInv, TypeOK, VerInv, Contents, Pend, NoPending

(* The start of a write of the master node is the start of an update of the  *)
(* abstract cell.                                                            *)
LEMMA StartIsBegin ==
  ASSUME IInv, NEW m, NEW o, StartWrite(m, o), pc \notin Writing, UNCHANGED root,
         IInv'
  PROVE  Cell!Begin
<1>1. pc' \in Writing /\ pc' \notin {"active", "done"} /\ mst'.ver = ver + 1
  BY DEF StartWrite, FirstStep, Writing
<1>2. mst' \in Contents /\ root.ver <= ver /\ ver \in Nat /\ root \in Contents
  BY DEF IInv, TypeOK, VerInv
<1>3. mst'.ver > root.ver
  BY <1>1, <1>2, SMTT(30) DEF Contents
<1> QED
  BY <1>1, <1>2, <1>3 DEF Cell!Begin, Contents, Cell!Contents

(* A step from outside a write to outside a write opens or closes the cell.  *)
LEMMA IdleIsOpenClose ==
  ASSUME IInv, IInv', pc \notin Writing, pc' \notin Writing, UNCHANGED root
  PROVE  Cell!Open \/ Cell!Close
<1>1. Pend = NoPending /\ Pend' = NoPending
  BY DEF Pend
<1>2. CASE pc' \in {"active", "done"}
  <2>1. mst' = root
    BY <1>2 DEF IInv, PcInv
  <2> QED
    BY <1>1, <1>2, <2>1 DEF Cell!Open, Pend
<1>3. CASE pc' \notin {"active", "done"}
  BY <1>1, <1>3 DEF Cell!Close, Pend
<1> QED
  BY <1>2, <1>3

(* A read-write open is a step of the abstract cell: it starts an update if  *)
(* the master node was clean.                                                *)
LEMMA LoadedIsStep ==
  ASSUME IInv, NEW m, NEW o, Loaded(m, o), pc \notin Writing, UNCHANGED root,
         IInv'
  PROVE  Cell!Next
<1>1. CASE m.dirty
  <2>1. pc' \notin Writing
    BY <1>1 DEF Loaded, Writing
  <2> QED
    BY <2>1, IdleIsOpenClose DEF Cell!Next
<1>2. CASE ~m.dirty
  <2>1. StartWrite([m EXCEPT !.dirty = TRUE], o)
    BY <1>2 DEF Loaded
  <2> QED
    BY <2>1, StartIsBegin DEF Cell!Next
<1> QED
  BY <1>1, <1>2

(* A step to a point where nothing runs gives up a write or closes the cell. *)
LEMMA StopIsAbandon ==
  ASSUME IInv, IInv', pc' \notin Writing, pc' \notin {"active", "done"},
         root' = root \/ (root' = mst /\ pc \in Writing)
  PROVE  Cell!Next
<1>1. CASE pc \in Writing
  <2>1. pc \notin {"active", "done"}
    BY <1>1 DEF Writing
  <2> QED
    BY <1>1, <2>1, PendNone DEF Cell!Next, Cell!Abandon, Pend
<1>2. CASE pc \notin Writing
  BY <1>2, IdleIsOpenClose DEF Cell!Next
<1> QED
  BY <1>1, <1>2

(* Every step of the program is a step of the abstract cell, or changes      *)
(* nothing of it.                                                            *)
LEMMA StepRefines ==
  ASSUME IInv, [Next]_vars, IInv'
  PROVE  [Cell!Next]_(Cell!vars)
<1>1. CASE MountRO
  <2>1. pc \notin Writing /\ pc' \notin Writing /\ UNCHANGED root
    BY <1>1 DEF MountRO, Writing
  <2> QED
    BY <2>1, IdleIsOpenClose DEF Cell!Next
<1>2. CASE MountRW
  <2>1. pc \notin Writing /\ UNCHANGED root
    BY <1>2 DEF MountRW, Writing
  <2>2. CASE ScanForMaster(flash)
    BY <1>2, <2>1, <2>2, LoadedIsStep DEF MountRW
  <2>3. CASE ~ScanForMaster(flash)
    <3>1. pc' \notin Writing
      BY <1>2, <2>3 DEF MountRW, Writing
    <3> QED
      BY <2>1, <3>1, IdleIsOpenClose DEF Cell!Next
  <2> QED
    BY <2>2, <2>3
<1>3. CASE WriteRcvrd1
  <2>1. pc \notin Writing /\ pc' \notin Writing /\ UNCHANGED root
    BY <1>3 DEF WriteRcvrd1, Writing
  <2> QED
    BY <2>1, IdleIsOpenClose DEF Cell!Next
<1>4. CASE WriteRcvrd2
  BY <1>4, LoadedIsStep DEF WriteRcvrd2, Writing
<1>5. CASE WriteJournal
  <2>1. pc \notin Writing /\ pc' \notin Writing /\ UNCHANGED root
    BY <1>5 DEF WriteJournal, Writing
  <2> QED
    BY <2>1, IdleIsOpenClose DEF Cell!Next
<1>6. ASSUME NEW final \in BOOLEAN, Commit(final) PROVE Cell!Next
  BY <1>6, StartIsBegin DEF Commit, Writing, Cell!Next
<1>7. CASE Unmap1 \/ Unmap2
  BY <1>7 DEF Unmap1, Unmap2, Writing, Cell!vars
<1>8. CASE Write1
  <2>1. /\ pc \in Writing /\ pc' \in Writing /\ root' = mst /\ mst' = mst
        /\ pc \notin {"active", "done"} /\ pc' \notin {"active", "done"}
    BY <1>8 DEF Write1, AfterLeb1, Writing
  <2> QED
    BY <2>1, PendNone DEF Cell!Next, Cell!TakeEffect, Pend
<1>9. CASE Write2
  <2>1. /\ pc \in Writing /\ pc' \notin Writing /\ root' = root /\ mst' = mst
        /\ pc' \in {"active", "done"}
    BY <1>9 DEF Write2, Writing
  <2>2. mst = root
    <3>1. pc = "write2" /\ mst_offs \in Offs
      BY <1>9 DEF Write2, IInv, TypeOK
    <3>2. mst_offs > 0 \/ mst_offs = 0
      BY <3>1, SlotsAssumption, SMTT(30) DEF Offs
    <3>3. Leb1Written(mst_offs)
      BY <3>1, <3>2 DEF IInv, PcInv
    <3> QED
      BY <3>3 DEF Leb1Written
  <2> QED
    BY <2>1, <2>2, PendNone DEF Cell!Next, Cell!Return, Pend
<1>10. ASSUME NEW l \in Lebs, WriteFails(l) PROVE Cell!Next
  <2>1. /\ pc \in Writing /\ pc' \notin Writing /\ root' \in {mst, root}
        /\ pc' \notin {"active", "done"}
    BY <1>10 DEF WriteFails, Writing
  <2> QED
    BY <2>1, StopIsAbandon
<1>11. CASE OtherIOFails \/ Stop \/ PowerCut
  <2>1. pc' \notin Writing /\ pc' \notin {"active", "done"} /\ root' = root
    BY <1>11 DEF OtherIOFails, Stop, PowerCut, Writing
  <2> QED
    BY <2>1, StopIsAbandon
<1>12. CASE UNCHANGED vars
  BY <1>12 DEF vars, Cell!vars
<1> QED
  BY <1>1, <1>2, <1>3, <1>4, <1>5, <1>6, <1>7, <1>8, <1>9, <1>10, <1>11, <1>12
  DEF Next

(* The two LEBs, ubifs_write_master() and ubifs_read_master() with its       *)
(* recovery implement one durable cell.                                      *)
THEOREM MasterIsDurableCell == Spec => IsDurableCell
<1>1. Init => Cell!Init
  BY DEF Init, Cell!Init, Writing
<1> QED
  BY <1>1, Invariant, StepRefines, PTL DEF Spec, IsDurableCell, Cell!Spec
=============================================================================
