------------------------------ MODULE UbifsMaster ------------------------------
(***************************************************************************)
(* The UBIFS master area: LEB 1 and LEB 2 each hold a row of master nodes, *)
(* and the last one written is the root of the whole file system.          *)
(* ubifs_write_master() appends the node to LEB 1, then to LEB 2; when a   *)
(* LEB is full it is unmapped and filled again from offset 0.  After an    *)
(* unclean stop ubifs_recover_master_node() decides from the two rows      *)
(* which node is the last one.                                             *)
(*                                                                         *)
(* One action per flash operation, because the power can go between any    *)
(* two of them; a write that is cut or fails half-way leaves anything from *)
(* blank flash to the complete node.                                       *)
(*                                                                         *)
(* NeverWrapped, FirstStepSkipsLeb1, LoadedUnmarked and                    *)
(* KeepLeb2 are wrong variants of the definition that follows each: they   *)
(* are not part of the specification and show which mistake each property  *)
(* catches.                                                                *)
(***************************************************************************)
EXTENDS Integers, FiniteSetsExt

CONSTANTS Slots,     \* master nodes that fit in a LEB: leb_size / mst_node_alsz
          MaxVer     \* bound on the number of master contents ever written

ASSUME SlotsAssumption == Slots \in Nat /\ Slots >= 2

ASSUME MaxVerAssumption == MaxVer \in Nat

VARIABLES flash,     \* what LEB 1 and LEB 2 read as
          stale,     \* what they read as when a pending erasure is lost
          pc,        \* where the program is
          mst,       \* c->mst_node: the contents of the node in memory
          mst_offs,  \* c->mst_offs, in slots
          ver,       \* number of master contents created so far
          jrnl,      \* history: contents under which the journal was written
          root       \* history: contents last written completely to LEB 1

vars == <<flash, stale, pc, mst, mst_offs, ver, jrnl, root>>

-----------------------------------------------------------------------------
(* Flash contents.  A slot is blank (0xFF), a sound node, a node whose      *)
(* magic is there but whose CRC is wrong, or other garbage.                 *)

Lebs == {1, 2}

Offs == 0 .. Slots - 1

Kinds == {"ff", "node", "corrupt", "garbage"}

Slot == [kind : Kinds, ver : Nat, dirty : BOOLEAN, rcvry : BOOLEAN]

Contents == [ver : Nat, dirty : BOOLEAN]

Node(m, r) == [kind |-> "node", ver |-> m.ver, dirty |-> m.dirty, rcvry |-> r]

NoNode(k) == [kind |-> k, ver |-> 0, dirty |-> FALSE, rcvry |-> FALSE]

FF == NoNode("ff")

Blank == [i \in Offs |-> FF]

Row(n) == [i \in Offs |-> IF i = 0 THEN n ELSE FF]

ContentsOf(n) == [ver |-> n.ver, dirty |-> n.dirty]

(* What a programmed page may hold when the write did not return success.   *)
Torn(n) == {FF, n, NoNode("corrupt"), NoNode("garbage")}

-----------------------------------------------------------------------------
(* Reading the master area.                                                 *)

(* ubifs_scan(): the nodes at the start of the LEB, all clean after them.   *)
NodesCnt(leb) == Min({i \in 0 .. Slots : i = Slots \/ leb[i].kind # "node"})

ScansClean(leb) == \A i \in Offs : i >= NodesCnt(leb) => leb[i].kind = "ff"

(* ubifs_compare_master_node(): everything but the common header.           *)
SameMaster(m1, m2) == /\ m1.ver = m2.ver
                      /\ m1.dirty = m2.dirty
                      /\ m1.rcvry = m2.rcvry

(* scan_for_master(): both LEBs scan, hold the same number of nodes and end *)
(* in the same node.  Its failure is -EUCLEAN: recovery is tried.           *)
ScanForMaster(f) ==
  LET n == NodesCnt(f[1]) IN
  /\ ScansClean(f[1]) /\ ScansClean(f[2])
  /\ n = NodesCnt(f[2])
  /\ n > 0
  /\ SameMaster(f[1][n - 1], f[2][n - 1])

(* get_master_node(): the slot of the last sound master node (-1: none),    *)
(* allowing for one corrupt slot behind it.                                 *)
FirstNonMagic(leb) ==
  Min({i \in 0 .. Slots : i = Slots \/ leb[i].kind \in {"ff", "garbage"}})

LastSound(leb) ==
  LET n == FirstNonMagic(leb) IN
  IF n > 1 /\ leb[n - 1].kind # "node" THEN n - 2 ELSE
  IF n = 1 /\ leb[0].kind # "node" THEN -1 ELSE n - 1

MstNode(leb) ==
  LET p == LastSound(leb) IN
  [ok   |-> /\ p >= 0 => leb[p].kind = "node"
            /\ \A i \in Offs : i > p + 1 => leb[i].kind = "ff",
   offs |-> p,
   cor  |-> p + 1 < Slots /\ leb[p + 1].kind # "ff"]

(* "1st LEB was unmapped and written, 2nd not": the 2nd one is still full.   *)
NeverWrapped(offs1, offs2) == FALSE

Wrapped(offs1, offs2) == offs1 = 0 /\ offs2 = Slots - 1

(* The decision table of ubifs_recover_master_node(): the LEB whose last    *)
(* node is the master node, 0 when the recovery gives up.                   *)
Recover(f) ==
  LET m1 == MstNode(f[1])
      m2 == MstNode(f[2])
      n1 == f[1][m1.offs]
      n2 == f[2][m2.offs]
  IN
  IF ~m1.ok \/ ~m2.ok THEN 0
  ELSE IF m1.offs >= 0 THEN
    IF n1.rcvry /\ m1.offs = 0 /\ ~m1.cor THEN 1
    ELSE IF m2.offs >= 0 THEN
      IF m1.offs = m2.offs THEN IF SameMaster(n1, n2) THEN 1 ELSE 0
      ELSE IF \/ m2.offs + 1 = m1.offs
              \/ Wrapped(m1.offs, m2.offs)
      THEN IF m1.cor THEN 0 ELSE 1
      ELSE 0
    ELSE IF m1.offs # 0 \/ m1.cor THEN 0 ELSE 1
  ELSE IF m2.offs < 0 \/ m2.offs + 1 < Slots THEN 0 ELSE 2

(* What ubifs_read_master() finds on flash f: the node, if there is one.    *)
Readable(f) == ScanForMaster(f) \/ Recover(f) # 0

ReadMaster(f) ==
  IF ScanForMaster(f) THEN f[1][NodesCnt(f[1]) - 1]
  ELSE f[Recover(f)][MstNode(f[Recover(f)]).offs]

-----------------------------------------------------------------------------
(* Steps.                                                                   *)

Pcs == {"off", "ro", "failed", "rcvry1", "rcvry2", "active",
        "unmap1", "write1", "unmap2", "write2", "done", "error"}

Writing == {"unmap1", "write1", "unmap2", "write2"}

TypeOK == /\ flash \in [Lebs -> [Offs -> Slot]]
          /\ stale \in [Lebs -> [Offs -> Slot]]
          /\ pc \in Pcs
          /\ mst \in Contents
          /\ mst_offs \in Offs
          /\ ver \in Nat
          /\ jrnl \in SUBSET Nat
          /\ root \in Contents

(* mkfs.ubifs writes the first master node at offset 0 of both LEBs.        *)
FirstMaster == [ver |-> 1, dirty |-> FALSE]

Init == /\ flash = [l \in Lebs |-> Row(Node(FirstMaster, FALSE))]
        /\ stale = flash
        /\ pc = "off"
        /\ mst = FirstMaster
        /\ mst_offs = 0
        /\ ver = 1
        /\ jrnl = {}
        /\ root = FirstMaster

(* No room for a node behind slot o: the LEB has to be unmapped first.      *)
Full(o) == o + 1 >= Slots

(* The first flash operation of ubifs_write_master().                       *)
FirstStepSkipsLeb1(o) == IF Full(o) THEN "unmap2" ELSE "write1"

FirstStep(o) == IF Full(o) THEN "unmap1" ELSE "write1"

(* The first half of ubifs_write_master(), up to the first flash operation: *)
(* m with a new content number, written behind slot o.                      *)
StartWrite(m, o) ==
  /\ ver < MaxVer
  /\ ver' = ver + 1
  /\ mst' = [ver |-> ver + 1, dirty |-> m.dirty]
  /\ pc' = FirstStep(o)
  /\ mst_offs' = IF Full(o) THEN o ELSE o + 1

LoadedUnmarked(m, o) ==
  pc' = "active" /\ mst' = m /\ mst_offs' = o /\ UNCHANGED ver

(* The end of the master part of ubifs_load_filesystem(): a clean master    *)
(* node is marked dirty on flash before anything else is written; a dirty   *)
(* one means that recovery is needed and is left alone.                     *)
Loaded(m, o) ==
  IF m.dirty
  THEN pc' = "active" /\ mst' = m /\ mst_offs' = o /\ UNCHANGED ver
  ELSE StartWrite([m EXCEPT !.dirty = TRUE], o)

(* ubifs_read_master() on a read-only mount; a recovered node is marked     *)
(* dirty in memory.                                                         *)
MountRO ==
  /\ pc = "off"
  /\ IF Readable(flash)
     THEN LET m == ContentsOf(ReadMaster(flash)) IN
          /\ pc' = "ro"
          /\ mst' = IF ScanForMaster(flash) THEN m ELSE [m EXCEPT !.dirty = TRUE]
     ELSE pc' = "failed" /\ UNCHANGED mst
  /\ UNCHANGED <<flash, stale, mst_offs, ver, jrnl, root>>

(* ubifs_read_master() on a read-write mount.                               *)
MountRW ==
  /\ pc = "off"
  /\ LET m == ContentsOf(ReadMaster(flash)) IN
     IF ScanForMaster(flash) THEN Loaded(m, NodesCnt(flash[1]) - 1)
     ELSE IF Recover(flash) # 0
     THEN pc' = "rcvry1" /\ mst' = m /\ mst_offs' = 0 /\ UNCHANGED ver
     ELSE pc' = "failed" /\ UNCHANGED <<mst, mst_offs, ver>>
  /\ UNCHANGED <<flash, stale, jrnl, root>>

(* ubifs_leb_change() is atomic: the LEB holds the old or the new contents. *)
LebChange(l, leb) == /\ flash' = [flash EXCEPT ![l] = leb]
                     /\ stale' = [stale EXCEPT ![l] = leb]

(* write_rcvrd_mst_node(): LEB 1, then LEB 2, with the recovery flag.       *)
WriteRcvrd1 == /\ pc = "rcvry1"
               /\ LebChange(1, Row(Node(mst, TRUE)))
               /\ pc' = "rcvry2"
               /\ UNCHANGED <<mst, mst_offs, ver, jrnl, root>>

WriteRcvrd2 == /\ pc = "rcvry2"
               /\ LebChange(2, Row(Node(mst, TRUE)))
               /\ Loaded(mst, mst_offs)
               /\ UNCHANGED <<jrnl, root>>

(* A node is written through the journal heads.                             *)
WriteJournal == /\ pc = "active"
                /\ jrnl' = jrnl \cup {mst.ver}
                /\ UNCHANGED <<flash, stale, pc, mst, mst_offs, ver, root>>

(* A commit ends in ubifs_write_master().  The last one of a session        *)
(* (commit_fix_modifications() with final_commit) clears the dirty flag.    *)
Commit(final) == /\ pc = "active"
                 /\ StartWrite([mst EXCEPT !.dirty = ~final], mst_offs)
                 /\ UNCHANGED <<flash, stale, jrnl, root>>

(* ubifs_leb_unmap(): reads as blank at once, is erased some time later.    *)
LebUnmap(l) == /\ flash' = [flash EXCEPT ![l] = Blank]
               /\ UNCHANGED stale

(* ubifs_write_node(): the slot becomes s (FF: nothing was programmed).      *)
(* Programming a page of an unmapped LEB maps it, and the contents it had    *)
(* before are gone.                                                          *)
Program(l, s) ==
  IF s = FF THEN UNCHANGED <<flash, stale>>
  ELSE LebChange(l, [flash[l] EXCEPT ![mst_offs] = s])

Unmap1 == /\ pc = "unmap1"
          /\ LebUnmap(1)
          /\ pc' = "write1"
          /\ mst_offs' = 0
          /\ UNCHANGED <<mst, ver, jrnl, root>>

(* LEB 2 is unmapped when the node went to offset 0 of LEB 1.                *)
KeepLeb2(o) == "write2"

AfterLeb1(o) == IF o = 0 THEN "unmap2" ELSE "write2"

Write1 == /\ pc = "write1"
          /\ Program(1, Node(mst, FALSE))
          /\ pc' = AfterLeb1(mst_offs)
          /\ root' = mst
          /\ UNCHANGED <<mst, mst_offs, ver, jrnl>>

Unmap2 == /\ pc = "unmap2"
          /\ LebUnmap(2)
          /\ pc' = "write2"
          /\ UNCHANGED <<mst, mst_offs, ver, jrnl, root>>

Write2 == /\ pc = "write2"
          /\ Program(2, Node(mst, FALSE))
          /\ pc' = IF mst.dirty THEN "active" ELSE "done"
          /\ UNCHANGED <<mst, mst_offs, ver, jrnl, root>>

(* An I/O error: ubifs_ro_mode() is entered and nothing is written any more. *)
(* A failed write may have programmed part of its page.                      *)
WriteFails(l) ==
  /\ pc = IF l = 1 THEN "write1" ELSE "write2"
  /\ \E s \in Torn(Node(mst, FALSE)) :
       /\ Program(l, s)
       /\ root' = IF l = 1 /\ s.kind = "node" THEN mst ELSE root
  /\ pc' = "error"
  /\ UNCHANGED <<mst, mst_offs, ver, jrnl>>

OtherIOFails ==
  /\ pc \in {"unmap1", "unmap2", "rcvry1", "rcvry2"}
  /\ pc' = "error"
  /\ UNCHANGED <<flash, stale, mst, mst_offs, ver, jrnl, root>>

(* The process ends, at whatever point it is (exit() on errors and signals). *)
Stop == /\ pc # "off"
        /\ pc' = "off"
        /\ UNCHANGED <<flash, stale, mst, mst_offs, ver, jrnl, root>>

(* What the two LEBs may read as if the power went now.                      *)
AfterCut == {[l \in Lebs |-> IF l \in S THEN stale[l] ELSE flash[l]] :
               S \in SUBSET Lebs}

(* The power is cut: a LEB that was unmapped and not yet erased may come     *)
(* back.  A cut in the middle of a write is WriteFails followed by this.     *)
PowerCut == /\ pc' = "off"
            /\ flash' \in AfterCut
            /\ stale' = flash'
            /\ UNCHANGED <<mst, mst_offs, ver, jrnl, root>>

Next == \/ MountRO \/ MountRW
        \/ WriteRcvrd1 \/ WriteRcvrd2
        \/ WriteJournal
        \/ \E final \in BOOLEAN : Commit(final)
        \/ Unmap1 \/ Write1 \/ Unmap2 \/ Write2
        \/ \E l \in Lebs : WriteFails(l)
        \/ OtherIOFails
        \/ Stop \/ PowerCut

Spec == Init /\ [][Next]_vars

-----------------------------------------------------------------------------
(* Properties.                                                              *)

(* Whenever the program stops or the power goes, in the middle of a master  *)
(* write or of an earlier recovery included, the next mount finds a master  *)
(* node (ubifs_recover_master_node() never ends in out_err), and it is the  *)
(* newest one that LEB 1 ever held completely, whether or not pending       *)
(* erasures were carried out.                                               *)
Recoverable ==
  \A f \in AfterCut : Readable(f) /\ ContentsOf(ReadMaster(f)) = root

(* ubifs_write_master() never programs a page that is not blank, and the    *)
(* rest of the LEB behind it is blank too: c->mst_offs, which the recovery  *)
(* does not set, agrees with what is on flash.                              *)
NoOverwrite ==
  /\ pc = "write1" => \A i \in Offs : i >= mst_offs => flash[1][i].kind = "ff"
  /\ pc = "write2" => \A i \in Offs : i >= mst_offs => flash[2][i].kind = "ff"

(* If the journal was written under the master node that the next mount     *)
(* will read (root, by Recoverable), that node is marked dirty, so the      *)
(* mount sets need_recovery.                                                *)
JournalNeedsDirty ==
  root.ver \in jrnl => root.dirty

NoPending == [ver |-> 0, dirty |-> FALSE]

(* root is what a mount would read at this moment, by Recoverable.          *)
Cell == INSTANCE MasterCell WITH
          First <- FirstMaster,
          None  <- NoPending,
          val   <- root,
          pend  <- IF pc \in Writing THEN mst ELSE NoPending,
          known <- IF pc \in {"active", "done"} THEN mst ELSE NoPending

(* The two LEBs are one durable cell: an interrupted write leaves the old   *)
(* or the new contents, for good, and ubifs_write_master() returns success  *)
(* only when a mount would read what it wrote.                              *)
IsDurableCell == Cell!Spec
=============================================================================
