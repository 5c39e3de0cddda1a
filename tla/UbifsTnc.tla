------------------------------ MODULE UbifsTnc ------------------------------
(***************************************************************************)
(* The index of a UBIFS file system over mounts, operations, commits and   *)
(* power cuts: the Tree Node Cache in memory (TncTree), the index nodes on *)
(* flash, the journal replayed into the one at mount time and the commit   *)
(* that writes it to the other, if need be into the gaps between index     *)
(* nodes that must survive until the master node names the new root.       *)
(*                                                                         *)
(* On flash an index LEB has Slots slots, each with room for an index node *)
(* of any size.  A leaf node is named by its key and its position; gone    *)
(* has the ones that garbage collection has erased.  The journal is the    *)
(* sequence of the entries that replay_buds() would put into the replay    *)
(* list, oldest first; a bud is synchronised before anything relies on it, *)
(* so an operation is in the journal as a whole or not at all.             *)
(***************************************************************************)
EXTENDS TncTree

CONSTANTS
  Slots,       \* index nodes per LEB
  Images,      \* file systems to start from: the committed leaf nodes, in the
               \* order they were added, the journal and the limits
  Hash(_),     \* key_r5_hash() of a name
  MaxCuts      \* power cuts in all

ASSUME TncAssumption ==
  /\ Slots \in Nat \ {0} /\ MaxCuts \in Nat
  /\ \A img \in Images : img.lim.lebs \in Nat \ {0} /\ img.lim.ops \in Nat

VARIABLES
  lim,         \* the limits of this file system, fixed
  t,           \* the TNC
  flash,       \* the slots of every LEB
  mst,         \* what the master node says of the index and its LEBs
  ihead,       \* c->ihead_lnum and c->ihead_offs
  index_lebs,  \* LEBs with LPROPS_INDEX
  idx_gc,      \* c->idx_gc: LEBs to unmap once the commit is over
  gap_lebs,    \* c->gap_lebs
  ilebs,       \* c->ilebs: the empty LEBs allocated for this commit
  todo,        \* znodes left to commit, or replay entries left to apply
  jrnl,        \* the journal
  base,        \* the leaf nodes the committed index has
  gone,        \* the leaf nodes erased from flash
  want,        \* the leaf nodes that should be found
  unlogged,    \* a removal was made that no journal entry tells of
  pc,
  ops, cuts

LebCnt == lim.lebs  \* LEBs the index may use
Names == lim.names  \* names that may be added to the directory
MaxOps == lim.ops   \* operations in all

Lebs == 1..LebCnt

media == <<flash, mst, jrnl, base, gone>>
alloc == <<ihead, index_lebs, idx_gc, gap_lebs, ilebs>>
vars == <<lim, t, media, alloc, todo, want, unlogged, pc, ops, cuts>>

(***************************************************************************)
(* Flash.                                                                  *)
(***************************************************************************)
Blank == [level |-> -1, br |-> <<>>]  \* 0xFF
Pad == [level |-> -2, br |-> <<>>]    \* a padding node, or none
IsIdxNode(node) == node.level >= 0

BlankLeb == [s \in 1..Slots |-> Blank]

(* The index node a znode is written as.                                     *)
IdxNode(tr, z) ==
  [level |-> tr.zn[z].level,
   br |-> [i \in DOMAIN Br(tr, z) |-> [key |-> Br(tr, z)[i].key, pos |-> Br(tr, z)[i].pos]]]

NodeAt(f, pos) ==
  IF pos[1] \in Lebs /\ pos[2] \in 1..Slots THEN f[pos[1]][pos[2]] ELSE Blank

Below(node) == IF node.level > 0 THEN {node.br[i].pos : i \in DOMAIN node.br} ELSE {}

RECURSIVE Reach(_, _)
Reach(f, S) ==
  IF S = {} THEN {} ELSE S \cup Reach(f, UNION {Below(NodeAt(f, p)) : p \in S})

LeafNodes(f, S) ==
  UNION {{<<NodeAt(f, p).br[i].key, NodeAt(f, p).br[i].pos>> : i \in DOMAIN NodeAt(f, p).br}
           : p \in {q \in S : NodeAt(f, q).level = 0}}

Readable(f, S) == \A p \in S : IsIdxNode(NodeAt(f, p))

(***************************************************************************)
(* Reading the index: ubifs_load_znode() for every index node.             *)
(***************************************************************************)
Unloaded ==
  [zn |-> <<>>, root |-> 0, rpos |-> NoPos, old |-> {}, twice |-> FALSE,
   dirty_zn_cnt |-> 0, live |-> [l \in Lebs |-> 0]]

Id(pos) == (pos[1] - 1) * Slots + pos[2]

Above(f, S, pos) ==  \* the slot of the branch that leads to pos
  CHOOSE q \in [pos : S, i : 1..Fanout] :
    \E node \in {NodeAt(f, q.pos)} :
      node.level > 0 /\ q.i \in DOMAIN node.br /\ node.br[q.i].pos = pos

LoadZnode(pos, parent, iip, node) ==
  Id(pos) :> Znode(node.level, FALSE, parent, iip,
                   [i \in DOMAIN node.br |->
                      Branch(node.br[i].key, node.br[i].pos,
                             IF node.level > 0 THEN Id(node.br[i].pos) ELSE 0)])

LoadChild(f, S, pos) ==
  CHOOSE zn \in {LoadZnode(pos, Id(q.pos), q.i, NodeAt(f, pos)) : q \in {Above(f, S, pos)}} : TRUE

LoadZnodes(f, S, root) ==
  FoldSet(LAMBDA pos, zn : LoadChild(f, S, pos) @@ zn,
          LoadZnode(root, 0, 1, NodeAt(f, root)), S \ {root})

LoadIndex(f, root, live) ==
  [Unloaded EXCEPT !.zn = LoadZnodes(f, Reach(f, {root}), root),
                   !.root = Id(root), !.rpos = root, !.live = live]

(***************************************************************************)
(* What the journal makes of the committed leaf nodes.                     *)
(***************************************************************************)
Add(key, pos) == [del |-> FALSE, key |-> key, pos |-> pos]
Del(key, pos) == [del |-> TRUE, key |-> key, pos |-> pos]

(* A truncation removes the blocks from min to max.                          *)
TRUN == 4
Trun(inum, min, max) == [del |-> TRUE, key |-> <<inum, TRUN, min>>, pos |-> <<0, max>>]

(* The most recent entry for the inode is not a deletion: a file without a   *)
(* name was linked after all.                                                *)
InodeStillLinked(j, inum) ==
  LET is == {i \in DOMAIN j : j[i].key = <<inum, INO, 0>>}
  IN ~j[Max(is)].del

Obsoletes(j, e, x) ==
  \/ e.key = x[1] /\ (IsHashKey(e.key) => e.pos[1] = x[2][1])
     /\ (e.del /\ e.key[2] = INO => ~InodeStillLinked(j, e.key[1]))
  \/ e.del /\ e.key[2] = INO /\ e.key[1] = x[1][1] /\ ~InodeStillLinked(j, e.key[1])
  \/ e.key[2] = TRUN /\ e.key[1] = x[1][1] /\ x[1][2] = DATA /\ x[1][3] \in e.key[3]..e.pos[2]

(* A node is current unless a later entry replaces or deletes it.            *)
Expected(b, j) ==
  {x \in b : \A i \in DOMAIN j : ~Obsoletes(j, j[i], x)}
    \cup {<<j[i].key, j[i].pos>> : i \in
            {k \in DOMAIN j : ~j[k].del /\
               \A m \in k + 1..Len(j) : ~Obsoletes(j, j[m], <<j[k].key, j[k].pos>>)}}

(***************************************************************************)
(* Commit: the pure parts.                                                 *)
(***************************************************************************)
(* find_first_dirty() and find_next_dirty(): children before parents, from   *)
(* the left.                                                                 *)
RECURSIVE DirtyList(_, _)
DirtyList(tr, z) ==
  IF ~tr.zn[z].dirty THEN <<>>
  ELSE IF tr.zn[z].level = 0 THEN <<z>>
  ELSE FlattenSeq([i \in DOMAIN Br(tr, z) |-> DirtyList(tr, Br(tr, z)[i].child)]) \o <<z>>

ClearAlt(tr, list) ==
  [tr EXCEPT !.zn = [x \in ToSet(list) |-> [@[x] EXCEPT !.alt = FALSE]] @@ @]

DivRoundUp(n, d) == (n + d - 1) \div d

GetLebCnt(cnt, head) == DivRoundUp(Max({cnt - (Slots - head.offs), 0}), Slots)

(* One znode gets its place: in its parent and in the old index.             *)
MakeIdxNode(tr, z, pos) ==
  [SetZPos(InsertOldIdxZnode(tr, z), z, pos)
     EXCEPT !.zn[z].dirty = FALSE, !.dirty_zn_cnt = @ - 1]

(* Filling the gaps of a LEB, slot by slot.  g: the tree, the znodes left,   *)
(* the new content of the LEB, and how many nodes went in.                   *)
FillSlot(g, l, s, rest) ==
  IF g.list = <<>> THEN [g EXCEPT !.leb[s] = rest]
  ELSE [t |-> MakeIdxNode(g.t, Head(g.list), <<l, s>>), list |-> Tail(g.list),
        leb |-> [g.leb EXCEPT ![s] = IdxNode(g.t, Head(g.list))],
        written |-> g.written + 1]

FillSlots(g, l, from, to) ==  \* a gap at the end of the LEB is not padded
  FoldLeft(LAMBDA h, s : FillSlot(h, l, s, IF to = Slots THEN Blank ELSE Pad), g,
           [i \in 1..to - from + 1 |-> from + i - 1])

InUse(tr, node, pos) ==
  IsIdxNode(node) /\ IsIdxNodeInUse(tr, node.br[1].key, node.level, pos)

(* The scan visits the nodes in order; a gap is filled when a node in use,   *)
(* or the end of the LEB, closes it.                                         *)
RECURSIVE FillGaps(_, _, _, _, _)
FillGaps(g, l, old, start, s) ==
  IF s > Slots THEN FillSlots(g, l, start, Slots)
  ELSE IF InUse(g.t, old[s], <<l, s>>)
       THEN FillGaps(FillSlots(g, l, start, s - 1), l, old, s + 1, s + 1)
       ELSE FillGaps(g, l, old, start, s + 1)

UsedSlots(tr, l, leb) == {s \in 1..Slots : InUse(tr, leb[s], <<l, s>>)}

(* in_use = 2: the node of a znode that is still clean.                      *)
CleanSlots(tr, l, leb) ==
  {s \in 1..Slots : IsIdxNode(leb[s]) /\
     \E z \in {LookupZnode(tr, leb[s].br[1].key, leb[s].level, <<l, s>>)} :
       z # 0 /\ ~tr.zn[z].dirty}

(* The places after the index head and in the LEBs allocated for the commit. *)
Places(head, lebs) ==
  [i \in 1..Slots - head.offs |-> <<head.lnum, head.offs + i>>]
    \o FlattenSeq([k \in DOMAIN lebs |-> [i \in 1..Slots |-> <<lebs[k], i>>]])

LayOut(tr, list, places) ==
  FoldLeft(LAMBDA u, i : SetZPos(u, list[i], places[i]), tr, [i \in DOMAIN list |-> i])

LaidOut(tr, places, n) ==
  [tr EXCEPT !.old = {}, !.dirty_zn_cnt = @ - n,
             !.live = [l \in Lebs |-> @[l] + Cardinality({i \in 1..n : places[i][1] = l})]]

(***************************************************************************)
(* The initial states: an index that was committed into the first LEBs, a  *)
(* journal, and garbage collection of some nodes the journal obsoletes.    *)
(***************************************************************************)
EmptyTnc ==
  [Unloaded EXCEPT !.zn = (1 :> Znode(0, TRUE, 0, 1, <<>>)), !.root = 1, !.dirty_zn_cnt = 1]

AddLeaf(tr, x) ==
  IF IsHashKey(x[1]) THEN TncAddNm(tr, {}, FALSE, x[1], x[2]) ELSE TncAdd(tr, x[1], x[2])

Built(leaves) == FoldLeft(AddLeaf, EmptyTnc, leaves)

AllPlaces == Places([lnum |-> 1, offs |-> 0], [i \in 1..LebCnt - 1 |-> i + 1])

Written(tr, list) ==
  [l \in Lebs |-> [s \in 1..Slots |->
     IF \E i \in DOMAIN list : AllPlaces[i] = <<l, s>>
     THEN IdxNode(tr, list[(l - 1) * Slots + s]) ELSE Blank]]

(* The master node after n index nodes were written from LEB 1 on.           *)
FirstMaster(n) ==
  [root |-> AllPlaces[n],
   ihead |-> [lnum |-> AllPlaces[n][1], offs |-> AllPlaces[n][2]],
   index_lebs |-> 1..AllPlaces[n][1],
   live |-> [l \in Lebs |-> Cardinality({i \in 1..n : AllPlaces[i][1] = l})]]

Init ==
  \E img \in Images : lim = img.lim /\
  \E tr \in {Built(img.leaves)} : \E list \in {DirtyList(tr, tr.root)} :
    /\ flash = Written(LayOut(tr, list, AllPlaces), list)
    /\ mst = FirstMaster(Len(list))
    /\ jrnl = img.jrnl
    /\ base = ToSet(img.leaves)
    /\ want = Expected(base, jrnl)
    /\ gone \in SUBSET (base \ want)
    /\ t = Unloaded /\ ihead = mst.ihead /\ index_lebs = mst.index_lebs
    /\ idx_gc = {} /\ gap_lebs = {} /\ ilebs = <<>> /\ todo = <<>>
    /\ unlogged = FALSE /\ pc = "off" /\ ops = 0 /\ cuts = 0

(***************************************************************************)
(* Mounting.                                                               *)
(***************************************************************************)
HeadAsFound(f) == f

(* The LEB properties are read, what the last commit had begun to write      *)
(* after the index head is erased, and the index is loaded.                  *)
CleanHead(f) ==
  [f EXCEPT ![mst.ihead.lnum] =
     [s \in 1..Slots |-> IF s > mst.ihead.offs THEN Blank ELSE @[s]]]

Mount ==
  /\ pc = "off"
  /\ flash' = CleanHead(flash)
  /\ t' = LoadIndex(flash, mst.root, mst.live)
  /\ ihead' = mst.ihead /\ index_lebs' = mst.index_lebs
  /\ idx_gc' = {} /\ gap_lebs' = {} /\ ilebs' = <<>>
  /\ todo' = jrnl
  /\ pc' = "replay"
  /\ UNCHANGED <<mst, jrnl, base, gone, want, unlogged, ops, cuts>>

RemoveIno(tr, inum) ==
  TncRemoveRange(tr, <<inum, INO, 0>>, <<inum, XENT + 1, 0>>)  \* highest_ino_key()

ApplyReplayEntry(tr, e) ==
  IF IsHashKey(e.key)
  THEN IF e.del THEN TncRemoveNm(tr, gone, TRUE, e.key, e.pos[1])
       ELSE TncAddNm(tr, gone, TRUE, e.key, e.pos)
  ELSE IF ~e.del THEN TncAdd(tr, e.key, e.pos)
  ELSE IF e.key[2] = TRUN
  THEN TncRemoveRange(tr, <<e.key[1], DATA, e.key[3]>>, <<e.key[1], DATA, e.pos[2]>>)
  ELSE IF e.key[2] # INO THEN TncRemove(tr, e.key)
  ELSE IF InodeStillLinked(jrnl, e.key[1]) THEN tr
  ELSE RemoveIno(tr, e.key[1])

Replay ==
  /\ pc = "replay" /\ todo # <<>>
  /\ t' = ApplyReplayEntry(t, Head(todo))
  /\ todo' = Tail(todo)
  /\ UNCHANGED <<media, alloc, want, unlogged, pc, ops, cuts>>

Mounted ==
  /\ pc = "replay" /\ todo = <<>>
  /\ pc' = "idle"
  /\ UNCHANGED <<t, media, alloc, todo, want, unlogged, ops, cuts>>

Operation ==
  /\ pc = "idle" /\ ops < MaxOps
  /\ ops' = ops + 1
  /\ UNCHANGED <<flash, mst, base, ihead, gap_lebs, ilebs, todo, pc, cuts>>

(* A position on flash where no node of this key and name has been.          *)
NewPos(key, nm) ==
  <<nm, 1 + Max({0} \cup {x[2][2] : x \in {y \in base \cup gone \cup want
                                              \cup {<<e.key, e.pos>> : e \in ToSet(jrnl)}
                                          : y[1] = key /\ y[2][1] = nm}})>>

(***************************************************************************)
(* Operations.                                                             *)
(***************************************************************************)
(* ubifs_jnl_update_file(): an entry, the inode it leads to and the          *)
(* directory's inode go into the journal and into the TNC.  Space is only    *)
(* allocated once the removals that are not in the journal are committed.    *)
JnlUpdateFile(nm, inum) ==
  LET dent == <<1, DENT, Hash(nm)>>
      ino == <<inum, INO, 0>>
      dir == <<1, INO, 0>>
      es == <<Add(dent, NewPos(dent, nm)), Add(ino, NewPos(ino, 0)), Add(dir, NewPos(dir, 0))>>
  IN /\ Operation /\ ~unlogged
     /\ t' = TncAdd(TncAdd(TncAddNm(t, {}, FALSE, dent, es[1].pos), ino, es[2].pos),
                     dir, es[3].pos)
     /\ jrnl' = jrnl \o es
     /\ want' = Expected(base, jrnl')
     /\ UNCHANGED <<gone, index_lebs, idx_gc, unlogged>>

(* The checks of fsck remove nodes from the TNC only.                        *)
RemoveNode(x) ==
  /\ Operation
  /\ x \in want
  /\ t' = TncRemoveNode(t, x[1], x[2])
  /\ want' = want \ {x}
  /\ unlogged' = TRUE
  /\ UNCHANGED <<jrnl, gone, index_lebs, idx_gc>>

RemoveInode(inum) ==
  /\ Operation
  /\ t' = RemoveIno(t, inum)
  /\ want' = {x \in want : x[1][1] # inum}
  /\ unlogged' = TRUE
  /\ UNCHANGED <<jrnl, gone, index_lebs, idx_gc>>

(* Garbage collection of the LEB a node is in: a node in the TNC is moved.   *)
(* It keeps its sequence number, so that it is replayed before anything      *)
(* written since.  LEBs of the journal are not collected.                    *)
Moved(x) == <<x[2][1], NewPos(x[1], x[2][1])[2]>>

CollectUncommitted(x) ==
  /\ Operation /\ x \in base \ gone
  /\ ~IsLeafNodeInTnc(t, x[1], x[2])
  /\ gone' = gone \cup {x}
  /\ UNCHANGED <<t, jrnl, want, index_lebs, idx_gc, unlogged>>

GarbageCollectNode(x) ==
  LET live == IsLeafNodeInTnc(t, x[1], x[2])
  IN /\ Operation /\ ~unlogged
     /\ x \in base \ gone
     /\ t' = IF live THEN TncReplace(t, x[1], x[2], Moved(x)) ELSE t
     /\ jrnl' = IF live THEN <<Add(x[1], Moved(x))>> \o jrnl ELSE jrnl
     /\ gone' = gone \cup {x}
     /\ want' = Expected(base, jrnl')
     /\ UNCHANGED <<index_lebs, idx_gc, unlogged>>

(* Garbage collection of an index LEB dirties the znodes of its nodes.  The  *)
(* LEB itself is kept until the next commit is over.                         *)
RECURSIVE DirtyIdxNodes(_, _, _)
DirtyIdxNodes(tr, l, s) ==
  IF s > Slots THEN tr
  ELSE DirtyIdxNodes(IF IsIdxNode(flash[l][s])
                     THEN DirtyIdxNode(tr, flash[l][s].br[1].key, flash[l][s].level, <<l, s>>)
                     ELSE tr, l, s + 1)

GarbageCollectIndex(l) ==
  /\ Operation /\ ~unlogged
  /\ l \in index_lebs \ {ihead.lnum} /\ t.live[l] \in 1..Slots - 1
  /\ t' = [DirtyIdxNodes(t, l, 1) EXCEPT !.live[l] = 0]
  /\ index_lebs' = index_lebs \ {l} /\ idx_gc' = idx_gc \cup {l}
  /\ UNCHANGED <<jrnl, gone, want, unlogged>>

(***************************************************************************)
(* Commit.                                                                 *)
(***************************************************************************)
(* ubifs_gc_start_commit(): index LEBs without a live node are given up.     *)
Freeable == {l \in index_lebs \ {ihead.lnum} : t.live[l] = 0}

FreeLebs == Lebs \ (index_lebs \cup idx_gc)

Allocated(n) == SubSeq(SetToSortSeq(FreeLebs, <), 1, Min({n, Cardinality(FreeLebs)}))

(* The list of dirty znodes, and empty LEBs for them, as many as there are.  *)
StartCommit ==
  /\ pc = "idle"
  /\ t.zn[t.root].dirty \/ jrnl # <<>>
  /\ \E list \in {DirtyList(t, t.root)} :
     \E n \in {GetLebCnt(Len(list), ihead)} :
     \E lebs \in {Allocated(n)} :
       /\ t' = ClearAlt(t, list)
       /\ todo' = list
       /\ ilebs' = lebs
       /\ idx_gc' = idx_gc \cup Freeable
       /\ index_lebs' = (index_lebs \ Freeable) \cup ToSet(lebs)
       /\ flash' = [l \in Lebs |-> IF l \in ToSet(lebs) THEN BlankLeb ELSE flash[l]]
       /\ gap_lebs' = {}
       /\ pc' = IF Len(lebs) < n THEN "gaps" ELSE "layout"
       /\ UNCHANGED <<mst, jrnl, base, gone, ihead, want, unlogged, ops, cuts>>

(* Index LEBs with obsolete nodes first, then those that were given up.      *)
DirtyIndexLebs ==
  {l \in index_lebs \ ({ihead.lnum} \cup gap_lebs \cup ToSet(ilebs)) : t.live[l] < Slots}

GapCandidates == IF DirtyIndexLebs # {} THEN DirtyIndexLebs ELSE idx_gc

(* layout_leb_in_gaps(): the LEB is rewritten at once, and its properties    *)
(* are set anew.                                                             *)
LayoutLebInGaps(l) ==
  /\ pc = "gaps" /\ l \in GapCandidates
  /\ \E clean \in {CleanSlots(t, l, flash[l])} :
     \E g \in {FillGaps([t |-> t, list |-> todo, leb |-> flash[l], written |-> 0],
                          l, flash[l], 1, 1)} :
       /\ t' = [g.t EXCEPT !.live[l] = Cardinality(clean) + g.written]
       /\ todo' = g.list
       /\ flash' = IF g.written > 0 THEN [flash EXCEPT ![l] = g.leb] ELSE flash
       /\ gap_lebs' = gap_lebs \cup {l}
       /\ idx_gc' = idx_gc \ {l} /\ index_lebs' = index_lebs \cup {l}
       /\ pc' = IF GetLebCnt(Len(g.list), ihead) > Len(ilebs) THEN "gaps" ELSE "layout"
       /\ UNCHANGED <<mst, jrnl, base, gone, ihead, ilebs, want, unlogged, ops, cuts>>

NoMoreGaps ==
  /\ pc = "gaps" /\ GapCandidates = {}
  /\ pc' = "layout"
  /\ UNCHANGED <<t, media, alloc, todo, want, unlogged, ops, cuts>>

(* The rest goes after the index head and into the allocated LEBs; the ones  *)
(* not needed are given back, and the old index is forgotten.                *)
LayoutInEmptySpace ==
  /\ pc = "layout"
  /\ \E places \in {Places(ihead, ilebs)} :
       /\ Len(todo) <= Len(places)
       /\ t' = LaidOut(LayOut(t, todo, places), places, Len(todo))
       /\ index_lebs' = index_lebs \ {l \in ToSet(ilebs) :
                                        \A i \in DOMAIN todo : places[i][1] # l}
       /\ pc' = "write"
       /\ UNCHANGED <<media, ihead, idx_gc, gap_lebs, ilebs, todo, want, unlogged, ops, cuts>>

(* -ENOSPC: the commit is broken and the file system read-only.              *)
OutOfSpace ==
  /\ pc = "layout" /\ Len(todo) > Len(Places(ihead, ilebs))
  /\ pc' = "ro"
  /\ UNCHANGED <<t, media, alloc, todo, want, unlogged, ops, cuts>>

(* write_index(), one znode at a time.                                       *)
WriteIndex ==
  \E z \in {Head(todo)} : \E p \in {ZPos(t, Head(todo))} :
    /\ flash' = [flash EXCEPT ![p[1]][p[2]] = IdxNode(t, z)]
    /\ t' = [t EXCEPT !.zn[z].dirty = FALSE]
    /\ ihead' = [lnum |-> p[1], offs |-> p[2]]
    /\ todo' = Tail(todo)
    /\ UNCHANGED <<mst, jrnl, base, gone, index_lebs, idx_gc, gap_lebs, ilebs, want,
                   unlogged, pc, ops, cuts>>

WriteNext == pc = "write" /\ todo # <<>> /\ WriteIndex

(* The master node is written; then the journal is history and the LEBs that *)
(* were given up are unmapped.                                               *)
EndCommit ==
  /\ pc = "write" /\ todo = <<>>
  /\ mst' = [root |-> t.rpos, ihead |-> ihead, index_lebs |-> index_lebs, live |-> t.live]
  /\ jrnl' = <<>> /\ base' = want /\ gone' = {}
  /\ flash' = [l \in Lebs |-> IF l \in idx_gc THEN BlankLeb ELSE flash[l]]
  /\ idx_gc' = {} /\ gap_lebs' = {} /\ ilebs' = <<>>
  /\ unlogged' = FALSE
  /\ pc' = "idle"
  /\ UNCHANGED <<t, ihead, index_lebs, todo, want, ops, cuts>>

(* Memory is lost; so are removals that no journal entry tells of.           *)
PowerCut ==
  /\ pc # "off" /\ cuts < MaxCuts
  /\ cuts' = cuts + 1
  /\ t' = Unloaded /\ todo' = <<>>
  /\ ihead' = mst.ihead /\ index_lebs' = mst.index_lebs
  /\ idx_gc' = {} /\ gap_lebs' = {} /\ ilebs' = <<>>
  /\ want' = Expected(base, jrnl)
  /\ unlogged' = FALSE
  /\ pc' = "off"
  /\ UNCHANGED <<media, ops>>

Inums == {x[1][1] : x \in base \cup want}

Next ==
  /\ UNCHANGED lim
  /\ \/ Mount \/ Replay \/ Mounted
     \/ \E nm \in Names : \E inum \in 2..3 : JnlUpdateFile(nm, inum)
     \/ \E x \in want : RemoveNode(x)
     \/ \E inum \in Inums : RemoveInode(inum)
     \/ \E x \in base : GarbageCollectNode(x)
     \/ \E l \in Lebs : GarbageCollectIndex(l)
     \/ StartCommit
     \/ \E l \in Lebs : LayoutLebInGaps(l)
     \/ NoMoreGaps \/ LayoutInEmptySpace \/ OutOfSpace \/ WriteNext \/ EndCommit
     \/ PowerCut

Spec == Init /\ [][Next]_vars

(***************************************************************************)
(* Properties.                                                             *)
(***************************************************************************)
LeavesOf(tr) ==
  UNION {{<<Br(tr, z)[i].key, Br(tr, z)[i].pos>> : i \in DOMAIN Br(tr, z)}
           : z \in {y \in DOMAIN tr.zn : tr.zn[y].level = 0}}

Universe == want \cup base \cup gone \cup {<<e.key, e.pos>> : e \in ToSet(jrnl)}

PosIn(W, key, nm) ==
  IF \E x \in W : x[1] = key /\ x[2][1] = nm
  THEN (CHOOSE x \in W : x[1] = key /\ x[2][1] = nm)[2] ELSE NoPos

(* Whatever splits, merges, collisions, dangling branches and cuts came      *)
(* before: ubifs_tnc_locate() and ubifs_tnc_lookup_nm() find every node that *)
(* should be there, at its place, and nothing else.                          *)
FindsExactly ==
  pc = "idle" =>
    /\ LeavesOf(t) = want
    /\ \A x \in Universe :
         (IF IsHashKey(x[1]) THEN TncLookupNm(t, x[1], x[2][1]) ELSE TncLocate(t, x[1]))
           = PosIn(want, x[1], x[2][1])

(* ubifs_tnc_next_ent(), called with each entry it returned, lists every     *)
(* entry of the directory once, also across the leaves a hash is spread over.*)
RECURSIVE Listing(_, _)
Listing(p, seen) ==
  IF p = Nowhere \/ p \in ToSet(seen) THEN seen
  ELSE Listing(TncNextEnt(t, At(t, p).key, NameAt(t, p)), Append(seen, p))

ListsDirectory ==
  pc = "idle" =>
    \E ps \in {Listing(TncNextEnt(t, <<1, DENT, 0>>, NoName), <<>>)} :
      /\ Len(ps) = Cardinality({x \in want : x[1][1] = 1 /\ x[1][2] = DENT})
      /\ {<<At(t, p).key, At(t, p).pos>> : p \in ToSet(ps)}
           = {x \in want : x[1][1] = 1 /\ x[1][2] = DENT}

(* Garbage collection never erases a node that the committed index and the   *)
(* journal still lead to, cut or no cut.                                     *)
NothingLost == Expected(base, jrnl) \cap gone = {}

(* The index the master node leads to stays whole on flash until the next    *)
(* master node is written, whatever a commit writes into its gaps.           *)
OldIndexIntact ==
  \E S \in {Reach(flash, {mst.root})} : Readable(flash, S) /\ LeafNodes(flash, S) = base

(* write_index() programs flash that is blank, also after a cut left half of *)
(* an earlier index behind.                                                  *)
WritesBlank == pc = "write" => \A z \in ToSet(todo) : NodeAt(flash, ZPos(t, z)) = Blank

KeyLe(a, b) == ~KeyLt(b, a)

ZnodeSound(z) ==
  LET n == t.zn[z]
      up == t.zn[n.parent]
  IN /\ Len(n.br) \in (IF n.parent = 0 THEN 0 ELSE 1)..Fanout
     /\ \A i, j \in DOMAIN n.br : i < j =>
          IF n.level = 0 /\ ~IsHashKey(n.br[i].key) THEN KeyLt(n.br[i].key, n.br[j].key)
                                                     ELSE KeyLe(n.br[i].key, n.br[j].key)
     /\ n.level > 0 => \A i \in DOMAIN n.br :
          t.zn[n.br[i].child].parent = z /\ t.zn[n.br[i].child].iip = i
     /\ n.parent # 0 =>
          /\ up.level = n.level + 1 /\ up.br[n.iip].child = z
          /\ KeyLe(up.br[n.iip].key, n.br[1].key)
          /\ n.iip < Len(up.br) => KeyLe(Last(n.br).key, up.br[n.iip + 1].key)
          /\ n.dirty => up.dirty
     /\ ~n.dirty => NodeAt(flash, ZPos(t, z)) = IdxNode(t, z)

(* What dbg_check_tnc() asserts of the tree: links, keys in order and in     *)
(* their parent's range, a dirty parent above a dirty znode, the count of    *)
(* dirty znodes; and a clean znode is on flash as it is in memory.  Moreover, *)
(* insert_old_idx() never meets an entry it has ("old idx added twice!").    *)
TncSound ==
  ~t.twice /\ (pc \in {"replay", "idle"} =>
    /\ \A z \in DOMAIN t.zn : ZnodeSound(z)
    /\ t.dirty_zn_cnt = Cardinality({z \in DOMAIN t.zn : t.zn[z].dirty}))

(* The space that add_idx_dirt(), the commit and garbage collection account  *)
(* for is the space clean index nodes take: a LEB is given up exactly when   *)
(* no clean node is left in it.                                              *)
SpaceIsExact ==
  pc \in {"replay", "idle"} =>
    \A l \in Lebs : t.live[l] =
      Cardinality({z \in DOMAIN t.zn : ~t.zn[z].dirty /\ ZPos(t, z)[1] = l})

(* The two ways into the tree, ubifs_tnc_lookup() by key and name and        *)
(* ubifs_tnc_next_ent() one entry after the other, agree with the files.     *)
LooksUpExactly == FindsExactly /\ ListsDirectory

(* A commit of the index (write_index(), layout_in_gaps()) programs blank    *)
(* flash only and leaves the old index whole until the master node changes.  *)
CommitHarmless == OldIndexIntact /\ WritesBlank

(* The znodes in memory, the index nodes on flash and the LEB properties of  *)
(* the index LEBs tell the same story (dbg_check_tnc(), add_idx_dirt()).     *)
IndexSound == TncSound /\ SpaceIsExact
===========================================================================
