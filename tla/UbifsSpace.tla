----------------------------- MODULE UbifsSpace -----------------------------
(***************************************************************************)
(* Space in the main area of UBIFS, as fsck.ubifs uses it: LEB properties  *)
(* and their categories (lprops.c), the search for LEBs (find.c), garbage  *)
(* collection (gc.c), budgeting (budget.c), write-buffers and the base and *)
(* GC journal heads (io.c, journal.c), the part of the commit that moves   *)
(* the index (commit.c, tnc_commit.c), the replay of LEB properties after  *)
(* a power cut (replay.c, recovery.c) and the space check of fsck          *)
(* (check_space.c).                                                        *)
(*                                                                         *)
(* Sizes are in units of one node.  A node is <<key, value, more>>: key is *)
(* positive for a leaf node, negative for an index node and 0 for padding; *)
(* value is the update that wrote it; more is 1 when the nodes of the same *)
(* group continue after it.  An operation changes the memory record m at   *)
(* once and leaves the flash writes it made, in order, in the sequence     *)
(* todo; they reach the flash one by one and a power cut loses the rest.   *)
(***************************************************************************)
EXTENDS Integers, Sequences, FiniteSets, SequencesExt

CONSTANT Instances   \* the volumes to start from

VARIABLES inst,   \* the volume: geometry, first layout, updates to make
          flash,  \* LEB -> sequence of nodes
          log,    \* reference nodes: [n |-> commit, l, offs, h]
          mst,    \* the master node and the index and lprops it leads to
          todo,   \* flash operations issued and not yet done
          m,      \* the memory of the running program
          pc,     \* what it is doing
          call,   \* arguments and retry counters of what it is doing
          upd,    \* updates made, of those of inst.reqs
          kept,   \* updates a mount would find, or -1 when it is no prefix
          starts  \* mounts so far

vars == <<inst, flash, log, mst, todo, m, pc, call, upd, kept, starts>>

LebSize == inst.leb_size
MinIo == inst.min_io
Lebs == 1 .. inst.main_lebs
Keys == DOMAIN inst.leaf
Znodes == 1 .. inst.root          \* leaves 1 .. root-1 and the root
Align(n) == ((n + MinIo - 1) \div MinIo) * MinIo
Bit(b) == IF b THEN 1 ELSE 0
Monus(a, b) == IF a > b THEN a - b ELSE 0

None == <<0, 0>>                  \* no position
GCHD == 0
BASEHD == 1
Heads == {GCHD, BASEHD}
Pad(n) == [i \in 1 .. n |-> <<0, 0, 0>>]
Unset == [lnum |-> 0, offs |-> 0, buf |-> <<>>]

min_write_sz == 1
max_node_sz == inst.max_node_sz
dead_wm == Align(min_write_sz)
dark_wm == Align(max_node_sz)
idx_leb_size == LebSize - 1       \* less one index node
MIN_INDEX_LEBS == 2
SOFT_LEBS_LIMIT == inst.soft      \* 4 in gc.c
HARD_LEBS_LIMIT == inst.hard      \* 32 in gc.c
MAX_MKSPC_RETRIES == 3
jhead_cnt == 3

(***************************************************************************)
(* LEB properties.                                                         *)
(***************************************************************************)
calc_dark(spc) ==
  IF spc < dark_wm THEN spc
  ELSE IF spc - dark_wm < min_write_sz THEN spc - min_write_sz ELSE dark_wm

Dead(p) == IF ~p.index /\ p.free + p.dirty < dead_wm THEN p.free + p.dirty ELSE 0
Dark(p) == IF ~p.index /\ p.free + p.dirty >= dead_wm
           THEN calc_dark(p.free + p.dirty) ELSE 0
Used(p) == IF p.index THEN 0 ELSE LebSize - p.free - p.dirty
Empty(p) == Bit(p.free = LebSize)
TakenEmpty(p) == Bit(p.taken /\ p.free = LebSize)

categorize_lprops(p) ==
  CASE p.taken -> "uncat"
    [] ~p.taken /\ p.free = LebSize -> "empty"
    [] ~p.taken /\ p.free < LebSize /\ p.free + p.dirty = LebSize ->
         IF p.index THEN "frdi_idx" ELSE "freeable"
    [] OTHER ->
         IF p.index THEN IF p.dirty + p.free >= 1 THEN "dirty_idx" ELSE "uncat"
         ELSE IF p.dirty >= dead_wm /\ p.dirty > p.free THEN "dirty"
         ELSE IF p.free > 0 THEN "free" ELSE "uncat"

HeapCats == {"dirty", "dirty_idx", "free"}
get_heap_comp_val(p, cat) == CASE cat = "free" -> p.free
                               [] cat = "dirty_idx" -> p.free + p.dirty
                               [] OTHER -> p.dirty
Listed(S) == SelectSeq([i \in Lebs |-> i], LAMBDA l : l \in S)
InCat(s, cat) == {l \in Lebs : s.lp[l].cat = cat}

(* One of several equal candidates.  Which one the heap or the list holds  *)
(* first depends on the order of all earlier changes; inst.up stands for   *)
(* it.                                                                     *)
OneOf(S) == CHOOSE l \in S : \A k \in S : IF inst.up THEN l <= k ELSE l >= k
Top(s, cat) ==
  LET val(l) == get_heap_comp_val(s.lp[l], cat)
  IN OneOf({l \in InCat(s, cat) : \A k \in InCat(s, cat) : val(k) <= val(l)})

(* A full heap gives up some entry of its lower half for a larger one.     *)
add_to_cat(s, l, cat) ==
  LET full == cat \in HeapCats /\ Cardinality(InCat(s, cat)) >= inst.heap_sz
      out == OneOf(InCat(s, cat) \ {Top(s, cat)})
      larger == get_heap_comp_val(s.lp[l], cat) > get_heap_comp_val(s.lp[out], cat)
      put == [s EXCEPT !.lp[l].cat = cat,
                       !.freeable_cnt = @ + Bit(cat = "freeable")]
  IN IF ~full THEN put
     ELSE IF larger THEN [put EXCEPT !.lp[out].cat = "uncat"]
     ELSE [s EXCEPT !.lp[l].cat = "uncat"]

change_category(s, l) ==
  LET old == s.lp[l].cat
      new == categorize_lprops(s.lp[l])
  IN IF old = new THEN s
     ELSE add_to_cat([s EXCEPT !.freeable_cnt = @ - Bit(old = "freeable"),
                               !.lp[l].cat = "none"], l, new)

(* The statistics follow the properties of LEB l from o to p.              *)
UpdateLst(t, o, p) ==
  [empty |-> t.empty + Empty(p) - Empty(o),
   taken_empty |-> t.taken_empty + TakenEmpty(p) - TakenEmpty(o),
   idx |-> t.idx + Bit(p.index) - Bit(o.index),
   free |-> t.free + p.free - o.free,
   dirty |-> t.dirty + p.dirty - o.dirty,
   used |-> t.used + Used(p) - Used(o),
   dead |-> t.dead + Dead(p) - Dead(o),
   dark |-> t.dark + Dark(p) - Dark(o)]

change_lp(s, l, free, dirty, index, taken, gc) ==
  LET o == s.lp[l]
      p == [o EXCEPT !.free = free, !.dirty = dirty, !.index = index, !.taken = taken]
  IN change_category([s EXCEPT !.lp[l] = p, !.lst = UpdateLst(@, o, p),
                               !.idx_gc_cnt = @ + gc, !.ldirty = TRUE], l)

SetSpace(s, l, free, dirty) == change_lp(s, l, free, dirty, s.lp[l].index, s.lp[l].taken, 0)
Take(s, l) == change_lp(s, l, s.lp[l].free, s.lp[l].dirty, s.lp[l].index, TRUE, 0)
return_leb(s, l) == change_lp(s, l, s.lp[l].free, s.lp[l].dirty, s.lp[l].index, FALSE, 0)
add_dirt(s, l, dirt) == SetSpace(s, l, s.lp[l].free, s.lp[l].dirty + dirt)

(***************************************************************************)
(* The search for LEBs.  All of the LEB properties tree is in memory once  *)
(* fsck has checked it, so the scans of the tree on flash are never run.   *)
(***************************************************************************)
(* The first of several sets of candidates that has one; 0 is -ENOSPC.     *)
FirstOf(cands) ==
  IF \A i \in DOMAIN cands : cands[i] = {} THEN 0
  ELSE OneOf(cands[CHOOSE i \in DOMAIN cands :
                        cands[i] # {} /\ \A j \in 1 .. i - 1 : cands[j] = {}])

rsvd_idx_lebs(s) == Monus(s.bi.min_idx_lebs, s.lst.idx)
FreeLebs(s) == s.lst.empty + s.freeable_cnt + s.idx_gc_cnt - s.lst.taken_empty

(* What the dirty heaps do not have may be among the free or the           *)
(* uncategorized LEBs.                                                     *)
scan_for_dirty(s, min_space, exclude_index) ==
  LET enough == {l \in Lebs : /\ s.lp[l].free + s.lp[l].dirty >= min_space
                              /\ s.lp[l].dirty >= dead_wm}
  IN FirstOf(<<InCat(s, "free") \cap enough,
               {l \in InCat(s, "uncat") \cap enough :
                  ~s.lp[l].taken /\ ~(exclude_index /\ s.lp[l].index)}>>)

find_dirty_leb(s, min_space, pick_free) ==
  LET pick == pick_free > 0 /\ rsvd_idx_lebs(s) < FreeLebs(s)
      exclude_index == pick_free = 2 \/ s.bi.min_idx_lebs >= s.lst.idx
      sum(l) == s.lp[l].free + s.lp[l].dirty
      best(cat, min) ==
        IF InCat(s, cat) = {} THEN {}
        ELSE {l \in {Top(s, cat)} : sum(l) >= min_space /\ sum(l) >= min}
      data == best("dirty", 0)
      idx == IF exclude_index THEN {} ELSE best("dirty_idx", LebSize \div 2)
      most == {l \in data \cup idx : \A k \in data \cup idx : sum(k) <= sum(l)}
      fast == FirstOf(<<IF pick THEN InCat(s, "empty") ELSE {},
                        IF pick THEN InCat(s, "freeable") ELSE {},
                        IF most \cap idx # {} THEN most \cap idx ELSE most>>)
  IN IF fast # 0 THEN fast ELSE scan_for_dirty(s, min_space, exclude_index)

(* The base head squeezes: it prefers the ends of LEBs to empty ones.      *)
do_find_free_space(s, min_space, pick_free) ==
  LET enough == {l \in Lebs : s.lp[l].free >= min_space}
  IN FirstOf(<<IF InCat(s, "free") = {} THEN {} ELSE {Top(s, "free")} \cap enough,
               IF pick_free THEN InCat(s, "empty") ELSE {},
               InCat(s, "dirty") \cap enough,
               {l \in InCat(s, "uncat") \cap enough : ~s.lp[l].taken /\ ~s.lp[l].index}>>)

(* LEBs that the index will need are not given to a journal head.          *)
find_free_space(s, min_space) ==
  do_find_free_space(s, min_space, /\ rsvd_idx_lebs(s) < FreeLebs(s)
                                   /\ s.lst.empty - s.lst.taken_empty > 0)

find_free_leb_for_idx(s) == FirstOf(<<InCat(s, "empty"), InCat(s, "freeable")>>)

(***************************************************************************)
(* Flash operations and write-buffers.                                     *)
(***************************************************************************)
OnFlash(f, op) == CASE op.t = "write" -> [f EXCEPT ![op.l] = @ \o op.nodes]
                    [] op.t = "change" -> [f EXCEPT ![op.l] = op.nodes]
                    [] OTHER -> f
OnLog(g, op) == CASE op.t = "ref" -> g \o op.refs
                  [] op.t = "mst" -> SelectSeq(g, LAMBDA r : r.n >= op.mst.n)
                  [] OTHER -> g

Do(s, op) == [s EXCEPT !.f = OnFlash(@, op), !.ops = Append(@, op)]
leb_write(s, l, offs, nodes) ==
  Do(s, [t |-> "write", l |-> l, offs |-> offs, nodes |-> nodes])
leb_change(s, l, nodes) == Do(s, [t |-> "change", l |-> l, nodes |-> nodes])
leb_unmap(s, l) == leb_change(s, l, <<>>)

(* Mutant: the padding of a write-buffer is not counted as dirty space.    *)
wbuf_sync_no_dirt(s, h) ==
  LET w == s.wb[h]
      done == leb_write([s EXCEPT !.wb[h] = [w EXCEPT !.offs = @ + MinIo, !.buf = <<>>]],
                        w.lnum, w.offs, w.buf \o Pad(MinIo - Len(w.buf)))
  IN IF w.buf = <<>> THEN s
     ELSE SetSpace(done, w.lnum, LebSize - w.offs - MinIo, s.lp[w.lnum].dirty)
(* The callback of a write-buffer keeps the free space of its LEB right.   *)
wbuf_sync(s, h) ==
  LET w == s.wb[h]
      pad == MinIo - Len(w.buf)
      done == leb_write([s EXCEPT !.wb[h] = [w EXCEPT !.offs = @ + MinIo, !.buf = <<>>]],
                        w.lnum, w.offs, w.buf \o Pad(pad))
  IN IF w.buf = <<>> THEN s
     ELSE SetSpace(done, w.lnum, LebSize - w.offs - MinIo, s.lp[w.lnum].dirty + pad)

wbuf_write(s, h, node) ==
  LET w == s.wb[h]
      buf == Append(w.buf, node)
      put == IF Len(buf) < MinIo THEN [s EXCEPT !.wb[h].buf = buf]
             ELSE leb_write([s EXCEPT !.wb[h] = [w EXCEPT !.offs = @ + MinIo, !.buf = <<>>]],
                            w.lnum, w.offs, buf)
  IN SetSpace(put, w.lnum, LebSize - w.offs - Len(buf), s.lp[w.lnum].dirty)

WbufPos(s, h) == s.wb[h].offs + Len(s.wb[h].buf)
wbuf_seek(s, h, l, offs) == [s EXCEPT !.wb[h] = [lnum |-> l, offs |-> offs, buf |-> <<>>]]
(* Mutant: the base head is not written out before GC erases a LEB.        *)
gc_sync_no_wbufs(s) == s
gc_sync_wbufs(s) == wbuf_sync(s, BASEHD)

(* A new bud, unless the log or the journal would grow too large.          *)
add_bud_to_log(s, h, l, offs) ==
  IF Len(s.buds) >= inst.max_buds THEN [s EXCEPT !.res = "EAGAIN", !.cmt = "required"]
  ELSE [Do(s, [t |-> "ref", refs |-> <<[n |-> s.n, l |-> l, offs |-> offs, h |-> h]>>])
          EXCEPT !.buds = Append(@, [l |-> l, start |-> offs, h |-> h]),
                 !.cmt = IF Len(s.buds) + 1 >= inst.bg_buds /\ @ = "resting"
                         THEN "background" ELSE @,
                 !.res = "ok"]

(***************************************************************************)
(* The index: a root over leaves, znode x at s.z[x], key k at s.tnc[k].    *)
(***************************************************************************)
dirty_znode(s, x) ==
  IF x \in s.zd THEN s
  ELSE add_dirt([s EXCEPT !.zd = @ \cup {x}, !.calc_idx_sz = @ - 1], s.z[x][1], 1)
dirty_path(s, k) == dirty_znode(dirty_znode(s, inst.root), inst.leaf[k])

(* Of ubifs_tnc_add, and of ubifs_tnc_replace when GC moves the node.      *)
tnc_add(s, k, pos) ==
  LET old(d) == IF s.tnc[k] = None THEN d ELSE add_dirt(d, s.tnc[k][1], 1)
  IN [old(dirty_path(s, k)) EXCEPT !.tnc[k] = pos]

(* The nodes of LEB l that the index refers to, as <<offset, node>>.       *)
LiveAt(s, l, o) == LET e == s.f[l][o + 1]
                   IN \/ e[1] > 0 /\ s.tnc[e[1]] = <<l, o>>
                      \/ e[1] < 0 /\ s.z[-e[1]] = <<l, o>>
                                  /\ -e[1] \notin s.zd
LiveSeq(s, l) == SelectSeq([i \in 1 .. Len(s.f[l]) |-> i - 1], LAMBDA o : LiveAt(s, l, o))

(***************************************************************************)
(* Garbage collection.                                                     *)
(***************************************************************************)
(* Without a reserved LEB the assertion of switch_gc_head() fails.         *)
switch_gc_head(s) ==
  LET head(a) == IF a.res = "EAGAIN" THEN a
                 ELSE wbuf_seek([a EXCEPT !.gc_lnum = 0], GCHD, s.gc_lnum, 0)
  IN IF s.gc_lnum = 0 THEN [s EXCEPT !.res = "assert"]
     ELSE head(add_bud_to_log(leb_unmap(wbuf_sync(s, GCHD), s.gc_lnum), GCHD, s.gc_lnum, 0))

move_node(s, l, o) ==
  LET put(a) == IF a.res # "ok" THEN a
                ELSE tnc_add(wbuf_write(a, GCHD, a.f[l][o + 1]), a.f[l][o + 1][1],
                             <<a.wb[GCHD].lnum, WbufPos(a, GCHD)>>)
  IN put(IF WbufPos(s, GCHD) < LebSize THEN s ELSE switch_gc_head(s))

move_nodes(s, l) ==
  FoldLeft(LAMBDA t, o : IF t.res = "ok" THEN move_node(t, l, o) ELSE t,
           IF s.wb[GCHD].lnum = 0 THEN switch_gc_head(s) ELSE s, LiveSeq(s, l))

(* The LEB keeps its place as gc_lnum when GC has none, else it is erased. *)
Retain(s, l) == [s EXCEPT !.gc_lnum = l, !.res = "RETAINED"]
Freed(s, l) == [leb_unmap(s, l) EXCEPT !.res = "FREED"]

GcFreeLeb(s, l) ==
  LET keep(t) == IF t.gc_lnum = 0 THEN Retain(leb_unmap(t, l), l) ELSE Freed(t, l)
  IN keep(IF s.lp[l].free = LebSize THEN s ELSE SetSpace(gc_sync_wbufs(s), l, LebSize, 0))

GcIndexLeb(s, l) ==
  LET dirtied == FoldLeft(LAMBDA t, o : dirty_znode(dirty_znode(t, inst.root), -t.f[l][o + 1][1]),
                          s, LiveSeq(s, l))
  IN [change_lp(dirtied, l, LebSize, 0, FALSE, TRUE, 1)
        EXCEPT !.idx_gc = <<[l |-> l, unmap |-> FALSE]>> \o @, !.res = "IDX"]

GcDataLeb(s, l) ==
  LET moved(t) == SetSpace(gc_sync_wbufs(t), l, LebSize, 0)
      keep(t) == IF t.gc_lnum = 0 THEN Retain(t, l) ELSE Freed(wbuf_sync(t, GCHD), l)
      end(t) == IF t.res # "ok" THEN t ELSE keep(moved(t))
  IN end(move_nodes([s EXCEPT !.res = "ok"], l))

garbage_collect_leb(s, l) ==
  IF s.lp[l].free + s.lp[l].dirty = LebSize THEN GcFreeLeb(s, l)
  ELSE IF s.f[l][1][1] < 0 THEN GcIndexLeb(s, l) ELSE GcDataLeb(s, l)

gc_start_commit(s) ==
  LET free(t, l) == SetSpace(leb_unmap(t, l), l, LebSize, 0)
      keep(t, l) == [change_lp(t, l, LebSize, 0, FALSE, TRUE, 1)
                       EXCEPT !.idx_gc = <<[l |-> l, unmap |-> TRUE]>> \o @]
      marked(t) == [t EXCEPT !.idx_gc = [i \in DOMAIN @ |-> [@[i] EXCEPT !.unmap = TRUE]]]
  IN FoldLeft(keep, marked(FoldLeft(free, s, Listed(InCat(s, "freeable")))),
              Listed(InCat(s, "frdi_idx")))

gc_end_commit(s) ==
  LET release(t, g) == change_lp(leb_unmap(t, g.l), g.l, t.lp[g.l].free,
                                 t.lp[g.l].dirty, t.lp[g.l].index, FALSE, -1)
  IN [FoldLeft(release, s, SelectSeq(s.idx_gc, LAMBDA g : g.unmap))
        EXCEPT !.idx_gc = SelectSeq(@, LAMBDA g : ~g.unmap)]

(***************************************************************************)
(* Budgeting.                                                              *)
(***************************************************************************)
calc_min_idx_lebs(bi) ==
  LET idx_size == 3 * (bi.old_idx_sz + bi.idx_growth + bi.uncommitted_idx)
      lebs == ((idx_size + idx_leb_size - 1) \div idx_leb_size) + 1
  IN IF lebs < MIN_INDEX_LEBS THEN MIN_INDEX_LEBS ELSE lebs

calc_available(s, min_idx_lebs) ==
  LET rest == inst.main_lebs * LebSize - s.lst.used - s.lst.dead - s.lst.dark
              - (min_idx_lebs + 1 + jhead_cnt + 1) * LebSize
              - Monus(s.lst.idx, min_idx_lebs) * dark_wm
  IN Monus(rest, 0)

(* Mutant: only the LEBs for the index are checked, not the space.         *)
do_budget_index(s) == Monus(calc_min_idx_lebs(s.bi), s.lst.idx) <= FreeLebs(s)
do_budget_space(s) ==
  LET min_idx_lebs == calc_min_idx_lebs(s.bi)
  IN /\ Monus(min_idx_lebs, s.lst.idx) <= FreeLebs(s)
     /\ calc_available(s, min_idx_lebs) >= s.bi.data_growth + s.bi.dd_growth

(* What ubifs_mkdir(), ubifs_link_recovery() and ubifs_create_root() ask   *)
(* for: index growth, new nodes, rewritten inodes.                         *)
Grow(s, r, sign) ==
  [s EXCEPT !.bi.idx_growth = @ + sign * (r.new_ino + r.new_dent),
            !.bi.data_growth = @ + sign * (r.new_ino + r.new_dent),
            !.bi.dd_growth = @ + sign * r.dirtied_ino]

release_budget(s, r) ==
  LET a == [Grow(s, r, -1) EXCEPT !.bi.uncommitted_idx = @ + r.new_ino + r.new_dent,
                                  !.bi.nospace = FALSE]
  IN [a EXCEPT !.bi.min_idx_lebs = calc_min_idx_lebs(a.bi)]

(***************************************************************************)
(* The commit.                                                             *)
(***************************************************************************)
nothing_to_commit(s) == s.zd = {} /\ ~s.ldirty

log_start_commit(s) ==
  LET n == s.n + 1
      open == SelectSeq(<<GCHD, BASEHD>>,
                        LAMBDA h : s.wb[h].lnum # 0 /\ s.wb[h].offs < LebSize)
      atHead(b) == s.wb[b.h].lnum = b.l
      refs == [i \in DOMAIN open |-> [n |-> n, l |-> s.wb[open[i]].lnum,
                                      offs |-> s.wb[open[i]].offs, h |-> open[i]]]
      heads == SelectSeq(s.buds, atHead)
  IN [Do(s, [t |-> "ref", refs |-> refs])
        EXCEPT !.n = n,
               !.old_buds = SelectSeq(s.buds, LAMBDA b : ~atHead(b)),
               !.buds = [i \in DOMAIN heads |->
                           [heads[i] EXCEPT !.start = s.wb[heads[i].h].offs]]]

get_leb_cnt(s, cnt) == (Monus(cnt, LebSize - s.ihead[2]) + LebSize - 1) \div LebSize

alloc_idx_lebs(s) ==
  LET alloc(t, i) ==
        LET l == find_free_leb_for_idx(t)
        IN IF t.res # "ok" THEN t
           ELSE IF l = 0 THEN [t EXCEPT !.res = "ENOSPC"]
           ELSE [leb_unmap(change_lp(t, l, LebSize, 0, TRUE, TRUE, 0), l)
                   EXCEPT !.ilebs = Append(@, l)]
  IN FoldLeft(alloc, s,
              [i \in 1 .. get_leb_cnt(s, Len(s.enext)) |-> i])

(* A dirty index LEB: the dirtiest of the last commit, then one by its     *)
(* category, then one that GC has taken out of the index.                  *)
find_dirty_idx_leb(s) ==
  LET ready(l) == ~s.lp[l].taken /\ s.lp[l].index
      saved == SelectSeq(s.dirty_idx, ready)
      dirty == {l \in Lebs : ready(l) /\ s.lp[l].free + s.lp[l].dirty >= 1}
      l == IF saved # <<>> THEN saved[Len(saved)]
           ELSE FirstOf(<<InCat(s, "dirty_idx") \cap dirty, InCat(s, "frdi_idx") \cap dirty,
                             InCat(s, "uncat") \cap dirty>>)
  IN IF l # 0 THEN [Take(s, l) EXCEPT !.got = l]
     ELSE IF s.idx_gc = <<>> THEN [s EXCEPT !.got = 0]
     ELSE LET g == Head(s.idx_gc).l
          IN [change_lp(s, g, s.lp[g].free, s.lp[g].dirty, TRUE, s.lp[g].taken, -1)
                EXCEPT !.idx_gc = Tail(@), !.got = g]

(* The next znode gets its position on flash.                              *)
Place(s, pos) == LET x == Head(s.enext)
                 IN [s EXCEPT !.enext = Tail(@), !.z[x] = pos, !.zd = @ \ {x},
                              !.calc_idx_sz = @ + 1]

(* Index nodes that neither the index of the last commit nor the new one   *)
(* uses are overwritten, and the LEB is changed in one piece.              *)
FillGaps(s) ==
  LET l == s.got
      old == {s.oldz[x][2] : x \in {y \in Znodes : s.oldz[y][1] = l}}
      new == {s.z[x][2] : x \in {y \in Znodes \ s.zd : s.z[y][1] = l}}
      gaps == SelectSeq([i \in 1 .. LebSize |-> i - 1], LAMBDA o : o \notin old \cup new)
      cnt == IF Len(gaps) < Len(s.enext) THEN Len(gaps) ELSE Len(s.enext)
      filled == {gaps[i] : i \in 1 .. cnt}
      last == CHOOSE o \in -1 .. LebSize - 1 :
                /\ o \in old \cup new \cup filled \cup {-1}
                /\ \A q \in old \cup new \cup filled : q <= o
      len == Align(last + 1)
      dirt == len - Cardinality((new \cup filled) \cap 0 .. len - 1)
      placed == FoldLeft(LAMBDA t, i : Place(t, <<l, gaps[i]>>), s, [i \in 1 .. cnt |-> i])
      node(o) == IF \E x \in Znodes \ placed.zd : placed.z[x] = <<l, o>>
                 THEN <<-(CHOOSE x \in Znodes \ placed.zd : placed.z[x] = <<l, o>>), 0, 0>>
                 ELSE IF o \in old THEN s.f[l][o + 1] ELSE <<0, 0, 0>>
  IN IF l = 0 THEN s
     ELSE IF cnt = 0
          THEN IF s.lp[l].free = LebSize
               THEN [SetSpace(s, l, LebSize - len, dirt) EXCEPT !.gap_lebs = @ \cup {l}]
               ELSE [s EXCEPT !.gap_lebs = @ \cup {l}]
     ELSE leb_change([SetSpace(placed, l, LebSize - len, dirt) EXCEPT !.gap_lebs = @ \cup {l}],
                     l, [i \in 1 .. len |-> node(i - 1)])

layout_leb_in_gaps(s) == FillGaps(find_dirty_idx_leb(s))
layout_in_gaps(s) ==
  LET more(t) == t.got # 0 /\ get_leb_cnt(t, Len(t.enext)) > Len(t.ilebs)
  IN FoldLeft(LAMBDA t, i : IF i = 1 \/ more(t) THEN layout_leb_in_gaps(t) ELSE t,
              [s EXCEPT !.got = 0], [i \in 1 .. s.lst.idx + Len(s.idx_gc) + 1 |-> i])

(* The index head fills its LEB and goes on in the LEBs allocated above.   *)
NextIndexLeb(t) ==
  CASE t.ihead[2] < LebSize -> t
    [] t.ihead[2] = LebSize /\ t.ilebs = <<>> -> [t EXCEPT !.res = "nospace"]
    [] OTHER -> [t EXCEPT !.ihead = <<Head(t.ilebs), 0>>, !.ilebs = Tail(@),
                          !.filled = @ \cup {t.ihead[1]}]
AtIndexHead(t, node, dirt) ==
  SetSpace([t EXCEPT !.ihead[2] = @ + 1,
                     !.iw = Append(@, [l |-> t.ihead[1], o |-> t.ihead[2], node |-> node])],
           t.ihead[1], LebSize - t.ihead[2] - 1, t.lp[t.ihead[1]].dirty + dirt)
layout_in_empty_space(s) ==
  LET put(t) == IF t.res = "nospace" THEN t
                ELSE AtIndexHead(Place(t, t.ihead), <<-Head(t.enext), 0, 0>>, 0)
      pad(t, i) == IF t.res = "ok" /\ t.ihead[2] % MinIo # 0 THEN AtIndexHead(t, <<0, 0, 0>>, 1) ELSE t
  IN FoldLeft(pad, FoldLeft(LAMBDA t, i : put(NextIndexLeb(t)), [s EXCEPT !.res = "ok"], s.enext),
              IF s.enext = <<>> THEN <<>> ELSE [i \in 1 .. MinIo |-> i])

free_unused_idx_lebs(s) ==
  FoldLeft(LAMBDA t, l : change_lp(t, l, t.lp[l].free, t.lp[l].dirty, FALSE, FALSE, 0), s, s.ilebs)

(* Dirtiest last, as sorted by ubifs_save_dirty_idx_lnums().               *)
save_dirty_idx_lnums(s) ==
  LET val(l) == s.lp[l].free + s.lp[l].dirty
  IN [s EXCEPT !.dirty_idx = SortSeq(Listed(InCat(s, "dirty_idx")),
                                     LAMBDA a, b : val(a) < val(b))]

get_znodes_to_commit(s) ==
  [s EXCEPT !.oldz = s.z, !.iw = <<>>, !.filled = {}, !.gap_lebs = {}, !.res = "ok", !.ilebs = <<>>,
            !.enext = SelectSeq([x \in Znodes |-> x], LAMBDA x : x \in s.zd)]
layout_commit(s) == layout_in_empty_space(IF s.res = "ENOSPC" THEN layout_in_gaps(s) ELSE s)
IndexSize(s) ==
  LET bi == [s.bi EXCEPT !.old_idx_sz = s.calc_idx_sz, !.uncommitted_idx = 0]
  IN [s EXCEPT !.bi = [bi EXCEPT !.min_idx_lebs = calc_min_idx_lebs(bi)]]
tnc_start_commit(s) ==
  IF s.res = "nospace" THEN s
  ELSE IndexSize(save_dirty_idx_lnums(free_unused_idx_lebs(s)))

(* write_index() writes one minimal I/O unit after the other.              *)
tnc_end_commit(s) ==
  LET back(t, l) == return_leb(t, l)
      write(t, i) == LET c == SubSeq(s.iw, i * MinIo - MinIo + 1, i * MinIo)
                     IN leb_write(t, c[1].l, c[1].o, [j \in 1 .. MinIo |-> c[j].node])
  IN FoldLeft(write, FoldLeft(back, s, Listed(s.gap_lebs \cup s.filled)),
              [i \in 1 .. Len(s.iw) \div MinIo |-> i])

MasterNode(s, lp, lst, final) ==
  [n |-> s.n, tnc |-> s.tnc, z |-> s.z, ihead |-> s.ihead, idx_sz |-> s.bi.old_idx_sz,
   lp |-> [l \in Lebs |-> [free |-> lp[l].free, dirty |-> lp[l].dirty, index |-> lp[l].index]],
   lst |-> lst, dirty |-> ~final, gc_lnum |-> IF final THEN s.gc_lnum ELSE 0]

log_post_commit(s) ==
  [FoldLeft(LAMBDA t, b : return_leb(t, b.l), s, s.old_buds) EXCEPT !.old_buds = <<>>]

(* A commit that runs out of space for the index leaves UBIFS read-only.   *)
Resting(s) == [s EXCEPT !.cmt = "resting", !.res = "ok"]
commit_start(s) == log_start_commit(gc_start_commit(wbuf_sync(wbuf_sync(s, GCHD), BASEHD)))
commit_end(s, final) ==
  LET write(t) == Do(t, [t |-> "mst", mst |-> MasterNode(t, s.lp, s.lst, final)])
      end == gc_end_commit(log_post_commit(write(tnc_end_commit([s EXCEPT !.ldirty = FALSE]))))
  IN IF s.res = "nospace" THEN s
     ELSE [Resting(end) EXCEPT !.oldz = <<>>, !.iw = <<>>, !.ilebs = <<>>, !.enext = <<>>,
                               !.gap_lebs = {}, !.filled = {}, !.got = 0]

(***************************************************************************)
(* The volume at the start: clean, with its LEB properties right but for   *)
(* those of the LEBs in inst.wrong.                                        *)
(***************************************************************************)
FirstNodes(l) == [o \in 1 .. Len(inst.layout[l]) |-> <<inst.layout[l][o], 0, 0>>]
Where(k) == IF \E l \in Lebs : k \in ToSet(inst.layout[l])
            THEN LET l == CHOOSE l \in Lebs : k \in ToSet(inst.layout[l])
                 IN <<l, SelectInSeq(inst.layout[l], LAMBDA e : e = k) - 1>>
            ELSE None
FirstLp(l) == LET n == inst.layout[l]
              IN [free |-> LebSize - Len(n),
                  dirty |-> Len(SelectSeq(n, LAMBDA e : e = 0)) + Bit(l \in inst.wrong),
                  index |-> \E e \in ToSet(n) : e < 0]

(***************************************************************************)
(* Replay of the journal and recovery of its last LEBs.                    *)
(***************************************************************************)
Torn == <<0, -1, 0>>       \* what a cut in the middle of a write leaves
IsTorn(node) == node[2] = -1
Good(nodes) == SelectInSeq(nodes \o <<Torn>>, IsTorn) - 1

(* The buds to replay: the references from the last commit on, the first   *)
(* one for each LEB.                                                       *)
ReplayBuds(g, ms) ==
  LET refs == SelectSeq(g, LAMBDA r : r.n >= ms.n)
      first(i) == \A j \in 1 .. i - 1 : refs[j].l # refs[i].l
      idx == SelectSeq([i \in DOMAIN refs |-> i], first)
  IN [i \in DOMAIN idx |-> [l |-> refs[idx[i]].l, start |-> refs[idx[i]].offs,
                            h |-> refs[idx[i]].h]]

(* validate_ref(): another reference to a bud is to the same head and not  *)
(* to an earlier place.                                                    *)
RefsValid(g, ms) ==
  \A i, j \in DOMAIN g : i < j /\ g[i].l = g[j].l /\ g[i].n >= ms.n
                         => g[i].h = g[j].h /\ g[i].offs <= g[j].offs

(* The last bud of a head, or the one before it when the last is empty.    *)
is_last_bud(f, buds, i) ==
  LET later == {j \in i + 1 .. Len(buds) : buds[j].h = buds[i].h}
  IN \/ later = {}
     \/ \E j \in later : later = {j} /\ Len(f[buds[j].l]) <= buds[j].start

drop_last_group(nodes, start) ==
  LET whole(n) == n = start \/ nodes[n][3] = 0
  IN SubSeq(nodes, 1, CHOOSE n \in start .. Len(nodes) :
                        whole(n) /\ \A k \in n + 1 .. Len(nodes) : ~whole(k))

(* Mutant: nodes of the last I/O unit of the GC head are kept.             *)
recover_leb_all(nodes, b) ==
  LET good == SubSeq(nodes, 1, Good(nodes))
      kept0 == IF b.h = BASEHD THEN drop_last_group(good, b.start) ELSE good
      kept1 == IF Len(nodes) <= b.start THEN nodes ELSE kept0
  IN kept1 \o Pad(Align(Len(kept1)) - Len(kept1))
(* What ubifs_recover_leb() leaves of a bud that was written to when the   *)
(* power failed: whole groups in the base head, whole I/O units of the     *)
(* corrupted place in the GC head, padded.                                 *)
recover_leb(nodes, b) ==
  LET good == SubSeq(nodes, 1, Good(nodes))
      kept0 == IF b.h = BASEHD THEN drop_last_group(good, b.start)
               ELSE SubSeq(good, 1, (Len(good) \div MinIo) * MinIo)
      kept1 == IF Len(nodes) <= b.start THEN nodes ELSE kept0
  IN kept1 \o Pad(Align(Len(kept1)) - Len(kept1))

(* The flash after the journal heads are recovered.                        *)
RecoveredFlash(f, buds, ms) ==
  LET last == IF ms.dirty THEN {i \in DOMAIN buds : is_last_bud(f, buds, i)} ELSE {}
      bud(l) == CHOOSE i \in last : buds[i].l = l
      lebs == {buds[i].l : i \in last}
  IN [l \in Lebs |-> IF l \in lebs THEN recover_leb(f[l], buds[bud(l)])
                     ELSE IF l = ms.ihead[1] /\ ms.dirty THEN SubSeq(f[l], 1, ms.ihead[2])
                     ELSE f[l]]

(* Nodes to replay in the order of their sequence numbers.                 *)
ReplayEntries(f, buds) ==
  LET of(b) == SelectSeq([i \in 1 .. Monus(Len(f[b.l]), b.start) |->
                            <<f[b.l][b.start + i][2], f[b.l][b.start + i][1], b.l, b.start + i - 1>>],
                         LAMBDA e : e[2] # 0)
  IN SortSeq(FlattenSeq([i \in DOMAIN buds |-> of(buds[i])]), LAMBDA a, b : a[1] < b[1])

(* Can it be mounted?  Every LEB of the journal scans, no two nodes of one *)
(* key have the same sequence number, and the committed index is there.    *)
Mountable(f, g, ms, buds, entries) ==
  /\ RefsValid(g, ms)
  /\ \A i \in DOMAIN buds : \A o \in buds[i].start + 1 .. Len(f[buds[i].l]) :
       ~IsTorn(f[buds[i].l][o])
  /\ \A i, j \in DOMAIN entries :
       i # j /\ entries[i][2] = entries[j][2] => entries[i][1] # entries[j][1]
  /\ \A x \in Znodes : LET q == ms.z[x] IN Len(f[q[1]]) > q[2] /\ f[q[1]][q[2] + 1][1] = -x

ReplayedKeys(ms, entries) ==
  [k \in Keys |-> LET e == SelectSeq(entries, LAMBDA r : r[2] = k)
                  IN IF e = <<>> THEN ms.tnc[k] ELSE <<e[Len(e)][3], e[Len(e)][4]>>]

(* The number of updates a mount finds, -1 when what it finds is not the   *)
(* state after some number of them.                                        *)
LastUpdate(k, n) == LET r == {i \in 1 .. n : k \in ToSet(inst.reqs[i].keys)}
                    IN IF r = {} THEN 0 ELSE CHOOSE i \in r : \A j \in r : j <= i
KeptIn(f, g, ms, buds, entries, tnc) ==
  LET there(k) == tnc[k] # None /\ Len(f[tnc[k][1]]) > tnc[k][2]
                  /\ f[tnc[k][1]][tnc[k][2] + 1][1] = k
      val(k) == IF there(k) THEN f[tnc[k][1]][tnc[k][2] + 1][2] ELSE 0
      found == {n \in 0 .. Len(inst.reqs) :
                  \A k \in Keys : /\ val(k) = LastUpdate(k, n)
                                  /\ ~there(k) => tnc[k] = None /\ Where(k) = None}
      last(S) == IF S = {} THEN -1 ELSE CHOOSE n \in S : \A i \in S : i <= n
  IN IF Mountable(f, g, ms, buds, entries) THEN last(found) ELSE -1
Kept(f0, g, ms) ==
  LET replayed(f, buds, entries) == KeptIn(f, g, ms, buds, entries, ReplayedKeys(ms, entries))
      scanned(f, buds) == replayed(f, buds, ReplayEntries(f, buds))
      recovered(buds) == scanned(RecoveredFlash(f0, buds, ms), buds)
  IN recovered(ReplayBuds(g, ms))

(***************************************************************************)
(* Mounting, and the space check of fsck.ubifs.                            *)
(***************************************************************************)
StatOf(lp) ==
  LET sum(F(_)) == FoldLeft(LAMBDA a, l : a + F(lp[l]), 0, [l \in Lebs |-> l])
  IN [empty |-> sum(Empty), taken_empty |-> sum(TakenEmpty), idx |-> sum(LAMBDA p : Bit(p.index)),
      free |-> sum(LAMBDA p : p.free), dirty |-> sum(LAMBDA p : p.dirty),
      used |-> sum(Used), dead |-> sum(Dead), dark |-> sum(Dark)]

(* Every LEB gets its category again, in the order of the LEB numbers.     *)
Categorized(s) ==
  LET none == [s EXCEPT !.freeable_cnt = 0,
                        !.lp = [l \in Lebs |-> [@[l] EXCEPT !.cat = "none"]]]
  IN FoldLeft(change_category, none, [l \in Lebs |-> l])

(* Mutant: a bud that was garbage-collected before keeps its old dirt.     *)
set_bud_lprops_gced(s, b) ==
  LET p == s.lp[b.l]
      nodes == s.f[b.l]
      scanned == SelectSeq(SubSeq(nodes, b.start + 1, Len(nodes)), LAMBDA e : e[1] # 0)
      end == IF Len(nodes) > b.start THEN Len(nodes) ELSE b.start
  IN wbuf_seek(change_lp(s, b.l, LebSize - end, p.dirty + (end - b.start - Len(scanned)),
                         p.index, TRUE, 0), b.h, b.l, end)
set_bud_lprops(s, b) ==
  LET p == s.lp[b.l]
      nodes == s.f[b.l]
      scanned == SelectSeq(SubSeq(nodes, b.start + 1, Len(nodes)), LAMBDA e : e[1] # 0)
      gced == b.start = 0 /\ (p.free # LebSize \/ p.dirty # 0)
      dirty == IF gced THEN p.dirty - (LebSize - p.free) ELSE p.dirty
      end == IF Len(nodes) > b.start THEN Len(nodes) ELSE b.start
  IN wbuf_seek(change_lp(s, b.l, LebSize - end, dirty + (end - b.start - Len(scanned)),
                         p.index, TRUE, 0), b.h, b.l, end)

FirstBudget == [old_idx_sz |-> mst.idx_sz, idx_growth |-> 0, uncommitted_idx |-> 0,
                data_growth |-> 0, dd_growth |-> 0, min_idx_lebs |-> 0, nospace |-> FALSE]
ReadMaster(f, buds, fixes) ==
  [f |-> f, ops |-> IF mst.dirty THEN fixes
                    ELSE <<[t |-> "mst", mst |-> [mst EXCEPT !.dirty = TRUE]]>>,
   lp |-> [l \in Lebs |-> [free |-> mst.lp[l].free, dirty |-> mst.lp[l].dirty,
                           index |-> mst.lp[l].index, taken |-> FALSE, cat |-> "none"]],
   lst |-> mst.lst, freeable_cnt |-> 0, idx_gc_cnt |-> 0, idx_gc |-> <<>>,
   tnc |-> mst.tnc, z |-> mst.z, zd |-> {}, calc_idx_sz |-> mst.idx_sz,
   wb |-> [h \in Heads |-> Unset], buds |-> buds, old_buds |-> <<>>,
   gc_lnum |-> mst.gc_lnum,
   n |-> IF log = <<>> \/ log[Len(log)].n < mst.n THEN mst.n ELSE log[Len(log)].n,
   cmt |-> "resting", bi |-> FirstBudget, ldirty |-> FALSE, res |-> "ok",
   ihead |-> mst.ihead, dirty_idx |-> <<>>, gap_lebs |-> {}, filled |-> {},
   ilebs |-> <<>>, iw |-> <<>>, enext |-> <<>>, oldz |-> <<>>, got |-> 0,
   recovery |-> mst.dirty, fixed |-> FALSE]

(* The journal is replayed over the committed tree and LEB properties, in  *)
(* the steps of ubifs_load_filesystem().                                   *)
Loaded(f, buds) ==
  LET changed == Listed({l \in Lebs : f[l] # flash[l]})
      fixes == [i \in DOMAIN changed |-> [t |-> "change", l |-> changed[i], nodes |-> f[changed[i]]]]
  IN Take(Categorized(ReadMaster(f, buds, fixes)), mst.ihead[1])
Replayed(s) ==
  LET apply_replay_entry(t, e) == IF t.res # "ok" THEN t ELSE tnc_add(t, e[2], <<e[3], e[4]>>)
  IN FoldLeft(apply_replay_entry, s, ReplayEntries(s.f, s.buds))
BudsSet(s) ==
  LET growth(bi) == [bi EXCEPT !.min_idx_lebs = calc_min_idx_lebs(bi)]
      budget(t) == [t EXCEPT !.bi = growth([@ EXCEPT !.uncommitted_idx = Cardinality(s.zd)])]
  IN budget(FoldLeft(LAMBDA t, b : IF t.res # "ok" THEN t ELSE set_bud_lprops(t, b), s, s.buds))

(* Mutant: the LEBs of dirty znodes are not marked as used.                *)
used_lebs_clean(s) == {s.tnc[k][1] : k \in {k \in Keys : s.tnc[k] # None}}
                      \cup {s.z[x][1] : x \in Znodes \ s.zd}
(* LEBs that the tree leads to, the places of dirty znodes included, and   *)
(* what a scan says of LEB l.                                              *)
used_lebs(s) == {s.tnc[k][1] : k \in {k \in Keys : s.tnc[k] # None}}
                \cup {s.z[x][1] : x \in Znodes}
scan_get_lp(s, l) ==
  LET end == Len(s.f[l])
  IN IF l \in used_lebs(s)
     THEN [s.lp[l] EXCEPT !.free = LebSize - end, !.dirty = end - Len(LiveSeq(s, l)),
                          !.index = s.f[l][1][1] < 0]
     ELSE [s.lp[l] EXCEPT !.free = LebSize, !.dirty = 0, !.index = FALSE]

(* LEBs that became freeable by the replay or by an unfinished GC or       *)
(* commit are taken as recorded, as long as nothing was wrong before them. *)
(* A corrected LEB loses its flags; from the first one on every LEB has    *)
(* its category looked at again.                                           *)
check_and_correct_pnode(s) ==
  LET freeable(l) == s.lp[l].free + s.lp[l].dirty = LebSize /\ l \notin used_lebs(s)
      differs(l) == scan_get_lp(s, l) # s.lp[l]
      incorrect(l) == \E k \in 1 .. l : differs(k) /\ ~freeable(k)
      lp(l) == IF differs(l) THEN [scan_get_lp(s, l) EXCEPT !.taken = FALSE] ELSE s.lp[l]
  IN [l \in Lebs |-> IF incorrect(l) THEN [lp(l) EXCEPT !.cat = categorize_lprops(lp(l))]
                     ELSE s.lp[l]]
LptCorrect(s, lp) == /\ \A l \in Lebs : [lp[l] EXCEPT !.cat = s.lp[l].cat] = s.lp[l]
                     /\ [StatOf(lp) EXCEPT !.taken_empty = 0] = [s.lst EXCEPT !.taken_empty = 0]

(* After a correction no LEB is taken but that of the index head, and each *)
(* goes to the category that was found while the flags were still there.   *)
check_and_correct_lpt(s) ==
  LET lp == check_and_correct_pnode(s)
      free == [l \in Lebs |-> [lp[l] EXCEPT !.taken = FALSE, !.cat = "none"]]
      fixed == [s EXCEPT !.lp = free, !.lst = StatOf(free), !.freeable_cnt = 0, !.buds = <<>>,
                         !.wb = [h \in Heads |-> Unset], !.dirty_idx = <<>>,
                         !.fixed = TRUE, !.ldirty = TRUE]
  IN IF LptCorrect(s, lp) THEN s
     ELSE Take(FoldLeft(LAMBDA t, l : add_to_cat(t, l, lp[l].cat), fixed, [l \in Lebs |-> l]),
               s.ihead[1])

(***************************************************************************)
(* The actions.  None starts before the flash operations of the last one   *)
(* are done.                                                               *)
(***************************************************************************)
Call == [next |-> "", force |-> FALSE, gc |-> "", anyway |-> FALSE, i |-> 0, min |-> 0,
         ret |-> "", lnum |-> 0, mfs |-> 0, retried |-> FALSE, rs |-> 0, nospc |-> 0, cmt |-> 0]
Off == <<>>

At(p) == pc = p /\ todo = <<>>
To(s, p, c) == [s |-> s, pc |-> p, call |-> c]
Goto(o) == /\ m' = [o.s EXCEPT !.ops = <<>>, !.res = "ok"]
           /\ todo' = o.s.ops
           /\ pc' = o.pc
           /\ call' = o.call
           /\ UNCHANGED <<inst, flash, log, mst, kept, starts>>
Step(from, o) == /\ At(from)
                 /\ Goto(o)
                 /\ UNCHANGED upd

Mount ==
  /\ At("down")
  /\ kept >= 0
  /\ starts < inst.max_starts
  /\ \E buds \in {ReplayBuds(log, mst)} : \E f \in {RecoveredFlash(flash, buds, mst)} :
       \E l \in {Loaded(f, buds)} : \E r \in {Replayed(l)} : \E s \in {BudsSet(r)} :
         m' = [s EXCEPT !.ops = <<>>] /\ todo' = s.ops
  /\ pc' = "check"
  /\ starts' = starts + 1
  /\ UNCHANGED <<inst, flash, log, mst, call, upd, kept>>

check_and_correct_space(s) ==
  IF s.recovery \/ s.fixed THEN To(s, "rcvry_gc", Call)
  ELSE To(leb_unmap(Take(s, s.gc_lnum), s.gc_lnum), "fix", Call)
CheckSpace == /\ At("check")
              /\ \E s \in {check_and_correct_lpt(m)} : Step("check", check_and_correct_space(s))

(* ubifs_rcvry_gc_commit() looks for a LEB for GC.                         *)
grab_empty_leb(s, l) ==
  IF l = 0 THEN To(s, "no GC LEB", Call)
  ELSE To([leb_unmap(change_lp(s, l, LebSize, 0, FALSE, TRUE, 0), l) EXCEPT !.gc_lnum = l],
          "commit", [Call EXCEPT !.next = "fix"])
rcvry_gc_commit(s) ==
  LET w == s.wb[GCHD]
      dirty == IF w.lnum = 0 \/ w.offs = LebSize THEN 0 ELSE find_dirty_leb(s, w.offs, 2)
      gc(l) == IF l = 0 THEN grab_empty_leb(s, find_free_leb_for_idx(s))
               ELSE To(Take(s, l), "commit", [Call EXCEPT !.next = "rcvry_gc2", !.lnum = l])
  IN gc(dirty)
RcvryGc == Step("rcvry_gc", rcvry_gc_commit([m EXCEPT !.gc_lnum = 0]))

RcvryGcLeb ==
  LET done(s) == IF s.res = "RETAINED"
                 THEN To(leb_unmap(wbuf_sync(s, GCHD), s.gc_lnum), "fix", Call)
                 ELSE To(s, "no GC LEB", Call)
  IN Step("rcvry_gc2", done(garbage_collect_leb(m, call.lnum)))

(* commit_fix_modifications(): the commit is forced if space was corrected.*)
Fix == Step("fix", To([m EXCEPT !.fixed = FALSE], "commit",
                      [Call EXCEPT !.next = "idle", !.force = m.fixed]))

Committed(s, next, c) == To(s, IF s.res = "nospace" THEN "no space for the index" ELSE next, c)
do_commit(s, force, final, next, c) ==
  LET skip == ~force /\ nothing_to_commit(s)
  IN /\ \E t \in {IF skip THEN s ELSE commit_start(s)} :
          \E a \in {IF skip THEN t ELSE alloc_idx_lebs(get_znodes_to_commit(t))} :
            \E l \in {IF skip THEN a ELSE layout_commit(a)} :
              \E u \in {IF skip THEN l ELSE tnc_start_commit(l)} :
                Goto(Committed(IF skip THEN Resting(u) ELSE commit_end(u, final), next, c))
     /\ UNCHANGED upd
Commit == At("commit") /\ do_commit(m, call.force, FALSE, call.next, call)

(* ubifs_budget_space() for the next update.                               *)
budget_space(a, c) ==
  IF do_budget_space(a)
  THEN To([a EXCEPT !.bi.min_idx_lebs = calc_min_idx_lebs(a.bi)], "reserve", Call)
  ELSE To(m, "make_free_space", [c EXCEPT !.mfs = 0])
BudgetSpace ==
  /\ upd < Len(inst.reqs)
  /\ \/ Step("idle", budget_space(Grow(m, inst.reqs[upd + 1], 1), Call))
     \/ Step("budget", budget_space(Grow(m, inst.reqs[upd + 1], 1), call))

(* ubifs_garbage_collect() returns at once when a commit is due.           *)
StartGc(s, c, next, anyway) ==
  IF s.cmt # "resting"
  THEN To([s EXCEPT !.cmt = "required"], next, [c EXCEPT !.ret = "EAGAIN"])
  ELSE To(s, "gc", [c EXCEPT !.gc = next, !.anyway = anyway, !.i = 0, !.min = dead_wm])

EndGc(s, ret, l) ==
  LET again == ret = "EAGAIN" \/ (ret = "ENOSPC" /\ s.idx_gc # <<>>)
      t == [s EXCEPT !.cmt = IF again THEN "required" ELSE @]
  IN To(leb_unmap(wbuf_sync(t, GCHD), s.gc_lnum), call.gc,
        [call EXCEPT !.ret = IF again THEN "EAGAIN" ELSE ret, !.lnum = l])

Space(s, h) == IF s.wb[h].lnum = 0 THEN 0 ELSE LebSize - WbufPos(s, h)

(* After an index LEB the search goes on as before; after progress with    *)
(* less space in mind, without any for long with more.                     *)
NextMin(g) ==
  LET half == call.min \div 2
  IN CASE g.res = "IDX" -> call.min
       [] g.res # "IDX" /\ Space(g, GCHD) > Space(m, GCHD) -> IF half < dead_wm THEN dead_wm ELSE half
       [] OTHER -> IF call.i < SOFT_LEBS_LIMIT THEN call.min
                   ELSE IF call.min * 2 > dark_wm THEN dark_wm ELSE call.min * 2

(* One turn of the loop of ubifs_garbage_collect().                        *)
CollectGarbage ==
  LET due == m.cmt # "resting" \/ (call.i > SOFT_LEBS_LIMIT /\ m.idx_gc # <<>>)
      after(g, l) == CASE g.res = "assert" -> To(g, "assertion", Call)
                       [] g.res = "EAGAIN" -> EndGc(return_leb(g, l), "EAGAIN", 0)
                       [] g.res = "FREED" -> EndGc(g, "FREED", l)
                       [] OTHER -> To(g, "gc", [call EXCEPT !.i = @ + 1, !.min = NextMin(g)])
      collect(l) == IF due THEN EndGc(m, "EAGAIN", 0)
                    ELSE IF call.i > HARD_LEBS_LIMIT \/ l = 0 THEN EndGc(m, "ENOSPC", 0)
                    ELSE after(garbage_collect_leb(Take(m, l), l), l)
  IN Step("gc", collect(find_dirty_leb(m, call.min, IF call.anyway THEN 0 ELSE 1)))

MakeFreeSpace == Step("make_free_space", StartGc(m, call, "freed", TRUE))

(* run_gc() is over: try the budget again, or commit and try again; in the *)
(* end the file system is full.                                            *)
FreedSpace ==
  Step("freed", IF call.ret = "FREED" THEN To(return_leb(m, call.lnum), "budget", call)
                ELSE To(m, "commit", [call EXCEPT !.next = "committed", !.force = FALSE]))
CommittedSpace ==
  Step("committed", IF call.mfs < MAX_MKSPC_RETRIES
                    THEN To(m, "make_free_space", [call EXCEPT !.mfs = @ + 1])
                    ELSE To(m, IF call.retried THEN "full" ELSE "budget",
                            [call EXCEPT !.retried = TRUE]))

(* The group of nodes of update r goes to the base head, then to the tree. *)
WriteGroup(s, r, v) ==
  LET n == Len(r.keys)
      write(t, i) == wbuf_write(t, BASEHD, <<r.keys[i], v, Bit(i < n)>>)
      add(t, i) == tnc_add(t, r.keys[i], <<s.wb[BASEHD].lnum, WbufPos(s, BASEHD) + i - 1>>)
      nodes == [i \in 1 .. n |-> i]
  IN release_budget(FoldLeft(add, FoldLeft(write, s, nodes), nodes), r)
Written(s) == To(WriteGroup(s, inst.reqs[upd + 1], upd + 1), "idle", Call)

(* make_reservation() runs a commit and tries again, a number of times.    *)
RetryReservation(s, err) ==
  LET again == err = "EAGAIN" \/ call.nospc < 2
  IN To(s, IF again /\ call.cmt <= inst.cmt_retries THEN "commit" ELSE "budget broken",
        [call EXCEPT !.nospc = IF err = "ENOSPC" THEN @ + 1 ELSE @, !.cmt = @ + 1,
                     !.rs = 0, !.next = "reserve", !.force = FALSE])

(* A bud in LEB l for the base head; its buffer is written out first.      *)
WriteToNewBud(s, l) ==
  LET offs == LebSize - s.lp[l].free
      added(a) == IF a.res = "EAGAIN" THEN RetryReservation(return_leb(a, l), "EAGAIN")
                  ELSE Written(wbuf_seek(a, BASEHD, l, offs))
  IN added(add_bud_to_log(wbuf_sync(s, BASEHD), BASEHD, l, offs))

(* reserve_space() for the next update, and the write itself.              *)
reserve_space(s, len) ==
  LET opened(t, l) == IF s.lp[l].free = LebSize THEN leb_unmap(t, l) ELSE t
      in(l) == IF l = 0 THEN StartGc(s, call, "reserve_gc", FALSE)
               ELSE WriteToNewBud(opened(Take(s, l), l), l)
  IN IF Space(s, BASEHD) >= len THEN Written(s) ELSE in(find_free_space(s, len))
reserve_freed ==
  CASE call.ret = "FREED" -> WriteToNewBud(m, call.lnum)
    [] call.ret = "ENOSPC" /\ call.rs < 2 -> To(m, "reserve", [call EXCEPT !.rs = @ + 1])
    [] OTHER -> RetryReservation(m, call.ret)
Write(from, o) == /\ At(from)
                  /\ \E w \in {o} : Goto(w) /\ upd' = upd + Bit(w.pc = "idle")
Reserve == Write("reserve", reserve_space(m, Len(inst.reqs[upd + 1].keys)))
ReserveFreed == Write("reserve_gc", reserve_freed)

(* The program ends: after its last commit, or without it when the file    *)
(* system is full.                                                         *)
FinalCommit == At("idle") /\ do_commit(m, TRUE, TRUE, "exit", Call)
Exit ==
  /\ At("exit") \/ At("full")
  /\ pc' = "down"
  /\ m' = Off
  /\ call' = Call
  /\ upd' = kept
  /\ UNCHANGED <<inst, flash, log, mst, todo, kept, starts>>

(* The flash does what it was told to; a cut loses the rest and may leave  *)
(* the write that was going on torn after its first torn nodes.            *)
FlashStep ==
  /\ todo # <<>>
  /\ LET op == Head(todo)
     IN /\ flash' = OnFlash(flash, op)
        /\ log' = OnLog(log, op)
        /\ mst' = IF op.t = "mst" THEN op.mst ELSE mst
  /\ kept' = Kept(flash', log', mst')
  /\ todo' = Tail(todo)
  /\ UNCHANGED <<inst, m, pc, call, upd, starts>>

PowerCut(torn) ==
  /\ pc # "down" \/ todo # <<>>
  /\ starts < inst.max_starts
  /\ torn < MinIo => todo # <<>> /\ Head(todo).t = "write"
  /\ flash' = IF torn = MinIo THEN flash
              ELSE [flash EXCEPT ![Head(todo).l] = @ \o SubSeq(Head(todo).nodes, 1, torn)
                                                    \o [i \in 1 .. MinIo - torn |-> Torn]]
  /\ todo' = <<>>
  /\ pc' = "down"
  /\ m' = Off
  /\ call' = Call
  /\ kept' = Kept(flash', log, mst)
  /\ upd' = kept'
  /\ UNCHANGED <<inst, log, mst, starts>>

Init ==
  /\ inst \in Instances
  /\ flash = [l \in Lebs |-> FirstNodes(l)]
  /\ log = <<>>
  /\ mst = LET lp == [l \in Lebs |-> FirstLp(l)]
               flags == [l \in Lebs |-> [free |-> lp[l].free, dirty |-> lp[l].dirty,
                                         index |-> lp[l].index, taken |-> FALSE]]
           IN [n |-> 1, tnc |-> [k \in Keys |-> Where(k)], z |-> [x \in Znodes |-> Where(-x)],
               ihead |-> inst.ihead, idx_sz |-> inst.root, lp |-> lp, lst |-> StatOf(flags),
               dirty |-> FALSE, gc_lnum |-> inst.gc_lnum]
  /\ todo = <<>>
  /\ m = Off
  /\ pc = "down"
  /\ call = Call
  /\ upd = 0
  /\ kept = 0
  /\ starts = 0

Next ==
  \/ Mount \/ CheckSpace \/ RcvryGc \/ RcvryGcLeb \/ Fix \/ Commit
  \/ BudgetSpace \/ MakeFreeSpace \/ CollectGarbage \/ FreedSpace \/ CommittedSpace
  \/ Reserve \/ ReserveFreed \/ FinalCommit \/ Exit
  \/ FlashStep
  \/ \E torn \in 0 .. MinIo : PowerCut(torn)

Spec == Init /\ [][Next]_vars

(***************************************************************************)
(* Properties.                                                             *)
(***************************************************************************)
Prefix == INSTANCE DurablePrefix WITH done <- upd

(* Whatever GC, commit and recovery move, and whenever the power fails     *)
(* (also in the middle of a write), a mount finds the files as they were   *)
(* after a prefix of the updates, with no update in part, and never fewer  *)
(* than a mount would have found before.                                   *)
IsDurablePrefix == Prefix!PrefixSpec

(* LEB properties that were right stay right: what the replay makes of the *)
(* committed ones after a power cut is what the scan of scan_get_lp()      *)
(* finds, and the totals are their sums.  Only an index LEB may have its   *)
(* free space recorded as dirty, when the cut came after                   *)
(* layout_in_gaps() changed the LEB and before the commit ended.           *)
ScanAgrees ==
  pc = "check" /\ (inst.wrong = {} \/ mst.n > 1) =>
    /\ \A l \in Lebs :
         LET p == m.lp[l]
             q == scan_get_lp(m, l)
         IN /\ p.free + p.dirty = q.free + q.dirty
            /\ l \in used_lebs(m) => p.index = q.index /\ (p.index \/ p.free = q.free)
    /\ [StatOf(m.lp) EXCEPT !.taken_empty = m.lst.taken_empty] = m.lst

(* An update that ubifs_budget_space() let through can be written, and     *)
(* every commit finds room for the index.                                  *)
BudgetHonoured == pc \notin {"budget broken", "no space for the index", "assertion"}

(* ubifs_rcvry_gc_commit() always finds a LEB for the garbage collector,   *)
(* by the rule of ubifs_recover_leb() for the GC head.                     *)
GcLebRecovered == pc # "no GC LEB"

(* When nothing is going on, each LEB has exactly the free and the dirty   *)
(* space that its LEB properties say, write-buffers included.              *)
SpaceExact ==
  At("idle") =>
    \A l \in Lebs :
      LET h == {h \in Heads : m.wb[h].lnum = l}
          buf == IF h = {} THEN <<>> ELSE m.wb[CHOOSE x \in h : TRUE].buf
          all == m.f[l] \o buf
          live == {o \in 1 .. Len(all) :
                     \/ all[o][1] > 0 /\ m.tnc[all[o][1]] = <<l, o - 1>>
                     \/ all[o][1] < 0 /\ m.z[-all[o][1]] = <<l, o - 1>> /\ -all[o][1] \notin m.zd}
      IN live # {} => /\ m.lp[l].free = LebSize - Len(all)
                      /\ m.lp[l].dirty = Len(all) - Cardinality(live)

(* LEB properties agree with the LEBs, in use (ubifs_change_one_lp()) as     *)
(* well as after a power cut, a replay and a recovery (check_space.c).       *)
SpaceAgrees == ScanAgrees /\ SpaceExact
=============================================================================
