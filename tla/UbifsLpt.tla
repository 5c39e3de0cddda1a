------------------------------ MODULE UbifsLpt ------------------------------
(***************************************************************************)
(* The LEB properties tree (LPT) of UBIFS, a wandering tree with an area   *)
(* and a garbage collection of its own: how mkfs lays it out, how a mount  *)
(* reads it, how lookups mark its nodes dirty while a commit is running,   *)
(* and how a commit lays out, writes and collects it.                      *)
(*                                                                         *)
(* A node of the tree is <<level, column>>; level 0 are the pnodes, which  *)
(* hold the properties of Fanout main LEBs (here one value).  A position   *)
(* is <<LEB, offset>> with the LPT LEBs numbered from 1, and Nowhere is    *)
(* the branch of a node that was never written.                            *)
(***************************************************************************)
EXTENDS Integers, FiniteSets, SequencesExt, TLC

CONSTANTS Fanout,       \* children of an nnode
          Geometries,   \* the volumes that are explored: sizes, counts, and the
                        \* bounds max_commits, max_cuts and max_changes (changes
                        \* from the start of one commit to the next)
          Vals,         \* contents of a pnode; 0 says that its LEBs are empty
          EmptyCommits  \* whether a commit may find dirty nnodes but no dirty pnode

ASSUME LptAssumption ==
  Fanout \in Nat \ {0, 1} /\ 0 \in Vals /\ Vals \subseteq Nat /\ EmptyCommits \in BOOLEAN

VARIABLES geo,    \* the geometry of the volume
          flash,  \* the LPT area: programmed bytes and nodes of every LEB
          mst,    \* what the master node on the flash says about the LPT
          pc,
          mem,    \* the LPT in memory
          cm,     \* the commit that is running
          spent,  \* commits and cuts, and changes in the last round
          disk    \* the table that a mount would read (see Next)

vars == <<geo, flash, mst, pc, mem, cm, spent, disk>>

Nowhere == <<0, 0>>
Bad == <<-1, -1>>       \* where an unreadable nnode points to
Lebs == 1..geo.lebs
Max2(a, b) == IF a > b THEN a ELSE b
DivUp(n, d) == (n + d - 1) \div d
Align(n) == DivUp(n, geo.min_io) * geo.min_io
Sum(f, n) == LET s[i \in 0..n] == IF i = 0 THEN 0 ELSE s[i - 1] + f[i] IN s[n]

(* The nodes of level l that cover n pnodes, from left to right.             *)
Width(n, l) == Max2(1, DivUp(n, Fanout ^ l))
Row(n, l) == [i \in 1..Width(n, l) |-> <<l, i - 1>>]
Rows(n, hght) == FlattenSeq([i \in 1..hght + 1 |-> Row(n, i - 1)])

(* The tree of every geometry: its nodes, the children of a node, the path   *)
(* from a node to the root, and all nodes, children before their parents     *)
(* (the order of first_dirty_cnode and next_dirty_cnode).                    *)
Tree ==
  [g \in Geometries |->
     LET nodes == Range(Rows(g.pnodes, g.hght))
         order[l \in 0..g.hght] ==
           [n \in Range(Row(g.pnodes, l)) |->
              FlattenSeq([i \in 1..Fanout |->
                            LET c == <<l - 1, n[2] * Fanout + i - 1>>
                            IN IF l > 0 /\ c \in nodes THEN order[l - 1][c] ELSE <<>>])
              \o <<n>>]
     IN [cnodes |-> nodes,
         pnodes |-> Range(Row(g.pnodes, 0)),
         kids |-> [n \in nodes |-> {c \in nodes : c[1] + 1 = n[1] /\ c[2] \div Fanout = n[2]}],
         path |-> [n \in nodes |-> {<<l, n[2] \div (Fanout ^ (l - n[1]))>> : l \in n[1]..g.hght}],
         order |-> order[g.hght][<<g.hght, 0>>]]]

Ltab == <<-1, 0>>       \* the LEB properties of the LPT area itself
Lsave == <<-2, 0>>      \* the main LEBs worth loading at mount (big model)
Tables == IF geo.big THEN {Ltab, Lsave} ELSE {Ltab}
Pnodes == Tree[geo].pnodes
Cnodes == Tree[geo].cnodes
Items == Cnodes \cup {Ltab, Lsave}
Root == <<geo.hght, 0>>
Parent(n) == <<n[1] + 1, n[2] \div Fanout>>
Children(n) == Tree[geo].kids[n]
Path(n) == Tree[geo].path[n]
Size(x) == CASE x = Ltab -> geo.ltab_sz
             [] x = Lsave -> geo.lsave_sz
             [] x[1] = 0 -> geo.pnode_sz
             [] OTHER -> geo.nnode_sz
Sizes(xs) ==
  LET cnt(T) == Cardinality(xs \cap T)
  IN geo.pnode_sz * cnt(Pnodes) + geo.nnode_sz * cnt(Cnodes \ Pnodes)
     + geo.ltab_sz * cnt({Ltab}) + geo.lsave_sz * cnt({Lsave})

(* The least size of the LPT and the space that node ends and padding waste. *)
LptSzOf ==
  [g \in Geometries |->
     LET nnodes == Cardinality(Tree[g].cnodes) - g.pnodes
         net == g.pnodes * g.pnode_sz + nnodes * g.nnode_sz
                + g.ltab_sz + (IF g.big THEN g.lsave_sz ELSE 0)
         per == Max2(g.pnode_sz, g.nnode_sz)
         sz(i) == net + per + i * (per - g.leb_size)
         waste[i \in Nat] == IF sz(i) <= g.leb_size THEN i ELSE waste[i + 1]
         last == sz(waste[0])
     IN net + per + waste[0] * per + DivUp(last, g.min_io) * g.min_io - last]
LptSz == LptSzOf[geo]

(* mkfs takes the big model when the LPT exceeds a LEB, and gives the area   *)
(* four times the size of the LPT, and two LEBs at least.                    *)
SizedByMkfs(g) ==
  /\ g.big <=> LptSzOf[g] > g.leb_size
  /\ g.lebs = Max2(2, DivUp(4 * LptSzOf[g], g.leb_size))

ASSUME GeometryAssumption ==
  \A g \in Geometries : /\ SizedByMkfs(g)
                        /\ g.made <= g.pnodes /\ g.pnodes <= Fanout ^ g.hght
                        /\ g.busy \subseteq 0..g.pnodes - 1

(* ------------------------------------------------ what is on the flash -- *)

Blank == [top |-> 0, node |-> [o \in {} |-> 0]]

HasNode(fl, pos, x) ==
  /\ pos[1] \in Lebs
  /\ pos[2] \in DOMAIN fl[pos[1]].node
  /\ fl[pos[1]].node[pos[2]].x = x

BodyAt(fl, pos) == fl[pos[1]].node[pos[2]].body

(* Where the branches that start at root say that every node is.             *)
Branches(fl, root) ==
  LET at[l \in 0..geo.hght] ==
        [n \in {m \in Cnodes : m[1] = l} |->
           IF l = geo.hght THEN root
           ELSE LET up == at[l + 1][Parent(n)]
                IN CASE up = Nowhere -> Nowhere
                     [] up # Nowhere /\ ~HasNode(fl, up, Parent(n)) -> Bad
                     [] OTHER -> BodyAt(fl, up)[n]]
  IN [n \in Cnodes |-> at[n[1]][n]]

(* The table of properties that those branches lead to; -1 is unreadable.    *)
TableAt(fl, root) ==
  LET at == Branches(fl, root)
  IN [p \in Pnodes |-> CASE at[p] = Nowhere -> 0
                         [] at[p] # Nowhere /\ HasNode(fl, at[p], p) -> BodyAt(fl, at[p])
                         [] OTHER -> -1]

(* ------------------------------------------------ mkfs: ubifs_create_lpt -- *)

(* One item after the other, the next LEB when an item does not fit.         *)
Pack(items) ==
  FoldLeft(LAMBDA st, x :
             LET fits == st.offs + Size(x) <= geo.leb_size
                 pos == IF fits THEN <<st.lnum, st.offs>> ELSE <<st.lnum + 1, 0>>
             IN [lnum |-> pos[1], offs |-> pos[2] + Size(x), at |-> (x :> pos) @@ st.at],
           [lnum |-> 1, offs |-> 0, at |-> [x \in {} |-> Nowhere]], items)

Created ==
  LET items == Rows(geo.made, geo.hght) \o (IF geo.big THEN <<Lsave>> ELSE <<>>) \o <<Ltab>>
      packed == Pack(items)
      at == [x \in Items |-> IF x \in DOMAIN packed.at THEN packed.at[x] ELSE Nowhere]
      len == [l \in Lebs |-> Sizes({x \in Items : at[x][1] = l})]
      ltab == [l \in Lebs |-> [free |-> geo.leb_size - Align(len[l]),
                               dirty |-> Align(len[l]) - len[l]]]
      body(x) == CASE x = Ltab -> ltab
                   [] x = Lsave -> 0
                   [] x[1] = 0 -> 0
                   [] OTHER -> [c \in Children(x) |-> at[c]]
      holds(l, o) == CHOOSE x \in Items : at[x] = <<l, o>>
  IN [flash |-> [l \in Lebs |->
                   [top |-> Align(len[l]),
                    node |-> [o \in {at[x][2] : x \in {y \in Items : at[y][1] = l}} |->
                                [x |-> holds(l, o), body |-> body(holds(l, o))]]]],
      mst |-> [root |-> at[Root], ltab |-> at[Ltab], lsave |-> at[Lsave],
               nhead |-> <<packed.lnum, Align(packed.offs)>>, dirty |-> FALSE]]

(* -------------------------------------------------------------- mounting -- *)

Off == [up |-> FALSE]
NoCommit == [cnext |-> <<>>, ops |-> <<>>, snap |-> [p \in {} |-> 0]]

Keep(leb, o) == [top |-> o, node |-> [i \in {j \in DOMAIN leb.node : j < o} |-> leb.node[i]]]

(* Whatever a half-written commit left behind the LPT head is removed.       *)
RecoverHead(fl, head) ==
  IF fl[head[1]].top <= head[2] THEN fl
  ELSE [fl EXCEPT ![head[1]] = IF head[2] = 0 THEN Blank ELSE Keep(@, head[2])]

Mount ==
  /\ pc = "down"
  /\ flash' = IF mst.dirty THEN RecoverHead(flash, mst.nhead) ELSE flash
  /\ pc' = "mount"
  /\ UNCHANGED <<geo, mst, mem, cm, spent>>

(* lpt_init_rd and lpt_init_wr: the tables are read and the LEBs that the    *)
(* ltab calls empty are unmapped.  Nodes are read when they are needed.  A    *)
(* mount that cannot read a table stops here.                                *)
LptInit ==
  /\ pc = "mount"
  /\ HasNode(flash, mst.ltab, Ltab)
  /\ geo.big => HasNode(flash, mst.lsave, Lsave)
  /\ \E ltab \in {BodyAt(flash, mst.ltab)} :
       /\ flash' = [l \in Lebs |-> IF ltab[l].free = geo.leb_size THEN Blank ELSE flash[l]]
       /\ mem' = [up |-> TRUE,
                  val |-> TableAt(flash, mst.root),
                  at |-> Branches(flash, mst.root) @@ (Ltab :> mst.ltab) @@ (Lsave :> mst.lsave),
                  dirty |-> {}, cow |-> {}, nhead |-> mst.nhead, chk |-> geo.big,
                  ltab |-> [l \in Lebs |-> [free |-> ltab[l].free, dirty |-> ltab[l].dirty,
                                            tgc |-> FALSE, cmt |-> FALSE]]]
  /\ pc' = "mark"
  /\ UNCHANGED <<geo, mst, cm, spent>>

(* A volume that was clean is marked dirty before anything is written to it. *)
MarkDirtyMount ==
  /\ pc = "mark"
  /\ mst' = [mst EXCEPT !.dirty = TRUE]
  /\ pc' = "idle"
  /\ UNCHANGED <<geo, flash, mem, cm, spent>>

Unmount ==
  /\ pc = "idle"
  /\ mst' = [mst EXCEPT !.dirty = FALSE]
  /\ pc' = "down" /\ mem' = Off /\ cm' = NoCommit
  /\ UNCHANGED <<geo, flash, spent>>

(* --------------------------------------------- changing LEB properties -- *)

(* ubifs_add_lpt_dirt for all of xs: the place of a node that will be        *)
(* written again is dirty space.  A node that was never written has none.    *)
AddLptDirt(m, xs) ==
  [l \in Lebs |-> [m.ltab[l] EXCEPT !.dirty = @ + Sizes({x \in xs : m.at[x][1] = l})]]

(* Nodes become dirty once; one that is being committed (COW) is copied and  *)
(* the copy is dirty anew.  With the root goes the ltab.                     *)
MakeDirty(m, xs) ==
  LET hit == (xs \ m.dirty) \cup (xs \cap m.cow)
      tab == IF Root \in hit THEN {Ltab} \ m.dirty ELSE {}
  IN [m EXCEPT !.ltab = AddLptDirt(m, hit \cup tab),
               !.dirty = @ \cup hit \cup tab,
               !.cow = @ \ xs]

(* ubifs_change_lp on a LEB of pnode p.  This also happens while a commit is *)
(* running: return_gap_lebs() before the LPT is written, and                 *)
(* ubifs_gc_end_commit() after the master node is.                           *)
ChangeLp(p, v) ==
  /\ pc \in {"idle", "started", "post"}
  /\ v # mem.val[p] /\ spent.changes < geo.max_changes
  /\ mem' = [MakeDirty(mem, Path(p)) EXCEPT !.val[p] = v]
  /\ cm' = IF p \in mem.cow THEN [cm EXCEPT !.copy = (p :> mem.val[p]) @@ @] ELSE cm
  /\ spent' = [spent EXCEPT !.changes = @ + 1]
  /\ UNCHANGED <<geo, flash, mst, pc>>

(* ------------------------------------------------- LPT garbage collection -- *)

OnlyDirtAndFree(m, l) == m.ltab[l].free + m.ltab[l].dirty = geo.leb_size

(* Mutant: the tree is never rewritten for lack of space.                    *)
NeverWriteAll(m) == m.nhead[2] < 0

(* At most twice the size of the LPT is left.                                *)
NeedWriteAll(m) ==
  Sum([l \in Lebs |-> IF l = m.nhead[1] THEN geo.leb_size - m.nhead[2]
                      ELSE IF m.ltab[l].free = geo.leb_size \/ OnlyDirtAndFree(m, l)
                           THEN geo.leb_size ELSE 0], geo.lebs) <= LptSz * 2

(* LEBs with nothing but dirty and free space are free after this commit.    *)
TgcStart(m) ==
  [m EXCEPT !.ltab = [l \in Lebs |->
     IF l # m.nhead[1] /\ m.ltab[l].dirty > 0 /\ OnlyDirtAndFree(m, l)
     THEN [m.ltab[l] EXCEPT !.tgc = TRUE, !.free = geo.leb_size, !.dirty = 0]
     ELSE m.ltab[l]]]

GcCandidates(m) ==
  {l \in Lebs : l # m.nhead[1] /\ ~OnlyDirtAndFree(m, l) /\ m.ltab[l].dirty > 0}

(* The nodes of a LEB that the branches and tables still lead to.            *)
Current(m, l) ==
  {flash[l].node[o].x : o \in {q \in DOMAIN flash[l].node : m.at[flash[l].node[q].x] = <<l, q>>}}

(* Mutant: the parents of the collected nodes stay clean.                    *)
GcLnumOnly(m, l) == MakeDirty(m, Current(m, l))

(* lpt_gc_lnum: every node of the LEB that is not obsolete becomes dirty.    *)
GcLnum(m, l) ==
  MakeDirty(m, (Current(m, l) \cap Tables) \cup UNION {Path(n) : n \in Current(m, l) \cap Cnodes})

(* lpt_gc: the dirtiest LEB, the first of them.                              *)
LptGc(m) ==
  LET most == CHOOSE d \in {m.ltab[l].dirty : l \in GcCandidates(m)} :
                \A l \in GcCandidates(m) : m.ltab[l].dirty <= d
      l == CHOOSE k \in GcCandidates(m) :
             /\ m.ltab[k].dirty = most
             /\ \A j \in GcCandidates(m) : m.ltab[j].dirty = most => k <= j
  IN GcLnum(m, l)

(* ----------------------------------------------------------------- layout -- *)

(* The dirty cnodes, children before their parents.                          *)
CnodesToCommit(dirty) == SelectSeq(Tree[geo].order, LAMBDA n : n \in dirty)

(* The next LEB of S after lnum, wrapping around.                            *)
NextLeb(lnum, S) ==
  LET after == {l \in S : l > lnum}
      first(T) == CHOOSE l \in T : \A k \in T : l <= k
  IN IF after # {} THEN first(after) ELSE first(S)

(* alloc_lpt_leb takes an empty LEB and marks it for this commit,            *)
(* realloc_lpt_leb takes the LEBs that were marked, in the same order.       *)
Allocatable(ltab) ==
  {l \in Lebs : ~ltab[l].tgc /\ ~ltab[l].cmt /\ ltab[l].free = geo.leb_size}
Reallocatable(ltab) == {l \in Lebs : ltab[l].cmt}
Usable(ltab, layout) == IF layout THEN Allocatable(ltab) ELSE Reallocatable(ltab)

Fits(st, x) == st.offs + Size(x) <= geo.leb_size

Put(st, x) == [st EXCEPT !.at = (x :> <<st.lnum, st.offs>>) @@ @, !.offs = @ + Size(x)]

(* Mutant: the padding is not counted.                                       *)
CloseNoPad(st) ==
  [st EXCEPT !.ltab[st.lnum].free = geo.leb_size - Align(st.offs),
             !.chunks = Append(@, <<st.lnum, st.from, Align(st.offs)>>)]

(* The rest of the LEB is given up: padding is dirty, the remainder free.    *)
Close(st) ==
  [st EXCEPT !.ltab[st.lnum].free = geo.leb_size - Align(st.offs),
             !.ltab[st.lnum].dirty = @ + Align(st.offs) - st.offs,
             !.chunks = Append(@, <<st.lnum, st.from, Align(st.offs)>>)]

Fresh(st, layout) ==
  LET c == Close(st)
      l == NextLeb(st.lnum, Usable(c.ltab, layout))
  IN IF Usable(c.ltab, layout) = {} THEN [st EXCEPT !.ok = FALSE]
     ELSE [c EXCEPT !.lnum = l, !.offs = 0, !.from = 0, !.ltab[l].cmt = layout]

(* The common walk of layout_cnodes and write_cnodes: lsave and ltab first   *)
(* if they fit, otherwise at the start of the next LEB or at the end.        *)
Place(m, cnodes, layout) ==
  LET start == [lnum |-> m.nhead[1], offs |-> m.nhead[2], from |-> m.nhead[2], ok |-> TRUE,
                ltab |-> m.ltab, at |-> [x \in {} |-> Nowhere], chunks |-> <<>>, todo |-> <<>>]
      early == FoldLeft(LAMBDA st, x : IF Fits(st, x) THEN Put(st, x)
                                       ELSE [st EXCEPT !.todo = Append(@, x)],
                        start, IF geo.big THEN <<Lsave, Ltab>> ELSE <<Ltab>>)
      table(st) == [Put(st, Head(st.todo)) EXCEPT !.todo = Tail(@)]
      room(st, x) == IF ~st.ok \/ Fits(st, x) THEN st
                     ELSE LET f == Fresh(st, layout)
                          IN IF f.ok /\ f.todo # <<>> THEN table(f) ELSE f
      one(st, x) == LET r == room(room(room(st, x), x), x)
                    IN IF r.ok THEN Put(r, x) ELSE r
      late(st, x) == IF ~st.ok \/ Fits(st, x) THEN st ELSE Fresh(st, layout)
      laid == FoldLeft(one, early, cnodes)
      done == FoldLeft(LAMBDA st, x : LET r == late(st, x)
                                      IN IF r.ok THEN Put(r, x) ELSE r, laid, laid.todo)
  IN IF done.ok THEN Close(done) ELSE done

(* ----------------------------------------------------------------- commit -- *)

(* The check for free space is done once after mounting (big model), since   *)
(* the nodes that garbage collection made dirty were forgotten.  A commit    *)
(* runs although no property changed when it is part of mounting, and when   *)
(* garbage collection made nodes dirty (nothing_to_commit); unless           *)
(* EmptyCommits, not when all that is dirty are nnodes.                      *)
BeginCommit ==
  /\ pc = "idle" /\ spent.commits < geo.max_commits
  /\ \/ mem.dirty \cap Pnodes # {}
     \/ mem.dirty = {} /\ ~(mem.chk /\ NeedWriteAll(mem))
     \/ EmptyCommits
  /\ pc' = IF mem.chk THEN "gc_start" ELSE "layout"
  /\ mem' = [mem EXCEPT !.chk = FALSE]
  /\ spent' = [spent EXCEPT !.commits = @ + 1, !.changes = 0]
  /\ UNCHANGED <<geo, flash, mst, cm>>

(* The loops around lpt_gc in ubifs_lpt_start_commit and _post_commit.       *)
GcLoop ==
  /\ pc \in {"gc_start", "gc_post"}
  /\ \E need \in {NeedWriteAll(mem)} :
       /\ mem' = IF need /\ GcCandidates(mem) # {} THEN LptGc(mem) ELSE mem
       /\ pc' = CASE ~need /\ pc = "gc_start" -> "layout"
                  [] ~need /\ pc = "gc_post" -> "idle"
                  [] need /\ GcCandidates(mem) = {} -> "no_space"
                  [] OTHER -> pc
  /\ UNCHANGED <<geo, flash, mst, cm, spent>>

(* The small model writes the whole tree when space runs low.                *)
WriteAllIfNeeded(m) ==
  IF ~geo.big /\ NeedWriteAll(m)
  THEN TgcStart(MakeDirty(m, UNION {Path(p) : p \in {q \in Pnodes : m.at[q] # Nowhere \/ q[2] = 0}}))
  ELSE m

PopulateLsave(m) ==
  IF geo.big THEN [m EXCEPT !.ltab = AddLptDirt(m, {Lsave} \ m.dirty), !.dirty = @ \cup {Lsave}]
  ELSE m

StartCommit ==
  /\ pc = "layout"
  /\ \E m \in {TgcStart(mem)} :
       IF m.dirty \cap Pnodes = {}
       THEN /\ mem' = m /\ cm' = [NoCommit EXCEPT !.snap = mem.val]
            /\ pc' = "started"
       ELSE \E n \in {PopulateLsave(WriteAllIfNeeded(m))} :
            \E cnext \in {CnodesToCommit(n.dirty)} :
            \E laid \in {Place(n, cnext, TRUE)} :
              /\ mem' = [n EXCEPT !.at = laid.at @@ @, !.ltab = laid.ltab,
                                  !.cow = Range(cnext), !.dirty = @ \ Tables]
              /\ cm' = [cnext |-> cnext, ops |-> <<>>, snap |-> mem.val,
                        copy |-> [p \in {} |-> 0],
                        ltab |-> [l \in Lebs |-> [free |-> laid.ltab[l].free,
                                                  dirty |-> laid.ltab[l].dirty]]]
              /\ pc' = IF laid.ok THEN "started" ELSE "no_space"
  /\ UNCHANGED <<geo, flash, mst, spent>>

(* Mutant: changes made while the commit runs slip into it.                  *)
PackedNow(x) ==
  CASE x = Ltab -> cm.ltab
    [] x = Lsave -> 0
    [] x \in Pnodes -> mem.val[x]
    [] OTHER -> [c \in Children(x) |-> mem.at[c]]

(* What write_cnodes packs for an item: a cnode that was copied meanwhile is *)
(* written as it was when the commit started.                                *)
Packed(x) ==
  CASE x = Ltab -> cm.ltab
    [] x = Lsave -> 0
    [] x \in Pnodes -> IF x \in DOMAIN cm.copy THEN cm.copy[x] ELSE mem.val[x]
    [] OTHER -> [c \in Children(x) |-> mem.at[c]]

Unmap(l) == [op |-> "unmap", lnum |-> l]

WriteOp(at, chunk) ==
  LET xs == {x \in DOMAIN at : at[x][1] = chunk[1] /\ at[x][2] \in chunk[2]..chunk[3] - 1}
      holds(o) == CHOOSE x \in xs : at[x][2] = o
  IN [op |-> "write", lnum |-> chunk[1], from |-> chunk[2], to |-> chunk[3],
      node |-> [o \in {at[x][2] : x \in xs} |-> [x |-> holds(o), body |-> Packed(holds(o))]]]

(* A LEB is unmapped before its first byte is written.                       *)
WriteOps(st) ==
  FlattenSeq([i \in 1..Len(st.chunks) |->
                LET c == st.chunks[i]
                IN (IF c[2] = 0 THEN <<Unmap(c[1])>> ELSE <<>>)
                   \o (IF c[3] > c[2] THEN <<WriteOp(st.at, c)>> ELSE <<>>)])

EndCommit ==
  /\ pc = "started"
  /\ IF cm.cnext = <<>> THEN pc' = "written" /\ UNCHANGED <<mem, cm>>
     ELSE \E st \in {Place(mem, cm.cnext, FALSE)} :
            /\ pc' = IF st.ok THEN "writing" ELSE "no_space"
            /\ cm' = [cm EXCEPT !.ops = IF st.ok THEN WriteOps(st) ELSE <<>>]
            /\ mem' = [mem EXCEPT !.ltab = [l \in Lebs |-> [@[l] EXCEPT !.cmt = st.ltab[l].cmt]],
                                  !.dirty = @ \ mem.cow, !.cow = {},
                                  !.nhead = <<st.lnum, Align(st.offs)>>]
  /\ UNCHANGED <<geo, flash, mst, spent>>

(* Programming bytes that are programmed already leaves nothing readable.    *)
Written(leb, op, to) ==
  LET got == {o \in DOMAIN op.node : o + Size(op.node[o].x) <= to}
  IN IF leb.top > op.from THEN [Keep(leb, op.from) EXCEPT !.top = to]
     ELSE [top |-> to, node |-> [o \in got |-> op.node[o]] @@ leb.node]

WriteStep ==
  /\ pc = "writing" /\ cm.ops # <<>>
  /\ \E op \in {Head(cm.ops)} :
       flash' = [flash EXCEPT ![op.lnum] = IF op.op = "unmap" THEN Blank ELSE Written(@, op, op.to)]
  /\ cm' = [cm EXCEPT !.ops = Tail(@)]
  /\ UNCHANGED <<geo, mst, pc, mem, spent>>

(* log_end_commit writes the master node with the new LPT positions.         *)
WriteMaster ==
  /\ pc = "written" \/ (pc = "writing" /\ cm.ops = <<>>)
  /\ mst' = [root |-> mem.at[Root], ltab |-> mem.at[Ltab], lsave |-> mem.at[Lsave],
             nhead |-> mem.nhead, dirty |-> TRUE]
  /\ cm' = [NoCommit EXCEPT !.snap = cm.snap] /\ pc' = "post"
  /\ UNCHANGED <<geo, flash, mem, spent>>

(* lpt_tgc_end unmaps the LEBs marked by lpt_tgc_start, one at a time.       *)
TgcEnd ==
  /\ pc \in {"post", "tgc"}
  /\ \E marked \in {{l \in Lebs : mem.ltab[l].tgc}} :
       IF marked = {}
       THEN /\ pc' = IF geo.big THEN "gc_post" ELSE "idle"
            /\ UNCHANGED <<flash, mem>>
       ELSE \E l \in {CHOOSE k \in marked : \A j \in marked : k <= j} :
            /\ flash' = [flash EXCEPT ![l] = Blank]
            /\ mem' = [mem EXCEPT !.ltab[l].tgc = FALSE]
            /\ pc' = "tgc"
  /\ UNCHANGED <<geo, mst, cm, spent>>

(* The power fails; a write that was going on is programmed up to any        *)
(* minimal I/O unit.                                                         *)
PowerCut ==
  /\ pc \notin {"down", "no_space"} /\ spent.cuts < geo.max_cuts
  /\ IF pc = "writing" /\ cm.ops # <<>> /\ Head(cm.ops).op = "write"
     THEN \E op \in {Head(cm.ops)} : \E k \in 0..(op.to - op.from) \div geo.min_io :
            flash' = IF k = 0 THEN flash
                     ELSE [flash EXCEPT ![op.lnum] = Written(@, op, op.from + k * geo.min_io)]
     ELSE UNCHANGED flash
  /\ spent' = [spent EXCEPT !.cuts = @ + 1, !.changes = 0]
  /\ pc' = "down" /\ mem' = Off /\ cm' = NoCommit
  /\ UNCHANGED <<geo, mst>>

Init ==
  /\ geo \in Geometries
  /\ flash = Created.flash /\ mst = Created.mst
  /\ pc = "down" /\ mem = Off /\ cm = NoCommit
  /\ spent = [commits |-> 0, cuts |-> 0, changes |-> 0]
  /\ disk = TableAt(flash, mst.root)

Step ==
  \/ Mount \/ LptInit \/ MarkDirtyMount \/ Unmount
  \/ \E i \in geo.busy, v \in Vals : ChangeLp(<<0, i>>, v)
  \/ BeginCommit \/ GcLoop \/ StartCommit \/ EndCommit \/ WriteStep
  \/ WriteMaster \/ TgcEnd \/ PowerCut

(* disk only observes the flash: no step reads it.                           *)
Next == Step /\ disk' = IF UNCHANGED <<flash, mst>> THEN disk ELSE TableAt(flash', mst'.root)

Spec == Init /\ [][Next]_vars

(* -------------------------------------------------------------- properties -- *)

T == INSTANCE LpropsTable
       WITH cur <- IF mem.up THEN mem.val ELSE [p \in {} |-> 0],
            snap <- IF DOMAIN cm.snap = {} THEN disk ELSE cm.snap

(* The LPT is a durable table: the tree that the master node leads to always *)
(* holds the LEB properties exactly as they were when the last finished      *)
(* commit started, whatever was changed while it ran (dirty_cow_pnode) and   *)
(* wherever the power failed.                                                *)
IsDurableTable == T!DurableTable

(* "LPT is designed never to run out of space" (alloc_lpt_leb): with the     *)
(* area sized by ubifs_calc_dflt_lpt_geom() neither layout_cnodes() nor      *)
(* write_cnodes() nor lpt_gc() ever finds no LEB.                            *)
NeverOutOfSpace == pc # "no_space"

(* "The dirty nodes are written next commit, after which the LEB is free to  *)
(* be reused" (lpt_gc_lnum): no commit loses a node of the LPT.              *)
DirtyNodesWritten == \A p \in Pnodes : disk[p] # -1

(* A node that is not dirty can be dropped from memory and read again: it is *)
(* on the flash where its parent says, with the contents it has in memory.   *)
CleanIsOnFlash ==
  mem.up /\ pc # "writing" =>
    \A n \in Cnodes \ mem.dirty :
      mem.at[n] # Nowhere =>
        /\ HasNode(flash, mem.at[n], n)
        /\ BodyAt(flash, mem.at[n]) = IF n \in Pnodes THEN mem.val[n]
                                      ELSE [c \in Children(n) |-> mem.at[c]]

(* What dbg_check_ltab_lnum computes from the contents of an LPT LEB: all    *)
(* that is programmed and not a live node is dirty.                          *)
LiveNodes(l) == Current(mem, l) \ mem.dirty
CheckLtabLnum(l) ==
  [free |-> geo.leb_size - flash[l].top, dirty |-> flash[l].top - Sizes(LiveNodes(l))]

(* Right after a mount, whatever cut went before, and between commits the    *)
(* ltab agrees with the LPT area.  One difference is harmless: a commit that *)
(* finds no dirty pnode unmaps LEBs without writing the ltab, which still    *)
(* calls them all dirty.                                                     *)
LtabRight ==
  pc = "idle" =>
    \A l \in Lebs :
      \/ [free |-> mem.ltab[l].free, dirty |-> mem.ltab[l].dirty] = CheckLtabLnum(l)
      \/ flash[l].top = 0 /\ mem.ltab[l].free + mem.ltab[l].dirty = geo.leb_size

(* What lpt_commit.c holds in memory agrees with the LPT area: the clean     *)
(* nodes with the nodes on flash, the ltab with the space they leave.        *)
LptAgrees == CleanIsOnFlash /\ LtabRight
=============================================================================
