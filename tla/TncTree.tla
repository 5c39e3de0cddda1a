------------------------------- MODULE TncTree -------------------------------
(***************************************************************************)
(* The Tree Node Cache: the B+tree of index nodes that tnc.c and           *)
(* tnc_misc.c keep in memory, as operators on a tree value.                *)
(*                                                                         *)
(* A tree is a record: zn, the znodes by address, each with its level,     *)
(* its flags dirty and alt, its parent and its slot iip there, and its     *)
(* branches; root and rpos, the znode and the flash position of c->zroot;  *)
(* old, the old_idx RB-tree; twice, set when a position is put into that   *)
(* tree a second time; dirty_zn_cnt; live, the number of index nodes of    *)
(* each LEB that its properties take to be neither free nor dirty space.   *)
(* Slots count from 1, so that slot 0 is the code's -1; address 0 is NULL. *)
(*                                                                         *)
(* A key is <<inum, type, block or hash>>.  The position of a leaf node is *)
(* <<name, version>>: reading the node yields the name.  An index node     *)
(* that is not cached equals the clean znode its position holds, so the    *)
(* whole tree is kept as if it were loaded.  Nothing runs between          *)
(* ubifs_tnc_start_commit() and ubifs_tnc_end_commit() in these programs:  *)
(* no operation ever meets a znode with cnext set, and copy_znode() and    *)
(* replace_znode() have no counterpart here.                               *)
(***************************************************************************)
EXTENDS Integers, FiniteSetsExt, SequencesExt, TLC

CONSTANT Fanout  \* c->fanout

ASSUME FanoutAssumption == Fanout \in Nat /\ Fanout >= 3  \* UBIFS_MIN_FANOUT

INO == 0
DATA == 1
DENT == 2
XENT == 3

NoPos == <<0, 0>>       \* lnum, offs and len are zero
Nowhere == [zn |-> 0, n |-> 0]

KeyLt(a, b) ==
  \/ a[1] < b[1]
  \/ a[1] = b[1] /\ (a[2] < b[2] \/ (a[2] = b[2] /\ a[3] < b[3]))

IsHashKey(key) == key[2] \in {DENT, XENT}

Branch(key, pos, child) == [key |-> key, pos |-> pos, child |-> child]

Znode(level, dirty, parent, iip, br) ==
  [level |-> level, dirty |-> dirty, alt |-> FALSE,
   parent |-> parent, iip |-> iip, br |-> br]

Br(t, z) == t.zn[z].br

At(t, p) == Br(t, p.zn)[p.n]

(***************************************************************************)
(* Searching.                                                              *)
(***************************************************************************)
(* The binary search: the slot of an equal key, or of the closest smaller    *)
(* one.  Of several equal keys it finds the one its steps meet first.        *)
SearchZbranch(br, key) ==
  LET bs[beg \in 0..Len(br), end \in 0..Len(br)] ==
        IF end <= beg
        THEN [n |-> end, exact |-> FALSE]
        ELSE CHOOSE r \in {IF KeyLt(br[mid + 1].key, key) THEN bs[mid + 1, end]
                           ELSE IF KeyLt(key, br[mid + 1].key) THEN bs[beg, mid]
                           ELSE [n |-> mid + 1, exact |-> TRUE]
                             : mid \in {(beg + end) \div 2}} : TRUE
  IN bs[0, Len(br)]

(* Down to the level of the leaves along the first or the last branches.     *)
Leftmost(t, z) ==
  LET f[x \in DOMAIN t.zn] ==
        IF t.zn[x].level = 0 THEN x ELSE f[Br(t, x)[1].child]
  IN f[z]

Rightmost(t, z) ==
  LET f[x \in DOMAIN t.zn] ==
        IF t.zn[x].level = 0 THEN x ELSE f[Last(Br(t, x)).child]
  IN f[z]

TncNext(t, p) ==
  LET up[x \in DOMAIN t.zn] ==
        IF t.zn[x].parent = 0 THEN Nowhere
        ELSE IF t.zn[x].iip < Len(Br(t, t.zn[x].parent))
             THEN [zn |-> Leftmost(t, Br(t, t.zn[x].parent)[t.zn[x].iip + 1].child),
                   n |-> 1]
             ELSE up[t.zn[x].parent]
  IN IF p.n < Len(Br(t, p.zn)) THEN [p EXCEPT !.n = @ + 1] ELSE up[p.zn]

LastSlot(t, z) == [zn |-> z, n |-> Len(Br(t, z))]

TncPrev(t, p) ==
  LET up[x \in DOMAIN t.zn] ==
        IF t.zn[x].parent = 0 THEN Nowhere
        ELSE IF t.zn[x].iip > 1
             THEN LastSlot(t, Rightmost(t, Br(t, t.zn[x].parent)[t.zn[x].iip - 1].child))
             ELSE up[t.zn[x].parent]
  IN IF p.n > 1 THEN [p EXCEPT !.n = @ - 1] ELSE up[p.zn]

(* From the root to the leaf whose range the key falls into.                 *)
Descend(t, key) ==
  LET f[x \in DOMAIN t.zn] ==
        CHOOSE r \in {IF t.zn[x].level = 0
                      THEN [zn |-> x, n |-> s.n, found |-> s.exact]
                      ELSE f[Br(t, x)[IF s.n = 0 THEN 1 ELSE s.n].child]
                        : s \in {SearchZbranch(Br(t, x), key)}} : TRUE
  IN f[t.root]

NeverLookLeft(t, key, r, p) == r

(* A colliding key may also sit at the end of the leaf to the left.          *)
LookLeft(t, key, r, p) ==
  IF r.found \/ ~IsHashKey(key) \/ r.n # 0 THEN r
  ELSE IF p # Nowhere /\ At(t, p).key = key
       THEN [zn |-> p.zn, n |-> p.n, found |-> TRUE]
       ELSE r

LookupAt(t, key, r) == LookLeft(t, key, r, TncPrev(t, [zn |-> r.zn, n |-> r.n]))

LookupLevel0(t, key) == LookupAt(t, key, Descend(t, key))

(***************************************************************************)
(* Dirtying.                                                               *)
(***************************************************************************)
ZPos(t, z) ==
  IF t.zn[z].parent = 0 THEN t.rpos ELSE Br(t, t.zn[z].parent)[t.zn[z].iip].pos

(* A clean znode that becomes dirty leaves an obsolete node on flash: the    *)
(* LEB it is in has one live node less.                                      *)
AddIdxDirt(live, lost) ==
  [l \in DOMAIN live |-> live[l] - Cardinality({p \in lost : p[1] = l})]

DirtyAll(t, S) ==
  [t EXCEPT !.zn = [x \in S |-> [@[x] EXCEPT !.dirty = TRUE]] @@ @,
            !.live = AddIdxDirt(@, {ZPos(t, x) : x \in {y \in S : ~t.zn[y].dirty}}),
            !.dirty_zn_cnt = @ + Cardinality({x \in S : ~t.zn[x].dirty})]

(* The path from the root to a znode.                                        *)
PathTo(t, z) ==
  LET f[x \in DOMAIN t.zn] ==
        IF t.zn[x].parent = 0 THEN {x} ELSE {x} \cup f[t.zn[x].parent]
  IN f[z]

(* Up to the last dirty ancestor, then back down.                            *)
DirtyCowBottomUp(t, z) ==
  LET f[x \in DOMAIN t.zn] ==
        IF t.zn[x].parent = 0 \/ t.zn[x].dirty
        THEN {x} ELSE {x} \cup f[t.zn[x].parent]
  IN DirtyAll(t, f[z])

EnsureDirty(t, z) == IF t.zn[z].dirty THEN t ELSE DirtyCowBottomUp(t, z)

(* What a dirtying lookup returns: the tree and the place.                   *)
Found(t, r) == [t |-> t, zn |-> r.zn, n |-> r.n, found |-> r.found]

DirtyAt(t, r) == Found(EnsureDirty(t, r.zn), r)

LookupDirtied(t, key, r) == DirtyAt(t, LookupAt(t, key, r))

DescendDirty(t, key, r) == LookupDirtied(DirtyAll(t, PathTo(t, r.zn)), key, r)

LookupLevel0Dirty(t, key) == DescendDirty(t, key, Descend(t, key))

(***************************************************************************)
(* Collisions: several entries with one hash.                              *)
(***************************************************************************)
NameAt(t, p) == At(t, p).pos[1]

(* The place before the first of the colliding entries.  It is in the leaf   *)
(* the entries are in, even if the entry before them is in the leaf to the   *)
(* left.                                                                     *)
Before(t, p, q) ==
  IF q = Nowhere THEN [p EXCEPT !.n = 0]
  ELSE IF q.n = Len(Br(t, q.zn)) THEN [TncNext(t, q) EXCEPT !.n = 0]
  ELSE q

Place(p, found) == [zn |-> p.zn, n |-> p.n, found |-> found]

RECURSIVE ResolveLeft(_, _, _, _, _)
ResolveLeft(t, key, nm, p, q) ==  \* q = TncPrev(t, p)
  IF q = Nowhere \/ At(t, q).key # key THEN Place(Before(t, p, q), FALSE)
  ELSE IF NameAt(t, q) < nm THEN Place(q, FALSE)
  ELSE IF NameAt(t, q) = nm THEN Place(q, TRUE)
  ELSE ResolveLeft(t, key, nm, q, TncPrev(t, q))

RECURSIVE ResolveRight(_, _, _, _, _)
ResolveRight(t, key, nm, p, q) ==  \* q = TncNext(t, p)
  IF q = Nowhere \/ At(t, q).key # key \/ NameAt(t, q) > nm THEN Place(p, FALSE)
  ELSE IF NameAt(t, q) = nm THEN Place(q, TRUE)
  ELSE ResolveRight(t, key, nm, q, TncNext(t, q))

ResolveCollision(t, key, nm, p) ==
  IF NameAt(t, p) = nm THEN Place(p, TRUE)
  ELSE IF NameAt(t, p) > nm THEN ResolveLeft(t, key, nm, p, TncPrev(t, p))
  ELSE ResolveRight(t, key, nm, p, TncNext(t, p))

(* The same when nodes may be gone from the media.  s: the place, the last   *)
(* dangling branch seen, and whether the other direction has to be tried.    *)
RECURSIVE FallibleLeft(_, _, _, _, _, _, _)
FallibleLeft(t, gone, key, nm, adding, s, q) ==  \* q = TncPrev(t, s.p)
  IF q = Nowhere \/ At(t, q).key # key THEN [s EXCEPT !.p = Before(t, @, q)]
  ELSE IF <<key, At(t, q).pos>> \in gone
       THEN FallibleLeft(t, gone, key, nm, adding,
                         [s EXCEPT !.p = q, !.dangling = q], TncPrev(t, q))
  ELSE IF NameAt(t, q) = nm THEN [s EXCEPT !.p = q, !.found = TRUE]
  ELSE IF adding /\ NameAt(t, q) < nm THEN [s EXCEPT !.p = q]
  ELSE FallibleLeft(t, gone, key, nm, adding,
                    [s EXCEPT !.p = q, !.unsure = @ /\ ~adding], TncPrev(t, q))

RECURSIVE FallibleRight(_, _, _, _, _, _)
FallibleRight(t, gone, key, nm, s, q) ==  \* q = TncNext(t, s.p)
  IF q = Nowhere \/ At(t, q).key # key THEN s
  ELSE IF <<key, At(t, q).pos>> \in gone
       THEN FallibleRight(t, gone, key, nm,
                          [s EXCEPT !.p = q, !.dangling = q], TncNext(t, q))
  ELSE IF NameAt(t, q) > nm THEN s
  ELSE IF NameAt(t, q) = nm THEN [s EXCEPT !.p = q, !.found = TRUE]
  ELSE FallibleRight(t, gone, key, nm, [s EXCEPT !.p = q], TncNext(t, q))

DanglingTakenToAdd(adding, s) ==
  IF s.found \/ s.dangling = Nowhere THEN Place(s.p, s.found) ELSE Place(s.dangling, TRUE)

(* Removing takes a dangling branch if the name is nowhere; adding never.    *)
FallibleResult(adding, s) ==
  IF s.found THEN Place(s.p, TRUE)
  ELSE IF adding \/ s.dangling = Nowhere THEN Place(s.p, FALSE)
  ELSE Place(s.dangling, TRUE)

FallibleBack(t, gone, key, nm, adding, p, less, s) ==
  IF ~s.found /\ (less \/ s.unsure)
  THEN FallibleRight(t, gone, key, nm, [s EXCEPT !.p = p], TncNext(t, p))
  ELSE s

FallibleTurns(t, gone, key, nm, adding, p, lost) ==
  FallibleResult(adding,
    FallibleBack(t, gone, key, nm, adding, p, ~lost /\ NameAt(t, p) < nm,
      CHOOSE s \in {IF s0.unsure \/ NameAt(t, p) > nm
                    THEN FallibleLeft(t, gone, key, nm, adding, s0, TncPrev(t, p))
                    ELSE s0
                      : s0 \in {[p |-> p, found |-> FALSE, unsure |-> lost \/ ~adding,
                                 dangling |-> IF lost THEN p ELSE Nowhere]}} : TRUE))

FallibleResolveCollision(t, gone, key, nm, adding, p) ==
  IF <<key, At(t, p).pos>> \notin gone /\ NameAt(t, p) = nm THEN Place(p, TRUE)
  ELSE FallibleTurns(t, gone, key, nm, adding, p, <<key, At(t, p).pos>> \in gone)

RECURSIVE DirectlyLeft(_, _, _, _)
DirectlyLeft(t, key, pos, q) ==
  IF q = Nowhere \/ At(t, q).key # key THEN Nowhere
  ELSE IF At(t, q).pos = pos THEN q
  ELSE DirectlyLeft(t, key, pos, TncPrev(t, q))

RECURSIVE DirectlyRight(_, _, _, _)
DirectlyRight(t, key, pos, q) ==
  IF q = Nowhere \/ At(t, q).key # key THEN Nowhere
  ELSE IF At(t, q).pos = pos THEN q
  ELSE DirectlyRight(t, key, pos, TncNext(t, q))

(* The branch with this very position, at p or among the colliding ones.     *)
ResolveCollisionDirectly(t, key, pos, p) ==
  IF At(t, p).pos = pos THEN p
  ELSE IF ~IsHashKey(key) THEN Nowhere
  ELSE CHOOSE r \in {IF l # Nowhere THEN l
                     ELSE DirectlyRight(t, key, pos, TncNext(t, p))
                       : l \in {DirectlyLeft(t, key, pos, TncPrev(t, p))}} : TRUE

(***************************************************************************)
(* The old index: positions of index nodes that the last commit wrote and  *)
(* that a lookup can no longer be relied on to find.                       *)
(***************************************************************************)
SetZPos(t, z, pos) ==
  IF t.zn[z].parent = 0 THEN [t EXCEPT !.rpos = pos]
  ELSE [t EXCEPT !.zn[t.zn[z].parent].br[t.zn[z].iip].pos = pos]

InsertOldIdx(t, pos) ==
  IF pos = NoPos THEN t
  ELSE [t EXCEPT !.old = @ \cup {pos}, !.twice = @ \/ pos \in t.old]

InsertOldIdxZnode(t, z) == InsertOldIdx(t, ZPos(t, z))

OldIdxNotNoted(t, z) == t

InsClrOldIdxZnode(t, z) == SetZPos(InsertOldIdxZnode(t, z), z, NoPos)

(***************************************************************************)
(* Insertion.                                                              *)
(***************************************************************************)
(* Children from a slot on are told their slot.                              *)
Renumber(zn, z, from) ==
  IF zn[z].level = 0 THEN zn
  ELSE [x \in {zn[z].br[i].child : i \in from..Len(zn[z].br)} |->
          [zn[x] EXCEPT !.iip = CHOOSE i \in from..Len(zn[z].br) : zn[z].br[i].child = x]]
       @@ zn

InsertZbranch(t, z, b, n) ==
  [t EXCEPT !.zn = Renumber([@ EXCEPT ![z].br = InsertAt(@, n, b),
                                      ![z].alt = @ \/ n = 1], z, n)]

RECURSIVE CorrectKeys(_, _, _)
CorrectKeys(t, key, z) ==
  IF t.zn[z].parent = 0 \/ t.zn[z].iip # 1
     \/ ~KeyLt(key, Br(t, t.zn[z].parent)[1].key) THEN t
  ELSE CorrectKeys([t EXCEPT !.zn[t.zn[z].parent].br[1].key = key,
                             !.zn[t.zn[z].parent].alt = TRUE], key, t.zn[z].parent)

ParentKeysUntouched(t, z) == t

CorrectParentKeys(t, z) == CorrectKeys(t, Br(t, z)[1].key, z)

IsDataOf(k, key) == k[1] = key[1] /\ k[2] = DATA

(* Where a full znode is split: how many branches it keeps, whether the new  *)
(* branch goes to the znode split off and into which slot, and whether data  *)
(* keys are being appended.  Consecutive data keys are kept together.        *)
Halves(n, keep, app) ==
  IF n <= keep THEN [keep |-> keep - 1, right |-> FALSE, n |-> n, app |-> app]
  ELSE [keep |-> keep, right |-> TRUE, n |-> n - keep, app |-> app]

CheckSplit(br, key, n) ==
  IF /\ n > (Fanout + 1) \div 2
     /\ IsDataOf(br[1].key, key) /\ ~IsDataOf(br[n].key, key)
  THEN [keep |-> n - 1, right |-> FALSE, n |-> n, app |-> FALSE]
  ELSE Halves(n, (Fanout + 1) \div 2, FALSE)

SplitPoint(level, br, key, n, app) ==
  IF n # Fanout + 1 /\ ((level = 0 /\ key[2] = DATA) \/ app)
  THEN CheckSplit(br, key, n)
  ELSE IF (level = 0 /\ key[2] = DATA /\ IsDataOf(br[Fanout].key, key)) \/ app
  THEN Halves(n, Fanout, TRUE)
  ELSE Halves(n, (Fanout + 1) \div 2, FALSE)

NewId(t) == CHOOSE x \in 1..Cardinality(DOMAIN t.zn) + 1 : x \notin DOMAIN t.zn

(* Half of the branches of z move to the new znode x, their children too.    *)
Orphaned(zn, z, keep) ==
  IF zn[z].level = 0 THEN {} ELSE {zn[z].br[i].child : i \in keep + 1..Fanout}

MoveZbranches(t, z, x, keep) ==
  [t EXCEPT
    !.dirty_zn_cnt = @ + 1,
    !.zn = Renumber(
      (x :> Znode(@[z].level, TRUE, @[z].parent, 0, SubSeq(@[z].br, keep + 1, Fanout)))
        @@ (z :> [@[z] EXCEPT !.br = SubSeq(@, 1, keep)])
        @@ [y \in Orphaned(@, z, keep) |-> [@[y] EXCEPT !.parent = x]]
        @@ @, x, 1)]

(* The new branch goes into the left or into the right half.                 *)
SplitInsert(t, z, x, b, d) ==
  IF d.right
  THEN InsertZbranch(IF b.child # 0 THEN [t EXCEPT !.zn[b.child].parent = x] ELSE t,
                     x, b, d.n)
  ELSE InsertZbranch(t, z, b, d.n)

(* A new root above z and x.                                                 *)
SplitRoot(t, z, x, r) ==
  [t EXCEPT
    !.dirty_zn_cnt = @ + 1, !.root = r, !.rpos = NoPos,
    !.zn = (r :> Znode(@[z].level + 1, TRUE, 0, 1, <<Branch(@[z].br[1].key, t.rpos, z),
                                                     Branch(@[x].br[1].key, NoPos, x)>>))
             @@ (z :> [@[z] EXCEPT !.parent = r, !.iip = 1])
             @@ (x :> [@[x] EXCEPT !.parent = r, !.iip = 2])
             @@ @]

RECURSIVE TncInsert(_, _, _, _, _)
TncInsert(t, z, b, n, app) ==
  LET Inserted(u) == IF n = 1 /\ u.zn[z].parent # 0 /\ u.zn[z].iip = 1
                     THEN CorrectParentKeys(u, z) ELSE u
      Above(u, x, d) ==
        IF u.zn[z].parent = 0 THEN SplitRoot(u, z, x, NewId(u))
        ELSE CHOOSE v \in {TncInsert(w, w.zn[z].parent, Branch(Br(w, x)[1].key, NoPos, x),
                                     w.zn[z].iip + 1, d.app)
                             : w \in {IF d.n = 1 /\ ~d.right /\ u.zn[z].iip = 1
                                      THEN CorrectParentKeys(u, z) ELSE u}} : TRUE
      SplitAt(u, x, d) == Above(SplitInsert(MoveZbranches(u, z, x, d.keep), z, x, b, d), x, d)
      Split(u) == SplitAt(u, NewId(u), SplitPoint(u.zn[z].level, Br(u, z), b.key, n, app))
  IN IF Len(Br(t, z)) < Fanout THEN Inserted(InsertZbranch(t, z, b, n))
     ELSE Split(IF t.zn[z].alt THEN InsClrOldIdxZnode(t, z) ELSE t)

(***************************************************************************)
(* Deletion.                                                               *)
(***************************************************************************)
FreeZnode(t, z) ==
  [t EXCEPT !.zn = [x \in DOMAIN @ \ {z} |-> @[x]], !.dirty_zn_cnt = @ - 1]

(* A root with one child gives way to it.                                    *)
RECURSIVE Collapse(_)
Collapse(t) ==
  LET Promote(u, z) ==
        [FreeZnode(InsertOldIdx(u, u.rpos), u.root)
           EXCEPT !.zn[z].parent = 0, !.zn[z].iip = 1,
                  !.root = z, !.rpos = Br(u, u.root)[1].pos]
  IN IF Len(Br(t, t.root)) # 1 \/ t.zn[t.root].level = 0 THEN t
     ELSE Collapse(Promote(DirtyAll(t, {Br(t, t.root)[1].child}),
                           Br(t, t.root)[1].child))

(* An empty znode is taken out of its parent, and so are the ancestors that  *)
(* have no other child.                                                      *)
RECURSIVE Prune(_, _)
Prune(t, z) ==
  LET TakeOut(u, zp, n) ==
        [u EXCEPT !.zn = Renumber([@ EXCEPT ![zp].br = RemoveAt(@, n)], zp, n)]
      Freed(u, zp, n) ==
        IF Len(Br(u, zp)) = 1 THEN Prune(u, zp)
        ELSE IF u.zn[zp].parent = 0 THEN Collapse(TakeOut(u, zp, n))
        ELSE TakeOut(u, zp, n)
  IN Freed(FreeZnode(InsertOldIdxZnode(t, z), z), t.zn[z].parent, t.zn[z].iip)

DeletedFrom(t, z) ==
  IF Len(Br(t, z)) > 0 \/ t.zn[z].parent = 0 THEN t ELSE Prune(t, z)

TncDelete(t, z, n) == DeletedFrom([t EXCEPT !.zn[z].br = RemoveAt(@, n)], z)

(***************************************************************************)
(* The operations.                                                         *)
(***************************************************************************)
AddAt(r, key, pos) ==
  IF r.found THEN [r.t EXCEPT !.zn[r.zn].br[r.n].pos = pos]
  ELSE TncInsert(r.t, r.zn, Branch(key, pos, 0), r.n + 1, FALSE)

TncAdd(t, key, pos) == AddAt(LookupLevel0Dirty(t, key), key, pos)

RemoveAtPlace(r) == IF r.found THEN TncDelete(r.t, r.zn, r.n) ELSE r.t

TncRemove(t, key) == RemoveAtPlace(LookupLevel0Dirty(t, key))

(* The place a colliding name resolves to, dirtied.                          *)
Resolve(r, gone, replaying, key, nm, adding) ==
  IF ~r.found THEN r
  ELSE CHOOSE x \in {Found(EnsureDirty(r.t, p.zn), p)
         : p \in {IF replaying
                  THEN FallibleResolveCollision(r.t, gone, key, nm, adding,
                                                [zn |-> r.zn, n |-> r.n])
                  ELSE ResolveCollision(r.t, key, nm, [zn |-> r.zn, n |-> r.n])}} : TRUE

RemoveResolved(r, p) ==  \* the znode is dirtied only when the name was found
  IF p.found THEN RemoveAtPlace(p) ELSE r.t

RemoveNmAt(r, gone, replaying, key, nm) ==
  RemoveResolved(r, Resolve(r, gone, replaying, key, nm, FALSE))

TncRemoveNm(t, gone, replaying, key, nm) ==
  RemoveNmAt(LookupLevel0Dirty(t, key), gone, replaying, key, nm)

(* A name that no entry has, to remove a branch whose node is gone.          *)
NoName == 0

AddNmAt(r, gone, replaying, key, pos) ==
  IF r.found \/ ~replaying THEN AddAt(r, key, pos)
  ELSE TncRemoveNm(AddAt(r, key, pos), gone, TRUE, key, NoName)

TncAddNm(t, gone, replaying, key, pos) ==
  AddNmAt(Resolve(LookupLevel0Dirty(t, key), gone, replaying, key, pos[1], TRUE),
          gone, replaying, key, pos)

(* The branch with this very position is pointed to the new one.             *)
Repoint(t, p, pos) ==
  IF p = Nowhere THEN t
  ELSE [EnsureDirty(t, p.zn) EXCEPT !.zn[p.zn].br[p.n].pos = pos]

TncReplaced(r, key, old, new) ==
  IF ~r.found THEN r.t
  ELSE Repoint(r.t, ResolveCollisionDirectly(r.t, key, old, [zn |-> r.zn, n |-> r.n]), new)

TncReplace(t, key, old, new) == TncReplaced(LookupLevel0Dirty(t, key), key, old, new)

NodeRemoved(t, p) ==
  IF p = Nowhere THEN t ELSE TncDelete(EnsureDirty(t, p.zn), p.zn, p.n)

TncRemoveNodeAt(r, key, pos) ==
  IF ~r.found THEN r.t
  ELSE NodeRemoved(r.t, ResolveCollisionDirectly(r.t, key, pos, [zn |-> r.zn, n |-> r.n]))

TncRemoveNode(t, key, pos) == TncRemoveNodeAt(LookupLevel0Dirty(t, key), key, pos)

KeyInRange(key, from, to) == ~KeyLt(key, from) /\ ~KeyLt(to, key)

(* All the branches of one leaf that are in the range and follow slot n go   *)
(* at once, then the one at n, then the search starts again.                 *)
RECURSIVE TncRemoveRange(_, _, _)
TncRemoveRange(t, from, to) ==
  LET Keep(br, n) ==
        SubSeq(br, 1, n)
          \o SelectSeq(SubSeq(br, n + 1, Len(br)),
                       LAMBDA b : ~KeyInRange(b.key, from, to))
      Shorten(u, p) ==
        TncDelete([u EXCEPT !.zn[p.zn].br = Keep(@, p.n)], p.zn, p.n)
      Step(p) ==
        IF p = Nowhere \/ ~KeyInRange(At(t, p).key, from, to) THEN t
        ELSE TncRemoveRange(Shorten(EnsureDirty(t, p.zn), p), from, to)
      From(r) == IF r.found THEN [zn |-> r.zn, n |-> r.n]
                 ELSE TncNext(t, [zn |-> r.zn, n |-> r.n])
  IN Step(From(LookupLevel0(t, from)))

(***************************************************************************)
(* Reading.                                                                *)
(***************************************************************************)
(* ubifs_tnc_lookup_nm(): the position of a name, or NoPos.                  *)
PosAt(t, p) == IF p.found THEN At(t, p).pos ELSE NoPos

TncLookupNm(t, key, nm) ==
  CHOOSE pos \in {IF ~r.found THEN NoPos
                  ELSE IF NameAt(t, r) = nm THEN At(t, r).pos
                  ELSE PosAt(t, ResolveCollision(t, key, nm, [zn |-> r.zn, n |-> r.n]))
                    : r \in {LookupLevel0(t, key)}} : TRUE

TncLocate(t, key) == PosAt(t, LookupLevel0(t, key))

(* The entry after the one with this key and name (NoName: the first one     *)
(* from the key on) in the same directory.                                   *)
Entry(t, key, p) ==
  IF p = Nowhere \/ At(t, p).key[1] # key[1] \/ At(t, p).key[2] # key[2]
  THEN Nowhere ELSE p

NextEntAt(t, key, nm, r) ==
  IF nm # NoName
  THEN CHOOSE q \in {TncNext(t, [zn |-> p.zn, n |-> p.n])
                       : p \in {IF r.found
                                THEN ResolveCollision(t, key, nm, [zn |-> r.zn, n |-> r.n])
                                ELSE r}} : TRUE
  ELSE IF r.found THEN [zn |-> r.zn, n |-> r.n]
  ELSE TncNext(t, [zn |-> r.zn, n |-> r.n])

TncNextEnt(t, key, nm) == Entry(t, key, NextEntAt(t, key, nm, LookupLevel0(t, key)))

(* Whether a branch with this key has this very position.                    *)
IsLeafNodeInTnc(t, key, pos) ==
  \E r \in {LookupLevel0(t, key)} :
    /\ r.found
    /\ ResolveCollisionDirectly(t, key, pos, [zn |-> r.zn, n |-> r.n]) # Nowhere

(***************************************************************************)
(* Finding an index node by the first key it has on flash.                 *)
(***************************************************************************)
AtLevel(t, z, level, right) ==
  LET f[x \in DOMAIN t.zn] ==
        IF t.zn[x].level = level THEN x
        ELSE f[Br(t, x)[IF right THEN Len(Br(t, x)) ELSE 1].child]
  IN f[z]

LeftZnode(t, z) ==
  LET up[x \in DOMAIN t.zn] ==
        IF t.zn[x].parent = 0 THEN 0
        ELSE IF t.zn[x].iip > 1
             THEN AtLevel(t, Br(t, t.zn[x].parent)[t.zn[x].iip - 1].child,
                          t.zn[z].level, TRUE)
             ELSE up[t.zn[x].parent]
  IN up[z]

RightZnode(t, z) ==
  LET up[x \in DOMAIN t.zn] ==
        IF t.zn[x].parent = 0 THEN 0
        ELSE IF t.zn[x].iip < Len(Br(t, t.zn[x].parent))
             THEN AtLevel(t, Br(t, t.zn[x].parent)[t.zn[x].iip + 1].child,
                          t.zn[z].level, FALSE)
             ELSE up[t.zn[x].parent]
  IN up[z]

(* The branch, of a znode one level above, that the key leads to.            *)
RECURSIVE ParentSlot(_, _, _, _)
ParentSlot(t, key, level, z) ==
  LET Slot(x, n) == IF t.zn[x].level = level + 1 THEN [zn |-> x, n |-> n]
                    ELSE ParentSlot(t, key, level, Br(t, x)[n].child)
      Left(x) == IF x = 0 THEN Nowhere ELSE Slot(x, SearchZbranch(Br(t, x), key).n)
      Here(n) == IF n = 0 THEN Left(LeftZnode(t, z)) ELSE Slot(z, n)
  IN Here(SearchZbranch(Br(t, z), key).n)

RECURSIVE ZnodeLeft(_, _, _, _)
ZnodeLeft(t, key, pos, p) ==
  LET Check(q) == IF q.zn = 0 THEN 0
                  ELSE IF At(t, q).pos = pos THEN At(t, q).child
                  ELSE IF KeyLt(At(t, q).key, key) THEN 0
                  ELSE ZnodeLeft(t, key, pos, q)
  IN IF p.n > 1 THEN Check([p EXCEPT !.n = @ - 1])
     ELSE Check(IF LeftZnode(t, p.zn) = 0 THEN Nowhere
                ELSE LastSlot(t, LeftZnode(t, p.zn)))

RECURSIVE ZnodeRight(_, _, _, _)
ZnodeRight(t, key, pos, p) ==
  LET Check(q) == IF q.zn = 0 THEN 0
                  ELSE IF At(t, q).pos = pos THEN At(t, q).child
                  ELSE IF KeyLt(key, At(t, q).key) THEN 0
                  ELSE ZnodeRight(t, key, pos, q)
  IN IF p.n < Len(Br(t, p.zn)) THEN Check([p EXCEPT !.n = @ + 1])
     ELSE Check([zn |-> RightZnode(t, p.zn), n |-> 1])

(* A key that cannot collide is in one place only.                           *)
ZnodeNear(t, key, pos, p) ==
  IF p = Nowhere THEN 0
  ELSE IF At(t, p).pos = pos THEN At(t, p).child
  ELSE IF ~IsHashKey(key) THEN 0
  ELSE CHOOSE z \in {IF l # 0 THEN l ELSE ZnodeRight(t, key, pos, p)
                       : l \in {ZnodeLeft(t, key, pos, p)}} : TRUE

LookupZnode(t, key, level, pos) ==
  IF t.rpos = pos THEN t.root
  ELSE IF level >= t.zn[t.root].level THEN 0
  ELSE ZnodeNear(t, key, pos, ParentSlot(t, key, level, t.root))

(* is_idx_node_in_use(): may the index node not be overwritten?              *)
IsIdxNodeInUse(t, key, level, pos) ==
  LookupZnode(t, key, level, pos) # 0 \/ pos \in t.old

DirtyIdxNode(t, key, level, pos) ==
  CHOOSE u \in {IF z = 0 THEN t ELSE DirtyCowBottomUp(t, z)
                  : z \in {LookupZnode(t, key, level, pos)}} : TRUE
=============================================================================
