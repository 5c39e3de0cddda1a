------------------------------- MODULE MkfsUbifs -------------------------------
(***************************************************************************)
(* mkfs.ubifs: a source directory and a device table become a UBIFS image. *)
(* The directory tree is walked depth first, in the order readdir() gives; *)
(* nodes fill one LEB of the main area after the other, files with several *)
(* links are put off until all their names are known, and index, LEB       *)
(* properties and the other areas follow.                                  *)
(*                                                                         *)
(* Names, host inodes and directories are numbers.  Two names collide if   *)
(* their tens agree.  Sizes are in units: an inode or entry takes one, a   *)
(* data node two, an index node one and one more for each child.           *)
(***************************************************************************)
EXTENDS Integers, Sequences, FiniteSets, SequencesExt, FiniteSetsExt

CONSTANTS
  Sources,       \* what mkfs.ubifs may be given, see MkSource in the MC module
  leb_size,      \* units of a LEB
  min_io_size,   \* units of a minimal write
  fanout,        \* most children of an index node
  MaxBadWrite,   \* the last write of write_index() that may fail
  log_lebs, lpt_lebs, orph_lebs

VARIABLES
  pc,      \* the stage of main() and mkfs()
  src,     \* what mkfs.ubifs is given, one of Sources
  table,   \* directory -> the entries the device table has for it: path_htbl
  stack,   \* the calls of add_directory() under way, the innermost first
  links,   \* host inode -> [inum, nlink, e, attr]: hash_table[]
  c        \* highest_inum, head, index list, LEB properties, image ...

vars == <<pc, src, table, stack, links, c>>

UBIFS_ROOT_INO  == 1
UBIFS_FIRST_INO == 64
UBIFS_SB_LNUM   == 0
UBIFS_MST_LNUM  == 1
UBIFS_LOG_LNUM  == 3

lpt_first  == UBIFS_LOG_LNUM + log_lebs
lpt_last   == lpt_first + lpt_lebs - 1
orph_first == lpt_last + 1
main_first == orph_first + orph_lebs

AlignUp(n) == ((n + min_io_size - 1) \div min_io_size) * min_io_size

-----------------------------------------------------------------------------
(* Nodes and keys. *)

Hash(name) == name \div 10

Ino(inum, type, nlink, size, xcnt, attr) ==
  [t |-> "ino", inum |-> inum, type |-> type, nlink |-> nlink, size |-> size,
   xcnt |-> xcnt, attr |-> attr]

Dent(dir, name, inum, type, xent) ==
  [t |-> "dent", dir |-> dir, name |-> name, inum |-> inum, type |-> type,
   xent |-> xent]

Data(inum, block) == [t |-> "data", inum |-> inum, block |-> block]

NodeLen(n) == CASE n.t \in {"ino", "dent"} -> 1
                [] n.t = "data" -> 2
                [] n.t = "idx" -> 1 + Len(n.branch)

\* <<inode, type, hash or block>>, and the name that orders colliding keys.
KeyOf(n) ==
  CASE n.t = "ino"  -> <<n.inum, 0, 0, 0>>
    [] n.t = "data" -> <<n.inum, 1, n.block, 0>>
    [] n.t = "dent" /\ ~n.xent -> <<n.dir, 2, Hash(n.name), n.name>>
    [] n.t = "dent" /\ n.xent -> <<n.dir, 3, Hash(n.name), n.name>>

\* cmp_idx(): keys_cmp(), then namecmp().
Before(a, b) ==
  \E i \in 1 .. 4 : a[i] < b[i] /\ \A j \in 1 .. i - 1 : a[j] = b[j]

-----------------------------------------------------------------------------
(* The head: add_node() and what it calls. *)

\* Mutant: the padding behind the last node is not counted as dirty.
DirtyNoPadding(offs, free) == 0

\* What is written behind the last node to fill the write unit.
Dirty(offs, free) == leb_size - free - offs

\* Dead and dark space are left out.
set_lprops(cc, lnum, offs, idx) ==
  LET free  == leb_size - AlignUp(offs)
      dirty == Dirty(offs, free)
      lp    == [free |-> free, dirty |-> dirty, idx |-> idx]
  IN  [cc EXCEPT !.lpt = IF lnum < src.max_leb_cnt THEN (lnum :> lp) @@ @ ELSE @,
                 !.total_free = @ + free,
                 !.total_dirty = @ + dirty,
                 !.idx_lebs = IF idx THEN @ + 1 ELSE @,
                 !.total_used = IF idx THEN @ ELSE @ + leb_size - free - dirty]

leb_change(cc, lnum, what) == [cc EXCEPT !.img = (lnum :> what) @@ @]

flush_nodes(cc) ==
  IF cc.head_offs = 0 THEN cc
  ELSE [set_lprops(leb_change(cc, cc.head_lnum, cc.buf), cc.head_lnum, cc.head_offs, cc.head_idx)
          EXCEPT !.head_lnum = @ + 1, !.head_offs = 0, !.buf = <<>>]

reserve_space(cc, len) ==
  IF len > leb_size - cc.head_offs THEN flush_nodes(cc) ELSE cc

Place(cc, node) ==
  [cc EXCEPT !.buf = Append(@, [offs |-> cc.head_offs, node |-> node]),
             !.head_offs = @ + NodeLen(node)]

add_to_index(cc, node) ==
  [cc EXCEPT !.idx = Append(@, [key |-> KeyOf(node), lnum |-> cc.head_lnum,
                                offs |-> cc.head_offs, len |-> NodeLen(node)])]

add_node(cc, node) ==
  CHOOSE d \in {Place(add_to_index(r, node), node) : r \in {reserve_space(cc, NodeLen(node))}} :
    TRUE

add_nodes(cc, nodes) == FoldLeft(add_node, cc, nodes)

-----------------------------------------------------------------------------
(* Files.  An entry of a directory is [name, type, file, nlink, blocks,    *)
(* holes, xattrs]: the name, the type, the host inode (or the directory    *)
(* number), its links on the host, its size in blocks, the blocks that are *)
(* all zero, and its extended attributes' names.                           *)

Ascending(S) == SetToSortSeq(S, LAMBDA a, b : a < b)

\* add_xattr(): the attribute gets an inode number of its own; its entry and
\* its inode come before the inode of the host.
XattrNode(host, name, inum) ==
  <<Dent(host, name, inum, "reg", TRUE), Ino(inum, "xattr", 1, 1, 0, 0)>>

\* add_inode() looks for attributes of the file.
HasXattrs(type) == type \notin {"sock", "fifo"}

\* Mutant: the number the host has kept is not compared.
OtherInumIgnored(cc, file, type, inum) == FALSE

\* user.image-inode-number is not copied: inode_add_xattr() finds that the host
\* has kept another inode number for the file.
OtherInum(cc, file, type, inum) ==
  HasXattrs(type) /\ file \in DOMAIN cc.inums /\ cc.inums[file] # inum

\* create_inum_attr(): with --set-inode-attr the host keeps the inode number.
create_inum_attr(cc, file, inum) ==
  IF src.set_inode_attr THEN [cc EXCEPT !.inums = (file :> inum) @@ @] ELSE cc

\* lsetxattr() takes a user attribute for regular files and directories only,
\* and none for what the device table adds.
NoInumAttr(type) == src.set_inode_attr /\ type \notin {"reg", "dir"}

\* inode_add_xattr(), the other attributes
XattrNodes(host, names, highest) ==
  FlattenSeq([i \in 1 .. Cardinality(names) |->
                XattrNode(host, Ascending(names)[i], highest + i)])

\* add_inode(), with the attributes before it.
InodeNodes(cc, inum, type, nlink, size, xattrs, attr) ==
  Append(XattrNodes(inum, xattrs, cc.highest_inum),
         Ino(inum, type, nlink, size, Cardinality(xattrs), attr))

\* add_file(): a data node for each block that is not a hole.
DataNodes(inum, read, holes) ==
  [i \in 1 .. Cardinality(1 .. read \ holes) |->
     Data(inum, Ascending(1 .. read \ holes)[i] - 1)]

\* add_non_dir() once the number of links is known; `more' blocks are read than
\* lstat() found.
AddFile(cc, inum, e, nlink, attr, more) ==
  LET data == IF e.type = "reg" THEN DataNodes(inum, e.blocks + more, e.holes) ELSE <<>>
      xattrs == IF HasXattrs(e.type) THEN e.xattrs ELSE {}
  IN  [add_nodes(cc, data \o InodeNodes(cc, inum, e.type, nlink, e.blocks, xattrs, attr))
         EXCEPT !.highest_inum = @ + Cardinality(xattrs)]

\* Mutant: a further name of a file keeps the inode number it was given.
UseInumAnew(im, inum) == inum

\* The inode number of a further name of a file is that of the first name.
UseInum(im, inum) == im.inum

\* lookup_inum_mapping() finds an earlier name of the file.
IsMapped(e) == e.file \in DOMAIN links

\* add_non_dir() of a file with several links: it is only counted.
CountLink(e, inum, attr) ==
  IF IsMapped(e)
  THEN /\ links' = [links EXCEPT ![e.file] = [@ EXCEPT !.nlink = @ + 1, !.attr = attr]]
       /\ \E im \in {links[e.file]} :
            c' = add_node([create_inum_attr(c, e.file, UseInum(im, inum))
                             EXCEPT !.highest_inum = inum - 1],
                          Dent(stack[1].inum, e.name, UseInum(im, inum), e.type, FALSE))
  ELSE /\ links' = (e.file :> [inum |-> inum, nlink |-> 1, e |-> e, attr |-> attr]) @@ links
       /\ c' = add_node([create_inum_attr(c, e.file, inum) EXCEPT !.highest_inum = inum],
                        Dent(stack[1].inum, e.name, inum, e.type, FALSE))

-----------------------------------------------------------------------------
(* The device table. *)

\* The names a line stands for: name, or name<start> .. name<start+count-1>.
Expanded(l) ==
  IF l.count = 0 THEN {[name |-> l.name, type |-> l.type, attr |-> l.minor]}
  ELSE {[name |-> 10 * l.name + i, type |-> l.type,
         attr |-> l.minor + (i - l.start) * l.increment] :
          i \in l.start .. l.start + l.count - 1}

NamesOf(elts) == {n.name : n \in elts}

devtbl_find_path(dir) == IF dir \in DOMAIN table THEN table[dir] ELSE {}

interpret_table_entry ==
  /\ pc = "table"
  /\ c.line <= Len(src.lines)
  /\ \E l \in {src.lines[c.line]} :
       IF (l.increment # 0 /\ l.count = 0)
            \/ NamesOf(Expanded(l)) \cap NamesOf(devtbl_find_path(l.dir)) # {}
       THEN pc' = "failed" /\ UNCHANGED <<src, table, stack, links, c>>
       ELSE /\ table' = (l.dir :> (devtbl_find_path(l.dir) \cup Expanded(l))) @@ table
            /\ c' = [c EXCEPT !.line = @ + 1]
            /\ UNCHANGED <<pc, src, stack, links>>

\* override_attributes() refuses, or gives the attributes.
Refuses(e, nh) == e.type \in {"chr", "blk", "fifo"} \/ e.type # nh.type

\* A call of add_directory().
Frame(dir, inum, name, attr, existing) ==
  [dir |-> dir, inum |-> inum, name |-> name, attr |-> attr, existing |-> existing,
   left |-> IF existing THEN src.dirs[dir] ELSE {}, size |-> 1, nlink |-> 2]

\* write_data(), up to add_directory() of the root: name 0 is "/" itself.
\* Without a source directory there is no name to look up in the device table,
\* and add_directory() reads in front of the null pointer.
StartRoot ==
  /\ pc = "table"
  /\ c.line > Len(src.lines)
  /\ \E own \in {{n \in devtbl_find_path(UBIFS_ROOT_INO) : n.name = 0}} :
       IF (\E nh \in own : nh.type # "dir") \/ (~src.root /\ src.set_inode_attr)
       THEN pc' = "failed" /\ UNCHANGED <<table, stack, c>>
       ELSE /\ pc' = IF src.root \/ src.lines = <<>> THEN "walk" ELSE "crashed"
            /\ c' = create_inum_attr(c, UBIFS_ROOT_INO, UBIFS_ROOT_INO)
            /\ table' = [d \in DOMAIN table |->
                           IF d = UBIFS_ROOT_INO THEN table[d] \ own ELSE table[d]]
            /\ stack' = <<Frame(UBIFS_ROOT_INO, UBIFS_ROOT_INO, 0,
                               IF own = {} THEN 0 ELSE (CHOOSE nh \in own : TRUE).attr,
                               src.root)>>
  /\ UNCHANGED <<src, links>>

-----------------------------------------------------------------------------
(* The walk: add_directory(). *)

\* add_file() has read another size than lstat() gave.
SizeChanged(read, size) == read # size

\* A file with one link: its nodes, then the entry in the innermost directory.
\* It may have grown since lstat().
AddSingle(e, inum, attr) ==
  \E more \in IF e.type = "reg" THEN {0, 1} ELSE {0} :
    IF SizeChanged(e.blocks + more, e.blocks) \/ OtherInum(c, e.file, e.type, inum)
    THEN pc' = "failed" /\ UNCHANGED c
    ELSE /\ \E cc \in {AddFile([c EXCEPT !.highest_inum = inum], inum, e, 1, attr, more)} :
              c' = add_node(create_inum_attr(cc, e.file, inum),
                            Dent(stack[1].inum, e.name, inum, e.type, FALSE))
         /\ UNCHANGED pc

\* The innermost directory has one entry more.
Counted(f) == [f EXCEPT !.size = @ + 1]

\* The next entry readdir() gives.
AddEntry ==
  /\ pc = "walk"
  /\ \E e \in stack[1].left :
     \E nh \in {{n \in devtbl_find_path(stack[1].dir) : n.name = e.name}} :
     \E inum \in {c.highest_inum + 1} :
     \E attr \in {IF nh = {} THEN 0 ELSE (CHOOSE n \in nh : TRUE).attr} :
     \E top \in {[stack[1] EXCEPT !.left = @ \ {e}]} :
       IF (\E n \in nh : Refuses(e, n)) \/ NoInumAttr(e.type)
       THEN pc' = "failed" /\ UNCHANGED <<table, stack, links, c>>
       ELSE
         /\ table' = [d \in DOMAIN table |-> IF d = top.dir THEN table[d] \ nh ELSE table[d]]
         /\ \/ /\ e.type = "dir"
               /\ c' = [c EXCEPT !.highest_inum = inum]
               /\ stack' = <<Frame(e.file, inum, e.name, attr, TRUE), top>> \o Tail(stack)
               /\ UNCHANGED <<pc, links>>
            \/ /\ e.type # "dir" /\ e.nlink = 1
               /\ AddSingle(e, inum, attr)
               /\ stack' = <<Counted(top)>> \o Tail(stack)
               /\ UNCHANGED links
            \/ /\ e.type # "dir" /\ e.nlink > 1
               /\ CountLink(e, inum, attr)
               /\ stack' = <<Counted(top)>> \o Tail(stack)
               /\ UNCHANGED pc
  /\ UNCHANGED src

\* What the device table has for this directory and the host does not.  Regular
\* files are refused, and a symbolic link has no target to read.  The inode
\* starts as a copy of root_st and keeps the size of the root directory.
AddTableEntry ==
  /\ pc = "walk"
  /\ stack[1].left = {}
  /\ \E n \in devtbl_find_path(stack[1].dir) :
     \E inum \in {c.highest_inum + 1} :
       IF n.type \in {"reg", "lnk"} \/ src.set_inode_attr
       THEN pc' = "failed" /\ UNCHANGED <<table, stack, c>>
       ELSE
         /\ table' = [table EXCEPT ![stack[1].dir] = @ \ {n}]
         /\ IF n.type = "dir"
            THEN /\ c' = [c EXCEPT !.highest_inum = inum]
                 /\ stack' = <<Frame(n.name, inum, n.name, n.attr, FALSE)>> \o stack
            ELSE /\ c' = add_nodes([c EXCEPT !.highest_inum = inum],
                           <<Ino(inum, n.type, 1, src.root_size, 0, n.attr),
                             Dent(stack[1].inum, n.name, inum, n.type, FALSE)>>)
                 /\ stack' = [stack EXCEPT ![1] = Counted(@)]
         /\ UNCHANGED pc
  /\ UNCHANGED <<src, links>>

\* All entries are there: the inode of the directory, and back in its parent the
\* entry for it.
EndDirectory ==
  /\ pc = "walk"
  /\ stack[1].left = {}
  /\ devtbl_find_path(stack[1].dir) = {}
  /\ \E f \in {stack[1]} :
     \E xattrs \in {IF f.existing THEN src.dirx[f.dir] ELSE {}} :
     \E cc \in {[add_nodes(c, InodeNodes(c, f.inum, "dir", f.nlink, f.size, xattrs, f.attr))
                   EXCEPT !.highest_inum = @ + Cardinality(xattrs)]} :
       IF f.existing /\ OtherInum(c, f.dir, "dir", f.inum)
       THEN pc' = "failed" /\ UNCHANGED <<stack, c>>
       ELSE IF Len(stack) = 1
       THEN pc' = "links" /\ stack' = <<>> /\ c' = cc
       ELSE /\ c' = add_node(create_inum_attr(cc, f.dir, f.inum),
                             Dent(stack[2].inum, f.name, f.inum, "dir", FALSE))
            /\ stack' = [Tail(stack) EXCEPT ![1] = Counted([@ EXCEPT !.nlink = @ + 1])]
            /\ UNCHANGED pc
  /\ UNCHANGED <<src, table, links>>

\* add_multi_linked_files(): one more of the files whose links were counted.
AddLinked ==
  /\ pc = "links"
  /\ \E h \in DOMAIN links \ c.linked :
     \E more \in IF links[h].e.type = "reg" THEN {0, 1} ELSE {0} :
       IF \/ SizeChanged(links[h].e.blocks + more, links[h].e.blocks)
          \/ OtherInum(c, h, links[h].e.type, links[h].inum)
       THEN pc' = "failed" /\ UNCHANGED c
       ELSE /\ c' = AddFile([c EXCEPT !.linked = @ \cup {h}], links[h].inum, links[h].e,
                            links[h].nlink, links[h].attr, more)
            /\ UNCHANGED pc
  /\ UNCHANGED <<src, table, stack, links>>

\* The end of write_data(), and set_gc_lnum().
EndData ==
  /\ pc = "links"
  /\ DOMAIN links \subseteq c.linked
  /\ pc' = "index"
  /\ \E cc \in {flush_nodes(c)} :
       c' = [set_lprops(leb_change(cc, cc.head_lnum, <<>>), cc.head_lnum, 0, FALSE)
               EXCEPT !.gc_lnum = cc.head_lnum, !.head_lnum = @ + 1, !.empty_lebs = @ + 1]
  /\ UNCHANGED <<src, table, stack, links>>

-----------------------------------------------------------------------------
(* The index. *)

\* Mutant: only the write that failed returns an error.
ReadOnlyNever(cc) == FALSE

\* ubifs_leb_change() has failed before, ubifs_ro_mode(): it always fails now.
ReadOnly(cc) == cc.ro_error

\* write_index() does not look at what add_idx_node() returns: if the LEB that
\* is full cannot be written, the node is left out.  `bad' is the write of
\* write_index() that fails, `att' counts them.
add_idx_node(cc, node) ==
  LET full == NodeLen(node) > leb_size - cc.head_offs
      cc1  == IF full THEN [cc EXCEPT !.att = @ + 1] ELSE cc
      room == reserve_space(cc1, NodeLen(node))
  IN  IF full /\ (cc1.att = cc1.bad \/ ReadOnly(cc1)) THEN [cc1 EXCEPT !.ro_error = TRUE]
      ELSE [Place(room, node) EXCEPT
              !.old_idx_sz = @ + NodeLen(node),
              !.zroot = [lnum |-> room.head_lnum, offs |-> room.head_offs,
                         len |-> NodeLen(node)]]

\* All index nodes of a row are full except for the last.
ChildCnt(i, cnt, below) ==
  IF i = cnt /\ below % fanout # 0 THEN below % fanout ELSE fanout

RowCnt(below) == (below + fanout - 1) \div fanout

\* 'blnum' and 'boffs': where a node of the level below has been put.
NextPos(pos, blen) ==
  IF pos.offs + blen > leb_size THEN [lnum |-> pos.lnum + 1, offs |-> 0] ELSE pos

RECURSIVE Positions(_, _)
Positions(pos, lens) ==
  IF lens = <<>> THEN <<pos>>
  ELSE LET p == NextPos(pos, Head(lens))
       IN  <<p>> \o Positions([p EXCEPT !.offs = @ + Head(lens)], Tail(lens))

RECURSIVE UpperLevels(_, _, _, _, _, _)
UpperLevels(cc, leaves, bcnt, child_cnt, pos, level) ==
  IF bcnt = 1 THEN cc
  ELSE
    LET cnt   == RowCnt(bcnt)
        pstep == fanout ^ level
        lens  == [b \in 1 .. bcnt |-> 1 + (IF b = bcnt THEN child_cnt ELSE fanout)]
        at    == Positions(pos, lens)
        br(b) == [key |-> leaves[(b - 1) * pstep + 1].key, lnum |-> at[b].lnum,
                  offs |-> at[b].offs, len |-> lens[b]]
        node(i) == [t |-> "idx", level |-> level,
                    branch |-> [j \in 1 .. ChildCnt(i, cnt, bcnt) |->
                                  br((i - 1) * fanout + j)]]
        cc1   == FoldLeft(LAMBDA a, i : add_idx_node(a, node(i)), cc, [i \in 1 .. cnt |-> i])
    IN  UpperLevels(cc1, leaves, cnt, ChildCnt(cnt, cnt, bcnt), at[bcnt + 1], level + 1)

BottomLevel(cc, leaves) ==
  LET cnt == RowCnt(Len(leaves))
      node(i) == [t |-> "idx", level |-> 0,
                  branch |-> SubSeq(leaves, (i - 1) * fanout + 1,
                                    (i - 1) * fanout + ChildCnt(i, cnt, Len(leaves)))]
  IN  FoldLeft(LAMBDA a, i : add_idx_node(a, node(i)), cc, [i \in 1 .. cnt |-> i])

write_index ==
  /\ pc = "index"
  /\ \E bad \in 0 .. MaxBadWrite :
     \E leaves \in {SortSeq(c.idx, LAMBDA a, b : Before(a.key, b.key))} :
     \E bottom \in {BottomLevel([c EXCEPT !.head_idx = TRUE, !.bad = bad, !.idx = <<>>], leaves)} :
     \E cc \in {UpperLevels(bottom, leaves, RowCnt(Len(leaves)),
                            ChildCnt(RowCnt(Len(leaves)), RowCnt(Len(leaves)), Len(leaves)),
                            [lnum |-> c.head_lnum, offs |-> 0], 1)} :
       IF ReadOnly(cc) THEN pc' = "failed" /\ UNCHANGED c
       ELSE /\ c' = flush_nodes([cc EXCEPT !.ihead_lnum = cc.head_lnum,
                                          !.ihead_offs = AlignUp(cc.head_offs)])
            /\ pc' = "count"
  /\ UNCHANGED <<src, table, stack, links>>

-----------------------------------------------------------------------------
(* The other areas. *)

finalize_leb_cnt ==
  /\ pc = "count"
  /\ pc' = IF c.head_lnum > src.max_leb_cnt THEN "failed" ELSE "lpt"
  /\ c' = [c EXCEPT !.leb_cnt = c.head_lnum]
  /\ UNCHANGED <<src, table, stack, links>>

WriteAll(cc, lebs, what) ==
  [cc EXCEPT !.img = [l \in lebs |-> what] @@ @]

\* ubifs_create_lpt() takes as many LEBs as the tree needs.
write_lpt ==
  /\ pc = "lpt"
  /\ \E nhead \in lpt_first .. lpt_last :
       c' = [WriteAll(WriteAll(c, lpt_first .. nhead, "lpt"), nhead + 1 .. lpt_last, <<>>)
               EXCEPT !.flash_lpt = [l \in main_first .. c.leb_cnt - 1 |-> c.lpt[l]]]
  /\ pc' = "master"
  /\ UNCHANGED <<src, table, stack, links>>

MasterNode ==
  [highest_inum |-> c.highest_inum, root |-> c.zroot, gc_lnum |-> c.gc_lnum,
   ihead_lnum |-> c.ihead_lnum, ihead_offs |-> c.ihead_offs, index_size |-> c.old_idx_sz,
   empty_lebs |-> c.empty_lebs, idx_lebs |-> c.idx_lebs, total_free |-> c.total_free,
   total_dirty |-> c.total_dirty, total_used |-> c.total_used, leb_cnt |-> c.leb_cnt]

write_master ==
  /\ pc = "master"
  /\ c' = WriteAll(c, {UBIFS_MST_LNUM, UBIFS_MST_LNUM + 1}, MasterNode)
  /\ pc' = "super"
  /\ UNCHANGED <<src, table, stack, links>>

write_super ==
  /\ pc = "super"
  /\ c' = leb_change(c, UBIFS_SB_LNUM,
                     [leb_cnt |-> c.leb_cnt, max_leb_cnt |-> src.max_leb_cnt])
  /\ pc' = "log"
  /\ UNCHANGED <<src, table, stack, links>>

write_log ==
  /\ pc = "log"
  /\ c' = WriteAll(leb_change(c, UBIFS_LOG_LNUM, "cs"), UBIFS_LOG_LNUM + 1 .. lpt_first - 1, <<>>)
  /\ pc' = "orphans"
  /\ UNCHANGED <<src, table, stack, links>>

write_orphan_area ==
  /\ pc = "orphans"
  /\ c' = WriteAll(c, orph_first .. main_first - 1, <<>>)
  /\ pc' = "done"
  /\ UNCHANGED <<src, table, stack, links>>

-----------------------------------------------------------------------------
(* The specification. *)

Running == pc \notin {"done", "failed", "crashed"}

\* A system call fails: open(), lstat(), readdir(), read(), llistxattr(), a write
\* to the image other than those of write_index() ...  Each ends the program.
Fail ==
  /\ Running
  /\ pc' = "failed"
  /\ UNCHANGED <<src, table, stack, links, c>>

\* init()
Init ==
  /\ pc = "table"
  /\ src \in Sources
  /\ table = <<>>
  /\ stack = <<>>
  /\ links = <<>>
  /\ c = [line |-> 1, highest_inum |-> UBIFS_FIRST_INO, head_lnum |-> main_first,
          head_offs |-> 0, head_idx |-> FALSE, buf |-> <<>>, idx |-> <<>>, linked |-> {},
          lpt |-> <<>>, total_free |-> 0, total_dirty |-> 0, total_used |-> 0,
          idx_lebs |-> 0, empty_lebs |-> 0, old_idx_sz |-> 0, zroot |-> <<>>,
          gc_lnum |-> 0, ihead_lnum |-> 0, ihead_offs |-> 0, leb_cnt |-> 0,
          att |-> 0, bad |-> 0, ro_error |-> FALSE, flash_lpt |-> <<>>, img |-> <<>>,
          inums |-> src.inums]

Next ==
  \/ interpret_table_entry \/ StartRoot
  \/ AddEntry \/ AddTableEntry \/ EndDirectory \/ AddLinked \/ EndData
  \/ write_index \/ finalize_leb_cnt \/ write_lpt \/ write_master \/ write_super
  \/ write_log \/ write_orphan_area
  \/ Fail

Spec == Init /\ [][Next]_vars

-----------------------------------------------------------------------------
(* What the image has to say about the source, read from the master node. *)

Master == c.img[UBIFS_MST_LNUM]

NodeSize(n) == IF n.t = "idx" THEN 1 + Len(n.branch) ELSE IF n.t = "data" THEN 2 ELSE 1

NodesIn(lnum) == {c.img[lnum][i] : i \in DOMAIN c.img[lnum]}

MainLebs == {l \in DOMAIN c.img : l >= main_first}

Missing == [t |-> "none"]

NodeAt(b) ==
  LET at == IF b.lnum \in MainLebs THEN {n \in NodesIn(b.lnum) : n.offs = b.offs} ELSE {}
  IN  IF at = {} THEN Missing ELSE (CHOOSE n \in at : TRUE).node

RECURSIVE Leaves(_)
Leaves(b) ==
  IF NodeAt(b).t = "idx"
  THEN FlattenSeq([i \in DOMAIN NodeAt(b).branch |-> Leaves(NodeAt(b).branch[i])])
  ELSE <<[branch |-> b, node |-> NodeAt(b)]>>

RECURSIVE WellBuilt(_, _)
WellBuilt(b, level) ==
  LET n == NodeAt(b)
  IN  IF level < 0 THEN n.t \in {"ino", "dent", "data"} /\ KeyOf(n) = b.key /\ NodeSize(n) = b.len
      ELSE /\ n.t = "idx" /\ n.level = level /\ NodeSize(n) = b.len
           /\ \A i \in DOMAIN n.branch :
                /\ WellBuilt(n.branch[i], level - 1)
                /\ n.branch[i].key = Leaves(n.branch[i])[1].branch.key

\* The index in the image is a tree: every branch leads to a node of the level
\* below, of the length and with the first key the branch says.
IsIndex ==
  /\ NodeAt(Master.root).t = "idx"
  /\ WellBuilt(Master.root, NodeAt(Master.root).level)

Found == {n.node : n \in Range(Leaves(Master.root))}

Inodes(fs) == {n \in fs : n.t = "ino"}
Entries(fs, dir, xent) == {n \in fs : n.t = "dent" /\ n.dir = dir /\ n.xent = xent}
Blocks(fs, inum) == {n.block : n \in {m \in fs : m.t = "data" /\ m.inum = inum}}

\* What the source has in a directory: the host's entries, and those the device
\* table adds.
TableOf(d) ==
  UNION {Expanded(src.lines[i]) : i \in {j \in DOMAIN src.lines : src.lines[j].dir = d}}

HostEntries(d, existing) ==
  IF existing
  THEN {[name |-> e.name, type |-> e.type, file |-> e.file, blocks |-> e.blocks,
         holes |-> e.holes, xattrs |-> IF HasXattrs(e.type) THEN e.xattrs ELSE {},
         host |-> TRUE] : e \in src.dirs[d]}
  ELSE {}

SourceEntries(d, existing) ==
  LET host == HostEntries(d, existing)
  IN  host \cup {[name |-> n.name, type |-> n.type,
                   file |-> IF n.type = "dir" THEN n.name ELSE -(100 * d + n.name),
                   blocks |-> 0, holes |-> {}, xattrs |-> {}, host |-> FALSE] :
                    n \in {m \in TableOf(d) : m.name # 0 /\ m.name \notin NamesOf(host)}}

AttrOf(d, name) ==
  IF name \in NamesOf(TableOf(d)) THEN (CHOOSE n \in TableOf(d) : n.name = name).attr ELSE 0

\* All names of the source with the inode numbers the image has for them.
RECURSIVE Resolved(_, _, _, _)
Resolved(fs, d, inum, existing) ==
  UNION {LET de == {n \in Entries(fs, inum, FALSE) : n.name = e.name}
             i  == IF de = {} THEN 0 ELSE (CHOOSE n \in de : TRUE).inum
         IN  {[e |-> e, dir |-> d, inum |-> i,
               type |-> IF de = {} THEN "none" ELSE (CHOOSE n \in de : TRUE).type]}
               \cup (IF e.type = "dir" THEN Resolved(fs, e.file, i, e.host) ELSE {}) :
           e \in SourceEntries(d, existing)}

\* The inode of a file has what the source has; attributes of a file with
\* several names are those of one of them.  Of the size of a special file that
\* the device table adds nothing is said: it is that of the root directory.
FileKept(fs, rs, r) ==
  LET names == {q \in rs : q.inum = r.inum}
      below == {q \in rs : q.dir = r.e.file}
  IN  \E n \in Inodes(fs) :
        /\ n.inum = r.inum
        /\ n.type = r.e.type
        /\ n.attr \in {AttrOf(q.dir, q.e.name) : q \in names}
        /\ IF n.type = "dir"
           THEN /\ n.nlink = 2 + Cardinality({q \in below : q.e.type = "dir"})
                /\ n.size = 1 + Cardinality(below)
           ELSE /\ n.nlink = Cardinality(names)
                /\ r.e.host => n.size = r.e.blocks
        /\ Blocks(fs, n.inum) = {b - 1 : b \in 1 .. r.e.blocks \ r.e.holes}

\* user.image-inode-number of the host is the inode number in the image: without
\* --set-inode-attr what an earlier run has left there, with it what this one
\* leaves at every file.
InumsKept(rs) ==
  \A r \in rs :
    /\ r.e.host /\ HasXattrs(r.e.type) /\ r.e.file \in DOMAIN c.inums
         => r.inum = c.inums[r.e.file]
    /\ src.set_inode_attr => r.e.file \in DOMAIN c.inums

XattrsKept(fs, inum, xattrs) ==
  /\ NamesOf(Entries(fs, inum, TRUE)) = xattrs
  /\ \A n \in Inodes(fs) : n.inum = inum => n.xcnt = Cardinality(xattrs)
  /\ \A x \in Entries(fs, inum, TRUE) :
       \E n \in Inodes(fs) : n.inum = x.inum /\ n.type = "xattr" /\ n.nlink = 1

\* If mkfs.ubifs succeeds, what the image has under its index is the source: the
\* names of every directory with those the device table adds and no others, two
\* names with one inode exactly if they are links of one file of the host, link
\* counts and sizes as the names say, every block that is no hole, every
\* extended attribute, and the inode numbers the host has kept.  A file that
\* changed its size between lstat() and read() is never in an image.
HoldsSource ==
  pc = "done" =>
    \E lv \in {Leaves(Master.root)} :
    \E fs \in {{n.node : n \in Range(lv)}} :
    \E rs \in {Resolved(fs, UBIFS_ROOT_INO, UBIFS_ROOT_INO, src.root)} :
      /\ \A i \in 1 .. Len(lv) - 1 : Before(lv[i].branch.key, lv[i + 1].branch.key)
      /\ \A r \in rs : r.type = r.e.type /\ FileKept(fs, rs, r)
      /\ InumsKept(rs)
      /\ \A q, r \in rs : (q.inum = r.inum) <=> (q.e.file = r.e.file)
      /\ Cardinality({n \in fs : n.t = "dent" /\ ~n.xent}) = Cardinality(rs)
      /\ \E n \in Inodes(fs) : n.inum = UBIFS_ROOT_INO /\ n.attr = AttrOf(UBIFS_ROOT_INO, 0)
      /\ \A d \in {r \in rs : r.e.type = "dir"} :
           XattrsKept(fs, d.inum, IF d.e.host THEN src.dirx[d.e.file] ELSE {})
      /\ \A r \in {q \in rs : q.e.type # "dir"} : XattrsKept(fs, r.inum, r.e.xattrs)
      /\ {n.inum : n \in {m \in Inodes(fs) : m.type # "xattr"}}
           = {UBIFS_ROOT_INO} \cup {r.inum : r \in rs}

Used(lnum) == LET ends == {n.offs + NodeSize(n.node) : n \in NodesIn(lnum)}
              IN  IF ends = {} THEN 0 ELSE CHOOSE e \in ends : \A f \in ends : f <= e

HasIndex(lnum) == \E n \in NodesIn(lnum) : n.node.t = "idx"

Over(S, f(_)) == FoldSet(LAMBDA x, acc : f(x) + acc, 0, S)

\* If mkfs.ubifs succeeds, every LEB below leb_cnt is written and no other, the
\* LEB properties in the LPT are those of the LEBs, the statistics of the master
\* node sum them up, the LEB for the garbage collector is empty, the index head
\* is behind the last index node, and highest_inum is the highest number in use
\* with none below it wasted.
AreasAgree ==
  pc = "done" =>
    \E m \in {Master} : \E lebs \in {main_first .. Master.leb_cnt - 1} :
      /\ DOMAIN c.img = 0 .. m.leb_cnt - 1
      /\ m.leb_cnt <= src.max_leb_cnt
      /\ c.img[UBIFS_SB_LNUM].leb_cnt = m.leb_cnt
      /\ c.img[UBIFS_MST_LNUM + 1] = m
      /\ \A l \in lebs : \E lp \in {c.flash_lpt[l]} :
           /\ lp.free + lp.dirty + Used(l) = leb_size
           /\ lp.free % min_io_size = 0 /\ lp.dirty < min_io_size
           /\ lp.idx = HasIndex(l)
      /\ m.total_free = Over(lebs, LAMBDA l : c.flash_lpt[l].free)
      /\ m.total_dirty = Over(lebs, LAMBDA l : leb_size - Used(l) - c.flash_lpt[l].free)
      /\ m.total_used = Over({l \in lebs : ~HasIndex(l)}, Used)
      /\ m.index_size = Over({l \in lebs : HasIndex(l)},
                             LAMBDA l : Over(NodesIn(l), LAMBDA n : NodeSize(n.node)))
      /\ m.idx_lebs = Cardinality({l \in lebs : HasIndex(l)})
      /\ {l \in lebs : c.img[l] = <<>>} = {m.gc_lnum} /\ m.empty_lebs = 1
      /\ m.ihead_lnum = m.leb_cnt - 1
      /\ m.ihead_offs - Used(m.ihead_lnum) \in 0 .. min_io_size - 1
      /\ m.ihead_offs % min_io_size = 0
      /\ {n.inum : n \in Inodes(Found)}
           = {UBIFS_ROOT_INO} \cup (UBIFS_FIRST_INO + 1 .. m.highest_inum)

\* If mkfs.ubifs succeeds, the index is whole: the positions write_index()
\* computes beforehand for the nodes of the level below are where add_idx_node()
\* has put them, and a write that failed and was not looked at cannot be followed
\* by success.
IndexWritten == pc = "done" => IsIndex

===============================================================================
