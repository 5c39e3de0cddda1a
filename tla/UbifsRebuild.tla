----------------------------- MODULE UbifsRebuild -----------------------------
(***************************************************************************)
(* ubifs_rebuild_filesystem() of fsck.ubifs: the last resort when the      *)
(* master node, the log or the index is lost.  All nodes of the main area  *)
(* are scanned, the newest ones that make up valid, reachable files are    *)
(* kept where they are, and a new index, LEB properties, log and master    *)
(* node are written around them.  Power may fail between any two writes,   *)
(* and the rebuild is started again.                                       *)
(*                                                                         *)
(* Every node takes one unit of a LEB, so a node's offset is its index in  *)
(* the LEB less one.  An inode node is an inode of FsckFiles with `t' and  *)
(* `inum'; deletion inodes have no links, deletion entries no inode.       *)
(***************************************************************************)
EXTENDS FsckFiles

CONSTANTS
  Volumes,       \* the main areas the rebuild may be started on
  leb_size,      \* units of a LEB
  min_io_size,   \* units of a minimal write
  fanout,        \* children of an index node
  MaxRuns        \* bound: how often the rebuild is started

ASSUME GeometryOK ==
  /\ leb_size % min_io_size = 0 /\ fanout > 1 /\ MaxRuns \in Nat

VARIABLES
  pc,        \* the step of ubifs_rebuild_filesystem()
  main,      \* LEB -> [nodes, state]: the main area
  area,      \* the LEB properties, log, orphan area and master copies
  r,         \* what the program holds in memory
  runs,      \* number of starts
  hist       \* history: the main area this run scanned, and what the first
             \* run to get that far kept and found deleted

vars == <<pc, main, area, r, runs, hist>>

Lebs == DOMAIN main

\* The elements of a set, each behind those less than it.
InOrder(S, Less(_, _)) ==
  [i \in 1 .. Cardinality(S) |->
     CHOOSE x \in S : Cardinality({y \in S : Less(y, x)}) = i - 1]

LebsInOrder(L) == InOrder(L, LAMBDA a, b : a < b)

Pad  == [t |-> "pad"]
None == [t |-> "none"]

AlignUp(n) == ((n + min_io_size - 1) \div min_io_size) * min_io_size

Padded(nodes) ==
  nodes \o [i \in 1 .. AlignUp(Len(nodes)) - Len(nodes) |-> Pad]

-----------------------------------------------------------------------------
(* Step 1, scan_nodes().  A LEB is ok, torn (garbage follows its nodes,    *)
(* and ubifs_recover_leb() can cut it off) or corrupt (it cannot, and the  *)
(* LEB is abandoned).  An index LEB is left at its first node.             *)

Readable(leb) == IF leb.state = "corrupt" THEN <<>> ELSE leb.nodes

FileNodes(leb) ==
  LET nodes == Readable(leb)
      idx   == {i \in DOMAIN nodes : nodes[i].t = "idx"}
  IN  IF idx = {} THEN nodes ELSE SubSeq(nodes, 1, Min(idx) - 1)

\* The scanned nodes of a type, with the place they were found at.  A node that
\* parse_dent_node(), parse_data_node() or parse_trun_node() refuses is "junk",
\* and passed over.
ScannedIn(m, l, type) ==
  LET nodes == FileNodes(m[l])
  IN  {nodes[i] @@ [lnum |-> l, offs |-> i - 1] :
         i \in {j \in DOMAIN nodes : nodes[j].t = type}}

Scanned(m, type) == UNION {ScannedIn(m, l, type) : l \in DOMAIN m}

Before(a, b) == a.lnum < b.lnum \/ (a.lnum = b.lnum /\ a.offs < b.offs)

InoKey(n)  == n.inum
DentKey(n) == <<n.host, n.name, n.xent>>
DataKey(n) == <<n.inum, n.blk>>
NodeKey(n) == CASE n.t = "ino" -> InoKey(n) [] n.t = "dent" -> DentKey(n) [] n.t = "data" -> DataKey(n)

\* insert_or_update_ino_node(), insert_or_update_dent_node(),
\* update_file_data(): of the nodes of a key the newest stays in the tree; of
\* two copies of one node, which GC leaves behind, the one scanned first.
Newest(S) ==
  {n \in S : \A m \in S : NodeKey(m) = NodeKey(n) /\ m # n =>
               m.sq < n.sq \/ (m.sq = n.sq /\ Before(n, m))}

\* update_file(): a truncation node replaces one that is not newer.
NewestTrun(S) ==
  {n \in S : \A m \in S : m.inum = n.inum /\ m # n =>
               m.sq < n.sq \/ (m.sq = n.sq /\ Before(m, n))}

\* process_scanned_node(): the four trees, the data and truncation nodes.
\* Inode nodes that parse_ino_node() refuses are passed over.
ScannedInfo(m) ==
  LET inos == {n \in Scanned(m, "ino") : ValidIno(n.inum, n)}
      dents == Scanned(m, "dent")
  IN  [valid_inos  |-> Newest({n \in inos : n.nlink > 0}),
       del_inos    |-> Newest({n \in inos : n.nlink = 0}),
       valid_dents |-> Newest({n \in dents : n.inum # NoFile}),
       del_dents   |-> Newest({n \in dents : n.inum = NoFile}),
       data        |-> Newest(Scanned(m, "data")),
       trun        |-> NewestTrun(Scanned(m, "trun"))]

Leb(nodes) == [nodes |-> nodes, state |-> "ok"]

\* fix_unclean_leb() writes the readable part of a torn LEB back.
Recovered(leb) == Leb(Padded(leb.nodes))

-----------------------------------------------------------------------------
(* Step 2, remove_del_nodes().  A deletion that removes a node is itself   *)
(* kept: its LEB counts as used up to it.                                  *)

Overriding(dels, valid) ==
  {d \in dels : \E v \in valid : NodeKey(v) = NodeKey(d) /\ d.sq > v.sq}

Undeleted(valid, dels) ==
  {v \in valid : ~ \E d \in dels : NodeKey(d) = NodeKey(v) /\ d.sq > v.sq}

\* Mutant: deletions are forgotten once they have been applied.
HeldNone(si) == {}

Held(si) == Overriding(si.del_inos, si.valid_inos)
            \cup Overriding(si.del_dents, si.valid_dents)

-----------------------------------------------------------------------------
(* Steps 3 to 5: add_valid_nodes_into_file(), filter_invalid_files(),      *)
(* extract_dentry_tree(), on the file tree of FsckFiles.  Nothing is asked *)
(* and nothing is saved for lost+found: what is disconnected is dropped.   *)

FileTree(si) ==
  LET inos == Undeleted(si.valid_inos, si.del_inos)
      fs == [ino  |-> [f \in {n.inum : n \in inos} |->
                         CHOOSE n \in inos : n.inum = f],
             dent |-> Undeleted(si.valid_dents, si.del_dents),
             data |-> si.data]
  IN  [fs |-> fs, tree |-> FilesOf(fs) \cup {n.inum : n \in si.trun},
       xat |-> <<>>, disc |-> <<>>, asks |-> <<>>]

DropInvalid(w) ==
  LET bad == w.bad \cup ToSet(w.disc)
  IN  [fs |-> DeleteFiles(w.fs, w.xat, bad), tree |-> w.tree \ bad,
       xat |-> w.xat, disc |-> <<>>, asks |-> <<>>]

FilterInvalidFiles(w) == DropInvalid(FileRounds(XattrRounds(w)))

ExtractDentryTree(w) == WithoutLost(DentryRounds(w), {})

Kept(si) == ExtractDentryTree(FilterInvalidFiles(FileTree(si)))

-----------------------------------------------------------------------------
(* Step 6, check_and_correct_files(), with the truncation nodes that only  *)
(* a scan finds.  In fsck mode FsckFiles has the same without them.        *)

TrunOf(trun, f) ==
  IF \E n \in trun : n.inum = f THEN CHOOSE n \in trun : n.inum = f
  ELSE [sq |-> 0, size |-> 0]

\* Mutant: truncation nodes are not looked at.
TruncatedByInode(w, trun, f) ==
  {b \in DataOf(w.fs, f) : w.fs.ino[f].sq > b.sq /\ w.fs.ino[f].size < b.end}

Truncated(w, trun, f) ==
  LET t == TrunOf(trun, f)
      i == w.fs.ino[f]
  IN  {b \in DataOf(w.fs, f) : \/ t.sq > b.sq /\ t.size < b.end
                               \/ i.sq > b.sq /\ i.size < b.end}

CalcSize(w, trun, f) ==
  LET t == TrunOf(trun, f)
      i == w.fs.ino[f]
      new_size == Max({0} \cup {b.end : b \in DataOf(w.fs, f) \ Truncated(w, trun, f)})
  IN  IF t.sq > i.sq /\ t.size < i.size
      THEN Max({t.size, new_size})
      ELSE Max({i.size, new_size})

\* calculate_file_info()
FileInfo(w, trun, f) ==
  LET info == CalculateFileInfo(w, f)
  IN  IF IsReg(w.fs, f) /\ ~IsXattr(w.fs, f)
      THEN [info EXCEPT !.size = CalcSize(w, trun, f)] ELSE info

\* The inodes correct_file_info() rewrites, in its order.
ToCorrect(w, trun) ==
  SelectSeq([k \in DOMAIN CorrectionOrder(w) |->
               LET f == CorrectionOrder(w)[k]
               IN  [old |-> w.fs.ino[f],
                    new |-> Corrected(w.fs.ino[f], FileInfo(w, trun, f))]],
            LAMBDA c : c.old # c.new)

WithoutTruncated(w, trun) ==
  LET regs == {f \in w.tree : IsReg(w.fs, f)}
  IN  [w EXCEPT !.fs.data = @ \ UNION {Truncated(w, trun, f) : f \in regs}]

-----------------------------------------------------------------------------
(* Step 7, record_file_used_lebs(): every node of a kept file, an attached *)
(* xattr file included, is a leaf of the index, and its LEB is used up to  *)
(* it.  Truncation nodes, like the deletions of step 2, only hold their    *)
(* LEB.                                                                    *)

FilesKept(w) == w.tree \cup {x \in DOMAIN w.xat : w.xat[x] \in w.tree}

Leaves(w) ==
  LET F == FilesKept(w)
  IN  {w.fs.ino[f] : f \in F} \cup {d \in w.fs.dent : d.inum \in F}
                              \cup {b \in w.fs.data : b.inum \in F}

\* file_is_valid() forgets the truncation node of all but regular files.
TrunsKept(w, trun) == {n \in trun : n.inum \in w.tree /\ IsReg(w.fs, n.inum)}

\* Mutant: a LEB is used up to the start of its last node.
UpdateLptToStart(l, leaves, held) ==
  [used |-> Cardinality({n \in leaves : n.lnum = l}),
   end  |-> Max({0} \cup {n.offs : n \in {m \in leaves \cup held : m.lnum = l}}),
   free |-> 0, dirty |-> 0, idx |-> FALSE]

\* update_lpt() for all the nodes in turn.
UpdateLpt(l, leaves, held) ==
  [used |-> Cardinality({n \in leaves : n.lnum = l}),
   end  |-> Max({0} \cup {n.offs + 1 : n \in {m \in leaves \cup held : m.lnum = l}}),
   free |-> 0, dirty |-> 0, idx |-> FALSE]

\* get_free_leb(): the first LEB not marked used; 0 for ENOSPC.
GetFreeLeb(used) == IF Lebs \subseteq used THEN 0 ELSE Min(Lebs \ used)

-----------------------------------------------------------------------------
(* Step 9, build_tnc(): the leaves in key order, then level after level of *)
(* index nodes, each over the next fanout nodes of the level below.  The   *)
(* k-th index node (from 0) goes to the place reserve_space() gives it.    *)

KeyType(n) == CASE n.t = "ino" -> 0 [] n.t = "data" -> 1
                [] n.t = "dent" /\ ~n.xent -> 2 [] n.t = "dent" /\ n.xent -> 3

\* <<inode number, type, block or name hash>>
Key(n) == CASE n.t = "ino"  -> <<n.inum, KeyType(n), 0>>
            [] n.t = "data" -> <<n.inum, KeyType(n), n.blk>>
            [] n.t = "dent" -> <<n.host, KeyType(n), n.name>>

KeyLess(a, b) ==
  \/ a[1] < b[1]
  \/ a[1] = b[1] /\ (a[2] < b[2] \/ (a[2] = b[2] /\ a[3] < b[3]))

Branch(key, lnum, offs) == [key |-> key, lnum |-> lnum, offs |-> offs]

SortedLeaves(leaves) ==
  InOrder({Branch(Key(n), n.lnum, n.offs) : n \in leaves},
          LAMBDA a, b : KeyLess(a.key, b.key))

IndexPlace(free, k) ==
  [lnum |-> IF k \div leb_size < Len(free) THEN free[k \div leb_size + 1] ELSE 0,
   offs |-> k % leb_size]

GroupCount(n) == (n + fanout - 1) \div fanout

RECURSIVE BuildTnc(_, _, _, _)
BuildTnc(lower, nodes, level, free) ==
  LET cnt == GroupCount(Len(lower))
      Group(i) == SubSeq(lower, (i - 1) * fanout + 1, Min({i * fanout, Len(lower)}))
      upper == [i \in 1 .. cnt |->
                  IndexPlace(free, Len(nodes) + i - 1)
                    @@ [key |-> Group(i)[1].key]]
      written == nodes \o [i \in 1 .. cnt |->
                  [t |-> "idx", level |-> level, branch |-> Group(i)]]
  IN  IF cnt = 1 THEN [nodes |-> written, zroot |-> upper[1]]
                 ELSE BuildTnc(upper, written, level + 1, free)

IndexOf(leaves, used) ==
  BuildTnc(SortedLeaves(leaves), <<>>, 0, LebsInOrder(Lebs \ used))

\* What flush_write_buf() writes to its k-th LEB (from 0).
IndexChunk(nodes, k) ==
  SubSeq(nodes, k * leb_size + 1, Min({(k + 1) * leb_size, Len(nodes)}))

-----------------------------------------------------------------------------
(* Step 10, build_lpt() with calculate_lp().                               *)

\* Mutant: the padding behind the last used node is taken for free space.
CalculateLpUnaligned(l, lp, used, gc) ==
  IF l \notin used \/ l = gc THEN [lp EXCEPT !.free = leb_size, !.dirty = 0]
  ELSE IF lp.idx THEN lp
  ELSE [lp EXCEPT !.free = leb_size - lp.end, !.dirty = lp.end - lp.used]

CalculateLp(l, lp, used, gc) ==
  LET len   == AlignUp(lp.end)
      dirty == len - lp.used
  IN  CASE l \notin used \/ l = gc -> [lp EXCEPT !.free = leb_size, !.dirty = 0]
        [] l \in used \ {gc} /\ lp.idx -> lp
        [] l \in used \ {gc} /\ ~lp.idx ->
             IF dirty = leb_size THEN [lp EXCEPT !.free = leb_size, !.dirty = 0]
             ELSE [lp EXCEPT !.free = leb_size - len, !.dirty = dirty]

Total(f) == FoldFunction(LAMBDA a, b : a + b, 0, f)

\* The LEB property statistics; dead and dark space depend on limits that
\* nothing here needs.
Statistics(lpt) ==
  [empty_lebs  |-> Cardinality({l \in DOMAIN lpt : lpt[l].free = leb_size}),
   idx_lebs    |-> Cardinality({l \in DOMAIN lpt : lpt[l].idx}),
   total_free  |-> Total([l \in DOMAIN lpt |-> lpt[l].free]),
   total_dirty |-> Total([l \in DOMAIN lpt |-> lpt[l].dirty]),
   total_used  |-> Total([l \in {k \in DOMAIN lpt : ~lpt[k].idx} |->
                            leb_size - lpt[l].free - lpt[l].dirty])]

-----------------------------------------------------------------------------
(* The program. *)

EmptyTree == [fs |-> [ino |-> <<>>, dent |-> {}, data |-> {}], tree |-> {},
              xat |-> <<>>, disc |-> <<>>, asks |-> <<>>]

NothingInMemory ==
  [w |-> EmptyTree, trun |-> {}, held |-> {}, todo |-> <<>>, used |-> {},
   lp |-> <<>>, index |-> [nodes |-> <<>>, zroot |-> None], ihead |-> None,
   gc |-> 0]

Damages(v) ==
  {v} \cup {[v EXCEPT ![l].state = "corrupt"] : l \in DOMAIN v}
      \cup UNION {{[v EXCEPT ![l] = [nodes |-> SubSeq(@.nodes, 1, k), state |-> "torn"]] :
                     k \in 0 .. Len(v[l].nodes) - 1} : l \in DOMAIN v}

Init ==
  /\ \E v \in Volumes : main \in Damages(v)
  /\ area = [lpt |-> None, log |-> "old", orph |-> "old", mst |-> <<None, None>>]
  /\ pc = "off" /\ runs = 0
  /\ r = NothingInMemory
  /\ hist = [scanned |-> <<>>, kept |-> {}, deleted |-> {}, set |-> FALSE]

\* fsck.ubifs is started, and cannot load the file system.
Start ==
  /\ pc \in {"off", "failed"} /\ runs < MaxRuns
  /\ pc' = "scan" /\ runs' = runs + 1
  /\ UNCHANGED <<main, area, r, hist>>

\* scan_nodes() repairs the torn LEBs it comes to.
RecoverLeb ==
  /\ pc = "scan" /\ \E l \in Lebs : main[l].state = "torn"
  /\ LET l == Min({k \in Lebs : main[k].state = "torn"})
     IN  main' = [main EXCEPT ![l] = Recovered(@)]
  /\ UNCHANGED <<pc, area, r, runs, hist>>

\* The history of the first run that scans the whole volume.
Remembered(si, leaves) ==
  [scanned |-> main, set |-> TRUE,
   kept    |-> IF hist.set THEN hist.kept ELSE leaves,
   deleted |-> IF hist.set THEN hist.deleted
               ELSE (si.valid_inos \ Undeleted(si.valid_inos, si.del_inos))
                    \cup (si.valid_dents \ Undeleted(si.valid_dents, si.del_dents))]

\* Steps 1 to 5, and the calculations of step 6.
Scan ==
  /\ pc = "scan" /\ \A l \in Lebs : main[l].state # "torn"
  /\ \E si \in {ScannedInfo(main)} : \E w \in {Kept(si)} :
     \E u \in {WithoutTruncated(w, si.trun)} :
       /\ r' = [r EXCEPT !.w = u, !.trun = TrunsKept(w, si.trun),
                         !.todo = ToCorrect(w, si.trun),
                         !.held = Held(si)]
       /\ hist' = Remembered(si, Leaves(u))
  /\ pc' = "correct"
  /\ UNCHANGED <<main, area, runs>>

OnFlash(n) == [k \in DOMAIN n \ {"lnum", "offs"} |-> n[k]]

\* correct_file_info() changes the inode node in its LEB, atomically; the
\* sequence number stays.
CorrectFile ==
  /\ pc = "correct" /\ r.todo # <<>>
  /\ LET c == Head(r.todo)
     IN  /\ main' = [main EXCEPT ![c.old.lnum].nodes[c.old.offs + 1] = OnFlash(c.new)]
         /\ r' = [r EXCEPT !.todo = Tail(@), !.w.fs.ino[c.old.inum] = c.new]
  /\ UNCHANGED <<pc, area, runs, hist>>

HeldLebs == {n.lnum : n \in r.held}

\* traverse_files_and_nodes() without any file: create_root() takes a LEB.
CreateRoot ==
  /\ pc = "correct" /\ r.todo = <<>> /\ r.w.tree = {}
  /\ LET l == GetFreeLeb(HeldLebs)
     IN  /\ pc' = IF l = 0 THEN "failed" ELSE "root"
         /\ main' = [k \in Lebs |-> IF k = l THEN Leb(<<>>) ELSE main[k]]
         /\ r' = IF l = 0 THEN NothingInMemory ELSE [r EXCEPT !.used = {l}]
  /\ UNCHANGED <<area, runs, hist>>

\* The sequence numbers start again; the inode's own is the second.
RootIno == [t |-> "ino", inum |-> UBIFS_ROOT_INO, type |-> "dir", xattr |-> FALSE,
            enc |-> FALSE, xcnt |-> 0, nlink |-> 2, size |-> 0, sq |-> 2]

WriteRoot ==
  /\ pc = "root"
  /\ LET l == CHOOSE k \in r.used : TRUE
         root == RootIno @@ [lnum |-> l, offs |-> 0]
     IN  /\ main' = [main EXCEPT ![l] = Leb(Padded(<<RootIno>>))]
         /\ r' = [r EXCEPT !.w.tree = {UBIFS_ROOT_INO},
                           !.w.fs.ino = [f \in {UBIFS_ROOT_INO} |-> root]]
  /\ pc' = "correct"
  /\ UNCHANGED <<area, runs, hist>>

\* Step 7.
RecordUsedLebs ==
  /\ pc = "correct" /\ r.todo = <<>> /\ r.w.tree # {}
  /\ LET leaves == Leaves(r.w)
         held   == r.held \cup r.trun
         used   == r.used \cup {n.lnum : n \in leaves \cup held}
     IN  r' = [r EXCEPT !.used = used, !.todo = LebsInOrder(used),
                        !.lp = [l \in Lebs |-> UpdateLpt(l, leaves, held)]]
  /\ pc' = "rewrite"
  /\ UNCHANGED <<main, area, runs, hist>>

\* Step 8: a used LEB is written again up to its last used node.
RewriteLeb ==
  /\ pc = "rewrite" /\ r.todo # <<>>
  /\ LET l == Head(r.todo)
     IN  main' = [main EXCEPT ![l] = Leb(Padded(SubSeq(@.nodes, 1, r.lp[l].end)))]
  /\ r' = [r EXCEPT !.todo = Tail(@)]
  /\ UNCHANGED <<pc, area, runs, hist>>

\* Step 9.  todo holds the numbers of the index LEBs to come.
StartTnc ==
  /\ pc = "rewrite" /\ r.todo = <<>>
  /\ \E index \in {IndexOf(Leaves(r.w), r.used)} :
       r' = [r EXCEPT !.index = index,
                      !.todo = [k \in 1 .. ((Len(index.nodes) + leb_size - 1) \div leb_size)
                                  |-> k - 1]]
  /\ pc' = "tnc"
  /\ UNCHANGED <<main, area, runs, hist>>

\* reserve_space() takes a new LEB, and unmaps it.
ReserveLeb ==
  /\ pc = "tnc" /\ r.todo # <<>>
  /\ LET l == GetFreeLeb(r.used)
     IN  IF l = 0 THEN pc' = "failed" /\ r' = NothingInMemory /\ UNCHANGED main
         ELSE /\ pc' = "flush"
              /\ main' = [main EXCEPT ![l] = Leb(<<>>)]
              /\ r' = [r EXCEPT !.used = @ \cup {l}, !.ihead = [lnum |-> l, offs |-> 0]]
  /\ UNCHANGED <<area, runs, hist>>

\* flush_write_buf(), with the index head behind what it writes.
FlushWriteBuf ==
  /\ pc = "flush"
  /\ LET l     == r.ihead.lnum
         chunk == IndexChunk(r.index.nodes, Head(r.todo))
         len   == AlignUp(Len(chunk))
     IN  /\ main' = [main EXCEPT ![l] = Leb(Padded(chunk))]
         /\ r' = [r EXCEPT !.todo = Tail(@), !.ihead.offs = len,
                           !.lp[l] = [@ EXCEPT !.free = leb_size - len,
                                               !.dirty = len - Len(chunk), !.idx = TRUE]]
  /\ pc' = "tnc"
  /\ UNCHANGED <<area, runs, hist>>

\* Step 10.
BuildLpt ==
  /\ pc = "tnc" /\ r.todo = <<>>
  /\ LET gc == GetFreeLeb(r.used)
         used == r.used \cup {gc}
     IN  IF gc = 0 THEN pc' = "failed" /\ r' = NothingInMemory /\ UNCHANGED area
         ELSE /\ pc' = "log"
              /\ r' = [r EXCEPT !.gc = gc, !.used = used]
              /\ area' = [area EXCEPT !.lpt = [l \in Lebs |->
                                                 CalculateLp(l, r.lp[l], used, gc)]]
  /\ UNCHANGED <<main, runs, hist>>

\* Step 11: clean_log() empties the log, then writes a commit start node.
CleanLog ==
  /\ pc \in {"log", "cs"}
  /\ area' = [area EXCEPT !.log = IF pc = "log" THEN "empty" ELSE "clean"]
  /\ pc' = IF pc = "log" THEN "cs" ELSE "orphans"
  /\ UNCHANGED <<main, r, runs, hist>>

ClearOrphans ==
  /\ pc = "orphans"
  /\ area' = [area EXCEPT !.orph = "clean"]
  /\ pc' = "mst1"
  /\ UNCHANGED <<main, r, runs, hist>>

Master == [t |-> "mst", run |-> runs, zroot |-> r.index.zroot, gc_lnum |-> r.gc,
           ihead |-> r.ihead, index_size |-> Len(r.index.nodes),
           lst |-> Statistics(area.lpt)]

\* Step 12, write_master(): each copy is unmapped, then written.
WriteMaster ==
  /\ pc \in {"mst1", "mst2"}
  /\ LET copy == IF pc = "mst1" THEN 1 ELSE 2
         blank == area.mst[copy] = None
     IN  /\ area' = [area EXCEPT !.mst[copy] = IF blank THEN Master ELSE None]
         /\ pc' = CASE ~blank -> pc
                    [] blank /\ copy = 1 -> "mst2"
                    [] blank /\ copy = 2 -> "done"
  /\ UNCHANGED <<main, r, runs, hist>>

\* The LEB and nodes of a write under way.
BeingWritten ==
  CASE pc = "root"  -> {[lnum |-> CHOOSE k \in r.used : TRUE, nodes |-> <<RootIno>>]}
    [] pc = "flush" -> {[lnum |-> r.ihead.lnum,
                         nodes |-> IndexChunk(r.index.nodes, Head(r.todo))]}
    [] OTHER -> {}

\* Power fails between two writes, or tears the write under way.  An I/O
\* error, which makes the program give up, leaves the same on flash.
PowerCut ==
  /\ pc \notin {"off", "done", "failed"}
  /\ main' \in {main} \cup UNION {{[main EXCEPT ![x.lnum] =
                                     [nodes |-> SubSeq(x.nodes, 1, k), state |-> "torn"]] :
                                     k \in 0 .. Len(x.nodes) - 1} : x \in BeingWritten}
  /\ pc' = "off" /\ r' = NothingInMemory
  /\ UNCHANGED <<area, runs, hist>>

Next ==
  \/ Start \/ RecoverLeb \/ Scan \/ CorrectFile \/ CreateRoot \/ WriteRoot
  \/ RecordUsedLebs \/ RewriteLeb \/ StartTnc \/ ReserveLeb \/ FlushWriteBuf
  \/ BuildLpt \/ CleanLog \/ ClearOrphans \/ WriteMaster \/ PowerCut

Spec == Init /\ [][Next]_vars

-----------------------------------------------------------------------------
(* What is on flash. *)

\* The leaf branches below an index node, in order.
RECURSIVE LeavesUnder(_)
LeavesUnder(br) ==
  LET node == main[br.lnum].nodes[br.offs + 1]
  IN  IF node.level = 0 THEN node.branch
      ELSE FoldLeft(LAMBDA s, b : s \o LeavesUnder(b), <<>>, node.branch)

\* The index nodes below a branch, itself included.
RECURSIVE IndexUnder(_)
IndexUnder(br) ==
  LET node == main[br.lnum].nodes[br.offs + 1]
  IN  {br} \cup IF node.level = 0 THEN {}
                ELSE UNION {IndexUnder(b) : b \in ToSet(node.branch)}

\* The masters this run has written; a mount could find the first before the
\* second is there.
NewMasters == {m \in ToSet(area.mst) : m # None /\ m.run = runs}

IndexedNodes(m) == {[lnum |-> b.lnum, offs |-> b.offs] : b \in ToSet(LeavesUnder(m.zroot))}

-----------------------------------------------------------------------------
(* What a rebuild ought to keep of a scanned main area, defined without    *)
(* the passes of the program.                                              *)

Current(S, SameKey(_, _)) ==
  {n \in S : ~ \E m \in S : SameKey(m, n) /\ (m.sq > n.sq \/ (m.sq = n.sq /\ Before(m, n)))}

LiveInos(m) ==
  {n \in Current(Scanned(m, "ino"), LAMBDA a, b : a.inum = b.inum) : n.nlink > 0}

LiveDents(m) ==
  {d \in Current(Scanned(m, "dent"),
                 LAMBDA a, b : a.host = b.host /\ a.name = b.name /\ a.xent = b.xent) :
     d.inum # NoFile}

\* The entries that may lead to an inode: all of its kind, but only the last
\* for a directory or an extended attribute.
LeadingTo(i, dents) ==
  LET own == {d \in dents : d.inum = i.inum /\ d.type = i.type /\ d.xent = i.xattr}
  IN  IF i.type = "dir" \/ i.xattr
      THEN {d \in own : \A e \in own : e.sq <= d.sq} ELSE own

\* file_is_valid() judges a file by its oldest name alone: the file goes, and
\* its other names with it, when the directory of that name has lost its
\* inode and anything else of the directory is left.
FirstParentLost(m, i, inos, dents) ==
  \E d \in LeadingTo(i, dents) :
    /\ \A e \in LeadingTo(i, dents) : d.sq <= e.sq
    /\ ~d.xent /\ \A h \in inos : h.inum = d.host => h.type # "dir"
    /\ \E n \in inos \cup dents \cup Scanned(m, "data") \cup Scanned(m, "trun") :
         n.inum = d.host

RECURSIVE ReachableFrom(_, _, _)
ReachableFrom(F, inos, dents) ==
  LET more == {i \in inos \ F : \E d \in LeadingTo(i, dents) :
                 \E h \in F : h.inum = d.host /\ (d.xent \/ h.type = "dir")}
  IN  IF more = {} THEN F ELSE ReachableFrom(F \cup more, inos, dents)

CutOff(m, i, b) ==
  \/ i.sq > b.sq /\ i.size < b.end
  \/ \E t \in Scanned(m, "trun") :
       /\ t.inum = b.inum /\ t.sq > b.sq /\ t.size < b.end
       /\ \A u \in Scanned(m, "trun") : u.inum = t.inum => u.sq <= t.sq

Expected(m) ==
  LET inos  == LiveInos(m)
      dents == LiveDents(m)
      sound == {i \in inos : ~FirstParentLost(m, i, inos, dents)}
      F == ReachableFrom({i \in sound : i.inum = UBIFS_ROOT_INO}, sound, dents)
      blocks == Current(Scanned(m, "data"), LAMBDA a, b : a.inum = b.inum /\ a.blk = b.blk)
  IN  F \cup UNION {{d \in LeadingTo(i, dents) : \E h \in F : h.inum = d.host} : i \in F}
        \cup {b \in blocks : \E i \in F : i.inum = b.inum /\ i.type = "reg"
                                          /\ ~i.xattr /\ ~CutOff(m, i, b)}

-----------------------------------------------------------------------------
(* Properties. *)

\* As soon as write_master() has put a new master node on flash, the index it
\* points to has, in strictly ascending key order, exactly the newest nodes
\* that are not deleted, not truncated, and belong to a file that can be
\* reached from the root, each where the scan found it; or a new, empty root
\* if nothing can be reached.
RebuiltExactly ==
  \A m \in NewMasters :
    LET leaves == LeavesUnder(m.zroot)
        wanted == {Branch(Key(n), n.lnum, n.offs) : n \in Expected(hist.scanned)}
    IN  /\ \A i \in 1 .. Len(leaves) - 1 : KeyLess(leaves[i].key, leaves[i + 1].key)
        /\ IF wanted # {} THEN ToSet(leaves) = wanted
           ELSE /\ Len(leaves) = 1
                /\ main[leaves[1].lnum].nodes[leaves[1].offs + 1] = RootIno

\* A new master node comes last: the log and the orphan area are clean by
\* then, and the LEB properties calculate_lp() worked out tell for every LEB
\* what is really in it.  The used space is what the index refers to, index
\* LEBs are flagged, a LEB is free behind its last written unit, and the
\* garbage collector's LEB and the index head can be written.
MasterConsistent ==
  \A m \in NewMasters :
    LET index == {[lnum |-> b.lnum, offs |-> b.offs] : b \in IndexUnder(m.zroot)}
        files == IndexedNodes(m)
        In(S, l) == {n \in S : n.lnum = l}
    IN  /\ area.log = "clean" /\ area.orph = "clean"
        /\ \A l \in Lebs :
             LET lp == area.lpt[l]
                 live == In(index \cup files, l)
             IN  /\ leb_size - lp.free - lp.dirty = Cardinality(live)
                 /\ lp.free \in {leb_size, leb_size - Len(main[l].nodes)}
                 /\ lp.idx = (In(index, l) # {})
                 /\ main[l].state # "ok" => lp.free = leb_size
        /\ m.index_size = Cardinality(index)
        /\ m.lst.total_used = Cardinality(files)
        /\ m.lst.idx_lebs = Cardinality({l \in Lebs : In(index, l) # {}})
        /\ area.lpt[m.gc_lnum].free = leb_size
        /\ area.lpt[m.ihead.lnum].free = leb_size - m.ihead.offs

SameNode(a, b) ==
  /\ DOMAIN a = DOMAIN b
  /\ \A k \in DOMAIN a \ {"nlink", "size", "xcnt"} : a[k] = b[k]

\* Whatever the first run found worth keeping survives power cuts: it stays
\* on flash at its place through every step of this run and later ones, and
\* a later run that completes has it in the index.
KeptByLaterRuns ==
  \A n \in hist.kept :
    /\ main[n.lnum].state # "corrupt" /\ n.offs < Len(main[n.lnum].nodes)
    /\ SameNode(OnFlash(n), main[n.lnum].nodes[n.offs + 1])
    /\ \A m \in NewMasters : [lnum |-> n.lnum, offs |-> n.offs] \in IndexedNodes(m)

\* A file or name that the first run found deleted is not brought back by a
\* run that starts over after a cut: remove_del_nodes() has the LEB of the
\* deletion node kept as long as there is a node it deletes.
DeletedStaysDeleted ==
  \A n \in hist.deleted : \A m \in NewMasters :
    [lnum |-> n.lnum, offs |-> n.offs] \in IndexedNodes(m) =>
      ~SameNode(OnFlash(n), main[n.lnum].nodes[n.offs + 1])

\* A run of rebuild_fs() that starts over after a cut comes to the verdict of
\* the first one: what that kept is kept, what it found deleted stays deleted.
LaterRunsAgree == KeptByLaterRuns /\ DeletedStaysDeleted
===============================================================================
