----------------------------- MODULE Jffs2Image -----------------------------
(***************************************************************************)
(* JFFS2 images: mkfs.jffs2 writes one from a directory and a device       *)
(* table, and with --incremental a second one that is appended to the      *)
(* first; sumtool adds summaries.                                          *)
(*                                                                         *)
(* An image is the sequence of its nodes, [at, len, n], with blank space   *)
(* between them.  Sizes are in units, those of nodes with their padding to *)
(* words.  A path is a sequence of names, a name a positive number; the    *)
(* number i appended to a name gives 10 * name + i.                        *)
(***************************************************************************)
EXTENDS MtdDevice, SequencesExt

DIRENT == 2              \* jffs2_raw_dirent with the name
INODE == 3               \* jffs2_raw_inode
XATTR == 2               \* jffs2_raw_xattr with name and value
XREF == 1
SUMMARY == 2             \* jffs2_raw_summary and jffs2_sum_marker
SUM_ENTRY == 1           \* an entry of a summary
JFFS2_MIN_DATA_LEN == 1
JFFS2_MAX_SYMLINK_LEN == 3
JFFS2_MAX_FILE_SIZE == 40

Eb == job.erase_block_size
RoundUp(n) == ((n + Eb - 1) \div Eb) * Eb

(***************************************************************************)
(* mkfs.jffs2: the entries, from the host and from the device table.       *)
(***************************************************************************)
(* add_host_filesystem_entry(): what is not on the host has no inode there.  *)
HostEntry(host, path, type, attr, dev) ==
  [path |-> path, type |-> type, attr |-> attr, dev |-> dev,
   hino |-> IF path \in DOMAIN host THEN host[path].hino ELSE 0]

(* Owner and mode; symbolic links keep their mode.                           *)
Squashed(type, attr) ==
  <<IF job.squash_uids THEN 0 ELSE attr[1], IF job.squash_perms /\ type # "lnk" THEN 0 ELSE attr[2]>>

Subdirs(host) == {<<>>} \cup {p \in DOMAIN host : host[p].type = "dir"}

Alphasort(S) == [i \in 1..Cardinality(S) |-> CHOOSE x \in S : Cardinality({y \in S : y < x}) = i - 1]

(* recursive_add_host_directory(): the files of each directory, as scandir() *)
(* sorts them.                                                               *)
HostTree(host) ==
  [d \in Subdirs(host) |->
     LET names == Alphasort({Last(p) : p \in {q \in DOMAIN host : Front(q) = d}})
     IN [i \in DOMAIN names |->
           LET p == Append(d, names[i])
           IN HostEntry(host, p, host[p].type, Squashed(host[p].type, host[p].attr), host[p].dev)]]

Indices(tree, path) ==
  IF Front(path) \in DOMAIN tree
  THEN {i \in DOMAIN tree[Front(path)] : tree[Front(path)][i].path = path} ELSE {}

Numbered(path, i) == [path EXCEPT ![Len(path)] = 10 * @ + i]

(* A file must exist on the host if it is a regular one, and what exists     *)
(* must have the type of the line.                                           *)
Refused(host, path, type) ==
  IF path \in DOMAIN host THEN host[path].type # type ELSE type = "reg"

(* interpret_table_entry(): a line changes the first entry of its name or    *)
(* adds entries to its directory; without one it is skipped.                 *)
Counted(line) == line.count > 0 /\ line.type = "dev"

Changes(tree, line) == Indices(tree, line.path) # {} /\ ~Counted(line)

Added(line) ==
  IF ~Counted(line) THEN <<line>>
  ELSE [i \in 1..line.count |-> [line EXCEPT !.path = Numbered(@, line.start + i - 1),
                                    !.dev[2] = @ + (i - 1) * line.increment]]

InterpretTableEntry(host, tree, line) ==
  IF Changes(tree, line)
  THEN LET i == Min(Indices(tree, line.path)) IN
       [tree EXCEPT ![Front(line.path)][i] =
          [@ EXCEPT !.type = line.type, !.attr = line.attr,
                    !.dev = IF line.dev[1] > 0 /\ line.dev[2] > 0 THEN line.dev ELSE @]]
  ELSE IF Front(line.path) \notin DOMAIN tree THEN tree
  ELSE LET new == [i \in DOMAIN Added(line) |->
                     LET l == Added(line)[i] IN HostEntry(host, l.path, l.type, l.attr, l.dev)]
           grown == [tree EXCEPT ![Front(line.path)] = @ \o new]
       IN IF line.type = "dir" THEN grown @@ (line.path :> <<>>) ELSE grown

TableRefused(host, tree, line) ==
  /\ ~Changes(tree, line) /\ Front(line.path) \in DOMAIN tree
  /\ \/ line.type = "lnk"
     \/ \E i \in DOMAIN Added(line) : Refused(host, Added(line)[i].path, line.type)

(***************************************************************************)
(* mkfs.jffs2: writing.                                                    *)
(***************************************************************************)
(* Mutant: inode numbers start again.                                        *)
StartAtOne(pass, host, img, ofs) ==
  [pass |-> pass, host |-> host, tree |-> HostTree(host), table |-> job.tables[pass],
   todo |-> <<[op |-> "dir", path |-> <<>>]>>, img |-> img, ofs |-> ofs,
   ino |-> 1, version |-> 0, inos |-> (<<>> :> 1), links |-> <<>>, xids |-> <<>>, xseqno |-> 0]

(* main(): the directory is read; an image to append to gives the inode      *)
(* number to go on from (parse_image(), process_buffer()), nothing else.     *)
Start(pass, host, img, ofs) ==
  LET inos == {img[i].n.ino : i \in {j \in DOMAIN img : img[j].n.t = "inode"}}
  IN [pass |-> pass, host |-> host, tree |-> HostTree(host), table |-> job.tables[pass],
      todo |-> <<[op |-> "dir", path |-> <<>>]>>, img |-> img, ofs |-> ofs,
      ino |-> Max(inos \cup {1}), version |-> 0, inos |-> (<<>> :> 1),
      links |-> <<>>, xids |-> <<>>, xseqno |-> 0]

Emit(w, len, n) ==
  [w EXCEPT !.img = Append(@, [at |-> w.ofs, len |-> len, n |-> n]), !.ofs = @ + len]

Cleanmarker(w) ==
  IF job.cleanmarker > 0 /\ w.ofs % Eb = 0 THEN Emit(w, job.cleanmarker, [t |-> "clean"]) ELSE w

(* Mutant: no cleanmarker at the start of an erase block that padding leads  *)
(* to.                                                                       *)
PadBlockUnmarked(w, req) ==
  LET m == Cleanmarker(w)
  IN IF (m.ofs % Eb) + req > Eb THEN [m EXCEPT !.ofs = RoundUp(@)] ELSE m

(* pad_block_if_less_than()                                                  *)
PadBlock(w, req) ==
  LET m == Cleanmarker(w)
  IN Cleanmarker(IF (m.ofs % Eb) + req > Eb THEN [m EXCEPT !.ofs = RoundUp(@)] ELSE m)

WriteNode(w, len, n) == Emit(PadBlock(w, len), len, n)

(* write_dirent(): versions count from 0, over all directories.              *)
WriteDirent(w, e, ino) ==
  WriteNode([w EXCEPT !.version = @ + 1], DIRENT,
            [t |-> "dirent", pino |-> w.inos[Front(e.path)], version |-> w.version, ino |-> ino,
             name |-> Last(e.path), type |-> e.type])

InodeNode(e, ino, version, isize, offset, data) ==
  [t |-> "inode", ino |-> ino, version |-> version, type |-> e.type, attr |-> e.attr,
   isize |-> isize, offset |-> offset, data |-> data]

(* write_pipe(), write_symlink() and write_special_file()                    *)
WritePipe(w, e, ino) == WriteNode(w, INODE, InodeNode(e, ino, 1, 0, 0, <<>>))

WriteSymlink(w, e, ino) ==
  LET target == w.host[e.path].target
  IN WriteNode(w, INODE + 1,
               InodeNode(e, ino, 1, Len(target), 0,
                         SubSeq(target, 1, Min({Len(target), JFFS2_MAX_SYMLINK_LEN}))))

WriteSpecialFile(w, e, ino) ==
  WriteNode(w, INODE + 1, InodeNode(e, ino, 1, 0, 0, <<(256 * e.dev[1] + e.dev[2]) % 65536>>))

(* write_xattr_entry(): the attributes llistxattr() tells, one by one.       *)
Xattrs(w, path, ino) ==
  IF job.xattr /\ path \in DOMAIN w.host
  THEN [i \in DOMAIN w.host[path].xattrs |->
          [op |-> "xattr", ino |-> ino, value |-> w.host[path].xattrs[i]]]
  ELSE <<>>

(* find_xattr_entry(), create_xattr_entry(): equal attributes share a node.  *)
WriteXattr(w, x) ==
  LET old == {i \in DOMAIN w.xids : w.xids[i] = x.value}
      xid == IF old = {} THEN Len(w.xids) + 1 ELSE Min(old)
      made == IF old = {}
              THEN [WriteNode(w, XATTR, [t |-> "xattr", xid |-> xid, value |-> x.value])
                      EXCEPT !.xids = Append(@, x.value)]
              ELSE w
  IN WriteNode([made EXCEPT !.xseqno = @ + 2], XREF,
               [t |-> "xref", ino |-> x.ino, xid |-> xid, xseqno |-> w.xseqno + 2])

(* recursive_populate_directory(): the entries, then the subdirectories that *)
(* have any.                                                                 *)
PopulateDirectory(w, dir) ==
  LET files == w.tree[dir]
      filled(e) == e.type = "dir" /\ w.tree[e.path] # <<>>
      dirs == SelectSeq(files, filled)
  IN Xattrs(w, dir, w.inos[dir]) \o [i \in DOMAIN files |-> [op |-> "entry", e |-> files[i]]]
     \o [i \in DOMAIN dirs |-> [op |-> "dir", path |-> dirs[i].path]]

(* find_hardlink(): the inode of an entry that is on the host once more.     *)
FindHardlink(w, e) == IF e.hino \in DOMAIN w.links THEN w.links[e.hino] ELSE 0

(* An entry: another name of an inode that has been written, or a new inode. *)
(* A file that is too large is left out.                                     *)
WriteEntry(w, e) ==
  LET known == FindHardlink(w, e)
      large == e.type = "reg" /\ w.host[e.path].size >= JFFS2_MAX_FILE_SIZE
      ino == IF large THEN 0 ELSE w.ino + 1
      linked == [w EXCEPT !.links = IF e.hino > 0 THEN (e.hino :> ino) @@ @ ELSE @]
      named == WriteDirent([linked EXCEPT !.ino = ino, !.inos = (e.path :> ino) @@ @], e, ino)
      made == CASE e.type = "reg" -> IF large THEN linked ELSE named
                [] e.type = "lnk" -> WriteSymlink(named, e, ino)
                [] e.type = "dev" -> WriteSpecialFile(named, e, ino)
                [] e.type \in {"dir", "fifo"} -> WritePipe(named, e, ino)
      data == IF e.type = "reg" /\ ~large
              THEN <<[op |-> "data", e |-> e, ino |-> ino, version |-> 0, offset |-> 0]>> ELSE <<>>
  IN IF known > 0 THEN WriteDirent(w, e, known)
     ELSE [made EXCEPT !.todo = data \o Xattrs(w, e.path, ino) \o @]

(* What jffs2_compress() may make of len units of data where there is room   *)
(* for space units: nothing, or up to twice as much data in half the room.   *)
Compress(len, space) ==
  {[dsize |-> space, csize |-> space]} \cup
  (IF job.compress /\ len > 1
   THEN LET d == Min({len, 2 * space}) IN {[dsize |-> d, csize |-> (d + 1) \div 2]} ELSE {})

MkfsJffs2 ==
  /\ pc = "jffs2"
  /\ v' = Start(1, job.hosts[1], <<>>, 0)
  /\ pc' = "table"
  /\ UNCHANGED <<flash, bad, job, code, faults>>

(* parse_device_table()                                                      *)
ParseDeviceTable ==
  /\ pc = "table"
  /\ \/ v.table = <<>> /\ pc' = "populate" /\ UNCHANGED <<v, code>>
     \/ /\ v.table # <<>> /\ TableRefused(v.host, v.tree, Head(v.table))
        /\ Exit(1) /\ UNCHANGED v
     \/ /\ v.table # <<>> /\ ~TableRefused(v.host, v.tree, Head(v.table))
        /\ v' = [v EXCEPT !.tree = InterpretTableEntry(v.host, @, Head(v.table)), !.table = Tail(@)]
        /\ UNCHANGED <<pc, code>>
  /\ UNCHANGED <<flash, bad, job, faults>>

Populate ==
  /\ pc = "populate" /\ v.todo # <<>>
  /\ LET x == Head(v.todo)
         w == [v EXCEPT !.todo = Tail(@)]
     IN /\ x.op # "data"
        /\ v' = CASE x.op = "dir" -> [w EXCEPT !.todo = PopulateDirectory(w, x.path) \o @]
                  [] x.op = "entry" -> WriteEntry(w, x.e)
                  [] x.op = "xattr" -> WriteXattr(w, x)
  /\ UNCHANGED <<flash, bad, job, pc, code, faults>>

(* write_regular_file(): a node, with what fits of the rest of a page; an    *)
(* empty file has a node too.  The size is the one lstat() told.             *)
WriteRegularFile ==
  /\ pc = "populate" /\ v.todo # <<>> /\ Head(v.todo).op = "data"
  /\ LET x == Head(v.todo)
         file == v.host[x.e.path]
         len == Min({(x.offset \div job.page_size + 1) * job.page_size, Len(file.data)}) - x.offset
         w == PadBlock([v EXCEPT !.todo = Tail(@)], INODE + JFFS2_MIN_DATA_LEN)
         space == Min({len, Eb - (w.ofs % Eb) - INODE})
     IN \/ /\ len > 0
           /\ \E c \in Compress(len, space) :
                v' = [Emit(w, INODE + c.csize,
                           InodeNode(x.e, x.ino, x.version + 1, file.size, x.offset,
                                     SubSeq(file.data, x.offset + 1, x.offset + c.dsize)))
                        EXCEPT !.todo = <<[x EXCEPT !.version = @ + 1, !.offset = @ + c.dsize]>> \o @]
        \/ /\ len = 0 /\ x.version = 0
           /\ v' = WriteNode([v EXCEPT !.todo = Tail(@)], INODE, InodeNode(x.e, x.ino, 1, file.size, 0, <<>>))
        \/ len = 0 /\ x.version > 0 /\ v' = [v EXCEPT !.todo = Tail(@)]
  /\ UNCHANGED <<flash, bad, job, pc, code, faults>>

(* lstat(), open(), read() or write() fails.                                 *)
MkfsDies ==
  /\ pc \in {"table", "populate"} /\ job.may_fail
  /\ Exit(1)
  /\ UNCHANGED <<flash, bad, job, v, faults>>

(* create_target_filesystem(): the end of the image.                         *)
PadImage(w) ==
  LET ofs == RoundUp(w.ofs)
      blocks == (Max({ofs, RoundUp(job.pad)}) - ofs) \div Eb
  IN CASE job.pad = -1 -> [w EXCEPT !.ofs = ofs]
       [] job.pad >= 0 /\ (job.pad = 0 \/ job.cleanmarker = 0) -> [w EXCEPT !.ofs = Max({@, job.pad})]
       [] job.pad > 0 /\ job.cleanmarker > 0 ->
            [w EXCEPT !.ofs = ofs + blocks * Eb,
                      !.img = @ \o [i \in 1..blocks |-> [at |-> ofs + (i - 1) * Eb, len |-> job.cleanmarker,
                                                         n |-> [t |-> "clean"]]]]

(* The image is complete.  What --incremental writes is appended to it, at   *)
(* an erase block's start: such images are padded.                           *)
ImageComplete ==
  /\ pc = "populate" /\ v.todo = <<>>
  /\ \E w \in {PadImage(v)} :
       IF w.pass < Len(job.hosts)
       THEN v' = Start(w.pass + 1, job.hosts[w.pass + 1], w.img, w.ofs) /\ pc' = "table"
       ELSE v' = [img |-> w.img, end |-> w.ofs] /\ pc' = "sumtool"
  /\ UNCHANGED <<flash, bad, job, code, faults>>

(***************************************************************************)
(* sumtool: the nodes of the input go through a buffer of one erase block. *)
(* job.sum has add_cleanmarkers, padto and in cleanmarker the size given   *)
(* with -c, or 0.                                                          *)
(***************************************************************************)
Exceeds(a, b) == b >= 0 /\ a > b   \* unsigned: a negative b is a large number

SumSize(s) == SUM_ENTRY * Len(s.sums)
WithMarkers(s) == job.sum.add_cleanmarkers /\ s.found

FullWrite(s, len, n) ==
  [s EXCEPT !.buf = Append(@, [at |-> s.end + s.data_ofs, len |-> len, n |-> n]), !.data_ofs = @ + len]

(* Mutant: the list of records is not cleaned.                               *)
DumpSumRecordsKeeping(s) ==
  IF s.sums = <<>> THEN s
  ELSE FullWrite(s, Eb - s.data_ofs,
                 [t |-> "summary", cln_mkr |-> IF WithMarkers(s) THEN s.cleanmarker ELSE 0, sums |-> s.sums])

(* dump_sum_records(): the summary takes the rest of the erase block.        *)
DumpSumRecords(s) ==
  IF s.sums = <<>> THEN s
  ELSE [FullWrite(s, Eb - s.data_ofs,
                  [t |-> "summary", cln_mkr |-> IF WithMarkers(s) THEN s.cleanmarker ELSE 0,
                   sums |-> s.sums]) EXCEPT !.sums = <<>>]

WriteBuff(s) ==
  [s EXCEPT !.out = @ \o s.buf, !.end = @ + s.data_ofs, !.buf = <<>>, !.data_ofs = 0]

(* pad_block_if_less_than() of sumtool                                       *)
MakeRoom(s, req) ==
  LET datasize == req + SUM_ENTRY + SumSize(s) + SUMMARY
      t == IF Exceeds(s.data_ofs + req, Eb - datasize) THEN WriteBuff(DumpSumRecords(s)) ELSE s
  IN IF WithMarkers(t) /\ t.data_ofs = 0 THEN FullWrite(t, t.cleanmarker, [t |-> "clean"]) ELSE t

SumEntry(n, ofs) ==
  CASE n.t = "inode" -> [t |-> n.t, offset |-> ofs, ino |-> n.ino, version |-> n.version]
    [] n.t = "dirent" -> [n EXCEPT !.t = "dirent"] @@ [offset |-> ofs]
    [] n.t = "xattr" -> [t |-> n.t, offset |-> ofs, xid |-> n.xid]
    [] n.t = "xref" -> [t |-> n.t, offset |-> ofs]

(* write_inode_to_buff() and the like                                        *)
WriteToBuff(s, node) ==
  LET t == MakeRoom(s, node.len)
  IN FullWrite([t EXCEPT !.sums = Append(@, SumEntry(node.n, t.data_ofs))], node.len, node.n)

Sumtool ==
  /\ pc = "sumtool"
  /\ \/ /\ ~job.sum.on /\ pc' = "reader" /\ UNCHANGED v
     \/ /\ job.sum.on /\ pc' = "sum_node"
        /\ v' = [input |-> v.img, todo |-> v.img, buf |-> <<>>, data_ofs |-> 0, sums |-> <<>>, out |-> <<>>,
                 end |-> 0, found |-> job.sum.cleanmarker > 0, cleanmarker |-> job.sum.cleanmarker]
  /\ UNCHANGED <<flash, bad, job, code, faults>>

(* create_summed_image(): a node.  Nodes with a wrong CRC are dropped.       *)
SumNode ==
  /\ pc = "sum_node" /\ v.todo # <<>>
  /\ LET node == Head(v.todo)
         s == [v EXCEPT !.todo = Tail(@)]
         k == Len(v.input) - Len(v.todo) + 1
     IN v' = IF k \in job.sum.damaged THEN s
             ELSE IF node.n.t # "clean" THEN WriteToBuff(s, node)
             ELSE IF s.found THEN s
             ELSE [s EXCEPT !.found = TRUE,
                            !.cleanmarker = IF job.sum.add_cleanmarkers THEN node.len ELSE @]
  /\ UNCHANGED <<flash, bad, job, pc, code, faults>>

(* flush_buffers()                                                           *)
FlushBuffers ==
  /\ pc = "sum_node" /\ v.todo = <<>>
  /\ LET full == Exceeds(v.data_ofs + INODE + 2 * JFFS2_MIN_DATA_LEN, Eb - (SumSize(v) + SUMMARY))
         s == CASE v.data_ofs = (IF WithMarkers(v) THEN v.cleanmarker ELSE 0) -> v
                [] v.data_ofs # (IF WithMarkers(v) THEN v.cleanmarker ELSE 0) /\ full ->
                     WriteBuff(DumpSumRecords(v))
                [] OTHER -> WriteBuff(IF job.sum.padto THEN [v EXCEPT !.data_ofs = Eb] ELSE v)
     IN v' = [img |-> s.out, end |-> s.end, input |-> s.input]
  /\ pc' = "reader"
  /\ UNCHANGED <<flash, bad, job, code, faults>>

(* write() fails.                                                            *)
SumtoolDies ==
  /\ pc = "sum_node" /\ job.may_fail
  /\ Exit(1)
  /\ UNCHANGED <<flash, bad, job, v, faults>>
=============================================================================
