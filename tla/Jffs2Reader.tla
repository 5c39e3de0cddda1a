---------------------------- MODULE Jffs2Reader -----------------------------
(***************************************************************************)
(* jffs2reader lists the directories of an image and shows a file of it.   *)
(*                                                                         *)
(* A path of the command line or of a symbolic link is a sequence of names *)
(* which may start with Slash and have Dot and DotDot in it.               *)
(***************************************************************************)
EXTENDS Jffs2Image

Slash == -2
Dot == -1
DotDot == 0
Inf == 1000              \* ~((uint32_t) 0)
MAX_RECC == 5            \* 16 in the code; more than any chain of links that does not go round
NoDirent == [ino |-> 0, pino |-> 0, type |-> "none"]   \* DIRENT_INO(NULL) and DIRENT_PINO(NULL)

(* find_raw_inode(): the first node of version 1, or of the lowest version.  *)
FindRawInode(img, ino) ==
  LET nodes == {i \in DOMAIN img : img[i].n.t = "inode" /\ img[i].n.ino = ino /\ img[i].n.version > 0}
      first == {i \in nodes : \A j \in nodes : img[i].n.version <= img[j].n.version}
  IN IF nodes = {} THEN {} ELSE {img[Min(first)].n}

(* resolvedirent(): the dirent of the highest version above 0, of an inode   *)
(* or else of a name in a directory.                                         *)
ResolveDirent(img, ino, pino, name) ==
  LET found == {i \in DOMAIN img : /\ img[i].n.t = "dirent" /\ img[i].n.version > 0
                                   /\ ino = 0 \/ img[i].n.ino = ino
                                   /\ pino = 0 \/ (img[i].n.pino = pino /\ img[i].n.name = name)}
      newest == {i \in found : \A j \in found : img[i].n.version >= img[j].n.version}
  IN IF found = {} \/ (pino = 0 /\ ino <= 1) THEN NoDirent ELSE img[Min(newest)].n

ResolveInode(img, ino) == ResolveDirent(img, ino, 0, 0)
ResolveName(img, pino, name) == ResolveDirent(img, 0, pino, name)

The(S) == CHOOSE x \in S : TRUE
Nothing == [dir |-> NoDirent, ino |-> 0]

Nodes(img, type) == {img[i].n : i \in {j \in DOMAIN img : img[j].n.t = type}}

(* resolvepath0() of a path from directory ino: walk is its loop over the    *)
(* names, resolve the function itself, which calls itself for the target of  *)
(* a symbolic link.                                                          *)
ResolvePath(img, from, names) ==
  LET target(d) == The(FindRawInode(img, d.ino)).data
      walk[dir \in {NoDirent} \cup Nodes(img, "dirent"), ino \in Nat, path \in Seq(Int), recc \in Nat] ==
        LET rest == Tail(path)
            into(e) == rest = <<>> \/ e.type \in {"dir", "lnk"}
            resolve(to) ==
              CASE recc + 1 > MAX_RECC -> Nothing
                [] recc + 1 <= MAX_RECC /\ Head(to) = Slash -> walk[NoDirent, 1, Tail(to), recc + 1]
                [] recc + 1 <= MAX_RECC /\ Head(to) # Slash ->
                     The({walk[up, IF ino > 1 THEN up.ino ELSE ino, to, recc + 1] : up \in {ResolveInode(img, ino)}})
            follow(r) == IF r.dir = NoDirent THEN walk[NoDirent, r.ino, rest, recc + 1]
                         ELSE IF ~into(r.dir) THEN Nothing
                         ELSE walk[r.dir, r.dir.ino, rest, recc + 1]
            enter(d) == IF d.ino = 0 \/ ~into(d) THEN Nothing
                        ELSE IF d.type # "lnk" THEN walk[d, d.ino, rest, recc]
                        ELSE The({follow(r) : r \in {resolve(target(d))}})
        IN IF ino = 0 \/ path = <<>> THEN [dir |-> dir, ino |-> ino]
           ELSE CASE Head(path) = Dot -> walk[dir, ino, rest, recc]
                  [] Head(path) = DotDot /\ dir.pino = 1 -> walk[NoDirent, 1, rest, recc]
                  [] Head(path) = DotDot /\ dir.pino # 1 ->
                       The({walk[up, up.ino, rest, recc] : up \in {ResolveInode(img, dir.pino)}})
                  [] Head(path) > 0 -> The({enter(d) : d \in {ResolveName(img, ino, Head(path))}})
  IN IF Head(names) = Slash THEN walk[NoDirent, 1, Tail(names), 0]
     ELSE The({walk[up, IF from > 1 THEN up.ino ELSE from, names, 0] : up \in {ResolveInode(img, from)}})

(* Mutant: a dirent without an inode removes nothing.                        *)
PutDirKeeping(d, n) ==
  LET same == {i \in DOMAIN d : d[i].name = n.name}
      e == [name |-> n.name, ino |-> n.ino, type |-> n.type]
  IN CASE n.ino > 0 /\ same = {} -> Append(d, e)
       [] n.ino > 0 /\ same # {} -> [d EXCEPT ![Min(same)] = e]
       [] n.ino = 0 -> d

(* putdir(): a dirent changes, adds or, without an inode, removes a name.    *)
PutDir(d, n) ==
  LET same == {i \in DOMAIN d : d[i].name = n.name}
      e == [name |-> n.name, ino |-> n.ino, type |-> n.type]
  IN CASE n.ino > 0 /\ same = {} -> Append(d, e)
       [] n.ino > 0 /\ same # {} -> [d EXCEPT ![Min(same)] = e]
       [] n.ino = 0 /\ same = {} -> d
       [] n.ino = 0 /\ same # {} -> RemoveAt(d, Min(same))

(* The inode a path leads to for JFFS2: of the dirents of a name the one     *)
(* with the highest version counts.                                          *)
Lookup(img, path) ==
  FoldLeft(LAMBDA ino, name :
             LET named == {n \in Nodes(img, "dirent") : n.pino = ino /\ n.name = name}
             IN IF named = {} THEN 0
                ELSE (CHOOSE n \in named : \A m \in named : m.version <= n.version).ino,
           1, path)

(* A mounted JFFS2 that has removed the file job.unlinked since has written a *)
(* dirent without an inode for it, in an erase block of its own.             *)
Used(img, end) ==
  LET pino == Lookup(img, Front(job.unlinked))
      versions == {n.version : n \in {m \in Nodes(img, "dirent") : m.pino = pino}}
      clean == [at |-> RoundUp(end), len |-> job.cleanmarker, n |-> [t |-> "clean"]]
      gone == [t |-> "dirent", pino |-> pino, version |-> Max(versions \cup {1}) + 1, ino |-> 0,
               name |-> Last(job.unlinked), type |-> "none"]
  IN IF job.unlinked = <<>> THEN img
     ELSE img \o <<clean, [at |-> clean.at + clean.len, len |-> DIRENT, n |-> gone]>>

Jffs2reader ==
  /\ pc = "reader"
  /\ \E r \in {[img |-> Used(v.img, v.end), input |-> IF job.sum.on THEN v.input ELSE v.img, lines |-> <<>>,
                path |-> IF job.dir = <<>> THEN <<Slash>> ELSE job.dir, dirs |-> <<>>, c |-> [ino |-> 0],
                shown |-> <<>>]} :
       v' = r /\ pc' = IF job.dir = <<>> /\ job.show # <<>> THEN "catfile" ELSE "lsdir"
  /\ UNCHANGED <<flash, bad, job, code, faults>>

(* lsdir(): look the directory up and start to collect it.                   *)
LsDir ==
  /\ pc = "lsdir"
  /\ \E found \in {ResolvePath(v.img, 1, v.path)} :
       IF found.ino = 0 \/ found.dir.type \notin {"none", "dir"} THEN Exit(1) /\ UNCHANGED v
       ELSE /\ pc' = "collect" /\ UNCHANGED code
            /\ v' = [v EXCEPT !.dirs = Append(@, [path |-> v.path, d |-> <<>>]),
                              !.c = [ino |-> found.ino, n |-> 0, lr |-> 0, mp |-> 0, vcur |-> 0,
                                     vmint |-> Inf, vmaxt |-> 0, vmax |-> Inf]]
  /\ UNCHANGED <<flash, bad, job, faults>>

(* collectdir(): the next node.  The dirents of the directory are taken in   *)
(* the order of their versions, over and over from the start of the image;   *)
(* where a version is missing the next one is taken after a whole round.     *)
CollectDir ==
  /\ pc = "collect"
  /\ LET c == v.c
         next == {i \in DOMAIN v.img : v.img[i].at >= c.n}
         at == Min(next)
         node == v.img[at]
         mine == next # {} /\ node.n.t = "dirent" /\ node.n.pino = c.ino /\ node.n.version > c.vcur
         taken == mine /\ node.n.version = c.vcur + 1
         c1 == [c EXCEPT !.n = IF next = {} THEN 0 ELSE node.at + node.len,
                         !.vmaxt = IF mine THEN Max({@, node.n.version}) ELSE @,
                         !.mp = IF mine /\ node.n.version < c.vmint THEN at ELSE @,
                         !.vmint = IF taken THEN Inf ELSE IF mine THEN Min({@, node.n.version}) ELSE @,
                         !.lr = IF taken THEN node.at ELSE @,
                         !.vcur = IF taken THEN @ + 1 ELSE @]
         round == c1.lr = c1.n
         gap == round /\ c1.vcur < c1.vmaxt /\ c1.vcur < c1.vmint
         after == v.img[c1.mp].at + v.img[c1.mp].len
         c2 == IF ~round THEN c1
               ELSE IF ~gap THEN [c1 EXCEPT !.vmax = c1.vmaxt, !.vmint = Inf]
               ELSE [c1 EXCEPT !.vmax = c1.vmaxt, !.vmint = Inf, !.vcur = c1.vmint,
                               !.lr = after, !.n = after]
         d == Last(v.dirs).d
         d1 == IF taken THEN PutDir(d, node.n) ELSE d
         d2 == IF gap THEN PutDir(d1, v.img[c1.mp].n) ELSE d1
     IN /\ v' = [v EXCEPT !.c = c2, !.dirs[Len(v.dirs)].d = d2]
        /\ pc' = IF c2.vcur < c2.vmax THEN pc ELSE "printdir"
  /\ UNCHANGED <<flash, bad, job, code, faults>>

(* printdir(): the next entry of the directory that was entered last.        *)
PrintDir ==
  /\ pc = "printdir"
  /\ LET dir == Last(v.dirs)
         e == Head(dir.d)
         path == Append(dir.path, e.name)
         r == [v EXCEPT !.dirs[Len(v.dirs)].d = Tail(@)]
     IN \/ /\ dir.d = <<>>
           /\ v' = [v EXCEPT !.dirs = Front(@)]
           /\ IF Len(v.dirs) > 1 THEN UNCHANGED <<pc, code>>
              ELSE IF job.show # <<>> THEN pc' = "catfile" /\ UNCHANGED code
              ELSE Exit(0)
        \/ /\ dir.d # <<>> /\ FindRawInode(v.img, e.ino) = {}
           /\ v' = r /\ UNCHANGED <<pc, code>>
        \/ /\ dir.d # <<>>
           /\ \E ri \in FindRawInode(v.img, e.ino) :
                LET printed == [r EXCEPT !.lines = Append(@, [path |-> path, type |-> e.type, attr |-> ri.attr])]
                IN IF e.type = "dir" /\ (job.recurse \/ (job.dir = <<>> /\ job.show = <<>>))
                   THEN v' = [printed EXCEPT !.path = path] /\ pc' = "lsdir" /\ UNCHANGED code
                   ELSE v' = printed /\ UNCHANGED <<pc, code>>
  /\ UNCHANGED <<flash, bad, job, faults>>

(* putblock(): the data of a node, in zeros of the file's size.              *)
PutBlock(ri) ==
  [i \in 1..ri.isize |->
     IF i \in ri.offset + 1 .. ri.offset + Len(ri.data) THEN ri.data[i - ri.offset] ELSE 0]

(* catfile(): the first node of the file.                                    *)
Catfile ==
  /\ pc = "catfile"
  /\ \E found \in {ResolvePath(v.img, 1, job.show)} :
       IF found.ino = 0 \/ found.dir = NoDirent \/ found.dir.type # "reg" THEN Exit(1) /\ UNCHANGED v
       ELSE /\ \E ri \in FindRawInode(v.img, found.ino) :
                 v' = [v EXCEPT !.shown = PutBlock(ri)]
            /\ Exit(0)
  /\ UNCHANGED <<flash, bad, job, faults>>

(* mkfs.jffs2, sumtool and jffs2reader.                                      *)
Jffs2Next ==
  \/ MkfsJffs2 \/ ParseDeviceTable \/ Populate \/ WriteRegularFile \/ MkfsDies \/ ImageComplete
  \/ Sumtool \/ SumNode \/ FlushBuffers \/ SumtoolDies
  \/ Jffs2reader \/ LsDir \/ CollectDir \/ PrintDir \/ Catfile

(***************************************************************************)
(* What the images are to hold.                                            *)
(***************************************************************************)
IsJffs2 == job.tool = "jffs2" /\ pc # "jffs2"
Jffs2Done == IsJffs2 /\ pc = "done" /\ code = 0

InBlocks(img, marked) ==
  /\ \A i \in DOMAIN img :
       /\ img[i].at \div Eb = (img[i].at + img[i].len - 1) \div Eb
       /\ i > 1 => img[i - 1].at + img[i - 1].len <= img[i].at
       /\ img[i].n.t = "clean" <=> marked /\ img[i].at % Eb = 0
       /\ marked => \E j \in 1..i : img[j].at = Eb * (img[i].at \div Eb)

(* mkfs.jffs2 and sumtool never let a node cross the end of an erase block   *)
(* or overlap another one, and every erase block with a node in it starts    *)
(* with a cleanmarker, unless there are to be none.                          *)
NodesInBlocks ==
  (IsJffs2 /\ "img" \in DOMAIN v) =>
    InBlocks(v.img, IF job.sum.on /\ "input" \in DOMAIN v
                    THEN job.sum.add_cleanmarkers /\ (job.sum.cleanmarker > 0 \/ job.cleanmarker > 0)
                    ELSE job.cleanmarker > 0)

(* What directory and device table k name.                                   *)
Given(k) ==
  LET host == job.hosts[k]
      small(p) == host[p].type = "reg" => host[p].size < JFFS2_MAX_FILE_SIZE
  IN FoldLeft(LAMBDA S, line : IF Front(line.path) \in S \cup {<<>>}
                               THEN S \cup {Added(line)[i].path : i \in DOMAIN Added(line)} ELSE S,
              {p \in DOMAIN host : small(p)}, job.tables[k])

(* The last line of table k for a path, if there is one.                     *)
LineFor(k, p) ==
  LET all == FlattenSeq([i \in DOMAIN job.tables[k] |-> Added(job.tables[k][i])])
      lines == {i \in DOMAIN all : all[i].path = p}
  IN IF lines = {} THEN {} ELSE {all[Max(lines)]}

TypeOf(k, p) == IF LineFor(k, p) = {} THEN job.hosts[k][p].type
                ELSE The(LineFor(k, p)).type
AttrOf(k, p) == IF LineFor(k, p) = {} THEN Squashed(TypeOf(k, p), job.hosts[k][p].attr)
                ELSE The(LineFor(k, p)).attr
DevOf(k, p) == IF LineFor(k, p) = {} THEN job.hosts[k][p].dev ELSE The(LineFor(k, p)).dev

InodesOf(img, ino) == {n \in Nodes(img, "inode") : n.ino = ino}
NewestInode(img, ino) ==
  CHOOSE n \in InodesOf(img, ino) : \A m \in InodesOf(img, ino) : m.version <= n.version

(* The data JFFS2 finds: of the nodes of a place the newest counts.          *)
DataOf(img, ino) ==
  [i \in 1..NewestInode(img, ino).isize |->
     LET over == {n \in InodesOf(img, ino) : i \in n.offset + 1 .. n.offset + Len(n.data)}
     IN IF over = {} THEN 0
        ELSE LET n == CHOOSE n \in over : \A m \in over : m.version <= n.version IN n.data[i - n.offset]]

Zeros(data, n) == [i \in 1..n |-> IF i <= Len(data) THEN data[i] ELSE 0]

RightContents(img, k, p) ==
  LET ino == Lookup(img, p)
      node == NewestInode(img, ino)
      host == job.hosts[k]
  IN /\ ino > 1 /\ InodesOf(img, ino) # {}
     /\ node.type = TypeOf(k, p) /\ node.attr = AttrOf(k, p)
     /\ node.type = "reg" => DataOf(img, ino) = Zeros(host[p].data, host[p].size)
     /\ node.type = "dev" => node.data = <<256 * DevOf(k, p)[1] + DevOf(k, p)[2]>>
     /\ (node.type = "lnk" /\ Len(host[p].target) <= JFFS2_MAX_SYMLINK_LEN) => node.data = host[p].target

(* An image has the entries of its directories and of its device tables and  *)
(* no others, each with its type, owner, mode, contents or device number and *)
(* attributes; names of one inode of the host lead to one inode, all others  *)
(* to different ones.  A file that changes meanwhile has the size that       *)
(* lstat() told.  What --incremental adds takes no inode number again.       *)
HoldsTree ==
  (Jffs2Done /\ job.sum.damaged = {} /\ job.unlinked = <<>>) =>
    LET img == v.img
        all == {<<k, p>> : k \in DOMAIN job.hosts, p \in UNION {Given(k) : k \in DOMAIN job.hosts}}
        given == {x \in all : x[2] \in Given(x[1])}
        hino(x) == IF x[2] \in DOMAIN job.hosts[x[1]] THEN job.hosts[x[1]][x[2]].hino ELSE 0
    IN /\ {<<n.pino, n.name>> : n \in Nodes(img, "dirent")}
            = {<<Lookup(img, Front(x[2])), Last(x[2])>> : x \in given}
       /\ \A x \in given : RightContents(img, x[1], x[2])
       /\ \A x, y \in given :
            Lookup(img, x[2]) = Lookup(img, y[2])
              <=> x = y \/ (x[1] = y[1] /\ hino(x) = hino(y) /\ hino(x) > 0)
       /\ (job.xattr /\ Len(job.hosts) = 1) => \A x \in given :
            {y.value : y \in {a \in Nodes(img, "xattr") : \E r \in Nodes(img, "xref") :
                                r.ino = Lookup(img, x[2]) /\ r.xid = a.xid}}
              = IF x[2] \in DOMAIN job.hosts[1] THEN ToSet(job.hosts[1][x[2]].xattrs) ELSE {}

IsNode(x) == x.n.t \notin {"clean", "summary"}

(* sumtool keeps the nodes it is given, those with a wrong CRC aside, in     *)
(* their order.  A summary ends with its erase block and tells type and      *)
(* place of every node of it in their order, and the erase blocks before the *)
(* last one all have a summary.                                              *)
SummariesExact ==
  (Jffs2Done /\ job.sum.on) =>
    LET img == IF job.unlinked = <<>> THEN v.img ELSE SubSeq(v.img, 1, Len(v.img) - 2)
        nodes == [i \in DOMAIN SelectSeq(img, IsNode) |-> SelectSeq(img, IsNode)[i].n]
        good(i) == i \notin job.sum.damaged /\ IsNode(v.input[i])
        read == SelectSeq([i \in DOMAIN v.input |-> i], good)
        block(i) == img[i].at \div Eb
    IN /\ nodes = [i \in DOMAIN read |-> v.input[read[i]].n]
       /\ \A i \in DOMAIN img : block(i) < block(Len(img)) =>
            \E j \in DOMAIN img : block(j) = block(i) /\ img[j].n.t = "summary"
       /\ \A i \in DOMAIN img : img[i].n.t = "summary" =>
            LET mine(x) == IsNode(x) /\ x.at \div Eb = block(i)
                summed == SelectSeq(img, mine)
            IN /\ img[i].at + img[i].len = Eb * (block(i) + 1)
               /\ Len(img[i].n.sums) = Len(summed)
               /\ \A k \in DOMAIN summed : /\ img[i].n.sums[k].t = summed[k].n.t
                                            /\ img[i].n.sums[k].offset = summed[k].at % Eb

(* The path of the host that a path of the image leads to, if any, through   *)
(* at most MAX_RECC symbolic links.                                          *)
HostWalk(host, from) ==
  LET walk[cur \in Seq(Int), path \in Seq(Int), n \in Nat] ==
        LET p == Append(cur, Head(path))
            rest == Tail(path)
        IN CASE path = <<>> -> {cur}
             [] path # <<>> /\ Head(path) = Slash -> walk[<<>>, rest, n]
             [] path # <<>> /\ Head(path) = Dot -> walk[cur, rest, n]
             [] path # <<>> /\ Head(path) = DotDot -> walk[Front(cur), rest, n]
             [] OTHER -> IF p \notin DOMAIN host THEN {}
                         ELSE IF host[p].type = "lnk"
                         THEN IF n = 0 THEN {} ELSE walk[cur, host[p].target \o rest, n - 1]
                         ELSE IF rest # <<>> /\ host[p].type # "dir" THEN {} ELSE walk[p, rest, n]
  IN walk[<<>>, from, MAX_RECC]

Below(p, dir) == Len(p) > Len(dir) /\ SubSeq(p, 1, Len(dir)) = dir

(* jffs2reader lists what is below the directory that the path leads to,     *)
(* each entry once and with its type, owner and mode, and shows the file     *)
(* that the path leads to if it has one node; it fails if there is no such   *)
(* directory or file.  This leaves out the first entry of the root directory *)
(* and what is below it: its dirent has version 0, which is never looked at. *)
ListsTree ==
  (IsJffs2 /\ pc = "done" /\ "lines" \in DOMAIN v /\ job.sum.damaged = {} /\ Len(job.hosts) = 1) =>
    LET host == Restrict(job.hosts[1], DOMAIN job.hosts[1] \ {job.unlinked})
        first == (CHOOSE n \in Nodes(v.img, "dirent") : n.version = 0).name
        from == IF job.dir = <<>> THEN <<Slash>> ELSE job.dir
        dir == {d \in HostWalk(host, from) : d = <<>> \/ host[d].type = "dir"}
        file == IF job.show = <<>> THEN {<<>>}
                ELSE {f \in HostWalk(host, job.show) : host[f].type = "reg"}
        recurse == job.recurse \/ job.dir = <<>>
        listing == job.dir # <<>> \/ job.show = <<>>
    IN /\ code = 0 <=> (listing => dir # {}) /\ file # {}
       /\ (listing /\ code = 0) => \A d \in dir :
            LET shown == {p \in Given(1) \ {job.unlinked} : Below(p, d) /\ p[1] # first /\ (recurse \/ Len(p) = Len(d) + 1)}
            IN /\ Len(v.lines) = Cardinality(shown)
               /\ ToSet(v.lines) = {[path |-> from \o SubSeq(p, Len(d) + 1, Len(p)),
                                     type |-> TypeOf(1, p), attr |-> AttrOf(1, p)] : p \in shown}
       /\ (job.show # <<>> /\ code = 0) => \A f \in file :
            Cardinality(InodesOf(v.img, Lookup(v.img, f))) = 1 => v.shown = Zeros(host[f].data, host[f].size)

(* The JFFS2 images that mkfs.jffs2 and sumtool write are well laid out and  *)
(* hold what they are to hold, and jffs2reader shows it.                     *)
Jffs2Images == NodesInBlocks /\ HoldsTree /\ SummariesExact /\ ListsTree
=============================================================================
