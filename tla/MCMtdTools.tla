----------------------------- MODULE MCMtdTools -----------------------------
(* Command lines for MtdTools on a device of four blocks of two pages.       *)
EXTENDS MtdTools

File(n) == [i \in 1..n |-> 100 + i]

(* nandwrite with default options after flash_erase of the whole device.     *)
Image0(badblocks, len) ==
  [tool |-> "image", max_faults |-> 2, bad |-> badblocks, file |-> File(len), eb_start |-> 0, start |-> 0,
   align |-> 1, oob |-> "none", pad |-> FALSE, stdin |-> FALSE, inputsize |-> 0,
   markbad |-> TRUE, noskipbad |-> FALSE, skipallffs |-> FALSE, skip_to_start |-> FALSE]

ImageJobs ==
  {Image0(b, 8) : b \in {{}, {0}, {1, 2}, {3}}} \cup
  {[Image0(b, 7) EXCEPT !.pad = TRUE, !.markbad = FALSE, !.stdin = s] : b \in {{}, {1}}, s \in BOOLEAN} \cup
  {[Image0(b, 6) EXCEPT !.oob = o] : b \in {{}, {1}}, o \in {"write", "only"}} \cup
  {[Image0(b, 6) EXCEPT !.align = 2] : b \in {{}, {1}}} \cup
  {[Image0({1}, 4) EXCEPT !.eb_start = 1, !.start = s, !.skip_to_start = k] :
      s \in {2, 3}, k \in BOOLEAN} \cup
  {[Image0({0}, 8) EXCEPT !.file[5] = FF, !.file[6] = FF, !.skipallffs = TRUE, !.inputsize = 6],
   [Image0({1}, 4) EXCEPT !.noskipbad = TRUE],
   [Image0({0}, 4) EXCEPT !.inputsize = 6], [Image0({}, 4) EXCEPT !.stdin = TRUE],
   [Image0({}, 5) EXCEPT !.stdin = TRUE], Image0({}, 5), Image0({}, 18), [Image0({0, 1}, 16) EXCEPT !.stdin = TRUE]}

Fcp(len) == [tool |-> "flashcp", max_faults |-> 2, bad |-> {}, file |-> File(len), partition |-> FALSE,
             erase_all |-> FALSE, wr_last |-> 0]

(* The file differs from the flash in its first and its last block only.     *)
SameMiddle == [File(11) EXCEPT ![5] = 21, ![6] = 22, ![7] = 31, ![8] = 32]

FlashcpJobs ==
  {Fcp(7), Fcp(18), [Fcp(5) EXCEPT !.erase_all = TRUE], [Fcp(4) EXCEPT !.bad = {0}],
   [Fcp(11) EXCEPT !.partition = TRUE],
   [Fcp(11) EXCEPT !.partition = TRUE, !.file = SameMiddle]} \cup
  {[Fcp(n) EXCEPT !.wr_last = w] : n \in {3, 7}, w \in {1, 3, 4, 5}}

NandtestJobs ==
  {[tool |-> "nandtest", max_faults |-> 2, bad |-> {1}, offset |-> o, length |-> 3, passes |-> 2,
    keep |-> TRUE, markbad |-> m] : o \in {0, 2}, m \in BOOLEAN} \cup
  {[tool |-> "nandtest", max_faults |-> 2, bad |-> {}, offset |-> 0, length |-> 4, passes |-> 1,
    keep |-> FALSE, markbad |-> TRUE]}

FlipJobs ==
  {[tool |-> "nandflipbits", max_faults |-> 2, bad |-> {}, oob |-> o, flips |-> f] :
     o \in BOOLEAN, f \in {<<2, 7, 3>>, <<5, 9, 5>>, <<0, 24>>}}

(* The first page of an eraseblock with erase counter n.                     *)
Ec(n) == EcHdr(n, 2)

Volume(id, file) ==
  [mode |-> "ubi", id |-> id, name |-> id, type |-> "dynamic", bytes |-> Len(file),
   file |-> file, alignment |-> 1, autoresize |-> FALSE]

(* ubiformat --yes on a device with erase counters 7, 3, 5 and 9.            *)
Ubi0 ==
  [tool |-> "ubi", max_faults |-> 4, bad |-> {}, hdrs |-> <<Ec(7), Ec(3), Ec(5), Ec(9)>>, image |-> FALSE,
   sections |-> <<>>, yes |-> TRUE, ec |-> -1, offs |-> 2, cut |-> FALSE, bad_ech |-> 0]

UbiWith(sections) == [Ubi0 EXCEPT !.image = TRUE, !.sections = sections]

TwoVolumes == <<Volume(2, <<6>>), [Volume(1, <<4, 5, 6>>) EXCEPT !.type = "static"]>>

UbiJobs ==
  {Ubi0, [Ubi0 EXCEPT !.yes = FALSE, !.bad = {0}], [Ubi0 EXCEPT !.bad = {0, 1, 2}],
   [Ubi0 EXCEPT !.ec = 20],
   [Ubi0 EXCEPT !.hdrs = <<Blank, Blank, Blank, Blank>>],
   [Ubi0 EXCEPT !.hdrs[2] = <<31, 32, 33>>, !.yes = FALSE],
   [Ubi0 EXCEPT !.hdrs = <<EcHdr(4, 3), Ec(6), Blank, <<BadCrc, 2, FF>>>>],
   [Ubi0 EXCEPT !.hdrs = <<Ec(6), Blank, Blank, <<BadCrc, 2, FF>>>>],
   [Ubi0 EXCEPT !.hdrs[3] = EcHdr(EC_MAX + 1, 2)],
   [Ubi0 EXCEPT !.offs = 4, !.yes = FALSE]} \cup
  {[UbiWith(<<Volume(1, <<4, 5>>)>>) EXCEPT !.bad = b] : b \in {{0}, {1}}} \cup
  {UbiWith(<<Volume(1, <<4, 5, 6, 7>>)>>), UbiWith(TwoVolumes), [UbiWith(TwoVolumes) EXCEPT !.bad = {0}],
   [UbiWith(TwoVolumes) EXCEPT !.offs = 4, !.yes = FALSE],
   [UbiWith(TwoVolumes) EXCEPT !.cut = TRUE], [UbiWith(TwoVolumes) EXCEPT !.bad_ech = 3],
   UbiWith(<<[Volume(1, <<4, 5, 6>>) EXCEPT !.alignment = 2, !.bytes = 7]>>),
   UbiWith(<<[Volume(1, <<>>) EXCEPT !.bytes = 4], Volume(2, <<6>>)>>),
   UbiWith(<<Volume(1, <<4>>), Volume(1, <<6>>)>>)}

(* Directories for mkfs.jffs2.  1 is a fifo, so that the reader misses that  *)
(* only.                                                                     *)
Node0(type, hino) ==
  [type |-> type, hino |-> hino, attr |-> <<hino, 7>>, dev |-> <<0, 0>>, xattrs |-> <<>>]
Reg(hino, len, size) == Node0("reg", hino) @@ [data |-> File(len), size |-> size]
Lnk(hino, target) == Node0("lnk", hino) @@ [target |-> target]

Host1 ==
  (<<1>> :> Node0("fifo", 11)) @@ (<<2>> :> Node0("dir", 12)) @@ (<<3>> :> Reg(13, 7, 7)) @@
  (<<4>> :> Lnk(14, <<2, 2, 1>>)) @@ (<<2, 1>> :> Reg(15, 2, 2)) @@ (<<2, 2>> :> Node0("dir", 16)) @@
  (<<2, 2, 1>> :> Lnk(17, <<DotDot, 1>>)) @@ (<<2, 2, 3>> :> Reg(13, 7, 7)) @@ (<<5>> :> Node0("dir", 18))

(* Files of every size around those of page and erase block, one that grows  *)
(* and one that shrinks while the image is made, one that is too large.      *)
Host2 ==
  (<<1>> :> Reg(21, 0, 0)) @@ (<<2>> :> Reg(22, 3, 3)) @@ (<<3>> :> Reg(23, 9, 9)) @@ (<<4>> :> Reg(24, 5, 3)) @@
  (<<5>> :> Reg(25, 2, 5)) @@ (<<6>> :> Reg(26, 1, JFFS2_MAX_FILE_SIZE)) @@
  (<<7>> :> Lnk(27, <<Slash, 1, 1, 1>>)) @@
  (<<8>> :> [Node0("dev", 28) EXCEPT !.dev = <<4, 64>>])

HostX ==
  [Host1 EXCEPT ![<<2>>].xattrs = <<1, 2>>, ![<<3>>].xattrs = <<2>>, ![<<1>>].xattrs = <<2, 3>>,
                ![<<2, 2, 3>>].xattrs = <<2>>]

(* Symbolic links in a circle, and one to the root directory.                *)
HostL ==
  (<<1>> :> Node0("fifo", 31)) @@ (<<2>> :> Lnk(32, <<3>>)) @@ (<<3>> :> Lnk(33, <<Slash, 2>>)) @@
  (<<4>> :> Lnk(34, <<Slash>>)) @@ (<<5>> :> Node0("dir", 35)) @@ (<<5, 1>> :> Reg(36, 2, 2))

Host3 == (<<8>> :> Node0("dir", 41)) @@ (<<8, 1>> :> Reg(42, 4, 4)) @@ (<<9>> :> Reg(43, 1, 1))

Line(path, type, dev) ==
  [path |-> path, type |-> type, attr |-> <<5, 6>>, dev |-> dev, start |-> 0, increment |-> 1, count |-> 0]

Table1 ==
  <<Line(<<2>>, "dir", <<0, 0>>), Line(<<7>>, "dir", <<0, 0>>), Line(<<7, 1>>, "dev", <<1, 3>>),
    [Line(<<7, 2>>, "dev", <<4, 5>>) EXCEPT !.start = 1, !.count = 2],
    Line(<<6, 1>>, "fifo", <<0, 0>>), Line(<<2, 1>>, "reg", <<0, 0>>)>>

NoSum == [on |-> FALSE, add_cleanmarkers |-> TRUE, cleanmarker |-> 0, padto |-> FALSE, damaged |-> {}]
DoSum == [NoSum EXCEPT !.on = TRUE]

Jffs2(host) ==
  [tool |-> "jffs2", bad |-> {}, max_faults |-> 0, erase_block_size |-> 16, cleanmarker |-> 1, page_size |-> 4,
   pad |-> 0, hosts |-> <<host>>, tables |-> <<<<>>>>, squash_uids |-> FALSE, squash_perms |-> FALSE,
   xattr |-> FALSE, compress |-> FALSE, may_fail |-> FALSE, sum |-> NoSum, unlinked |-> <<>>, dir |-> <<>>, recurse |-> FALSE,
   show |-> <<>>]

Jffs2Jobs ==
  {Jffs2(Host1), [Jffs2(Host1) EXCEPT !.tables = <<Table1>>, !.squash_uids = TRUE],
   [Jffs2(Host1) EXCEPT !.tables = <<<<Line(<<9>>, "reg", <<0, 0>>)>>>>],
   [Jffs2(Host1) EXCEPT !.tables = <<<<Line(<<9>>, "lnk", <<0, 0>>)>>>>],
   [Jffs2(Host2) EXCEPT !.sum = DoSum], [Jffs2(Host2) EXCEPT !.compress = TRUE, !.squash_perms = TRUE],
   [Jffs2(Host2) EXCEPT !.may_fail = TRUE, !.sum = DoSum, !.pad = 200],
   [Jffs2(HostX) EXCEPT !.xattr = TRUE, !.sum = DoSum],
   [Jffs2(Host1) EXCEPT !.hosts = <<Host1, Host3>>, !.tables = <<<<>>, <<>>>>, !.pad = -1],
   [Jffs2(Host1) EXCEPT !.sum = [DoSum EXCEPT !.damaged = {5, 9}]]} \cup
  {[Jffs2(Host1) EXCEPT !.erase_block_size = e, !.sum = s, !.cleanmarker = c] :
     e \in {15, 17, 20}, c \in {0, 2},
     s \in {[DoSum EXCEPT !.add_cleanmarkers = FALSE], [DoSum EXCEPT !.cleanmarker = 1, !.padto = TRUE]}} \cup
  {[Jffs2(Host1) EXCEPT !.dir = d, !.recurse = r] :
     r \in BOOLEAN, d \in {<<Slash, 2>>, <<2, Dot, 2>>, <<2, 2, DotDot>>, <<4>>, <<6>>, <<3, 1>>, <<Slash, 2, DotDot, 5>>}} \cup
  {[Jffs2(Host1) EXCEPT !.show = f] : f \in {<<4>>, <<2, 1>>, <<2>>, <<5, 1>>, <<3>>}} \cup
  {[Jffs2(Host1) EXCEPT !.unlinked = u, !.sum = s] : u \in {<<3>>, <<5>>, <<2, 1>>}, s \in {NoSum, DoSum}} \cup
  {[Jffs2(Host1) EXCEPT !.unlinked = <<2, 1>>, !.show = <<2, 1>>]} \cup
  {[Jffs2(HostL) EXCEPT !.dir = <<4, 5>>, !.show = <<5, 1>>], [Jffs2(HostL) EXCEPT !.dir = <<2>>],
   [Jffs2(HostL) EXCEPT !.dir = <<4, 4>>, !.recurse = TRUE]}

AllJobs == ImageJobs \cup FlashcpJobs \cup NandtestJobs \cup FlipJobs \cup UbiJobs \cup Jffs2Jobs

(* An ini-file with a section that is not for ubinize.                       *)
OtherModeJobs == {UbiWith(<<Volume(1, <<4>>), [Volume(2, <<6>>) EXCEPT !.mode = "other"]>>)}

(* Three of four eraseblocks have a valid counter.                           *)
MeanJobs == {[Ubi0 EXCEPT !.hdrs[2] = Blank]}

ContinuousJobs == {[Image0({1}, 4) EXCEPT !.max_faults = 0]}
=============================================================================
