# Formal models of mtd-utils

TLA+ specifications of the parts of mtd-utils that keep state on flash and have
to survive power cuts, failed writes and full media; TLC configurations that
check them on small instances; and TLAPS proofs of the most important results.
Every definition is written from the C code; `PROJECT.json` maps each one to
the lines it stands for.

## The system and its parts

mtd-utils is a set of user-space programs for flash memory.  The largest part is
`ubifs-utils`: a user-space port of the kernel's UBIFS (`libubifs`), the checker
`fsck.ubifs` built on it and the image builder `mkfs.ubifs`.  Besides it there
are the UBI tools (`ubi-utils`, `lib/libubi.c`, `lib/libscan.c`,
`lib/libubigen.c`), the raw flash tools (`nand-utils`, `misc-utils`,
`nor-utils`), the multicast image transfer (`serve_image`, `recv_image`,
`lib/libfec.c`) and the JFFS2 tools.

A UBIFS file system is a chain of on-flash structures, each of which has to be
readable after a crash at any moment:

 * the **master area** (LEB 1 and 2) holds the root: where the index, the LEB
   properties and the log start, and whether the file system was left dirty;
 * the **log** names the buds, the main area LEBs written since the last commit;
 * the **journal heads** append nodes to buds; a **commit** moves everything
   into the index and writes a new master node;
 * the **index** (TNC) finds nodes; the **LPT** records free and dirty space;
 * **fsck.ubifs** loads all this (replaying the journal), builds the file tree,
   removes what does not fit, corrects inodes in place, commits, and reconnects
   lost files through the journal.

The code is single-threaded.  What makes it hard is the power cut between any
two flash operations, the write that fails half-way, the unmapped block that
comes back, the resource that runs out, and the second run over what the first
one left.

## Modules

| module | models | source |
|---|---|---|
| `UbifsMaster` | the master area, one action per flash operation | `libubifs/master.c`, `recovery.c`, `scan.c` |
| `MasterCell` | what the master area promises: one durable cell | abstract |
| `UbifsMasterProofs` | theorems about `UbifsMaster` | |
| `UbifsLog` | the log, buds, commit, replay, consolidation | `libubifs/log.c`, `commit.c`, `replay.c`, `recovery.c` |
| `UbifsLogProofs` | theorems about `UbifsLog` | |
| `FsckFiles` | the file tree algorithms of fsck as operators | `fsck.ubifs/extract_files.c`, `check_files.c` |
| `UbifsFsck` | a run of fsck over a loaded file system | `fsck.ubifs/fsck.ubifs.c`, `problem.c`, `handle_disconnected.c` |
| `UbifsRebuild` | a rebuild from a scan of the main area | `fsck.ubifs/rebuild_fs.c`, `check_space.c` |
| `TncTree` | the index tree in memory as operators: search, split, remove, dirtying | `libubifs/tnc.c`, `tnc_misc.c` |
| `UbifsTnc` | the index on flash: mount, replay, changes, garbage collection, commit, cuts | `libubifs/tnc.c`, `tnc_commit.c`, `gc.c`, `find.c` |
| `UbifsLpt` | the LEB properties tree: lookup, commit, garbage collection, ltab, mount, cuts | `libubifs/lpt.c`, `lpt_commit.c` |
| `LpropsTable` | what the LPT promises: a table that is replaced as a whole | abstract |
| `UbifsSpace` | budget, journal heads, garbage collection, commit, replay, recovery of buds, fsck's space check | `libubifs/budget.c`, `find.c`, `gc.c`, `journal.c`, `lprops.c`, `io.c`, `recovery.c`, `replay.c`, `fsck.ubifs/check_space.c` |
| `DurablePrefix` | what the journal promises: a crash keeps a prefix of the updates | abstract |
| `MkfsUbifs` | the making of an image from a directory and a device table | `mkfs.ubifs/mkfs.ubifs.c`, `common/devtable.c` |
| `McastImage` | the multicast transfer of an image over a lossy network | `misc-utils/serve_image.c`, `recv_image.c` |
| `McastImageProofs`, `McastTheorems` | theorems about `McastImage` | |
| `MtdDevice` | an MTD device with bad and failing blocks, and the running tool | `lib/libmtd.c` |
| `NandImage` | flash_erase, nandwrite, nanddump | `misc-utils/flash_erase.c`, `nand-utils/` |
| `BlockRewrite` | flashcp, nandtest, nandflipbits | `misc-utils/flashcp.c`, `nand-utils/` |
| `UbiFormat` | ubinize, ubi_scan(), ubiformat | `ubi-utils/`, `lib/libubigen.c`, `lib/libscan.c` |
| `Jffs2Image` | mkfs.jffs2, sumtool | `jffsX-utils/mkfs.jffs2.c`, `sumtool.c`, `compr.c` |
| `Jffs2Reader` | jffs2reader, and what the JFFS2 images promise | `jffsX-utils/jffs2reader.c` |
| `MtdTools` | composes the six above; their properties | |
| `BlockRewriteProofs`, `UbiFormatProofs`, `MtdToolsProofs` | theorems about `BlockRewrite`, `UbiFormat` and `MtdTools` | |
| `ProofLemmas` | numbers, sequences and sums, for the proofs | |
| `MC...` | instances for TLC | |

The modules compose in three ways.  A detailed module implements an abstract
one: `UbifsMaster` implements `MasterCell`, `UbifsLpt` implements `LpropsTable`
and `UbifsSpace` implements `DurablePrefix`; each is a property of the module's
run, with the refinement mapping at the end of the module.  The modules above use
the promise instead of the protocol: `UbifsLog`, `UbifsTnc`, `UbifsLpt` and
`UbifsSpace` take the write of the master node as one step that is done or not,
`UbifsSpace` has the LPT as such a table, and `UbifsRebuild` and `MkfsUbifs`
write the LPT in one step.  `MtdTools` extends the tool modules over one device,
so that what one tool writes another reads: flash_erase, nandwrite and nanddump;
ubinize, ubiformat and the scan of the next ubiformat; mkfs.jffs2, a second
mkfs.jffs2 `--incremental`, sumtool and jffs2reader.

Where a module has several related promises, each is a definition of its own with
its comment, and the run checks their conjunction under one name, given below
in parentheses.

### UbifsMaster

State: the two LEBs (`flash`), what they read as if a pending erasure is lost
(`stale`), the program position, the master node in memory and its offset.  Each
flash operation of `ubifs_write_master()` and of the recovery is an action, with
a failing variant that may leave a blank, complete, corrupt or garbage slot.
`Recover` is the decision table of `ubifs_recover_master_node()`.  History
variables record what was last completely written to LEB 1.

 * `Recoverable`: a mount finds the contents last written completely, or the
   ones being written;
 * `NoOverwrite`: no step programs a slot that is not blank;
 * `JournalNeedsDirty`: if the journal was used, the root is marked dirty;
 * `IsDurableCell`: the protocol implements `MasterCell`.

In `MasterCell`, `known` is what the running program takes to be stored; it is
lost with the program, and reading the cell gives it back.

Bounds: 3 slots a LEB (first, middle and last offset differ), 6 contents, which
is two wrap-arounds.

### UbifsLog

State: the log LEBs, the master node (as the durable cell of `UbifsMaster`), the
fill of the main area LEBs, the bud tables, head and tail of the log and the
accounting (`min_log_bytes`, `bud_bytes`).  An operation that fails half-way is
an action of its own; a power cut in it is that action followed by `PowerCut`.
The constant `Faults` says what a cut may do.  `"erase"`: a LEB unmapped in
normal use may come back.  `"gap"`: consolidation may be cut between its unmaps.
`"rcvry"`: a LEB unmapped by recovery may come back; no run uses it, because it
needs two cuts in a row to matter and multiplies the states.

 * `Recoverable`: a mount finds exactly the buds that hold uncommitted nodes.  It
   fails if a consolidation with several LEBs to unmap is cut between two unmaps,
   so the ring of three LEBs has no `"gap"` in the run (see Findings);
 * `HeadRoom`, `NeverTooFull` (`LogNeverStuck`): a commit start node always fits,
   consolidation always succeeds;
 * `CommitMakesRoom`: right after a commit there is room for a reference node and a
   bud, so `make_reservation()` never commits in vain;
 * `BudsKept`, `BudBytesRight` (`BudsRight`): tables and counters agree with the
   flash.

The geometry is a record `sb` chosen in the initial state, as the superblock
gives it to the code.  One run covers three: a ring of three LEBs that wraps
around, the smallest log of two LEBs with two journal heads, and a log in which
every node takes an I/O unit of its own.  The sequence number is bounded by 10 to
12, enough for two commits and a consolidation in each.

`Sorted`, `Sub` and `Joined` do the work of `SetToSortSeq`, `SelectSeq` and
`FlattenSeq` without operators as parameters and without recursive operators, so
that the proofs can speak of them.

### FsckFiles and UbifsFsck

`FsckFiles` has the pure algorithms: reading the index into files, the validity
rules, reachability, the calculated sizes and link counts.  `UbifsFsck` has the
run: `flash` is the index a mount would find, `w` the work in memory, `jnl` what
the last steps added.  Questions go through `fix_problem()` with its modes.
`Interrupted` is a power cut, a signal or an I/O error; it keeps any prefix of
the journal, and another run may follow.  fsck is a program that ends, so these
configurations do not check for deadlock.

 * `Repaired`: a finished run leaves a consistent file system;
 * `SecondRunQuiet`: the next run has nothing to fix;
 * `CutTolerant`: if the mode can fix the first image, it can fix what any
   interrupted run leaves;
 * `RegularFilesKept`: no regular file or data within its size is lost unless a
   question that drops data was answered yes;
 * `NoErrorsNoChange`: exit code 0 and check mode mean no change.

The images are families in `MCUbifsFsck` (`Starts`): all trees over three inodes
with arbitrary entries and counts, in safe and in danger mode, for up to three
runs in a row; and several families of contents (xattrs, encryption contexts,
data nodes, an existing lost+found, entries without inodes), in all five modes,
for one run.  The combinations that show one of the disagreements below are left
out of the run; images that name an entry inside a regular file are also excluded
from `NoErrorsNoChange`.  `RegularFilesKept` allows the loss of an inode that the
mode lets fsck drop, and only that.  Bounds: lost+found has inode number 6, at most
two entries of one name.

### UbifsRebuild

The rebuild reads the whole main area, keeps the newest version of each node,
drops what is deleted, truncated or unreachable, writes a new index, a new LPT, an
empty log and at last the master area.  Each write is an action that may be cut or
torn; the next run starts from what is then on flash.  The files are judged by the
operators of `FsckFiles`.

 * `RebuiltExactly`: the index of a rebuilt image leads to the newest undeleted
   nodes of the files that can be reached, and to nothing else;
 * `MasterConsistent`: the master node, the properties of every LEB and the
   statistics agree with the flash;
 * `KeptByLaterRuns`, `DeletedStaysDeleted` (`LaterRunsAgree`): a run after a cut
   run, or after a finished one, keeps what the first one kept and never brings
   back what the first one found deleted.

The volumes have a truncation followed by new data, a file moved between LEBs by
garbage collection and a small tree of hard links; each is taken whole, with any
LEB corrupt, and with any LEB torn behind any node.  4 nodes a LEB, an I/O unit of 2,
fan-out 2, three starts.  The code judges a file by the oldest of its names only,
so a hard-linked file is dropped when the directory of that name has lost its
inode (`FirstParentLost` is the premise that says so).  A root directory
that has to be created restarts the sequence numbers, and a later rebuild may then
find again a file the first dropped as unreachable; never one it found deleted.

### TncTree and UbifsTnc

`TncTree` is the tree of znodes with its search for colliding names, insertion
and splitting, removal and the upward propagation of dirtiness.  `UbifsTnc` has
the life of an index: built on flash, mounted, journal replayed, changed,
collected, committed.  A commit is a sequence of actions (start, layout in the
gaps of one LEB after the other, layout in empty space, one action per index
node written, end), and a cut may come between any two of them.

 * `FindsExactly`, `ListsDirectory` (`LooksUpExactly`): lookups and listings return
   what the changes should have left, also for names that share a hash;
 * `NothingLost`; `OldIndexIntact`, `WritesBlank` (`CommitHarmless`): until the new
   master node is written, the old index and all it leads to stay readable, and only
   blank flash is programmed;
 * `TncSound`, `SpaceIsExact` (`IndexSound`): the assertions of the debug checks,
   and that the accounted space of an index LEB is the space of its live nodes.

Abstractions: sizes of index nodes are slots of a LEB; znodes are always loaded;
a journal entry is atomic; nothing runs during a commit, since the tools have one
thread that writes, so znodes are not copied on write; removing
an inode leaves its extended attributes alone.  A state
without successors is a file system that became read-only or used up the
operations of its image (`ops`), so deadlock is not checked.  Bounds: fan-out 3,
3 slots a LEB, 3 or 4 LEBs, one cut; each family of images is made so that
splits, gaps and full LEBs happen.

### UbifsLpt

State: the LPT area, what the master node says of it, the LPT in memory with its
dirty marks, and the commit that is running.  Contents are abstracted to one value
per pnode; positions, sizes, padding, the ltab (the LPT's own space accounting) and
lsave are kept, since they decide what is unmapped and when.  The layout, each
write, the total garbage collection and the trivial one are actions; LEB properties
may change at every point of a commit, as the callbacks of the index commit change
them.

 * `NeverOutOfSpace`: a layout always finds a LEB (the code returns -ENOSPC and
   goes read-only otherwise);
 * `CleanIsOnFlash`, `LtabRight` (`LptAgrees`): a node not marked dirty is on
   flash where its parent says; at rest, the ltab has the free and dirty space of
   every LPT LEB;
 * `IsDurableTable`: the module implements `LpropsTable`: after a cut a mount reads
   the table of the last complete commit, whole.

A commit that finds the LPT clean may unmap LEBs without a new ltab being written;
the ltab of the next mount is then behind, which fsck reports and nothing else uses;
the mapping allows for it.  The constant `EmptyCommits` lets a commit find dirty
nnodes and no dirty pnode; it is on in `lpt_empty_commit` only.  Bounds: fan-out 2
(4 in the code), up to four commits and one cut; the three geometries are an LPT of
half a LEB, one that was made for fewer LEBs than the volume has, and the big model.

### UbifsSpace

State: the main area as sequences of nodes, the bud references, the master node,
the memory of the program (LEB properties, categories, heads with their buffers,
the index), and `todo`, the flash operations the program has issued.  They reach
the flash one by one, in order; a cut loses the rest and may tear the one under
way.  Updates are budgeted, reserved (with the retries of
`reserve_space()` and `make_free_space()`), written as a group and entered in the
index; garbage collection copies and unmaps; a commit lays the index out in empty
LEBs or in gaps; a mount replays the buds, recovers the LEB for garbage collection,
and fsck compares and corrects the LEB properties.  A LEB counts as used if a node
or any znode of the tree has its place there, a dirty znode included; the flash
operations of the correction can be cut like all others.

 * `ScanAgrees`, `SpaceExact` (`SpaceAgrees`): the recorded free and dirty space of
   each LEB is that of its live nodes; free space and category counters are the
   sums;
 * `BudgetHonoured`: an update that was granted its budget never fails for lack of
   space;
 * `GcLebRecovered`: after a mount there is an empty LEB for garbage collection;
 * `IsDurablePrefix`: the module implements `DurablePrefix`: whatever is cut, a
   mount finds a prefix of the updates, and all that were synchronised.

Abstractions: the sizes of nodes are one unit; `inst.up` stands for the order in
which heaps and lists offer LEBs of the same worth (rising or falling); the LPT is
in memory, so the scans of it in find.c always find their LEB loaded; the sequence
number of a mount is the larger of log and master node.  A cut in a commit into
gaps leaves LEB properties that fsck has to correct; that is what the check is
for, and `SpaceAgrees` holds again after it.  Bounds: 7 to 16 LEBs of
8 units, one or two cuts, limits of gc.c lowered to 1 and 3 LEBs so that they are
reached.

### MkfsUbifs

State: the stage of `main()` and `mkfs()`, the device table, the stack of
directories being added, the table of hard links, and the file system under
construction.  `readdir()` may return entries in any order, system calls and writes
of the index may fail, files may grow between `lstat()` and reading.

 * `HoldsSource`: an image reported made holds the source's tree and the device
   table's entries, with their link counts, sizes and extended attributes, and
   nothing else; the inode numbers are those the host keeps in
   `user.image-inode-number`, from an earlier run or from this one with
   `--set-inode-attr`;
 * `AreasAgree`: the areas do not overlap, nothing lies outside of its LEB, and LEB
   properties and statistics agree with what was written;
 * `IndexWritten`: the index is complete whenever mkfs reports success.

`write_index()` ignores the result of `add_idx_node()`; the error is not lost,
because the first failing write makes the file system read-only and the last flush
fails.  The attributes of a hard-linked file are those of the name read last.  Lines
of the device table whose directory exists nowhere are not used, and no error is
reported.  With a device table but without a source directory the program reads in
front of a null pointer (`mkfs.ubifs.c:1951`); the model ends there in `"crashed"`,
of which the properties say nothing.  Bounds: LEBs of 6 units, I/O units of 2,
fan-out 3.

### McastImage

State: the server's position in its cycle, the receiver's variables, its table of
blocks and the device.  The network loses and damages packets; the server sends
each image again and again and hears nothing back.

 * `HeldExactly`: the units on flash followed by the write buffer are the packets of
   the table in order, none twice; no two blocks share a place; the count that ends
   the reception is right;
 * `ImageWritten`: success means that every block is whole on the device, bad blocks
   skipped, and the receiver gives up only if the device failed or is too small or
   the image was changed.  At most one write of decoded data may have failed:
   after it `mtdoffset` stays where the block was moved to (`recv_image.c:461`), so
   that a second failure moves its block to the same place.  The instance `Twice`
   has two such failures and is part of the run for the other properties;
 * `ReceptionEnds`: the receiver ends.  Fairness: server and receiver run on, and
   of the packets that are sent again and again, each is once received whole
   (`FairNetwork`).  The latter is an assumption on the network; without it nobody
   can promise an end.

Abstractions: the device was erased beforehand, as the tool expects; the erase size
is a multiple of the write buffer and the same on both sides; any k different
packets can be decoded (the property of the code in `lib/libfec.c`); a damaged
packet never passes its CRC, and neither does an uninitialised one.  Packets of 2
units (2820 bytes) and a buffer of 3 (4096): a packet fits the buffer and the end of
the buffer falls inside a packet.

### MtdDevice, NandImage, BlockRewrite, UbiFormat and MtdTools

The device is a function from pages to cells of two data units and one of
out-of-band data.  Erasing and writing may fail for blocks that are bad or that
go bad, up to `max_faults` of a job; a failure leaves what was there or junk.
`job` is the command line, `v` the local variables of the tool, `pc` where it
is.  A tool takes its own steps only (`job.tool`).  Each flash operation is an
action.  nanddump, which only reads, is a
function of the flash.  In `UbiFormat` the first page of a block holds the EC
header, the second the VID header and the data.

 * `Placed`, `Untouched` (`ImageInPlace`): nandwrite stores its input on good
   blocks in order, and of an input that is cut short by the end of the device all
   that fits; bad blocks and blocks before the start are left alone;
 * `RoundTrip`, `DumpsGoodData` (`ReadsBack`): nanddump reads the input back, and
   gives the data of the good blocks for any start block and length;
 * `Verified`, `LastIsLast`, `OneBlockAtRisk`, `FlipsApplied` (`RewritesBlocks`):
   flashcp reports success only if the flash has the file, and with `--wr-last`
   writes the beginning after everything else; what tools that rewrite blocks can
   lose when they are stopped, and that nandflipbits applies each flip once.
   Of a block whose flips have all been taken for done before the first step
   nothing is said: there the program fails (see Findings);
 * `VolumesStored`, `ImageInOrder`, `Rescans` (`Formatted`): from the volumes of an
   ini-file to the LEBs on flash; the blocks of the image lie in order, as many as
   fit; what ubiformat leaves is accepted by the next scan;
 * `AllCountersKept`, `CountersAnnounced` (`CountersKept`): if all erase counters are
   valid none is lost, wherever ubiformat stops; after success a block has the
   counter of `-e`, 0 if fewer than half are valid, the mean if it had none, and its
   own one plus one if at least 95 per cent are valid.  Of the valid counters
   in between nothing is said: there the program loses them (see Findings);
 * `Terminates`: every tool ends.  The fairness is weak fairness of the next step:
   a tool that was started runs until it exits, nothing else can hold it up.

Bounds: four blocks of two pages, 71 command lines chosen so that bad blocks lie
at the start, in a row, inside and at the end, and images fill the device, just
fit, and do not; two failing blocks, four (all) for ubiformat, whose limit of
consecutive bad blocks is four.

Behaviour the properties exclude by a premise, because nothing in the repository
says what is right: nandwrite from standard input reports success when the device is
full before the input ends; `--input-size` is ignored for standard input; nandwrite
started inside a block erases the pages before it when a write fails; nandtest `-k`
restores data and not out-of-band data; ubiformat reports success when the device
ends before the image; an image keeps its own header offsets when the user insists
on those of the flash; the volume table reserves too few eraseblocks for a volume
with an alignment that does not divide the LEB size.

### Jffs2Image and Jffs2Reader

An image is the sequence of its nodes with their places; blank space is what lies
between them.  mkfs.jffs2 reads the directory (`MkfsJffs2`), applies the device
table line by line (`ParseDeviceTable`), writes entry after entry (`Populate`) and
node after node of a file (`WriteRegularFile`), and pads the end
(`ImageComplete`); with two directories in a job the second one is written with
`--incremental` and appended.  sumtool takes node after node (`SumNode`) through
its buffer of one erase block.  jffs2reader looks a path up (`ResolvePath`),
collects the dirents of a directory in rounds over the image (`CollectDir`) and
prints (`PrintDir`).  An image may have been mounted in between: then one file has
been removed (`Used`).

 * `NodesInBlocks`: no node crosses an erase block or overlaps another, and each
   erase block in use starts with a cleanmarker;
 * `HoldsTree`: the image has the entries of the directories and tables and no
   others, with type, owner, mode, contents, device number and attributes; names of
   one inode of the host lead to one inode, all others to different ones;
 * `SummariesExact`: sumtool keeps the intact nodes in their order, and a summary
   tells type and place of every node of its erase block;
 * `ListsTree`: jffs2reader lists and shows what the path leads to, through `.`,
   `..` and symbolic links, and fails exactly if there is nothing.

The run checks their conjunction, `Jffs2Images`, and that all three tools
terminate.  Bounds: 51 command lines; erase blocks of 15, 16, 17 and 20 units and
pages of 4, so that every kind of node comes to lie at the end of an erase block,
with and without its entry in the summary; trees with hard links, links in a
circle, empty, growing and shrinking files; a chain of five links instead of 16.

Left out by a premise: mkfs.jffs2 numbers dirents from 0, and jffs2reader, which
looks for versions above 0, never sees the first entry of the root directory;
collectdir() waits for the place of the last dirent it took, and never gets there
if blank space precedes that dirent, so images without cleanmarkers are read after
sumtool only; jffs2reader shows the first data node of a file and zeros; an
appended image starts its dirent versions and attribute numbers again; a line of the
device table for a name that is a hard link has no effect if another name was
written first; pages so large that a node and its summary do not fit in an erase
block, which sumtool does not test for.  The device numbers that jffs2reader
prints come from a partly uninitialised variable and are not modelled.

## Findings

 * `lpt_empty_commit`: garbage collection of the LPT marks the nodes of a LEB dirty
   and relies on the next commit to write them elsewhere.  A commit that finds no
   dirty pnode returns early, writes no dirty nnode and unmaps the LEB all the
   same: the LPT in the master node then leads to an erased LEB.
 * `ubiformat_mean`: with 50 to 94 per cent of valid erase counters ubiformat says
   that the mean "will be used for the rest of eraseblock" (`ubiformat.c:866`) and
   then writes it on all of them: the valid counters are lost.

Smaller disagreements that were met have a configuration each, which is not one of
the runs; in each the named property is violated:

 * `MCUbifsLogGap.cfg`, `Recoverable`: a power cut between two of the unmaps at the
   end of `ubifs_consolidate_log()` (`log.c:648-737`) leaves a LEB with a commit
   start node newer than the log that is kept.  If a later write to the LEB before
   it is cut too, `ubifs_recover_log_leb()` calls that "unrecoverable log
   corruption" (`recovery.c:876`) and the file system cannot be mounted.
 * `MCUbifsFsckSafe.cfg`, `SafeModeDropsNothing`: safe mode deletes a non-regular
   file in a non-directory without asking.
 * `MCUbifsFsckLinks.cfg`, `EntriesSearchable`: a later entry of a hard link inside
   a regular file stays.
 * `MCUbifsFsckEncrypted.cfg`, `EncryptedHaveContext`: a disconnected encrypted file
   without context is kept in lost+found and removed by the next run.
 * `MCMtdToolsContinuous.cfg`, `ContinuousDumpsGoodData`: with `--continuous`,
   skipping a bad block also skips pages of the next good one.
 * `MCMtdToolsFlips.cfg`, `IndicatedBitsFlipped`: nandflipbits never clears the
   `done` flags of the flips, which come from `malloc()` (`nandflipbits.c:112`).  If
   all the flips of a block are taken for done, it reports success without having
   flipped them, against "Flips the indicated bit(s)" (`nandflipbits.c:40`).
 * `MCMtdToolsIni.cfg`, `OtherModesIgnored`: ubinize does not skip a section that is
   not for it, but goes on with an empty volume description and crashes.

## Proofs

The theorems hold for every value of the constants that meets the named `ASSUME`s
of the modules; TLC evaluates these on every run.  Eight modules hold them.

| theorem | says | module | inductive invariant |
|---|---|---|---|
| `TypeCorrect`, `MasterRecoverable`, `MasterNoOverwrite`, `MasterJournalNeedsDirty` | the master node last written survives any failures and cuts | `UbifsMasterProofs` | `IInv` |
| `MasterIsDurableCell` | `UbifsMaster` implements `MasterCell` | `UbifsMasterProofs` | `IInv` |
| `RoomAfterCommit` | `[]CommitMakesRoom` | `UbifsLogProofs` | `LogInv` |
| `HeadHasRoom`, `BudBytesExact` | `[]HeadRoom` and `[]BudBytesRight`, parts of `LogNeverStuck` and `BudsRight` | `UbifsLogProofs` | `LogInv` |
| `ToolsRewriteBlocks` | `[]RewritesBlocks` | `MtdToolsProofs` | `RewriteInv` |
| `ToolsKeepCounters`, `FormattedRescans` | `[]CountersKept`, and `[]Rescans`, a part of `Formatted` | `MtdToolsProofs` | `UbiInv` |
| `ReceptionExact`, `McastImageWritten` | `[]HeldExactly`, `[]ImageWritten` | `McastTheorems` | `McInv` |

No property is inductive by itself.  Each invariant was checked by TLC on the
instances of the module's run before it was proved.

**Master area.**  What the two rows may look like depends on where the program is:
`IInv == TypeOK /\ PcInv /\ CutInv /\ VerInv`.  `PcInv` gives the shape of both rows
at each program position, `CutInv` the shapes that any subset of lost erasures can
turn them into, `VerInv` orders the contents.  Assumptions: a LEB holds at least two
master nodes (`SlotsAssumption`), and a failed write touches only the slot it was
meant for.

**Log.**  `LogInv` says that the nodes of every log LEB fit in what is written of
it, in `flash` and in `stale`, and, for each place of the program (`Phases`): while
the journal is in use, that the log head is at the end of a sound LEB and the next
one is not the tail, that every journal head writes at the end of a bud of its own,
and that `bud_bytes` is the sum of the buds; during a commit, also that every bud
left has a journal head that points to it and the head is inside of its LEB.  The
room after a commit follows: there are at most as many buds as heads, and
`init_constants_sb()` raises `max_bud_bytes` above `jhead_cnt + 2` LEBs.  The proof
goes through the replay (`ReplayIs`: the head it finds has nodes, and is recovered
if it is torn), the consolidation (`ConsolidatedIs`: the first LEB starts with a
commit start node, so the references are fewer than the log has places) and the
sums (`BudBytesMore`, `BudBytesCommit`).  Assumption: `SuperblockAssumption`, the
minimum sizes that `sb.c` and `super.c` enforce.  Nothing is assumed about what a
cut does: `LogInv` holds for every choice of `Faults`.

**Block rewriting.**  `RewriteInv` describes, for each place of flashcp, nandtest
and nandflipbits, which blocks are as the file or the old flash has them, which may
be junk and what the buffers hold.  Assumptions: `MtdAssumption`, `JobsAssumption`,
`RewriteJobs`, the types of the command lines.  nandflipbits takes the first flip
that is not done, which needs that a set of numbers has a least element; in
`BlockRewriteProofs` this is the hypothesis `WellOrdered`, and `MtdToolsProofs`
discharges it with `LeastNat`.

**ubiformat.**  `UbiInv` relates each block's header to the scan's counter for it,
before and after the block is reached, with the blocks that went bad.  Its part
`UbiEcs` says that the counters in memory are those of `Found`, the scan of what was
on the device at the start, which `CountersKept` speaks of.  Assumptions:
`UbiAssumption` (the headers are there, counters are below the limit of the header
format) and `LebAssumption` (the geometry of this module, two pages in a block).

**Multicast transfer.**  `McInv` has a part for the reception (`RecvInv`: the table,
the write buffers and the flash agree; erase blocks beyond `mtdoffset` are blank) and
one for the decoding (`WriteInv`: blocks below `block_nr` are written, those above
are parked), and one for a run in which only the network fails (`NetworkInv`).
Assumptions: `SizesOK`, `InstancesOK`.  `McastImageProofs` proves the steps from what
the operators on packets compute (`OperatorFacts`: places of units, allocation of
blocks, counting of indices, decoding); `McastTheorems` proves these facts and the
theorems.

Induction over data is done by taking a least counterexample (`LeastNat`,
`NatSetInduction` in `ProofLemmas`), sums over finite sets by induction on their
cardinality (`SumRemove`, `SumChange`, `SumBound`).  Zenon is the default prover of
the larger modules, and the leaves that need arithmetic name SMT.

Only model-checked:

 * liveness (`Terminates`, `ReceptionEnds` and the like), which the prover does not
   take;
 * what builds on recursive operators: `UbifsFsck`, `UbifsRebuild`, `UbifsTnc`,
   `MkfsUbifs`, with `FsckFiles` and `TncTree`;
 * the log's `Recoverable`, `NeverTooFull` and `BudsKept`: they need an invariant that
   describes every log that failed commits, cuts and lost erasures can leave;
 * `ImageInPlace`, `ReadsBack`, `VolumesStored`, `ImageInOrder` and the JFFS2 images,
   which speak of what functions compute from whole images;
 * `UbifsLpt` and `UbifsSpace`, the refinements of `LpropsTable` and `DurablePrefix`
   included: their invariants relate trees and LEB contents through garbage
   collection.

## Not modelled

`PROJECT.json` lists every part with its reason: argument parsing and printing; the
tools that pass one ioctl on or read sysfs (`libubi.c`, the UBI volume tools,
`lsmtd`, `mtd_debug`); CRC, hashing, compression, encryption and signatures, which
the models take as a test that tells a good node from a bad one; jffs2dump, which
prints and swaps byte orders; the formatters of the old translation layers; the test
programs.
