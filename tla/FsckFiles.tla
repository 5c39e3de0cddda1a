------------------------------ MODULE FsckFiles ------------------------------
(***************************************************************************)
(* The file checks of fsck.ubifs (extract_files.c, check_files.c) as       *)
(* operators on an index.                                                  *)
(*                                                                         *)
(* An index is [ino, dent, data]: the inode nodes by inode number, the set *)
(* of directory and extended-attribute entry nodes, and the set of data    *)
(* nodes.  The file tree of the program holds pointers to the same nodes;  *)
(* each time the program deletes a node from the tree it deletes it from   *)
(* the index too, so the index itself serves as the content of the files,  *)
(* and `tree' is only the set of inode numbers that are still in the tree. *)
(*                                                                         *)
(* Sizes are counted in units: one per entry of a directory, one per block *)
(* of a regular file.  The three xattr statistics of an inode (count, size *)
(* and name lengths) move together and are one number, xcnt.  Truncation   *)
(* nodes are never in the index, so they do not occur here.                *)
(***************************************************************************)
EXTENDS Integers, Sequences, FiniteSets, SequencesExt, FiniteSetsExt

UBIFS_ROOT_INO == 1

\* Names are numbers; three kinds of name are told apart.
LostFoundName == 0
EncContextName == 1
InoName(f, index) == 100 * f + index

NoFile == 0

-----------------------------------------------------------------------------
(* Parts of an index. *)

DentsOf(fs, f) == {d \in fs.dent : d.inum = f}

DataOf(fs, f) == {b \in fs.data : b.inum = f}

\* traverse_tnc_and_construct_files(): a file exists as soon as any node of
\* it does.
FilesOf(fs) == DOMAIN fs.ino \cup {d.inum : d \in fs.dent}
                             \cup {b.inum : b \in fs.data}

HasIno(fs, f) == f \in DOMAIN fs.ino

\* A file without an inode has a zeroed inode record: not an xattr, and not
\* a directory.
IsXattr(fs, f) == HasIno(fs, f) /\ fs.ino[f].xattr
IsDir(fs, f) == HasIno(fs, f) /\ fs.ino[f].type = "dir"
IsReg(fs, f) == HasIno(fs, f) /\ fs.ino[f].type = "reg"

\* The dent_nodes tree is ordered by sequence number.
OldestDent(ds) == CHOOSE d \in ds : \A e \in ds : d.sq <= e.sq
NewestDent(ds) == CHOOSE d \in ds : \A e \in ds : d.sq >= e.sq

WithoutDents(fs, ds) == [fs EXCEPT !.dent = @ \ ds]

Times(S, problem) == [i \in 1..Cardinality(S) |-> problem]

Ascending(S) == SetToSortSeq(S, LAMBDA a, b : a < b)

BySqnum(ds) == SetToSortSeq(ds, LAMBDA d, e : d.sq < e.sq)

\* A loop over a list: Step(w, x) for each x in turn.  The work record is
\* bound by a set so that TLC evaluates it once in every round.
Loop(Step(_, _), w0, xs) ==
  FoldLeft(LAMBDA v, x : CHOOSE r \in {Step(w, x) : w \in {v}} : TRUE, w0, xs)

-----------------------------------------------------------------------------
(* traverse_tnc_and_construct_files(): the inode nodes that parse_ino_node() *)
(* refuses are removed from the index, one question each.                    *)

ValidIno(f, i) ==
  /\ f = UBIFS_ROOT_INO => i.type = "dir"
  /\ i.xattr => i.type = "reg" /\ i.xcnt = 0 /\ ~i.enc

InvalidInos(fs) == {f \in DOMAIN fs.ino : ~ValidIno(f, fs.ino[f])}

Traverse(fs) ==
  LET index == [fs EXCEPT !.ino = [f \in DOMAIN @ \ InvalidInos(fs) |-> @[f]]]
  IN  [fs |-> index, tree |-> FilesOf(index), xat |-> <<>>, disc |-> <<>>,
       asks |-> Times(InvalidInos(fs), "INVALID_INO_NODE")]

-----------------------------------------------------------------------------
(* delete_file(): the inode, the data, the entries, and the attached xattr *)
(* files.  `xat' maps an attached xattr file to its host.                  *)

XattrsOf(xat, f) == {x \in DOMAIN xat : xat[x] = f}

DeleteFiles(fs, xat, F) ==
  LET all == F \cup UNION {XattrsOf(xat, f) : f \in F}
  IN  [ino  |-> [i \in DOMAIN fs.ino \ all |-> fs.ino[i]],
       dent |-> {d \in fs.dent : d.inum \notin all},
       data |-> {b \in fs.data : b.inum \notin all}]

-----------------------------------------------------------------------------
(* file_is_valid(): the verdict on a file, the problems it asks about, in  *)
(* order, and the nodes it removes on the way.                             *)

Verdict(v, asks, dents, data, host) ==
  [verdict |-> v, asks |-> asks, dents |-> dents, data |-> data, host |-> host]

\* (mutation: directories keep all their entries)
ExtraDentsNone(i, typed) == {}

\* Directories and xattr files keep their newest entry only.
ExtraDents(i, typed) ==
  IF (i.type = "dir" \/ i.xattr) /\ typed # {} THEN typed \ {NewestDent(typed)}
                                               ELSE {}

\* Only regular files have data nodes.
JunkData(fs, f) ==
  IF IsReg(fs, f) /\ ~IsXattr(fs, f) THEN {} ELSE DataOf(fs, f)

\* The entry that decides which file is the parent: the first of the tree.
ParentOf(tree, kept) ==
  IF kept = {} \/ OldestDent(kept).host \notin tree THEN NoFile
                                                    ELSE OldestDent(kept).host

HasEncryptedInfo(fs, xat, f) ==
  \E x \in XattrsOf(xat, f) : \E d \in DentsOf(fs, x) : d.name = EncContextName

FileIsValid(fs, tree, xat, f) ==
  IF ~HasIno(fs, f) THEN Verdict("invalid", <<"FILE_HAS_NO_INODE">>, {}, {}, NoFile)
  ELSE IF fs.ino[f].nlink = 0
       THEN Verdict("invalid", <<"FILE_HAS_0_NLINK_INODE">>, {}, {}, NoFile)
  ELSE
  LET i      == fs.ino[f]
      wrong  == {d \in DentsOf(fs, f) : d.xent # i.xattr \/ d.type # i.type}
      typed  == DentsOf(fs, f) \ wrong
      extra  == ExtraDents(i, typed)
      kept   == typed \ extra
      junk   == JunkData(fs, f)
      regular == i.type = "reg" /\ ~i.xattr
      parent == ParentOf(tree, kept)
      asked  == Times(wrong, "FILE_HAS_INCONSIST_TYPE")
                \o Times(extra, "FILE_HAS_TOO_MANY_DENT")
                \o Times(junk, "FILE_SHOULDNT_HAVE_DATA")
      gone   == wrong \cup extra
      Result(v, asks) == Verdict(v, asked \o asks, gone, junk, parent)
  IN CASE kept # {} /\ f = UBIFS_ROOT_INO ->
            Result("invalid", <<"FILE_ROOT_HAS_DENT">>)
       [] kept = {} /\ f # UBIFS_ROOT_INO /\ regular ->
            Result("disconnected", <<"FILE_IS_DISCONNECTED">>)
       [] kept = {} /\ f # UBIFS_ROOT_INO /\ ~regular ->
            Result("invalid", <<"FILE_HAS_NO_DENT">>)
       [] i.xattr /\ parent = NoFile /\ (kept # {} \/ f = UBIFS_ROOT_INO) ->
            Result("invalid", <<"XATTR_HAS_NO_HOST">>)
       [] i.xattr /\ parent # NoFile /\ IsXattr(fs, parent) ->
            Result("invalid", <<"XATTR_HAS_WRONG_HOST">>)
       [] i.xattr /\ parent # NoFile /\ ~IsXattr(fs, parent) ->
            Result("valid", <<>>)
       [] ~i.xattr /\ parent # NoFile /\ ~IsDir(fs, parent) /\ regular ->
            Verdict("disconnected", asked \o <<"FILE_IS_DISCONNECTED">>,
                    gone \cup kept, junk, NoFile)
       \* Any other type is deleted by the caller, and nobody is asked.
       [] ~i.xattr /\ parent # NoFile /\ ~IsDir(fs, parent) /\ ~regular ->
            Result("invalid", <<>>)
       [] OTHER ->
            IF i.enc /\ ~HasEncryptedInfo(fs, xat, f)
            THEN Result("invalid", <<"FILE_HAS_NO_ENCRYPT">>)
            ELSE Result("valid", <<>>)

Prune(fs, v) == [fs EXCEPT !.dent = @ \ v.dents, !.data = @ \ v.data]

-----------------------------------------------------------------------------
(* handle_invalid_files().  A work record w, first made by Traverse, is    *)
(* [fs, tree, xat, disc, asks]:                                            *)
(* the index, the file tree, the attached xattr files, the disconnected    *)
(* list (its head is the file added last) and the problems asked about.    *)

\* Round 1 takes each xattr file out of the tree, then attaches or deletes it.
XattrJudged(w, x, v) ==
  [w EXCEPT !.tree = @ \ {x},
            !.asks = @ \o v.asks,
            !.xat  = IF v.verdict # "valid" THEN @
                     ELSE [y \in DOMAIN @ \cup {x} |-> IF y = x THEN v.host ELSE @[y]],
            !.fs   = IF v.verdict = "valid" THEN Prune(@, v)
                                            ELSE DeleteFiles(Prune(@, v), w.xat, {x})]

XattrRound(w, x) ==
  XattrJudged(w, x, FileIsValid(w.fs, w.tree \ {x}, w.xat, x))

XattrRounds(w) ==
  Loop(XattrRound, w, Reverse(Ascending({f \in w.tree : IsXattr(w.fs, f)})))

\* Round 2 only collects the invalid files: they stay in the tree until all
\* files are judged.
FileJudged(w, f, v) ==
  [w EXCEPT !.fs   = Prune(@, v),
            !.asks = @ \o v.asks,
            !.disc = IF v.verdict = "disconnected" THEN <<f>> \o @ ELSE @,
            !.bad  = IF v.verdict = "invalid" THEN @ \cup {f} ELSE @]

FileRound(w, f) == FileJudged(w, f, FileIsValid(w.fs, w.tree, w.xat, f))

FileRounds(w) == Loop(FileRound, w @@ [bad |-> {}], Ascending(w.tree))

\* The invalid files are deleted, and the disconnected ones leave the tree.
Removed(w) ==
  [fs   |-> DeleteFiles(w.fs, w.xat, w.bad),
   tree |-> (w.tree \ w.bad) \ ToSet(w.disc),
   xat  |-> w.xat, disc |-> w.disc, asks |-> w.asks]

HandleInvalidFiles(w) == Removed(FileRounds(XattrRounds(w)))

-----------------------------------------------------------------------------
(* handle_dentry_tree().  `found' is the set of entries whose can_be_found *)
(* flag is set.                                                            *)

\* dentry_is_reachable(): walks up from an entry through the first entry of
\* each parent, and returns the path it took.
RECURSIVE DentryIsReachable(_, _, _, _, _)
DentryIsReachable(fs, tree, found, d, path) ==
  CASE d \in path -> [ok |-> FALSE, path |-> path]
    [] d \notin path /\ d \in found -> [ok |-> TRUE, path |-> path]
    [] OTHER ->
         LET parents == DentsOf(fs, d.host)
             walked  == path \cup {d}
         IN  CASE d.host \notin tree -> [ok |-> FALSE, path |-> walked]
               [] d.host \in tree /\ d.host = UBIFS_ROOT_INO ->
                    [ok |-> TRUE, path |-> walked]
               [] d.host \in tree /\ d.host # UBIFS_ROOT_INO /\ parents = {} ->
                    [ok |-> FALSE, path |-> walked]
               [] OTHER ->
                    DentryIsReachable(fs, tree, found, OldestDent(parents), walked)

\* file_is_reachable(): every entry on an unreachable path is removed, with
\* a question for each.  The code scans the file again from its first entry
\* then, and comes to the next entry that is still there and not yet found.
\* w has the further fields found and lost (the unreachable files).
EntryRound(w, d) ==
  LET r == DentryIsReachable(w.fs, w.tree, w.found, d, {})
  IN  CASE d \in w.found \/ d \notin w.fs.dent -> w
        [] d \in w.fs.dent \ w.found /\ r.ok -> [w EXCEPT !.found = @ \cup r.path]
        [] d \in w.fs.dent \ w.found /\ ~r.ok ->
             [w EXCEPT !.fs   = WithoutDents(@, r.path),
                       !.asks = @ \o Times(r.path, "DENTRY_IS_UNREACHABLE")]

MarkLost(w, f) ==
  IF f = UBIFS_ROOT_INO \/ DentsOf(w.fs, f) # {} THEN w
  ELSE [w EXCEPT !.lost = @ \cup {f},
                 !.asks = Append(@, IF IsReg(w.fs, f) THEN "FILE_IS_DISCONNECTED"
                                                      ELSE "FILE_HAS_NO_DENT")]

FileIsReachable(w, f) ==
  MarkLost(Loop(EntryRound, w, BySqnum(DentsOf(w.fs, f))), f)

WithoutLost(w, regular) ==
  [fs   |-> DeleteFiles(w.fs, w.xat, w.lost \ regular),
   tree |-> w.tree \ w.lost,
   xat  |-> w.xat,
   disc |-> Ascending(regular) \o w.disc,
   asks |-> w.asks]

DentryRounds(w) ==
  Loop(FileIsReachable, w @@ [found |-> {}, lost |-> {}], Ascending(w.tree))

Lost(w) == WithoutLost(w, {f \in w.lost : IsReg(w.fs, f)})

HandleDentryTree(w) == Lost(DentryRounds(w))

-----------------------------------------------------------------------------
(* check_and_correct_files(): calculate_file_info() for every file.  A     *)
(* directory's size gathers the entries of the files below it; for any     *)
(* other file the calculated size is assigned, which forgets what files    *)
(* with a smaller inode number had added.                                  *)

\* (mutation: off by one)
StaleDataAtSize(fs, f) ==
  {b \in DataOf(fs, f) : fs.ino[f].sq > b.sq /\ fs.ino[f].size <= b.end}

StaleData(fs, f) ==
  {b \in DataOf(fs, f) : fs.ino[f].sq > b.sq /\ fs.ino[f].size < b.end}

DropStale(fs, F) ==
  [fs EXCEPT !.data = @ \ UNION {StaleData(fs, f) : f \in F}]

RegSize(fs, f) ==
  Max({fs.ino[f].size} \cup {b.end : b \in DataOf(fs, f) \ StaleData(fs, f)})

EntriesFrom(fs, F, f) == {d \in fs.dent : d.host = f /\ d.inum \in F /\ ~d.xent}

SubDirs(fs, F, f) == {g \in F : IsDir(fs, g) /\ EntriesFrom(fs, {g}, f) # {}}

\* (mutation: the link count of a disconnected file is not reset to one)
CalculateFileInfoNoReset(w, f) ==
  [nlink |-> IF IsDir(w.fs, f) THEN 2 + Cardinality(SubDirs(w.fs, w.tree, f))
                               ELSE Cardinality(DentsOf(w.fs, f)),
   xcnt  |-> Cardinality(XattrsOf(w.xat, f)),
   size  |-> IF IsDir(w.fs, f) THEN Cardinality(EntriesFrom(w.fs, w.tree, f))
                               ELSE RegSize(w.fs, f)]

CalculateFileInfo(w, f) ==
  LET i == w.fs.ino[f]
      xcnt == Cardinality(XattrsOf(w.xat, f))
      later == {g \in w.tree : g > f}
  IN  CASE f \in DOMAIN w.xat -> [nlink |-> 1, xcnt |-> 0, size |-> i.size]
        [] f \in ToSet(w.disc) ->
             [nlink |-> 1, xcnt |-> xcnt, size |-> RegSize(w.fs, f)]
        [] f \in w.tree /\ i.type = "dir" ->
             [nlink |-> 2 + Cardinality(SubDirs(w.fs, w.tree, f)),
              xcnt  |-> xcnt,
              size  |-> Cardinality(EntriesFrom(w.fs, w.tree, f))]
        [] f \in w.tree /\ i.type # "dir" ->
             [nlink |-> Cardinality(DentsOf(w.fs, f)),
              xcnt  |-> xcnt,
              size  |-> (IF i.type = "reg" THEN RegSize(w.fs, f) ELSE i.size)
                        + Cardinality(EntriesFrom(w.fs, later, f))]

Corrected(i, info) ==
  [i EXCEPT !.nlink = info.nlink, !.xcnt = info.xcnt, !.size = info.size]

\* correct_file_info() visits the xattr files of a file before the file, and
\* the disconnected files after those of the tree.
CorrectionOrder(w) ==
  FoldLeft(LAMBDA s, f : s \o Append(Ascending(XattrsOf(w.xat, f)), f),
           <<>>, Ascending(w.tree) \o w.disc)

Incorrect(w) ==
  SelectSeq(CorrectionOrder(w), LAMBDA f :
      Corrected(w.fs.ino[f], CalculateFileInfo(w, f)) # w.fs.ino[f])

Checked(w) == [w EXCEPT !.fs = DropStale(@, w.tree \cup ToSet(w.disc))]
=============================================================================
