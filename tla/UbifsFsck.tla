------------------------------ MODULE UbifsFsck ------------------------------
(***************************************************************************)
(* A run of fsck.ubifs over a file system that has been loaded (do_fsck()  *)
(* in fsck.ubifs.c): the modes and the answers of fix_problem(), the steps *)
(* over the files, what reaches the flash and when, the exit code, and     *)
(* power cuts followed by another run.                                     *)
(*                                                                         *)
(* `flash' is the index a mount would find: the last committed one, with   *)
(* the inodes that correct_file_info() rewrites in place.  `mem' is the    *)
(* index in memory.  Removals from the index stay in memory until a        *)
(* commit; what the last steps add goes through the journal (`jnl'), and a *)
(* power cut keeps any prefix of it.                                       *)
(***************************************************************************)
EXTENDS FsckFiles

CONSTANTS
  Starts,          \* [images, modes, runs]: indexes fsck may be started on, the
                   \* modes, and a bound on how often it is started
  LostFoundInum,   \* highest_inum + 1, the number ubifs_mkdir() hands out
  MaxRepeat        \* MAX_REPEAT_NAME_RETRY_TIMES

AllModes == {"NORMAL", "SAFE", "DANGER0", "DANGER1", "CHECK"}

ASSUME BoundsAssumption == MaxRepeat \in Nat \ {0}

ASSUME StartsAssumption ==
  \A s \in Starts :
    /\ s.modes \subseteq AllModes /\ s.runs \in Nat
    /\ \A fs \in s.images : \A f \in FilesOf(fs) : f < LostFoundInum /\ f # NoFile

VARIABLES
  pc,        \* the next step of do_fsck()
  mode,      \* FSCK(c)->mode
  flash,     \* the index on flash
  jnl,       \* nodes in the journal since the last commit
  w,         \* the index in memory, the file tree and the disconnected list
  todo,      \* files correct_file_info() has still to rewrite
  lostFound, \* FSCK(c)->lost_and_found
  exitCode,  \* the bits set in exit_code
  runs,      \* how often fsck may still be started
  image,     \* history: the index on flash when this run started
  dropped,   \* history: a problem that drops data was answered yes
  fixable,   \* history: the mode fixes every problem of the first image
  settled    \* history: a completed run left the image this run started on

vars == <<pc, mode, flash, jnl, w, todo, lostFound, exitCode, runs, image,
          dropped, fixable, settled>>

history == <<image, fixable, settled, runs, mode>>

-----------------------------------------------------------------------------
(* fix_problem() *)

\* problem_table[]: the problems without PROBLEM_DROP_DATA, of those that the
\* modelled steps ask about.
SafeProblems == {"FILE_IS_DISCONNECTED", "FILE_IS_INCONSISTENT",
                 "ROOT_DIR_NOT_FOUND"}

DropsData(p) == p \notin SafeProblems

NeedsRebuild(p) == p = "EMPTY_TNC"

\* The default answer, which every mode but the normal one takes.
DefaultIsNo(p) ==
  \/ mode = "CHECK"
  \/ mode = "SAFE" /\ DropsData(p)
  \/ mode \in {"SAFE", "DANGER0"} /\ NeedsRebuild(p)

MayFix(p) == mode = "NORMAL" \/ ~DefaultIsNo(p)
MayRefuse(p) == mode = "NORMAL" \/ DefaultIsNo(p)

AllFixed(asks) == \A i \in DOMAIN asks : MayFix(asks[i])

\* (mutation: only problems that drop data set the bit)
CodeAfterDrops(asks) ==
  exitCode \cup (IF \E i \in DOMAIN asks : DropsData(asks[i])
                 THEN {"NONDESTRUCT"} ELSE {})

CodeAfter(asks) ==
  exitCode \cup (IF asks = <<>> THEN {} ELSE {"NONDESTRUCT"})

DroppedAfter(asks) ==
  dropped \/ \E i \in DOMAIN asks : DropsData(asks[i])

\* fatal_error(): a problem that must be fixed is refused, after some others
\* were accepted; the program exits with everything in memory lost.
FatalError(asks) ==
  \E i \in DOMAIN asks :
    /\ MayRefuse(asks[i])
    /\ \A j \in 1..(i - 1) : MayFix(asks[j])
    /\ exitCode' = CodeAfter(SubSeq(asks, 1, i - 1)) \cup {"UNCORRECTED"}
    /\ pc' = "exit"
    /\ UNCHANGED <<flash, jnl, w, todo, lostFound, dropped, history>>

-----------------------------------------------------------------------------
(* Journal entries: the inodes and the entry ubifs_jnl_update_file() writes. *)

JnlNode(inos, dents) == [inos |-> inos, dents |-> dents]

Apply(fs, e) ==
  [fs EXCEPT !.ino  = [f \in DOMAIN @ \cup DOMAIN e.inos |->
                        IF f \in DOMAIN e.inos THEN e.inos[f] ELSE @[f]],
             !.dent = @ \cup e.dents]

Replayed(fs, n) == FoldLeft(Apply, fs, SubSeq(jnl, 1, n))

Update(e) ==
  /\ jnl' = Append(jnl, e)
  /\ w' = [w EXCEPT !.fs = Apply(@, e)]

NextSq(fs) == 1 + Max({0} \cup {d.sq : d \in fs.dent}
                          \cup {fs.ino[f].sq : f \in DOMAIN fs.ino}
                          \cup {b.sq : b \in fs.data})

-----------------------------------------------------------------------------
Empty == [fs |-> [ino |-> <<>>, dent |-> {}, data |-> {}], tree |-> {},
          xat |-> <<>>, disc |-> <<>>, asks |-> <<>>]

TncIsEmpty(fs) == FilesOf(fs) = {}

\* The problems an uninterrupted run would meet up to its first commit.
Problems(checked) ==
  ToSet(checked.asks)
  \cup (IF Incorrect(checked) # <<>> THEN {"FILE_IS_INCONSISTENT"} ELSE {})
  \cup (IF TncIsEmpty(checked.fs) THEN {"EMPTY_TNC"} ELSE {})

ProblemsOf(fs) == Problems(HandleDentryTree(HandleInvalidFiles(Traverse(fs))))

Init ==
  /\ pc = "off"
  /\ \E s \in Starts : mode \in s.modes /\ flash \in s.images /\ runs = s.runs
  /\ jnl = <<>>
  /\ w = Empty
  /\ todo = <<>>
  /\ lostFound = NoFile
  /\ exitCode = {}
  /\ image = flash
  /\ dropped = FALSE
  /\ fixable = \A p \in ProblemsOf(flash) : ~MayRefuse(p)
  /\ settled = FALSE

\* main() up to do_fsck(): the file system is loaded.  A later run uses the
\* mode of the first one.
Start ==
  /\ pc \in {"off", "exit", "done"}
  /\ runs > 0
  /\ runs' = runs - 1
  /\ pc' = "traverse"
  /\ w' = [Empty EXCEPT !.fs = flash]
  /\ image' = flash
  /\ dropped' = FALSE
  /\ exitCode' = {}
  /\ lostFound' = NoFile
  /\ todo' = <<>>
  /\ settled' = (pc = "done" /\ "UNCORRECTED" \notin exitCode)
  /\ UNCHANGED <<mode, flash, jnl, fixable>>

\* One of the steps on the files: every question is answered yes.
FileStep(from, to, result) ==
  /\ pc = from
  /\ \/ /\ AllFixed(result.asks)
        /\ w' = [result EXCEPT !.asks = <<>>]
        /\ exitCode' = CodeAfter(result.asks)
        /\ dropped' = DroppedAfter(result.asks)
        /\ pc' = to
        /\ UNCHANGED <<flash, jnl, todo, lostFound, history>>
     \/ FatalError(result.asks)

TraverseTnc == FileStep("traverse", "invalid", Traverse(w.fs))

HandleInvalid == FileStep("invalid", "dentries", HandleInvalidFiles(w))

HandleDentries == FileStep("dentries", "check", HandleDentryTree(w))

\* check_and_correct_files(), the calculation.
CheckFiles ==
  /\ pc = "check"
  /\ todo' = [i \in 1..Len(Incorrect(w)) |->
                [inum |-> Incorrect(w)[i],
                 info |-> CalculateFileInfo(w, Incorrect(w)[i])]]
  /\ w' = Checked(w)
  /\ pc' = "correct"
  /\ UNCHANGED <<flash, jnl, lostFound, exitCode, dropped, history>>

\* (mutation: the link count is not written)
RewriteNoNlink(fs, t) ==
  [fs EXCEPT !.ino[t.inum] = [Corrected(@, t.info) EXCEPT !.nlink = fs.ino[t.inum].nlink]]

\* correct_file_info(): the inode is rewritten in place, at once on flash.
Rewrite(fs, t) == [fs EXCEPT !.ino[t.inum] = Corrected(@, t.info)]

CorrectFile ==
  /\ pc = "correct"
  /\ todo # <<>>
  /\ \/ /\ MayFix("FILE_IS_INCONSISTENT")
        /\ w' = [w EXCEPT !.fs = Rewrite(@, Head(todo))]
        /\ flash' = Rewrite(flash, Head(todo))
        /\ todo' = Tail(todo)
        /\ exitCode' = CodeAfter(<<"FILE_IS_INCONSISTENT">>)
        /\ UNCHANGED <<pc, jnl, lostFound, dropped, history>>
     \/ FatalError(<<"FILE_IS_INCONSISTENT">>)

\* tnc_is_empty(): nothing is left in the index, and the file system has to
\* be rebuilt.  Otherwise check_and_correct_space() is next, where the check
\* mode exits.
CheckTnc ==
  /\ pc = "correct"
  /\ todo = <<>>
  /\ \/ /\ TncIsEmpty(w.fs)
        /\ MayFix("EMPTY_TNC")
        /\ exitCode' = CodeAfter(<<"EMPTY_TNC">>)
        /\ dropped' = TRUE
        /\ pc' = "rebuild"
        /\ UNCHANGED <<flash, jnl, w, todo, lostFound, history>>
     \/ TncIsEmpty(w.fs) /\ FatalError(<<"EMPTY_TNC">>)
     \/ /\ ~TncIsEmpty(w.fs)
        /\ pc' = IF mode = "CHECK" THEN "exit" ELSE "commit"
        /\ UNCHANGED <<flash, jnl, w, todo, lostFound, exitCode, dropped, history>>

\* commit_fix_modifications(c, false)
Commit ==
  /\ pc = "commit"
  /\ flash' = w.fs
  /\ jnl' = <<>>
  /\ pc' = "root"
  /\ UNCHANGED <<w, todo, lostFound, exitCode, dropped, history>>

\* check_and_create_root()
NewDir(fs, nlink) ==
  [type |-> "dir", xattr |-> FALSE, enc |-> FALSE, nlink |-> nlink, xcnt |-> 0,
   size |-> 0, sq |-> NextSq(fs)]

AfterRoot == IF w.disc = <<>> THEN "final" ELSE "lostfound"

CheckRoot ==
  /\ pc = "root"
  /\ \/ /\ HasIno(w.fs, UBIFS_ROOT_INO)
        /\ pc' = AfterRoot
        /\ UNCHANGED <<flash, jnl, w, todo, lostFound, exitCode, dropped, history>>
     \/ /\ ~HasIno(w.fs, UBIFS_ROOT_INO)
        /\ MayFix("ROOT_DIR_NOT_FOUND")
        /\ Update(JnlNode(UBIFS_ROOT_INO :> NewDir(w.fs, 2), {}))
        /\ exitCode' = CodeAfter(<<"ROOT_DIR_NOT_FOUND">>)
        /\ pc' = AfterRoot
        /\ UNCHANGED <<flash, todo, lostFound, dropped, history>>
     \/ /\ ~HasIno(w.fs, UBIFS_ROOT_INO)
        /\ FatalError(<<"ROOT_DIR_NOT_FOUND">>)

-----------------------------------------------------------------------------
(* handle_disconnected.c *)

Lookup(fs, dir, name) ==
  {d \in fs.dent : d.host = dir /\ d.name = name /\ ~d.xent}

\* pack_inode() gives the inode written a new sequence number.
Packed(fs, i) == [i EXCEPT !.sq = NextSq(fs)]

Grown(fs, i) == [Packed(fs, i) EXCEPT !.size = @ + 1]

Mkdir(fs) ==
  JnlNode(UBIFS_ROOT_INO :> [Grown(fs, fs.ino[UBIFS_ROOT_INO]) EXCEPT !.nlink = @ + 1]
          @@ LostFoundInum :> NewDir(fs, 2),
          {[host |-> UBIFS_ROOT_INO, inum |-> LostFoundInum, type |-> "dir",
            xent |-> FALSE, name |-> LostFoundName, sq |-> NextSq(fs)]})

\* check_and_create_lost_found(): an encrypted root is not searched; an
\* existing lost+found is used if it is a directory in clear; a missing one is
\* created unless there is no space.
CheckLostFound ==
  /\ pc = "lostfound"
  /\ pc' = "disconnected"
  /\ LET entry == Lookup(w.fs, UBIFS_ROOT_INO, LostFoundName)
         Target == (CHOOSE d \in entry : TRUE).inum
     IN  \/ /\ w.fs.ino[UBIFS_ROOT_INO].enc
            /\ UNCHANGED <<w, jnl, lostFound>>
         \/ /\ ~w.fs.ino[UBIFS_ROOT_INO].enc
            /\ entry # {}
            /\ lostFound' = IF IsDir(w.fs, Target) /\ ~w.fs.ino[Target].enc
                            THEN Target ELSE NoFile
            /\ UNCHANGED <<w, jnl>>
         \/ /\ ~w.fs.ino[UBIFS_ROOT_INO].enc
            /\ entry = {}
            /\ \/ Update(Mkdir(w.fs)) /\ lostFound' = LostFoundInum
               \/ UNCHANGED <<w, jnl, lostFound>>
  /\ UNCHANGED <<flash, todo, exitCode, dropped, history>>

\* ubifs_link_recovery(): the first free name INO_<inum>_<index>.
FreeIndexes(fs, f) ==
  {i \in 0..(MaxRepeat - 1) : Lookup(fs, lostFound, InoName(f, i)) = {}}

Link(fs, f) ==
  JnlNode(f :> Packed(fs, fs.ino[f]) @@ lostFound :> Grown(fs, fs.ino[lostFound]),
          {[host |-> lostFound, inum |-> f, type |-> "reg", xent |-> FALSE,
            name |-> InoName(f, Min(FreeIndexes(fs, f))), sq |-> NextSq(fs)]})

\* handle_disonnected_file()
HandleDisconnected ==
  /\ pc = "disconnected"
  /\ w.disc # <<>>
  /\ LET f == Head(w.disc)
         rest == Tail(w.disc)
     IN  \/ /\ lostFound # NoFile
            /\ FreeIndexes(w.fs, f) # {}
            /\ jnl' = Append(jnl, Link(w.fs, f))
            /\ w' = [w EXCEPT !.fs = Apply(@, Link(w.fs, f)), !.disc = rest]
            /\ UNCHANGED <<exitCode, dropped>>
         \* No lost+found, too many names, or no space: delete it, or skip it.
         \/ /\ MayFix("DISCONNECTED_FILE_CANNOT_BE_RECOVERED")
            /\ w' = [w EXCEPT !.fs = DeleteFiles(@, w.xat, {f}), !.disc = rest]
            /\ exitCode' = exitCode \cup {"NONDESTRUCT"}
            /\ dropped' = TRUE
            /\ UNCHANGED jnl
         \/ /\ MayRefuse("DISCONNECTED_FILE_CANNOT_BE_RECOVERED")
            /\ w' = [w EXCEPT !.disc = rest]
            /\ exitCode' = exitCode \cup {"UNCORRECTED"}
            /\ UNCHANGED <<jnl, dropped>>
  /\ UNCHANGED <<pc, flash, todo, lostFound, history>>

\* commit_fix_modifications(c, true), and the end of the program.
FinalCommit ==
  /\ \/ pc = "final"
     \/ pc = "disconnected" /\ w.disc = <<>>
  /\ flash' = w.fs
  /\ jnl' = <<>>
  /\ pc' = "done"
  /\ UNCHANGED <<w, todo, lostFound, exitCode, dropped, history>>

\* A step fails (FSCK_ERROR), a signal cancels the run (FSCK_CANCELED), or the
\* power is cut: the memory is lost, and the journal keeps a prefix.
Running == pc \notin {"off", "exit", "done", "rebuild"}

Interrupted ==
  /\ Running
  /\ \E n \in 0..Len(jnl) : flash' = Replayed(flash, n)
  /\ jnl' = <<>>
  /\ w' = Empty
  /\ todo' = <<>>
  /\ exitCode' = exitCode \cup {"ERROR"}
  /\ pc' = "exit"
  /\ UNCHANGED <<lostFound, dropped, history>>

Next ==
  \/ Start \/ TraverseTnc \/ HandleInvalid \/ HandleDentries \/ CheckFiles
  \/ CorrectFile \/ CheckTnc \/ Commit \/ CheckRoot \/ CheckLostFound
  \/ HandleDisconnected \/ FinalCommit \/ Interrupted

Spec == Init /\ [][Next]_vars

-----------------------------------------------------------------------------
(* Reference definitions: what a consistent file system is, without any of *)
(* the program's own checks.                                               *)

RECURSIVE Below(_, _)
Below(fs, F) ==
  LET more == {d.inum : d \in {e \in fs.dent : e.host \in F /\ ~e.xent
                                               /\ IsDir(fs, e.host)}}
  IN  IF more \subseteq F THEN F ELSE Below(fs, F \cup more)

Reachable(fs) == Below(fs, {UBIFS_ROOT_INO})

EntryFits(fs, d) ==
  /\ HasIno(fs, d.inum) /\ HasIno(fs, d.host)
  /\ d.type = fs.ino[d.inum].type
  /\ d.xent = fs.ino[d.inum].xattr
  /\ ~IsXattr(fs, d.host)
  /\ d.xent \/ IsDir(fs, d.host)

HostedBy(fs, f, xent) == {d \in fs.dent : d.host = f /\ d.xent = xent}

LinksRight(fs, f) ==
  LET i == fs.ino[f]
      entries == Cardinality(DentsOf(fs, f))
  IN  /\ i.xcnt = Cardinality(HostedBy(fs, f, TRUE))
      /\ f = UBIFS_ROOT_INO => entries = 0
      /\ f # UBIFS_ROOT_INO => entries >= 1
      /\ i.xattr => entries = 1 /\ i.nlink = 1
      /\ i.type = "dir" =>
           /\ entries <= 1
           /\ i.nlink = 2 + Cardinality({d \in HostedBy(fs, f, FALSE) : d.type = "dir"})
           /\ i.size = Cardinality(HostedBy(fs, f, FALSE))
      /\ i.type # "dir" /\ ~i.xattr => i.nlink = entries

ContentRight(fs, f) ==
  LET i == fs.ino[f]
  IN  /\ DataOf(fs, f) # {} => i.type = "reg" /\ ~i.xattr
      /\ \A b \in DataOf(fs, f) : b.end <= i.size
      /\ i.enc => \E d \in HostedBy(fs, f, TRUE) : d.name = EncContextName

Consistent(fs) ==
  /\ IsDir(fs, UBIFS_ROOT_INO)
  /\ \A d \in fs.dent : EntryFits(fs, d)
  /\ \A f \in FilesOf(fs) :
       /\ HasIno(fs, f)
       /\ ~IsXattr(fs, f) => f \in Reachable(fs)
       /\ LinksRight(fs, f)
       /\ ContentRight(fs, f)

-----------------------------------------------------------------------------
(* Properties *)

InoType == [type : {"reg", "dir", "lnk"}, xattr : BOOLEAN, enc : BOOLEAN,
            nlink : Nat, xcnt : Nat, size : Nat, sq : Nat]

IndexOK(fs) ==
  /\ DOMAIN fs = {"ino", "dent", "data"}
  /\ \A f \in DOMAIN fs.ino : f \in 1..LostFoundInum /\ fs.ino[f] \in InoType
  /\ \A d \in fs.dent : d.host \in 1..LostFoundInum /\ d.inum \in 1..LostFoundInum
  /\ \A d, e \in fs.dent :
       d.host = e.host /\ d.name = e.name /\ d.xent = e.xent => d = e

\* Type invariant.  The two indexes hold well-formed nodes, with at most one
\* entry of a name in a directory, as ubifs_tnc_add_nm() keeps it.
TypeOK ==
  /\ pc \in {"off", "traverse", "invalid", "dentries", "check", "correct",
             "commit", "root", "lostfound", "disconnected", "final", "done",
             "exit", "rebuild"}
  /\ mode \in AllModes
  /\ IndexOK(flash) /\ IndexOK(w.fs)
  /\ w.tree \subseteq 1..LostFoundInum
  /\ lostFound \in 0..LostFoundInum
  /\ exitCode \subseteq {"NONDESTRUCT", "UNCORRECTED", "ERROR"}
  /\ runs \in Nat
  /\ {dropped, fixable, settled} \subseteq BOOLEAN

\* A run that ends with the final commit and reports nothing uncorrected
\* leaves a file system that is consistent by the reference definition: every
\* entry and file can be reached from the root, link counts, sizes and xattr
\* counts are those the entries give (do_fsck()).
Repaired == pc = "done" /\ "UNCORRECTED" \notin exitCode => Consistent(flash)

\* What a completed run leaves, another run has nothing to ask about and nothing
\* to change, even if an earlier run was interrupted (do_fsck()).
SecondRunQuiet == settled => exitCode \subseteq {"ERROR"} /\ flash = image

\* "Fsck is tolerant with power-cut, fsck will always succeed in a certain mode
\* without changing mode even power-cut happens in checking and repairing":
\* if the mode fixes every problem of the first image, no later run of it ends
\* in fatal_error(), whatever the interrupted runs before have left on flash.
CutTolerant ==
  fixable /\ pc = "exit" /\ "ERROR" \notin exitCode => "UNCORRECTED" \notin exitCode

Usable(fs, f) ==
  IsReg(fs, f) /\ ~IsXattr(fs, f) /\ ValidIno(f, fs.ino[f]) /\ fs.ino[f].nlink > 0

\* A regular file with a usable inode is never lost, with its data up to the
\* inode's size: while a run goes on, after a cut, and after the end, unless
\* some question that drops data was answered yes (handle_invalid_files(),
\* handle_dentry_tree(), handle_disonnected_files()).
RegularFilesKept ==
  ~dropped => \A f \in DOMAIN image.ino : Usable(image, f) =>
     /\ Usable(flash, f)
     /\ \A b \in DataOf(image, f) : b.end <= image.ino[f].size => b \in flash.data

\* A directory or special file named in a file that is no directory.
NamedInFile(fs) ==
  \E d \in fs.dent : /\ ~d.xent /\ d.type # "reg"
                     /\ HasIno(fs, d.host) /\ ~IsDir(fs, d.host)

\* The exit code is honest: a run that ends with code 0 ("No errors") leaves
\* the file system it found, apart from data beyond the size of a file; and in
\* check mode a run, whatever it finds and wherever it stops, leaves all of it.
\* (file_is_valid() drops a file that is not regular and is named in a file that
\* is no directory without a question, see SafeModeDropsNothing.)
NoErrorsNoChange ==
  /\ pc = "done" /\ exitCode = {} /\ ~NamedInFile(image)
       => flash.ino = image.ino /\ flash.dent = image.dent
  /\ mode = "CHECK" => flash = image

\* README.txt: in safe mode, "if there are any data dropping operations needed
\* by fixing, fsck will fail": a run in safe mode that reaches its end has
\* removed no inode that the index held.
SafeModeDropsNothing ==
  mode = "SAFE" /\ pc = "done" => DOMAIN image.ino \subseteq DOMAIN flash.ino

\* file_is_valid(): "Encrypted files should have corresponding xattrs, otherwise
\* they are invalid": none is left without one after a complete run.
EncryptedHaveContext ==
  pc = "done" /\ "UNCORRECTED" \notin exitCode =>
    \A f \in DOMAIN flash.ino : flash.ino[f].enc =>
       \E d \in HostedBy(flash, f, TRUE) : d.name = EncContextName

\* handle_dentry_tree() "iterates all directory entries and remove those
\* unreachable ones"; "'Unreachable' means that a directory entry can not be
\* searched from '/'": every entry left after it is in a directory that can be
\* reached from the root.
EntriesSearchable ==
  pc \in {"check", "correct", "commit"} =>
    \A d \in w.fs.dent : ~d.xent /\ HasIno(w.fs, UBIFS_ROOT_INO) =>
        d.host \in Reachable(w.fs) /\ IsDir(w.fs, d.host)
=============================================================================
