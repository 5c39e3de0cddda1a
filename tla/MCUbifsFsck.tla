----------------------------- MODULE MCUbifsFsck -----------------------------
(***************************************************************************)
(* Families of images for UbifsFsck.  Every family is a product: each node *)
(* is there or not, in one of a few forms.                                 *)
(***************************************************************************)
EXTENDS UbifsFsck

Ino(type, nlink, size) ==
  [type |-> type, xattr |-> FALSE, enc |-> FALSE, nlink |-> nlink, xcnt |-> 0,
   size |-> size, sq |-> 10]

XIno == [Ino("reg", 1, 0) EXCEPT !.xattr = TRUE]

Enc(i) == [i EXCEPT !.enc = TRUE]

Dent(host, inum, type, sq) ==
  [host |-> host, inum |-> inum, type |-> type, xent |-> FALSE, name |-> 10 + sq,
   sq |-> sq]

Xent(host, inum, name, sq) ==
  [Dent(host, inum, "reg", sq) EXCEPT !.xent = TRUE, !.name = name]

Block(inum, end, sq) == [inum |-> inum, end |-> end, sq |-> sq]

Index(ino, dent, data) == [ino |-> ino, dent |-> dent, data |-> data]

Optional(S) == {{}} \cup {{x} : x \in S}

\* The inodes of one number: absent, or one of S.
Inodes(f, S) == {<<>>} \cup {f :> i : i \in S}

-----------------------------------------------------------------------------
\* A root and two files, with up to three entries in any of them.
Entries(F, sq) ==
  Optional({Dent(h, f, t, sq) : h \in 1..3, f \in F, t \in {"reg", "dir"}})

Trees ==
  {Index(a @@ b @@ c, d1 \cup d2 \cup d3, {}) :
     a \in Inodes(1, {Ino("dir", 3, 1)}),
     b \in Inodes(2, {Ino("reg", 1, 0), Ino("dir", 2, 0)}),
     c \in Inodes(3, {Ino("reg", 1, 0), Ino("dir", 2, 0)}),
     d1 \in Optional({Dent(1, 2, t, 1) : t \in {"reg", "dir"}}),
     d2 \in Entries({2, 3}, 2), d3 \in Entries({3}, 3)}

\* A file with several names, one of them inside a file that is no directory.
NameInFile(fs) ==
  \E f \in FilesOf(fs) : \E d, e \in DentsOf(fs, f) :
     d # e /\ d.type = e.type /\ ~IsDir(fs, d.host) /\ HasIno(fs, d.host)

OrdinaryTrees == {fs \in Trees : ~NameInFile(fs)}

-----------------------------------------------------------------------------
\* Extended attributes and encryption: file 2, and two xattr inodes that hang
\* on it, on the root, on each other or in a directory.
Xattrs ==
  {Index((1 :> Ino("dir", 2, 1)) @@ b @@ c @@ d, e1 \cup e2 \cup e3, data) :
     b \in Inodes(2, {Ino("reg", 1, 0), Enc(Ino("reg", 1, 0)), Ino("lnk", 2, 0), XIno}),
     c \in Inodes(3, {XIno, [XIno EXCEPT !.nlink = 2], [XIno EXCEPT !.xcnt = 1]}),
     d \in Inodes(4, {XIno, Ino("reg", 1, 1), Ino("reg", 0, 1)}),
     e1 \in Optional({Dent(1, 2, "reg", 1), Dent(1, 2, "lnk", 1)}),
     e2 \in Optional({Xent(2, 3, EncContextName, 2), Xent(1, 3, 5, 2)}),
     e3 \in Optional({Xent(3, 4, 6, 3), Xent(2, 4, 6, 3), Dent(1, 4, "reg", 3)}),
     data \in {{}, {Block(3, 1, 20), Block(4, 1, 5)}}}

-----------------------------------------------------------------------------
\* Disconnected file 2 with blocks older and newer than its inode, an entry
\* named lost+found that may not be usable, and in it a file 5 that may have
\* taken one or both names of file 2.  4 is the encryption context of the root or of
\* lost+found.
LostAndFound ==
  {Index(a @@ (2 :> b) @@ c @@ (4 :> XIno) @@ (5 :> Ino("reg", 1, 0)),
         e1 \cup e2 \cup e3, data) :
     a \in Inodes(1, {Ino("dir", 3, 1), Enc(Ino("dir", 3, 1))}),
     b \in {Ino("reg", 1, 0), Ino("reg", 2, 1)},
     c \in Inodes(3, {Ino("dir", 2, 1), Enc(Ino("dir", 2, 1)), Ino("reg", 1, 1)}),
     e1 \in Optional({[Dent(1, 3, t, 1) EXCEPT !.name = LostFoundName] :
                        t \in {"reg", "dir"}}),
     e2 \in {{[Dent(3, 5, "reg", 2 + 2 * i) EXCEPT !.name = InoName(2, i)] : i \in 0..n - 1} : n \in 0..2},
     e3 \in Optional({Xent(h, 4, EncContextName, 3) : h \in {1, 3}}),
     data \in SUBSET {Block(2, 1, 5), Block(2, 2, 5), Block(2, 3, 15)}}

\* An encrypted regular file with neither a name nor its context.
EncryptedAndLost(fs) ==
  \E f \in DOMAIN fs.ino :
     /\ fs.ino[f].enc /\ IsReg(fs, f)
     /\ ~\E d \in DentsOf(fs, f) : d.type = "reg" /\ ~d.xent
     /\ ~\E d \in fs.dent : /\ d.host = f /\ d.name = EncContextName
                            /\ IsXattr(fs, d.inum) /\ ValidIno(d.inum, fs.ino[d.inum])

\* An index that fsck empties.
Hollow == Index(<<>>, {Dent(1, 2, "reg", 1)}, {})

OrdinaryContents ==
  {fs \in Xattrs : ~EncryptedAndLost(fs)} \cup LostAndFound \cup {Hollow}

-----------------------------------------------------------------------------
OrdinaryStarts ==
  {[images |-> OrdinaryTrees, modes |-> {"SAFE", "DANGER1"}, runs |-> 3],
   [images |-> OrdinaryContents, modes |-> AllModes, runs |-> 1]}

SafeStarts == {[images |-> Trees, modes |-> {"SAFE"}, runs |-> 1]}

LinkStarts == {[images |-> Trees, modes |-> {"DANGER0"}, runs |-> 1]}

EncryptedStarts == {[images |-> Xattrs, modes |-> {"DANGER0"}, runs |-> 1]}
=============================================================================
