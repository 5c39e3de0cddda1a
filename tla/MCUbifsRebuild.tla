---------------------------- MODULE MCUbifsRebuild ----------------------------
(***************************************************************************)
(* Main areas of seven LEBs of four nodes for UbifsRebuild.  Every one is  *)
(* tried undamaged, with each LEB corrupt, and with each LEB torn behind   *)
(* each of its nodes.                                                      *)
(***************************************************************************)
EXTENDS UbifsRebuild

I(f, type, nlink, size, sq) ==
  [t |-> "ino", inum |-> f, type |-> type, xattr |-> FALSE, enc |-> FALSE,
   xcnt |-> 0, nlink |-> nlink, size |-> size, sq |-> sq]

D(host, name, f, type, sq) ==
  [t |-> "dent", host |-> host, name |-> name, inum |-> f, type |-> type,
   xent |-> FALSE, sq |-> sq]

B(f, blk, sq) == [t |-> "data", inum |-> f, blk |-> blk, end |-> blk + 1, sq |-> sq]

T(f, size, sq) == [t |-> "trun", inum |-> f, size |-> size, sq |-> sq]

J == [t |-> "junk"]

X == [t |-> "idx", level |-> 0, branch |-> <<>>]

Volume(lebs) == [l \in 1 .. 7 |-> Leb(IF l \in DOMAIN lebs THEN lebs[l] ELSE <<>>)]

\* File 2 was truncated, and then written again; the name 2 in directory 3 and
\* its file 4 were deleted.
Truncated2 == Volume(<<
  <<I(1, "dir", 3, 2, 1), D(1, 2, 2, "reg", 2), I(2, "reg", 1, 3, 3), B(2, 0, 4)>>,
  <<B(2, 1, 5), J, B(2, 2, 6), T(2, 1, 8)>>,
  <<D(1, 3, 3, "dir", 9), I(3, "dir", 2, 0, 10), D(3, 2, 4, "reg", 12), I(4, "reg", 1, 0, 13)>>,
  <<I(2, "reg", 1, 1, 7), D(3, 2, NoFile, "reg", 14), I(4, "reg", 0, 0, 15), B(2, 1, 16)>>,
  <<X, X>> >>)

\* Directory 3 moved into directory 4; file 5 has two names, and an extended
\* attribute 6; GC has copied a LEB and was cut off before it erased it.
Moved == Volume(<<
  <<I(1, "dir", 4, 2, 1), I(3, "dir", 2, 1, 2), D(1, 2, 3, "dir", 3), I(4, "dir", 2, 0, 4)>>,
  <<D(1, 3, 4, "dir", 5), I(5, "reg", 2, 0, 6), D(3, 2, 5, "reg", 7), D(4, 2, 5, "reg", 8)>>,
  <<D(4, 3, 3, "dir", 11), D(1, 2, NoFile, "dir", 12), I(1, "dir", 3, 1, 13)>>,
  <<[I(6, "reg", 1, 1, 10) EXCEPT !.xattr = TRUE],
    [D(5, 2, 6, "reg", 9) EXCEPT !.xent = TRUE],
    I(4, "dir", 3, 2, 15), [I(5, "reg", 2, 0, 16) EXCEPT !.xcnt = 1]>>,
  <<D(1, 3, 4, "dir", 5), I(5, "reg", 2, 0, 6), D(3, 2, 5, "reg", 7), D(4, 2, 5, "reg", 8)>> >>)

\* The only root inode is in the first LEB; file 3 was deleted.
Small == Volume(<<
  <<I(1, "dir", 2, 1, 1)>>,
  <<D(1, 3, 3, "reg", 2), I(3, "reg", 1, 0, 3), D(1, 2, 2, "reg", 4), I(2, "reg", 1, 0, 5)>>,
  <<D(1, 3, NoFile, "reg", 6), I(3, "reg", 0, 0, 7)>>,
  <<B(2, 0, 8)>> >>)

MCVolumes == {Truncated2, Moved, Small}
===============================================================================
