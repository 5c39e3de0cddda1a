------------------------------ MODULE MCMkfsUbifs ------------------------------
(* Sources for mkfs.ubifs: directories are 1 (the root), 51, 52 ..., hosts'   *)
(* inodes 1000 and up.                                                        *)
EXTENDS MkfsUbifs

Dir(n) == [name |-> n, type |-> "dir", file |-> n, nlink |-> 2, blocks |-> 0,
           holes |-> {}, xattrs |-> {}]

File(name, type, file, nlink, blocks, holes, xattrs) ==
  [name |-> name, type |-> type, file |-> file, nlink |-> nlink, blocks |-> blocks,
   holes |-> holes, xattrs |-> xattrs]

Line(dir, name, type, minor, start, increment, count) ==
  [dir |-> dir, name |-> name, type |-> type, minor |-> minor, start |-> start,
   increment |-> increment, count |-> count]

NoXattrs == [d \in {1, 51, 52} |-> {}]

\* A file with three names in two directories, colliding names, a hole.
Linked ==
  [root |-> TRUE, root_size |-> 4, set_inode_attr |-> FALSE, inums |-> <<>>, max_leb_cnt |-> 40,
   lines |-> <<>>, dirx |-> [NoXattrs EXCEPT ![51] = {71}],
   dirs |-> (1 :> {Dir(51), File(21, "reg", 1001, 3, 2, {2}, {71}),
                   File(22, "reg", 1001, 3, 2, {2}, {71}), File(31, "lnk", 1002, 1, 0, {}, {})}
          @@ 51 :> {File(21, "reg", 1001, 3, 2, {2}, {71}), File(23, "reg", 1003, 1, 2, {1}, {72, 73}),
                    File(24, "reg", 1004, 2, 1, {}, {})})]

\* The device table changes an owner, numbers devices and adds directories.
Table ==
  [root |-> TRUE, root_size |-> 4, set_inode_attr |-> FALSE, inums |-> <<>>, max_leb_cnt |-> 40,
   dirx |-> NoXattrs,
   lines |-> <<Line(1, 0, "dir", 9, 0, 0, 0), Line(1, 51, "dir", 8, 0, 0, 0),
               Line(51, 4, "chr", 1, 1, 2, 2), Line(51, 52, "dir", 7, 0, 0, 0),
               Line(52, 25, "fifo", 6, 0, 0, 0), Line(1, 21, "reg", 5, 0, 0, 0)>>,
   dirs |-> (1 :> {Dir(51), File(21, "reg", 1001, 1, 3, {}, {})} @@ 51 :> {File(26, "sock", 1002, 1, 0, {}, {71})})]

\* The host has kept inode numbers from another run, which gave them in one of
\* the orders readdir() may use; or it is to keep them from now on.
Numbered ==
  [root |-> TRUE, root_size |-> 4, set_inode_attr |-> FALSE, max_leb_cnt |-> 40, lines |-> <<>>,
   dirx |-> NoXattrs, inums |-> (1 :> 1 @@ 51 :> 65 @@ 1001 :> 66 @@ 1002 :> 68),
   dirs |-> (1 :> {Dir(51), File(22, "reg", 1002, 2, 1, {}, {}), File(23, "reg", 1002, 2, 1, {}, {})}
          @@ 51 :> {File(21, "reg", 1001, 1, 1, {}, {71})})]
Numbering ==
  {[Numbered EXCEPT !.set_inode_attr = TRUE, !.inums = i] :
     i \in {<<>>, (1 :> 1 @@ 51 :> 65 @@ 1001 :> 66 @@ 1002 :> 90)}}
    \cup {[Numbered EXCEPT !.inums = (51 :> 65)]}
    \cup {[Table EXCEPT !.set_inode_attr = TRUE, !.lines = SubSeq(@, 3, n)] : n \in {2, 3}}

\* No source directory: an empty file system, or a crash if there is a table.
Rootless ==
  [root |-> FALSE, root_size |-> 0, set_inode_attr |-> FALSE, inums |-> <<>>, max_leb_cnt |-> 40,
   dirx |-> NoXattrs,
   lines |-> <<>>, dirs |-> (1 :> {})]

\* Tables that are refused, and an image that has no room.
Refused ==
  {[Table EXCEPT !.lines = Append(@, l)] :
     l \in {Line(1, 21, "reg", 1, 0, 0, 0), Line(1, 27, "reg", 1, 0, 0, 0),
            Line(1, 28, "lnk", 1, 0, 0, 0), Line(1, 2, "chr", 1, 0, 1, 0),
            Line(51, 26, "fifo", 1, 0, 0, 0), Line(51, 4, "chr", 1, 2, 0, 1)}}
    \cup {[Linked EXCEPT !.max_leb_cnt = 14],
          [Rootless EXCEPT !.lines = <<Line(1, 0, "chr", 1, 0, 0, 0)>>],
          [Rootless EXCEPT !.lines = <<Line(1, 51, "dir", 1, 0, 0, 0)>>],
          [Rootless EXCEPT !.set_inode_attr = TRUE]}

AllSources == {Linked, Table, Rootless, Numbered} \cup Numbering \cup Refused

================================================================================
