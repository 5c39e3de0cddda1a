------------------------------ MODULE MCUbifsTnc ------------------------------
EXTENDS UbifsTnc

\* Names 1 to 4 collide, 5 does not.
MCHash(nm) == IF nm <= 4 THEN 1 ELSE 2

Ino(i) == <<i, INO, 0>>
Data(i, b) == <<i, DATA, b>>
Dent(nm) == <<1, DENT, MCHash(nm)>>
At1(key, nm) == <<key, <<nm, 1>>>>
No(nm) == <<nm, 0>>

Limits(lebs, names, cnt) == [lebs |-> lebs, names |-> names, ops |-> cnt]

\* Colliding entries that fill two leaves, in two orders of creation.
Dir == << At1(Ino(1), 0), At1(Dent(2), 2), At1(Dent(1), 1), At1(Dent(3), 3),
          At1(Dent(4), 4), At1(Dent(5), 5), At1(Ino(2), 0) >>
Rid == << At1(Ino(2), 0), At1(Dent(5), 5), At1(Dent(4), 4), At1(Dent(3), 3),
          At1(Dent(2), 2), At1(Dent(1), 1), At1(Ino(1), 0) >>

\* Entries unlinked, renamed over, and unlinked and created again; a file
\* deleted; a file that was linked only after its inode had been written.
Journals == {
  << >>,
  << Del(Dent(2), No(2)), Add(Dent(2), <<2, 2>>), Del(Dent(4), No(4)) >>,
  << Del(Dent(1), No(1)), Del(Dent(3), No(3)), Del(Ino(2), No(0)) >>,
  << Add(Dent(3), <<3, 2>>), Del(Dent(3), No(3)), Add(Dent(1), <<1, 2>>) >>,
  << Del(Ino(3), No(0)), Add(Data(3, 0), <<0, 1>>), Del(Dent(5), No(5)),
     Add(Dent(5), <<5, 2>>), Add(Ino(3), <<0, 1>>) >> }

JournalImages == [leaves : {Dir, Rid}, jrnl : Journals, lim : {Limits(4, {1, 3}, 1)}]

\* Two files with data, in a tree of three levels.
Files == << At1(Ino(1), 0), At1(Dent(1), 1), At1(Dent(3), 3), At1(Ino(2), 0),
            At1(Data(2, 0), 0), At1(Data(2, 1), 0), At1(Ino(3), 0),
            At1(Data(3, 0), 0), At1(Data(3, 1), 0), At1(Data(3, 2), 0) >>

Appends == << Add(Data(3, 3), <<0, 1>>), Add(Data(2, 2), <<0, 1>>), Trun(3, 1, 2) >>

FilesImages == { [leaves |-> Files, jrnl |-> Appends, lim |-> Limits(4, {2}, 2)],
                 [leaves |-> Reverse(Files), jrnl |-> <<>>, lim |-> Limits(4, {2}, 2)] }

\* The root directory is lost; the checker creates it again.
Rootless == << At1(Ino(2), 0), At1(Data(2, 0), 0), At1(Data(2, 1), 0), At1(Ino(3), 0),
               At1(Data(3, 0), 0), At1(Data(3, 1), 0), At1(Data(3, 2), 0) >>

RootlessImages ==
  [leaves : {Rootless, Reverse(Rootless)}, jrnl : {<<>>}, lim : {Limits(3, {1, 2}, 2)}]

AllImages == JournalImages \cup FilesImages \cup RootlessImages
===============================================================================
