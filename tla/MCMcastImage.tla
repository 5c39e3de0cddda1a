---------------------------- MODULE MCMcastImage ----------------------------
(***************************************************************************)
(* Instances of McastImage.  Packets of 2 units and a write buffer of 3    *)
(* keep what matters of 2820 and 4096: a packet fits the buffer, and the   *)
(* buffer's end falls inside a packet.                                     *)
(***************************************************************************)
EXTENDS McastImage

(* Two blocks of one buffer each, 2 of 3 packets needed; erase block 1 is  *)
(* bad and one spare follows.  One failed packet write, one failed write   *)
(* of decoded data.                                                        *)
Two == [nr_blocks |-> 2, erasesize |-> 3, file_mode |-> FALSE, size |-> 4,
        bad |-> {1}, images |-> 1, errors |-> FALSE, faults |-> 1, rewrites |-> 1]

(* Three spares, so that blocks move while packets come in and another one *)
(* while it is decoded.                                                    *)
Spares == [Two EXCEPT !.size = 7, !.bad = {1, 4}, !.faults = 2]

(* One block of two buffers, 3 of 4 packets needed: the second write can   *)
(* fail too.                                                               *)
Long == [Two EXCEPT !.nr_blocks = 1, !.erasesize = 6, !.size = 3, !.bad = {0}]

(* The server is started again with another image; reads and erases fail.  *)
Other == [Two EXCEPT !.images = 2, !.errors = TRUE, !.faults = 0,
                     !.rewrites = 0]

(* The last erase block is bad: the second block's place lies beyond it.   *)
Short == [Two EXCEPT !.size = 2, !.faults = 0]

(* Receiving into a plain file.                                            *)
File == [Two EXCEPT !.file_mode = TRUE, !.size = 2, !.bad = {}]

(* Nothing but the network fails: two blocks, 3 of 4 packets needed.       *)
Clean == [Two EXCEPT !.erasesize = 6, !.size = 3, !.faults = 0, !.rewrites = 0]

(* Two writes of decoded data fail.                                        *)
Twice == [Two EXCEPT !.bad = {}, !.faults = 0, !.rewrites = 2]

MCInstances == {Two, Spares, Long, Other, Short, File, Clean, Twice}

=============================================================================
