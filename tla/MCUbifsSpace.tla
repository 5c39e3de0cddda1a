---------------------------- MODULE MCUbifsSpace ----------------------------
(***************************************************************************)
(* Volumes of twelve or sixteen LEBs of eight nodes, two nodes to a        *)
(* minimal I/O unit, nearly full, so that updates need garbage collection  *)
(* and commits that find no empty LEB.                                     *)
(***************************************************************************)
EXTENDS UbifsSpace

Req(keys, new, dirtied) == [keys |-> keys, new_ino |-> Bit(new > 1), new_dent |-> Bit(new > 0),
                            dirtied_ino |-> dirtied]
One(x) == <<x, 0, 0, 0, 0, 0, 0, 0>>     \* one node, the rest of the LEB padded
Short(x) == <<x, 0, 0, 0, 0, 0>>         \* one node, two units free
E == <<>>

Twelve == [leb_size |-> 8, min_io |-> 2, main_lebs |-> 12, max_node_sz |-> 1, root |-> 3,
           leaf |-> <<1, 1, 1, 1, 2, 2, 2, 2>>, heap_sz |-> 3, soft |-> 1, hard |-> 3,
           max_buds |-> 3, bg_buds |-> 3, cmt_retries |-> 3, max_starts |-> 2,
           wrong |-> {}, up |-> FALSE,
           ihead |-> <<1, 8>>, gc_lnum |-> 12,
           reqs |-> <<Req(<<1, 2>>, 2, 0), Req(<<3>>, 1, 0), Req(<<4, 2>>, 1, 1),
                      Req(<<1, 3>>, 1, 1)>>,
           layout |-> <<One(-1), One(-2), One(-3), One(1), One(2), One(3), One(4), One(5),
                        One(6), One(7), One(8), E>>]

(* One index LEB; every data LEB holds one node.                           *)
Tight == [Twelve EXCEPT
            !.layout = <<<<-1, -2, -3, 0, 0, 0, 0, 0>>, One(1), One(2), One(3), One(4), One(5),
                         One(6), One(7), One(8), E, E, E>>]
(* The index spread over three or four LEBs, no empty LEB but GC's.        *)
Spread == [Twelve EXCEPT !.root = 4, !.leaf = <<1, 1, 1, 2, 2, 3, 3>>,
             !.layout = <<One(-1), One(-2), One(-3), One(-4), One(1), One(2), One(3), One(4),
                          One(5), One(6), One(7), E>>]
(* LEB 2 holds less than its recorded properties say.                      *)
Wrong == [Tight EXCEPT !.wrong = {2}, !.layout[2] = <<1, 0, 0, 0>>]

Sixteen == [Spread EXCEPT !.main_lebs = 16, !.leaf = <<1, 1, 1, 1, 2, 2, 2, 2, 3, 3, 3>>,
              !.gc_lnum = 16, !.ihead = <<4, 8>>,
              !.layout = <<One(-1), One(-2), One(-3), One(-4), One(1), One(2), One(3), One(4),
                           One(5), One(6), One(7), One(8), One(9), One(10), One(11), E>>]
Ends == [Sixteen EXCEPT !.layout[5] = Short(1), !.layout[6] = Short(2)]
HeadRoom == [Sixteen EXCEPT !.layout[4] = <<-4, 0>>, !.ihead = <<4, 2>>]
Roomy == [Sixteen EXCEPT !.ihead = <<1, 4>>,
            !.layout = <<<<-1, -2, -3, -4>>, <<1, 2, 3, 4>>, <<5, 6, 7, 8>>, <<9, 10, 11, 0>>,
                         E, E, E, E, E, E, E, E, E, E, E, E>>,
            !.reqs = [i \in 1 .. 8 |-> Req(IF i % 2 = 1 THEN <<1, 2, 3>> ELSE <<4, 5, 6>>, 2, 1)]]

(* The garbage of LEB 3 is as much as GC took out of LEB 2, and GC goes on *)
(* after a power cut, in the head where it stopped.                        *)
JustFits == [Twelve EXCEPT !.main_lebs = 7, !.root = 5, !.max_starts = 3, !.gc_lnum = 7,
               !.leaf = <<1, 1, 2, 2, 2, 3, 3, 3, 4, 4, 4, 4, 4, 4, 4, 4>>,
               !.reqs = <<Req(<<9>>, 1, 0)>>,
               !.layout = <<<<-1, -2, 0, 0, 0, 0, 0, 0>>, <<-5, -3, 0, 0, 0, 0, 0, 0>>, One(-4),
                            <<1, 2, 0, 0, 0, 0, 0, 0>>, <<3, 4, 5, 6, 7, 8, 0, 0>>,
                            <<9, 10, 11, 12, 13, 14, 15, 16>>, E>>]

MCInstances == {[i EXCEPT !.up = u] :
                  i \in {Tight, Twelve, Spread, Wrong, Ends, HeadRoom, Roomy, JustFits},
                  u \in BOOLEAN}
=============================================================================
