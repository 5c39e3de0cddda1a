----------------------------- MODULE McastImage -----------------------------
(***************************************************************************)
(* serve_image sends a flash image over multicast UDP, again and again,    *)
(* as packets protected by a forward error correction code; recv_image     *)
(* collects any pkts_per_block different packets of each block, parks them *)
(* in the very erase block the image block will occupy, and when every     *)
(* block is complete decodes them in place.                                *)
(*                                                                         *)
(* A byte is abstracted to the place it has in its packet: unit u of       *)
(* packet p of block b of an image.  The network loses packets, delivers   *)
(* them damaged, and by the server's cycling delivers them in any order    *)
(* and any number of times; the server hears nothing back, so a packet is  *)
(* sent and received in one step.  Counters that are only printed are left *)
(* out.                                                                    *)
(***************************************************************************)
EXTENDS Integers, Sequences, FiniteSets, FiniteSetsExt

CONSTANTS
  Instances,      \* the devices and images the programs are run with
  PKT_SIZE,       \* units of data in a packet
  WBUF_SIZE,      \* units of the receiver's write buffer
  MaxErrors       \* consecutive failed writes the server puts up with

(* A packet fits the write buffer (2820 < 4096): a block that has been     *)
(* moved takes its first packet without a write.                           *)
ASSUME SizesOK == PKT_SIZE \in Nat \ {0} /\ WBUF_SIZE \in Nat /\ PKT_SIZE < WBUF_SIZE
                  /\ MaxErrors \in Nat

(* serve_image refuses an image that is not a multiple of the erase size,  *)
(* and an empty one.  The erase size is a multiple of the write buffer:    *)
(* recv_image goes back from the end of an erase block to its start by     *)
(* subtracting the erase size.  A file is as long as it is written.        *)
ASSUME InstancesOK ==
  \A i \in Instances :
    /\ i.nr_blocks \in Nat \ {0} /\ i.images \in Nat \ {0}
    /\ i.erasesize \in Nat \ {0} /\ i.erasesize % WBUF_SIZE = 0
    /\ i.size \in Nat /\ i.bad \subseteq 0 .. i.size - 1
    /\ i.file_mode \in BOOLEAN /\ i.errors \in BOOLEAN
    /\ i.file_mode => i.bad = {} /\ i.size = i.nr_blocks
    /\ i.faults \in Nat /\ i.rewrites \in Nat

VARIABLES
  inst,           \* the instance
  srv,            \* serve_image: position in the cycle, image, errors, up
  rcv,            \* recv_image: its program counter and variables
  eraseblocks,    \* recv_image's table, indexed by block_nr
  flash           \* erase block -> its units

vars == <<inst, srv, rcv, eraseblocks, flash>>

Blank   == <<"blank">>
Garbage == <<"garbage">>

-----------------------------------------------------------------------------
(* The code: k packets of a block carry its data, n - k are redundant.     *)

pkts_per_block == (inst.erasesize + PKT_SIZE - 1) \div PKT_SIZE

total_pkts_per_block == (pkts_per_block * 3) \div 2

(* Units of packet p of block b of image i.  The field arithmetic is       *)
(* abstracted: a redundant packet is a datum of its own.                   *)
fec_encode_linear(i, b, p) == [u \in 1 .. PKT_SIZE |-> <<i, b, p, u>>]

(* The block itself: the first erasesize units of its source packets.      *)
Block(i, b) ==
  [u \in 1 .. inst.erasesize |->
     <<i, b, (u - 1) \div PKT_SIZE, 1 + ((u - 1) % PKT_SIZE)>>]

(* shuffle: put each source packet in its own position.  One turn of the   *)
(* loop either advances i or settles a packet; the other packet takes the  *)
(* position it comes from.                                                 *)
Turn(s, k) ==
  LET c == s.index[s.i] IN
  IF s.err \/ s.i >= k THEN s
  ELSE IF c >= k \/ c = s.i THEN [s EXCEPT !.i = s.i + 1]
  ELSE IF s.index[c] = c THEN [s EXCEPT !.err = TRUE]
  ELSE [s EXCEPT !.index = [s.index EXCEPT ![s.i] = s.index[c], ![c] = c],
                 !.pos   = [s.pos EXCEPT ![s.i] = s.pos[c], ![c] = s.pos[s.i]]]

(* 2 k turns finish the loop.                                              *)
Shuffled(index, k) ==
  LET after[t \in 0 .. 2 * k] ==
        IF t = 0 THEN [i |-> 0, err |-> FALSE, index |-> index,
                       pos |-> [j \in 0 .. k - 1 |-> j]]
        ELSE Turn(after[t - 1], k)
  IN  after[2 * k]

(* fec_decode: the source packets, in order.  The matrix of any k          *)
(* different rows can be inverted; a missing packet is rebuilt right when  *)
(* every packet used is what its index says.                               *)
fec_decode(pkt, index, k, n) ==
  LET s      == Shuffled(index, k)
      src    == [j \in 0 .. k - 1 |-> pkt[s.pos[j]]]
      owners == {o \in (1 .. inst.images) \X (0 .. inst.nr_blocks - 1) :
                   \A j \in 0 .. k - 1 :
                     src[j] = fec_encode_linear(o[1], o[2], s.index[j])}
      row(j) == IF s.index[j] < k THEN src[j]
                ELSE IF owners = {} THEN [u \in 1 .. PKT_SIZE |-> Garbage]
                ELSE LET o == CHOOSE o \in owners : TRUE
                     IN  fec_encode_linear(o[1], o[2], j)
  IN  [err |-> s.err \/ \E j \in 0 .. k - 1 : s.index[j] >= n,
       pkt |-> [j \in 0 .. k - 1 |-> row(j)]]

-----------------------------------------------------------------------------
(* The device.  Programming a unit of flash that is not erased spoils it;  *)
(* a plain file is simply overwritten.                                     *)

Programmed(fl, blk, ofs, data) ==
  [fl EXCEPT ![blk] =
     [u \in 1 .. inst.erasesize |->
        IF u \notin ofs + 1 .. ofs + Len(data) THEN fl[blk][u]
        ELSE IF inst.file_mode \/ fl[blk][u] = Blank THEN data[u - ofs]
        ELSE Garbage]]

(* Mutant: the erase is forgotten.                                         *)
NotErased(fl, blk) == fl

Erased(fl, blk) ==
  [fl EXCEPT ![blk] = [u \in 1 .. inst.erasesize |-> Blank]]

(* `while (ioctl(MEMGETBADBLOCK, &mtdoffset) > 0) mtdoffset += erasesize`: *)
(* past the end of the device the ioctl fails, which ends the loop.        *)
SkipBad(blk) == Min({b \in blk .. blk + inst.size : b \notin inst.bad})

-----------------------------------------------------------------------------
(* serve_image *)

(* Odd blocks go out first packet first, even blocks last packet first.    *)
actualpkt ==
  IF srv.block_nr % 2 = 1 THEN srv.pkt_nr
  ELSE total_pkts_per_block - 1 - srv.pkt_nr

(* Mutant: the cycle sends the same packet of every block for ever.        *)
AdvancedStuck(s) ==
  IF s.block_nr + 1 < inst.nr_blocks THEN [s EXCEPT !.block_nr = @ + 1]
  ELSE [s EXCEPT !.block_nr = 0]

(* The two loops: every block's turn for pkt_nr, then the next pkt_nr.     *)
Advanced(s) ==
  IF s.block_nr + 1 < inst.nr_blocks THEN [s EXCEPT !.block_nr = @ + 1]
  ELSE [s EXCEPT !.block_nr = 0, !.pkt_nr = (@ + 1) % total_pkts_per_block]

ThisPkt(intact) ==
  [totcrc |-> srv.image, block_nr |-> srv.block_nr, pkt_nr |-> actualpkt,
   intact |-> intact]

(* write() puts the packet on the wire, and it is lost.                    *)
Send ==
  /\ srv.up /\ rcv.pc = "recv"
  /\ srv' = [Advanced(srv) EXCEPT !.writeerrors = 0]
  /\ UNCHANGED <<inst, rcv, eraseblocks, flash>>

(* write() fails: the packet is skipped, and too many failures in a row    *)
(* end the server.                                                         *)
SendFails ==
  /\ srv.up /\ rcv.pc = "recv"
  /\ srv' = [Advanced(srv) EXCEPT !.writeerrors = srv.writeerrors + 1,
                                  !.up = srv.writeerrors + 1 <= MaxErrors]
  /\ UNCHANGED <<inst, rcv, eraseblocks, flash>>

(* The operator starts the server again, with another image of the same    *)
(* size.                                                                   *)
ServeOther ==
  /\ inst.images > srv.image /\ rcv.pc = "recv"
  /\ srv' = [block_nr |-> 0, pkt_nr |-> 0, writeerrors |-> 0, up |-> TRUE,
             image |-> srv.image + 1]
  /\ UNCHANGED <<inst, rcv, eraseblocks, flash>>

-----------------------------------------------------------------------------
(* recv_image: collecting packets *)

Finish(status) == [rcv EXCEPT !.pc = status]

(* An element of the table.                                                *)
Entry(blk, ofs, wbuf, nr_pkts, pkt_indices, crc) ==
  [blk |-> blk, ofs |-> ofs, wbuf |-> wbuf, nr_pkts |-> nr_pkts,
   pkt_indices |-> pkt_indices, crc |-> crc]

(* The place that a block gets, and mtdoffset when i blocks have theirs.   *)
Place(mtdoffset) == IF inst.file_mode THEN mtdoffset ELSE SkipBad(mtdoffset)

Mtdoffsets ==
  LET ofs[i \in 0 .. inst.nr_blocks] == IF i = 0 THEN 0 ELSE Place(ofs[i - 1]) + 1
  IN  ofs

(* The first packet sizes the table and gives every block a place: the     *)
(* next erase block that is not bad.  The end of the device is checked     *)
(* before the bad blocks are skipped, so the last place may lie beyond it. *)
AllocEraseblocks(pkt) ==
  [ok  |-> inst.file_mode \/ \A i \in 0 .. inst.nr_blocks - 1 : Mtdoffsets[i] < inst.size,
   rcv |-> [rcv EXCEPT !.nr_blocks = inst.nr_blocks,
                       !.image_crc = pkt.totcrc,
                       !.mtdoffset = Mtdoffsets[inst.nr_blocks]],
   eb  |-> [b \in 0 .. inst.nr_blocks - 1 |->
              Entry(Place(Mtdoffsets[b]), 0, <<>>, 0, <<>>, 0)]]

Table(pkt) ==
  IF rcv.nr_blocks = 0 THEN AllocEraseblocks(pkt)
  ELSE [ok |-> TRUE, rcv |-> rcv, eb |-> eraseblocks]

(* Mutant: duplicates are not recognised.                                  *)
DroppedOnce(e, pkt) == e.nr_pkts >= pkts_per_block \/ ~pkt.intact

(* A packet already held, one the block no longer needs, or one whose data *)
(* fail their CRC, is dropped; what is not needed still counts.            *)
Dropped(e, pkt) ==
  \/ \E i \in 1 .. Len(e.pkt_indices) : e.pkt_indices[i] = pkt.pkt_nr
  \/ e.nr_pkts >= pkts_per_block
  \/ ~pkt.intact

(* nr_pkts of a complete block grows with every packet it does not need;   *)
(* one more than needed stands for them all.                               *)
DropPkt(t, pkt) ==
  LET e    == t.eb[pkt.block_nr]
      dup  == \E i \in 1 .. Len(e.pkt_indices) : e.pkt_indices[i] = pkt.pkt_nr
  IN  /\ rcv' = t.rcv
      /\ eraseblocks' = IF ~dup /\ e.nr_pkts >= pkts_per_block
                        THEN [t.eb EXCEPT ![pkt.block_nr] =
                                [e EXCEPT !.nr_pkts = pkts_per_block + 1]]
                        ELSE t.eb
      /\ UNCHANGED flash

(* The packet is held in e: a complete block takes its CRC from it, and    *)
(* the last packet of all ends the reception.                              *)
Held(r, eb, pkt, e) ==
  LET full == e.nr_pkts = pkts_per_block
  IN  /\ eraseblocks' = [eb EXCEPT ![pkt.block_nr] =
                           IF full THEN [e EXCEPT !.crc = pkt.totcrc] ELSE e]
      /\ rcv' = IF full /\ r.total_pkts = inst.nr_blocks * pkts_per_block
                THEN [r EXCEPT !.pc = "decode"] ELSE r

Data(pkt) == fec_encode_linear(pkt.totcrc, pkt.block_nr, pkt.pkt_nr)

(* The packet leaves room in the write buffer.                             *)
BufferPkt(t, pkt) ==
  LET e == t.eb[pkt.block_nr]
  IN  /\ Len(e.wbuf) + PKT_SIZE < WBUF_SIZE
      /\ Held([t.rcv EXCEPT !.total_pkts = @ + 1], t.eb, pkt,
              Entry(e.blk, e.ofs, e.wbuf \o Data(pkt), e.nr_pkts + 1,
                    Append(e.pkt_indices, pkt.pkt_nr), e.crc))
      /\ UNCHANGED flash

(* The packet fills the write buffer, which goes to flash; the rest of the *)
(* packet starts the next buffer.                                          *)
WritePkt(t, pkt) ==
  LET e   == t.eb[pkt.block_nr]
      all == e.wbuf \o Data(pkt)
  IN  /\ Len(e.wbuf) + PKT_SIZE >= WBUF_SIZE
      /\ e.blk < inst.size
      /\ flash' = Programmed(flash, e.blk, e.ofs, SubSeq(all, 1, WBUF_SIZE))
      /\ Held([t.rcv EXCEPT !.total_pkts = @ + 1], t.eb, pkt,
              Entry(e.blk, e.ofs + WBUF_SIZE, SubSeq(all, WBUF_SIZE + 1, Len(all)),
                    e.nr_pkts + 1, Append(e.pkt_indices, pkt.pkt_nr), e.crc))

(* The write of the buffer failed.  In flash mode the block is erased and  *)
(* moves to the next place with only this packet; what it had is asked of  *)
(* the network again.  Otherwise, or when there is no place, that is all.  *)
MovePkt(t, pkt) ==
  LET e   == t.eb[pkt.block_nr]
      new == SkipBad(t.rcv.mtdoffset)
  IN  /\ Len(e.wbuf) + PKT_SIZE >= WBUF_SIZE
      /\ \/ /\ ~inst.file_mode /\ e.blk < inst.size
            /\ t.rcv.faults > 0 /\ t.rcv.mtdoffset < inst.size /\ new < inst.size
            /\ flash' = Erased(flash, e.blk)
            /\ Held([t.rcv EXCEPT !.total_pkts = @ - e.nr_pkts + 1,
                                  !.mtdoffset = new + 1, !.faults = @ - 1],
                    t.eb, pkt,
                    Entry(new, 0, Data(pkt), 1, <<pkt.pkt_nr>>, e.crc))
         \/ /\ \/ e.blk >= inst.size
               \/ t.rcv.faults > 0
            /\ rcv' = [t.rcv EXCEPT !.pc = "failed"]
            /\ eraseblocks' = t.eb
            /\ UNCHANGED flash

(* One turn of the receive loop: a packet of the server arrives.           *)
Receive(pkt) ==
  /\ srv.up /\ rcv.pc = "recv"
  /\ srv' = [Advanced(srv) EXCEPT !.writeerrors = 0]
  /\ \E t \in {Table(pkt)} :
       IF ~t.ok \/ t.rcv.image_crc # pkt.totcrc
       THEN /\ rcv' = Finish("failed")
            /\ UNCHANGED <<eraseblocks, flash>>
       ELSE IF Dropped(t.eb[pkt.block_nr], pkt) THEN DropPkt(t, pkt)
       ELSE \/ BufferPkt(t, pkt)
            \/ WritePkt(t, pkt)
            \/ MovePkt(t, pkt)
  /\ UNCHANGED inst

(* read() of the socket fails: the receiver leaves the loop and decodes    *)
(* whatever it has.                                                        *)
ReadFails ==
  /\ rcv.pc = "recv" /\ inst.errors
  /\ rcv' = Finish(IF rcv.nr_blocks = 0 THEN "done" ELSE "decode")
  /\ UNCHANGED <<inst, srv, eraseblocks, flash>>

-----------------------------------------------------------------------------
(* recv_image: decoding in place *)

(* The packets parked on flash, the tail of the last one in the buffer.    *)
SrcPkts(e) ==
  LET eb_buf(u) == IF u <= inst.erasesize THEN flash[e.blk][u]
                   ELSE e.wbuf[u - inst.erasesize]
  IN  [i \in 0 .. pkts_per_block - 1 |->
         [u \in 1 .. PKT_SIZE |-> eb_buf(i * PKT_SIZE + u)]]

(* decode_buf: the decoded packets one after the other.                    *)
DecodeBuf(pkt) ==
  [u \in 1 .. inst.erasesize |-> pkt[(u - 1) \div PKT_SIZE][1 + ((u - 1) % PKT_SIZE)]]

(* A block is read back, decoded, checked against its CRC, and its parked  *)
(* packets are erased.  A block left incomplete by ReadFails has neither   *)
(* its indices nor its CRC, and fails the check.  Reading and erasing may  *)
(* fail too, which ends the program.                                       *)
DecodeBlock ==
  /\ rcv.pc = "decode"
  /\ \E e \in {eraseblocks[rcv.block_nr]} :
       \/ /\ e.nr_pkts >= pkts_per_block
          /\ \E d \in {fec_decode(SrcPkts(e),
                                  [i \in 0 .. pkts_per_block - 1 |-> e.pkt_indices[i + 1]],
                                  pkts_per_block, total_pkts_per_block)} :
               \E buf \in {DecodeBuf(d.pkt)} :
                 LET good == ~d.err /\ buf = Block(e.crc, rcv.block_nr)
                 IN  /\ rcv' = [rcv EXCEPT !.pc = IF good THEN "write" ELSE "failed",
                                           !.decode_buf = buf]
                     /\ flash' = IF inst.file_mode \/ ~good THEN flash
                                 ELSE Erased(flash, e.blk)
       \/ /\ e.nr_pkts < pkts_per_block \/ inst.errors
          /\ rcv' = Finish("failed")
          /\ UNCHANGED flash
  /\ UNCHANGED <<inst, srv, eraseblocks>>

NextBlock(r) ==
  IF r.block_nr + 1 = r.nr_blocks THEN [r EXCEPT !.pc = "done"]
  ELSE [r EXCEPT !.pc = "decode", !.block_nr = @ + 1]

WriteBlock ==
  /\ rcv.pc = "write"
  /\ flash' = Programmed(flash, eraseblocks[rcv.block_nr].blk, 0, rcv.decode_buf)
  /\ rcv' = NextBlock(rcv)
  /\ UNCHANGED <<inst, srv, eraseblocks>>

(* Where a block goes whose write failed: mtdoffset is not advanced past   *)
(* it.                                                                     *)
RewriteOffset(new) == new

(* The write failed: erase the block and try again at the next place.      *)
WriteFails ==
  LET new == SkipBad(rcv.mtdoffset)
  IN  /\ rcv.pc = "write" /\ rcv.rewrites > 0
      /\ \/ /\ ~inst.file_mode
            /\ rcv.mtdoffset < inst.size /\ new < inst.size
            /\ flash' = Erased(flash, eraseblocks[rcv.block_nr].blk)
            /\ eraseblocks' = [eraseblocks EXCEPT ![rcv.block_nr].blk = new]
            /\ rcv' = [rcv EXCEPT !.mtdoffset = RewriteOffset(new),
                                  !.rewrites = @ - 1]
         \/ /\ rcv' = Finish("failed")
            /\ UNCHANGED <<eraseblocks, flash>>
      /\ UNCHANGED <<inst, srv>>

-----------------------------------------------------------------------------
Init ==
  /\ inst \in Instances
  /\ srv = [block_nr |-> 0, pkt_nr |-> 0, writeerrors |-> 0, up |-> TRUE,
            image |-> 1]
  /\ rcv = [pc |-> "recv", block_nr |-> 0, nr_blocks |-> 0, image_crc |-> 0,
            mtdoffset |-> 0, total_pkts |-> 0, decode_buf |-> <<>>,
            faults |-> inst.faults, rewrites |-> inst.rewrites]
  /\ eraseblocks = <<>>
  /\ flash = [b \in 0 .. inst.size - 1 |-> [u \in 1 .. inst.erasesize |-> Blank]]

Next ==
  \/ Send
  \/ SendFails
  \/ ServeOther
  \/ \E intact \in BOOLEAN : Receive(ThisPkt(intact))
  \/ ReadFails
  \/ DecodeBlock
  \/ WriteBlock
  \/ WriteFails

(* The server is about to send a packet the receiver has a use for.        *)
Needed ==
  /\ srv.up /\ rcv.pc = "recv"
  /\ rcv.nr_blocks > 0 => ~Dropped(eraseblocks[srv.block_nr], ThisPkt(TRUE))

(* Such a packet arrives intact: it is held, or it ends the reception.     *)
Arrives ==
  /\ Needed
  /\ srv' # srv
  /\ rcv'.pc # "recv" \/ (rcv'.nr_blocks > 0 /\ rcv'.total_pkts # rcv.total_pkts)

(* The receiver is past its loop, where a step is always enabled.          *)
Decoding == rcv.pc \in {"decode", "write"}

(* The server's loop never pauses for good.  The network is fair: if again *)
(* and again a packet is sent that the receiver needs, then again and      *)
(* again one gets through.  Decoding does not stop half way.               *)
Fairness ==
  /\ WF_vars(Send)
  /\ []<>Needed => []<><<Arrives>>_vars
  /\ []<>(~Decoding) \/ []<><<Decoding>>_rcv

Spec == Init /\ [][Next]_vars /\ Fairness

-----------------------------------------------------------------------------
(* Reception is exact: whatever was lost, repeated, damaged or moved after *)
(* a failed write, the units on flash followed by the write buffer are the *)
(* packets entered in pkt_indices, in order, no packet twice; no two blocks*)
(* share a place; and total_pkts, whose reaching the total ends the loop,  *)
(* is the number of packets held (receive loop of recv_image).             *)
HeldExactly ==
  rcv.pc = "recv" /\ rcv.nr_blocks > 0 =>
    /\ \A b \in DOMAIN eraseblocks :
         LET e       == eraseblocks[b]
             Unit(n) == <<rcv.image_crc, b, e.pkt_indices[((n - 1) \div PKT_SIZE) + 1],
                          1 + ((n - 1) % PKT_SIZE)>>
         IN  /\ e.ofs + Len(e.wbuf) = Len(e.pkt_indices) * PKT_SIZE
             /\ \A n \in 1 .. e.ofs : flash[e.blk][n] = Unit(n)
             /\ \A n \in 1 .. Len(e.wbuf) : e.wbuf[n] = Unit(e.ofs + n)
             /\ \A i, j \in 1 .. Len(e.pkt_indices) :
                  e.pkt_indices[i] = e.pkt_indices[j] => i = j
             /\ e.blk \notin inst.bad
             /\ \A c \in DOMAIN eraseblocks : eraseblocks[c].blk = e.blk => c = b
    /\ rcv.total_pkts = SumFunction(
         [b \in DOMAIN eraseblocks |-> Len(eraseblocks[b].pkt_indices)])

(* When recv_image exits with success after hearing a server, every block  *)
(* of the image whose packet came first is on the device where the program *)
(* says it wrote it ("wrote image block"), whole, whichever packets it was *)
(* decoded from and whichever writes of packets failed on the way.  One    *)
(* write of decoded data may fail too, not more: mtdoffset stays where the *)
(* block was moved to (recv_image.c:461), and the next one follows it. *)
(* And it gives up only if the device failed or is too small, or the image *)
(* was changed: never because of what the network did.                     *)
ImageWritten ==
  /\ rcv.pc = "done" /\ inst.rewrites - rcv.rewrites <= 1 =>
       \A b \in DOMAIN eraseblocks :
         flash[eraseblocks[b].blk] =
           [u \in 1 .. inst.erasesize |->
              <<rcv.image_crc, b, (u - 1) \div PKT_SIZE, 1 + ((u - 1) % PKT_SIZE)>>]
  /\ rcv.pc = "failed" =>
       \/ inst.errors \/ inst.faults + inst.rewrites > 0 \/ inst.images > 1
       \/ Cardinality((0 .. inst.size - 1) \ inst.bad) < inst.nr_blocks

(* Every reception ends: unless the server gives up, a fair network brings *)
(* enough different packets of every block, so the receive loop is left    *)
(* and the blocks are decoded and written.                                 *)
ReceptionEnds == <>(rcv.pc \in {"done", "failed"} \/ ~srv.up)

=============================================================================
