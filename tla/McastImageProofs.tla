-------------------------- MODULE McastImageProofs ---------------------------
(***************************************************************************)
(* The steps of serve_image and recv_image keep the invariant of a         *)
(* reception, for every number of blocks, every erase size and write       *)
(* buffer, every set of bad blocks and every behaviour of the network.     *)
(***************************************************************************)
EXTENDS McastImage, TLAPS

USE ZenonT(30)

Blocks == 0 .. inst.nr_blocks - 1
BlankBlock == [u \in 1 .. inst.erasesize |-> Blank]

(* Writes of decoded data that have failed.                                *)
Rewritten == inst.rewrites - rcv.rewrites

(* What a packet is made of.                                               *)
Stored == {<<i, b, p, u>> : i \in Nat, b \in Nat, p \in Nat, u \in Nat}

EntryType ==
  [blk : Nat, ofs : Nat, wbuf : Seq(Stored), nr_pkts : Nat, pkt_indices : Seq(Nat), crc : Nat]

(* Unit n of the packets with these indices.                               *)
Unit(image, b, idx, n) ==
  <<image, b, idx[((n - 1) \div PKT_SIZE) + 1], 1 + ((n - 1) % PKT_SIZE)>>

(* The packets held are different ones, and no more than needed.  Of a     *)
(* complete block the CRC is known.                                        *)
IndicesOK(image, e) ==
  LET idx == e.pkt_indices IN
  /\ Len(idx) <= pkts_per_block
  /\ \A i \in 1 .. Len(idx) : idx[i] \in 0 .. total_pkts_per_block - 1
  /\ \A i, j \in 1 .. Len(idx) : idx[i] = idx[j] => i = j
  /\ e.nr_pkts = Len(idx) \/ (e.nr_pkts = pkts_per_block + 1 /\ Len(idx) = pkts_per_block)
  /\ e.nr_pkts >= pkts_per_block => e.crc = image

(* Whole write buffers of them are on flash, the rest is in the buffer.    *)
ParkedOK(image, b, e, fl) ==
  /\ Len(e.wbuf) < WBUF_SIZE
  /\ \E m \in 0 .. e.ofs : e.ofs = m * WBUF_SIZE
  /\ e.ofs + Len(e.wbuf) = Len(e.pkt_indices) * PKT_SIZE
  /\ e.ofs > 0 => e.blk < inst.size
  /\ \A n \in 1 .. e.ofs : fl[e.blk][n] = Unit(image, b, e.pkt_indices, n)
  /\ \A n \in 1 .. Len(e.wbuf) : e.wbuf[n] = Unit(image, b, e.pkt_indices, e.ofs + n)
  /\ e.blk < inst.size /\ ~inst.file_mode =>
       \A n \in e.ofs + 1 .. inst.erasesize : fl[e.blk][n] = Blank

(* The table: every block has a place of its own, and what nobody has is   *)
(* blank.                                                                  *)
PlacesOK(eb) ==
  /\ DOMAIN eb = Blocks
  /\ \A b \in Blocks : /\ eb[b] \in EntryType
                       /\ eb[b].blk \notin inst.bad
                       /\ inst.file_mode => eb[b].blk = b
  /\ \A b, c \in Blocks : eb[b].blk = eb[c].blk => b = c

FreeBlank(eb, fl) ==
  ~inst.file_mode =>
    \A x \in 0 .. inst.size - 1 : (\A b \in Blocks : eb[b].blk # x) => fl[x] = BlankBlock

FlashType(fl) ==
  /\ DOMAIN fl = 0 .. inst.size - 1
  /\ \A x \in 0 .. inst.size - 1 : fl[x] = [u \in 1 .. inst.erasesize |-> fl[x][u]]

TotalPkts(eb) == SumFunctionOnSet([b \in Blocks |-> Len(eb[b].pkt_indices)], Blocks)

(* The packets are being collected.                                        *)
RecvInv(r, eb, fl) ==
  /\ r.nr_blocks = inst.nr_blocks /\ r.block_nr = 0 /\ r.rewrites = inst.rewrites
  /\ r.image_crc \in 1 .. inst.images
  /\ PlacesOK(eb) /\ FreeBlank(eb, fl) /\ FlashType(fl)
  /\ r.mtdoffset \in Nat /\ \A b \in Blocks : eb[b].blk < r.mtdoffset
  /\ \A b \in Blocks : IndicesOK(r.image_crc, eb[b]) /\ ParkedOK(r.image_crc, b, eb[b], fl)
  /\ r.total_pkts = TotalPkts(eb)

(* Blocks below block_nr are written, those above are parked.              *)
WriteInv(r, eb, fl) ==
  /\ r.nr_blocks = inst.nr_blocks /\ r.block_nr \in Blocks
  /\ r.pc = "done" => r.block_nr + 1 = inst.nr_blocks
  /\ r.image_crc \in 1 .. inst.images
  /\ PlacesOK(eb) /\ FreeBlank(eb, fl) /\ FlashType(fl)
  /\ r.mtdoffset \in Nat
  /\ r.rewrites = inst.rewrites => \A b \in Blocks : eb[b].blk < r.mtdoffset
  /\ \A b \in Blocks :
       IF b > r.block_nr \/ (b = r.block_nr /\ r.pc = "decode")
       THEN IndicesOK(r.image_crc, eb[b]) /\ ParkedOK(r.image_crc, b, eb[b], fl)
       ELSE /\ eb[b].blk < inst.size
            /\ b < r.block_nr \/ r.pc = "done" => fl[eb[b].blk] = Block(r.image_crc, b)
            /\ b = r.block_nr /\ r.pc = "write" =>
                 /\ r.decode_buf = Block(r.image_crc, b)
                 /\ inst.file_mode \/ fl[eb[b].blk] = BlankBlock

(* Nothing but the network fails, and the device is large enough.          *)
OnlyNetwork ==
  /\ ~inst.errors /\ inst.faults = 0 /\ inst.rewrites = 0 /\ inst.images = 1
  /\ Cardinality((0 .. inst.size - 1) \ inst.bad) >= inst.nr_blocks

(* Then every block has a place on the device, and decoding starts when    *)
(* every block is complete.                                                *)
NetworkInv ==
  /\ rcv.pc # "failed"
  /\ rcv.nr_blocks > 0 => \A b \in Blocks : eraseblocks[b].blk < inst.size
  /\ rcv.pc \in {"decode", "write"} =>
       \A b \in Blocks : eraseblocks[b].nr_pkts >= pkts_per_block

RcvFields == {"pc", "block_nr", "nr_blocks", "image_crc", "mtdoffset", "total_pkts",
              "decode_buf", "faults", "rewrites"}

McTypes ==
  /\ inst \in Instances
  /\ srv \in [block_nr : Blocks, pkt_nr : 0 .. total_pkts_per_block - 1, writeerrors : Nat,
              up : BOOLEAN, image : 1 .. inst.images]
  /\ DOMAIN rcv = RcvFields
  /\ rcv.pc \in {"recv", "decode", "write", "done", "failed"}
  /\ rcv.nr_blocks \in {0, inst.nr_blocks}
  /\ rcv.faults \in 0 .. inst.faults /\ rcv.rewrites \in 0 .. inst.rewrites

(* Nothing was received yet.                                               *)
Nothing ==
  /\ rcv.pc \in {"recv", "done", "failed"}
  /\ rcv.block_nr = 0 /\ rcv.mtdoffset = 0 /\ rcv.total_pkts = 0
  /\ rcv.rewrites = inst.rewrites
  /\ eraseblocks = <<>>
  /\ flash = [b \in 0 .. inst.size - 1 |-> BlankBlock]

McInv ==
  /\ McTypes
  /\ rcv.nr_blocks = 0 => Nothing
  /\ rcv.nr_blocks > 0 /\ rcv.pc = "recv" => RecvInv(rcv, eraseblocks, flash)
  /\ rcv.nr_blocks > 0 /\ rcv.pc \in {"decode", "write", "done"} /\ Rewritten <= 1 =>
       WriteInv(rcv, eraseblocks, flash)
  /\ OnlyNetwork => NetworkInv

-----------------------------------------------------------------------------
(* Products of natural numbers are monotonic.                                *)
LEMMA ProductGrows ==
  ASSUME NEW x \in Nat, NEW y \in Nat, NEW d \in Nat, x <= y
  PROVE  x * d <= y * d
<1> DEFINE e == y - x
<1>1. e \in Nat /\ y = x + e BY SMTT(30)
<1> HIDE DEF e
<1>2. y * d = x * d + e * d /\ e * d \in Nat /\ x * d \in Nat BY <1>1, SMTT(30)
<1> QED BY <1>2, SMTT(30)

(* The quotient is the number of whole multiples.                            *)
LEMMA QuotientIs ==
  ASSUME NEW a \in Nat, NEW d \in Nat \ {0}, NEW b \in Nat
  PROVE  a \div d = b <=> b * d <= a /\ a < (b + 1) * d
<1> DEFINE k == a \div d
<1>1. k \in Nat /\ k * d <= a /\ a < (k + 1) * d
  BY SMTT(30)
<1> HIDE DEF k
<1>2. k < b => (k + 1) * d <= b * d BY <1>1, ProductGrows, SMTT(30)
<1>3. b < k => (b + 1) * d <= k * d BY <1>1, ProductGrows, SMTT(30)
<1> QED BY <1>1, <1>2, <1>3, SMTT(30) DEF k

(* Division with remainder.                                                  *)
LEMMA Division ==
  ASSUME NEW a \in Nat, NEW d \in Nat \ {0}
  PROVE  a \div d \in Nat /\ a % d \in 0..d - 1 /\ a = (a \div d) * d + (a % d)
<1>1. \A x \in Nat, y \in Nat : y > 0 => x = (x \div y) * y + (x % y) BY SMTT(30)
<1>2. a \div d \in Nat /\ a % d \in 0..d - 1 BY SMTT(30)
<1>3. d \in Nat /\ d > 0 BY SMTT(30)
<1>4. a = (a \div d) * d + (a % d) BY <1>1, <1>3
<1> QED BY <1>2, <1>4

(* A remainder in range determines the quotient.                             *)
LEMMA QuotientAndRest ==
  ASSUME NEW d \in Nat \ {0}, NEW c \in Nat, NEW m \in 0..d - 1, NEW a, a = c * d + m
  PROVE  a \in Nat /\ a \div d = c /\ a % d = m
<1>1. a \in Nat /\ c * d \in Nat BY SMTT(30)
<1>2. c * d <= a /\ a < (c + 1) * d BY <1>1, SMTT(30)
<1>3. a \div d = c BY <1>1, <1>2, QuotientIs
<1>4. PICK x \in 0..d - 1 : x = a % d /\ a = c * d + x BY <1>1, <1>3, Division
<1> QED BY <1>1, <1>3, <1>4, SMTT(30)

(* One sequence after another.                                               *)
LEMMA OneAfterAnother ==
  ASSUME NEW S, NEW s \in Seq(S), NEW t \in Seq(S)
  PROVE  /\ s \o t \in Seq(S) /\ Len(s \o t) = Len(s) + Len(t)
         /\ \A i \in 1 .. Len(s) + Len(t) :
              (s \o t)[i] = IF i <= Len(s) THEN s[i] ELSE t[i - Len(s)]
BY SMTT(30)

(* One more element.                                                         *)
LEMMA OneMoreElement ==
  ASSUME NEW S, NEW s \in Seq(S), NEW e \in S
  PROVE  /\ Append(s, e) \in Seq(S) /\ Len(Append(s, e)) = Len(s) + 1
         /\ Append(s, e)[Len(s) + 1] = e
         /\ \A i \in 1 .. Len(s) : Append(s, e)[i] = s[i]
BY SMTT(30)

(* A part of a sequence.                                                     *)
LEMMA PartOfSequence ==
  ASSUME NEW S, NEW s, NEW m \in Int, NEW n \in Int, \A i \in m .. n : s[i] \in S
  PROVE  /\ SubSeq(s, m, n) \in Seq(S)
         /\ Len(SubSeq(s, m, n)) = IF m <= n THEN n - m + 1 ELSE 0
         /\ \A i \in 1 .. n - m + 1 : SubSeq(s, m, n)[i] = s[m + i - 1]
BY SMTT(30)

-----------------------------------------------------------------------------
(***************************************************************************)
(* What the operators of the model compute.  These are hypotheses here, and *)
(* McastTheorems proves them.                                               *)
(***************************************************************************)
(* The next erase block that is not bad.                                   *)
PlaceFacts ==
  \A o \in Nat : /\ Place(o) \in Nat /\ o <= Place(o) /\ Place(o) \notin inst.bad
                 /\ \A c \in o .. Place(o) - 1 : c \in inst.bad
                 /\ SkipBad(o) = Place(o)
                 /\ inst.file_mode => Place(o) = o

(* The first packet gives every block a place: on the device, if it is     *)
(* large enough.                                                           *)
AllocFacts ==
  rcv.nr_blocks = 0 /\ Nothing =>
    \A pkt : pkt.totcrc \in 1 .. inst.images =>
      LET t == AllocEraseblocks(pkt) IN
      /\ DOMAIN t.rcv = RcvFields /\ t.rcv.pc = rcv.pc /\ t.rcv.faults = rcv.faults
      /\ t.rcv.image_crc = pkt.totcrc
      /\ RecvInv(t.rcv, t.eb, flash)
      /\ OnlyNetwork => t.ok /\ \A b \in Blocks : t.eb[b].blk < inst.size

(* The packets held are counted, and when as many are held as the image    *)
(* needs every block has all it needs.                                     *)
CountFacts ==
  \A eb : DOMAIN eb = Blocks /\ (\A c \in Blocks : eb[c] \in EntryType) =>
    /\ TotalPkts(eb) \in Int
    /\ \A b \in Blocks, e \in EntryType :
         TotalPkts([eb EXCEPT ![b] = e]) = TotalPkts(eb) - Len(eb[b].pkt_indices) + Len(e.pkt_indices)
    /\ /\ TotalPkts(eb) = inst.nr_blocks * pkts_per_block
       /\ \A c \in Blocks : Len(eb[c].pkt_indices) <= pkts_per_block
       => \A c \in Blocks : Len(eb[c].pkt_indices) = pkts_per_block

(* The decoder's input for a block.                                        *)
Indices(e) == [i \in 0 .. pkts_per_block - 1 |-> e.pkt_indices[i + 1]]

Decoded(e) == fec_decode(SrcPkts(e), Indices(e), pkts_per_block, total_pkts_per_block)

(* fec_decode() of a complete block finds no error, and gives back the     *)
(* block, whichever packets were received and in whatever order.           *)
DecodeFacts ==
  \A b \in Blocks, image \in 1 .. inst.images, e \in EntryType :
    IndicesOK(image, e) /\ ParkedOK(image, b, e, flash) /\ e.nr_pkts >= pkts_per_block =>
      ~Decoded(e).err /\ DecodeBuf(Decoded(e).pkt) = Block(image, b)

OperatorFacts == PlaceFacts /\ AllocFacts /\ CountFacts /\ DecodeFacts

-----------------------------------------------------------------------------
(* The number of packets of a block: they cover it, and one less does not.   *)
LEMMA Sizes ==
  ASSUME inst \in Instances
  PROVE  /\ pkts_per_block \in Nat \ {0} /\ total_pkts_per_block \in Nat
         /\ pkts_per_block <= total_pkts_per_block
         /\ inst.erasesize <= pkts_per_block * PKT_SIZE
         /\ pkts_per_block * PKT_SIZE < inst.erasesize + PKT_SIZE
<1> DEFINE k == pkts_per_block
           a == inst.erasesize + PKT_SIZE - 1
<1>1. inst.erasesize \in Nat \ {0} /\ PKT_SIZE \in Nat \ {0} BY InstancesOK, SizesOK
<1>2. a \in Nat BY <1>1, SMTT(30)
<1>3. k \in Nat /\ a % PKT_SIZE \in 0 .. PKT_SIZE - 1 /\ a = k * PKT_SIZE + (a % PKT_SIZE)
  <2>1. k = a \div PKT_SIZE BY DEF pkts_per_block
  <2> HIDE DEF a, k
  <2> QED BY <1>1, <1>2, <2>1, Division
<1>4. inst.erasesize <= k * PKT_SIZE /\ k * PKT_SIZE < inst.erasesize + PKT_SIZE
  <2> HIDE DEF k
  <2>1. k * PKT_SIZE \in Nat BY <1>1, <1>3, SMTT(30)
  <2> QED BY <1>1, <1>3, <2>1, SMTT(30)
<1>5. k # 0
  <2> HIDE DEF k
  <2> SUFFICES ASSUME k = 0 PROVE FALSE OBVIOUS
  <2>1. k * PKT_SIZE = 0 BY <1>1, SMTT(30)
  <2> QED BY <2>1, <1>1, <1>4, SMTT(30)
<1>6. total_pkts_per_block \in Nat /\ k <= total_pkts_per_block
  <2> HIDE DEF k
  <2>1. total_pkts_per_block = (k * 3) \div 2 BY DEF total_pkts_per_block, k
  <2> QED BY <2>1, <1>3, SMTT(30)
<1> QED BY <1>3, <1>4, <1>5, <1>6

(* Unit i * PKT_SIZE + u of the packets is unit u of packet i.               *)
LEMMA UnitOfPacket ==
  ASSUME NEW i \in Nat, NEW u \in 1 .. PKT_SIZE, NEW image, NEW b, NEW idx
  PROVE  Unit(image, b, idx, i * PKT_SIZE + u) = <<image, b, idx[i + 1], u>>
<1>1. PKT_SIZE \in Nat \ {0} BY SizesOK
<1>2. i * PKT_SIZE \in Nat BY <1>1, SMTT(30)
<1>3. u - 1 \in 0 .. PKT_SIZE - 1 /\ (i * PKT_SIZE + u) - 1 = i * PKT_SIZE + (u - 1)
  BY <1>1, <1>2, SMTT(30)
<1> DEFINE a == (i * PKT_SIZE + u) - 1
<1>4. a \div PKT_SIZE = i /\ a % PKT_SIZE = u - 1
  <2>1. a = i * PKT_SIZE + (u - 1) BY <1>3
  <2> HIDE DEF a
  <2>2. PICK m \in 0 .. PKT_SIZE - 1 : m = u - 1 BY <1>3
  <2>3. a = i * PKT_SIZE + m BY <2>1, <2>2
  <2>4. a \div PKT_SIZE = i /\ a % PKT_SIZE = m BY <1>1, <2>3, QuotientAndRest
  <2> QED BY <2>2, <2>4
<1> QED BY <1>4, SMTT(30) DEF Unit

(* A complete block fills its erase block with packets, and the end of the   *)
(* last one is in the write buffer.                                          *)
LEMMA CompleteParked ==
  ASSUME inst \in Instances, NEW image, NEW b, NEW fl, NEW e \in EntryType,
         IndicesOK(image, e), ParkedOK(image, b, e, fl), e.nr_pkts >= pkts_per_block
  PROVE  /\ Len(e.pkt_indices) = pkts_per_block /\ e.crc = image
         /\ e.ofs = inst.erasesize /\ e.blk < inst.size
         /\ Len(e.wbuf) = pkts_per_block * PKT_SIZE - inst.erasesize
<1> DEFINE k == pkts_per_block
           E == inst.erasesize
           L == Len(e.wbuf)
<1>1. /\ k \in Nat \ {0} /\ E \in Nat \ {0} /\ PKT_SIZE \in Nat \ {0} /\ WBUF_SIZE \in Nat \ {0}
      /\ PKT_SIZE < WBUF_SIZE /\ E % WBUF_SIZE = 0
  BY Sizes, InstancesOK, SizesOK, SMTT(30)
<1>2. E <= k * PKT_SIZE /\ k * PKT_SIZE < E + PKT_SIZE BY Sizes
<1>3. e.nr_pkts \in Nat /\ Len(e.pkt_indices) \in Nat /\ L \in Nat /\ e.ofs \in Nat BY SMTT(30) DEF EntryType
<1>4. Len(e.pkt_indices) = k /\ e.crc = image
  <2> HIDE DEF k
  <2>1. Len(e.pkt_indices) <= k /\ e.nr_pkts >= k
    BY DEF IndicesOK, k
  <2>2. e.nr_pkts = Len(e.pkt_indices) \/ (e.nr_pkts = k + 1 /\ Len(e.pkt_indices) = k)
    BY DEF IndicesOK, k
  <2>3. e.crc = image BY DEF IndicesOK
  <2> QED BY <2>1, <2>2, <2>3, <1>1, <1>3, SMTT(30)
<1>5. L < WBUF_SIZE /\ e.ofs + L = k * PKT_SIZE BY <1>4 DEF ParkedOK
<1>6. PICK m \in 0 .. e.ofs : e.ofs = m * WBUF_SIZE BY DEF ParkedOK
<1>7. PICK q \in Nat : E = q * WBUF_SIZE
  <2> HIDE DEF E
  <2>1. E \div WBUF_SIZE \in Nat /\ E = (E \div WBUF_SIZE) * WBUF_SIZE + (E % WBUF_SIZE)
    BY <1>1, Division
  <2>2. PICK q \in Nat : q = E \div WBUF_SIZE BY <2>1
  <2>3. q * WBUF_SIZE \in Nat BY <2>2, <1>1, SMTT(30)
  <2>4. E = q * WBUF_SIZE BY <2>1, <2>2, <2>3, <1>1, SMTT(30)
  <2> QED BY <2>4
<1> HIDE DEF k, E, L
<1>8. PICK T \in Nat : T = k * PKT_SIZE BY <1>1, SMTT(30)
<1>9. m \in Nat BY <1>3, <1>6, SMTT(30)
<1>10. m * WBUF_SIZE <= T /\ T < (m + 1) * WBUF_SIZE
  <2>1. (m + 1) * WBUF_SIZE = m * WBUF_SIZE + WBUF_SIZE BY <1>1, <1>9, SMTT(30)
  <2> QED BY <2>1, <1>1, <1>3, <1>5, <1>6, <1>8, SMTT(30)
<1>11. q * WBUF_SIZE <= T /\ T < (q + 1) * WBUF_SIZE
  <2>1. (q + 1) * WBUF_SIZE = q * WBUF_SIZE + WBUF_SIZE BY <1>1, <1>7, SMTT(30)
  <2> QED BY <2>1, <1>1, <1>2, <1>7, <1>8, SMTT(30)
<1>12. T \div WBUF_SIZE = m BY <1>1, <1>9, <1>10, QuotientIs
<1>13. T \div WBUF_SIZE = q BY <1>1, <1>11, QuotientIs
<1>14. e.ofs = E BY <1>6, <1>7, <1>12, <1>13
<1>15. e.blk < inst.size BY <1>1, <1>14, SMTT(30) DEF ParkedOK
<1>16. L = k * PKT_SIZE - E BY <1>3, <1>5, <1>14, <1>8, SMTT(30)
<1> QED BY <1>4, <1>14, <1>15, <1>16 DEF k, E, L

(* The blocks of the image.                                                  *)
LEMMA BlocksFacts ==
  ASSUME inst \in Instances
  PROVE  inst.nr_blocks \in Nat \ {0} /\ 0 \in Blocks /\ \A b \in Blocks : b \in Nat
BY InstancesOK, SMTT(30) DEF Blocks

(* Packets parked stay so when other erase blocks change.                    *)
LEMMA ParkedSame ==
  ASSUME NEW image, NEW b, NEW e \in EntryType, NEW fl, NEW fl2, ParkedOK(image, b, e, fl),
         e.blk < inst.size => fl2[e.blk] = fl[e.blk]
  PROVE  ParkedOK(image, b, e, fl2)
<1>1. /\ Len(e.wbuf) < WBUF_SIZE /\ (\E m \in 0 .. e.ofs : e.ofs = m * WBUF_SIZE)
      /\ e.ofs + Len(e.wbuf) = Len(e.pkt_indices) * PKT_SIZE
      /\ e.ofs > 0 => e.blk < inst.size
      /\ \A n \in 1 .. Len(e.wbuf) : e.wbuf[n] = Unit(image, b, e.pkt_indices, e.ofs + n)
  BY DEF ParkedOK
<1>2. e.ofs \in Nat BY DEF EntryType
<1>3. ASSUME NEW n \in 1 .. e.ofs PROVE fl2[e.blk][n] = Unit(image, b, e.pkt_indices, n)
  <2>1. fl2[e.blk] = fl[e.blk] BY <1>1, <1>2, SMTT(30)
  <2>2. fl[e.blk][n] = Unit(image, b, e.pkt_indices, n) BY DEF ParkedOK
  <2> QED BY <2>1, <2>2
<1>4. e.blk < inst.size /\ ~inst.file_mode => \A n \in e.ofs + 1 .. inst.erasesize : fl2[e.blk][n] = Blank
  BY DEF ParkedOK
<1> QED BY <1>1, <1>3, <1>4 DEF ParkedOK

(* The entry of one block changes, and with it what is on its place; or the  *)
(* block moves to a place that nobody had.                                   *)
LEMMA EntryKeeps ==
  ASSUME OperatorFacts, inst \in Instances, NEW r, NEW eb, NEW fl, RecvInv(r, eb, fl),
         NEW b \in Blocks, NEW e \in EntryType, NEW fl2, NEW r2,
         e.blk \notin inst.bad, inst.file_mode => e.blk = b,
         e.blk = eb[b].blk \/ e.blk >= r.mtdoffset,
         r2.mtdoffset \in Nat, r2.mtdoffset >= r.mtdoffset, e.blk < r2.mtdoffset,
         r2.nr_blocks = r.nr_blocks, r2.block_nr = r.block_nr, r2.rewrites = r.rewrites,
         r2.image_crc = r.image_crc,
         r2.total_pkts = r.total_pkts - Len(eb[b].pkt_indices) + Len(e.pkt_indices),
         IndicesOK(r.image_crc, e), ParkedOK(r.image_crc, b, e, fl2), FlashType(fl2),
         \A x \in 0 .. inst.size - 1 : x # eb[b].blk /\ x # e.blk => fl2[x] = fl[x],
         e.blk # eb[b].blk /\ ~inst.file_mode /\ eb[b].blk < inst.size => fl2[eb[b].blk] = BlankBlock
  PROVE  RecvInv(r2, [eb EXCEPT ![b] = e], fl2)
<1> DEFINE eb2 == [eb EXCEPT ![b] = e]
<1>1. /\ PlacesOK(eb) /\ FreeBlank(eb, fl) /\ FlashType(fl)
      /\ r.mtdoffset \in Nat /\ \A c \in Blocks : eb[c].blk < r.mtdoffset
      /\ \A c \in Blocks : IndicesOK(r.image_crc, eb[c]) /\ ParkedOK(r.image_crc, c, eb[c], fl)
      /\ r.nr_blocks = inst.nr_blocks /\ r.block_nr = 0 /\ r.rewrites = inst.rewrites
      /\ r.image_crc \in 1 .. inst.images /\ r.total_pkts = TotalPkts(eb)
  BY DEF RecvInv
<1>2. /\ DOMAIN eb = Blocks
      /\ \A c \in Blocks : eb[c] \in EntryType /\ eb[c].blk \notin inst.bad /\ (inst.file_mode => eb[c].blk = c)
      /\ \A c, d \in Blocks : eb[c].blk = eb[d].blk => c = d
  BY <1>1 DEF PlacesOK
<1>3. eb2[b] = e /\ (\A c \in Blocks \ {b} : eb2[c] = eb[c]) /\ DOMAIN eb2 = Blocks BY <1>2
<1>4. r2.total_pkts = TotalPkts(eb2)
  <2>1. \A c \in Blocks : eb[c] \in EntryType BY <1>2
  <2>2. DOMAIN eb = Blocks BY <1>2
  <2>3. TotalPkts(eb2) = TotalPkts(eb) - Len(eb[b].pkt_indices) + Len(e.pkt_indices)
    BY <2>1, <2>2 DEF OperatorFacts, CountFacts
  <2> QED BY <2>3, <1>1
<1> HIDE DEF eb2
<1>5. \A c \in Blocks : eb[c].blk \in Nat /\ e.blk \in Nat BY <1>2 DEF EntryType
<1>6. \A c \in Blocks \ {b} : eb[c].blk # e.blk /\ eb[c].blk # eb[b].blk
  BY <1>1, <1>2, <1>5, SMTT(30)
<1>7. PlacesOK(eb2) BY <1>2, <1>3, <1>6, SMTT(30) DEF PlacesOK
<1>8. FreeBlank(eb2, fl2)
  <2> SUFFICES ASSUME ~inst.file_mode, NEW x \in 0 .. inst.size - 1, \A c \in Blocks : eb2[c].blk # x
               PROVE  fl2[x] = BlankBlock
    BY DEF FreeBlank
  <2>1. x # e.blk BY <1>3
  <2>2. CASE x = eb[b].blk
    <3>1. inst.size \in Nat BY InstancesOK
    <3>2. eb[b].blk < inst.size BY <2>2, <3>1, SMTT(30)
    <3> QED BY <2>1, <2>2, <3>2
  <2>3. CASE x # eb[b].blk
    <3>1. \A c \in Blocks : eb[c].blk # x BY <2>3, <1>3
    <3>2. fl[x] = BlankBlock BY <3>1, <1>1 DEF FreeBlank
    <3> QED BY <2>1, <2>3, <3>2
  <2> QED BY <2>2, <2>3
<1>9. ASSUME NEW c \in Blocks
      PROVE  /\ eb2[c].blk < r2.mtdoffset
             /\ IndicesOK(r2.image_crc, eb2[c]) /\ ParkedOK(r2.image_crc, c, eb2[c], fl2)
  <2>1. CASE c = b BY <2>1, <1>3
  <2>2. CASE c # b
    <3>1. eb2[c] = eb[c] BY <2>2, <1>3
    <3>2. eb[c].blk < r2.mtdoffset BY <1>1, <1>5, SMTT(30)
    <3>3. IndicesOK(r.image_crc, eb[c]) /\ ParkedOK(r.image_crc, c, eb[c], fl) BY <1>1
    <3>4. eb[c].blk < inst.size => fl2[eb[c].blk] = fl[eb[c].blk]
      <4>1. inst.size \in Nat BY InstancesOK
      <4> QED BY <1>5, <1>6, <2>2, <4>1, SMTT(30)
    <3>5. ParkedOK(r.image_crc, c, eb[c], fl2)
      <4>1. eb[c] \in EntryType /\ ParkedOK(r.image_crc, c, eb[c], fl) BY <1>2, <3>3
      <4> QED BY <3>4, <4>1, ParkedSame
    <3> QED BY <3>1, <3>2, <3>3, <3>5
  <2> QED BY <2>1, <2>2
<1>10. RecvInv(r2, eb2, fl2) BY <1>1, <1>4, <1>7, <1>8, <1>9 DEF RecvInv
<1> QED BY <1>10 DEF eb2

(* When the last packet of all is held every block is complete.              *)
LEMMA AllComplete ==
  ASSUME OperatorFacts, inst \in Instances, NEW r, NEW eb, NEW fl, RecvInv(r, eb, fl),
         r.total_pkts = inst.nr_blocks * pkts_per_block, NEW b \in Blocks
  PROVE  eb[b].nr_pkts >= pkts_per_block
<1>1. pkts_per_block \in Nat BY Sizes
<1>2. DOMAIN eb = Blocks /\ \A c \in Blocks : eb[c] \in EntryType BY DEF RecvInv, PlacesOK
<1>3. TotalPkts(eb) = inst.nr_blocks * pkts_per_block BY DEF RecvInv
<1>4. \A c \in Blocks : Len(eb[c].pkt_indices) <= pkts_per_block BY DEF RecvInv, IndicesOK
<1>5. Len(eb[b].pkt_indices) = pkts_per_block
  BY <1>2, <1>3, <1>4 DEF OperatorFacts, CountFacts
<1>6. IndicesOK(r.image_crc, eb[b]) /\ eb[b] \in EntryType BY DEF RecvInv, PlacesOK
<1>7. eb[b].nr_pkts = Len(eb[b].pkt_indices) \/ eb[b].nr_pkts = pkts_per_block + 1
  BY <1>6 DEF IndicesOK
<1> QED BY <1>1, <1>5, <1>7, SMTT(30)

(* Collecting ends in the state in which decoding starts.                    *)
LEMMA RecvToWrite ==
  ASSUME inst \in Instances, NEW r, NEW eb, NEW fl, RecvInv(r, eb, fl), r.pc = "decode"
  PROVE  WriteInv(r, eb, fl)
<1>1. \A b \in Blocks : b > r.block_nr \/ b = r.block_nr
  BY BlocksFacts, SMTT(30) DEF RecvInv, Blocks
<1>2. r.block_nr \in Blocks BY BlocksFacts DEF RecvInv
<1> QED BY <1>1, <1>2 DEF RecvInv, WriteInv

(* The invariants of the next state: the instance does not change.           *)
LEMMA RecvInvNext ==
  ASSUME inst' = inst, RecvInv(rcv', eraseblocks', flash')
  PROVE  RecvInv(rcv, eraseblocks, flash)'
<1>1. TotalPkts(eraseblocks)' = TotalPkts(eraseblocks') BY DEF TotalPkts, Blocks
<1>2. /\ PlacesOK(eraseblocks)' = PlacesOK(eraseblocks')
      /\ FreeBlank(eraseblocks, flash)' = FreeBlank(eraseblocks', flash')
      /\ FlashType(flash)' = FlashType(flash') /\ Blocks' = Blocks
  BY DEF PlacesOK, FreeBlank, FlashType, Blocks, BlankBlock
<1>3. \A b \in Blocks :
        /\ IndicesOK(rcv.image_crc, eraseblocks[b])' = IndicesOK(rcv'.image_crc, eraseblocks'[b])
        /\ ParkedOK(rcv.image_crc, b, eraseblocks[b], flash)' = ParkedOK(rcv'.image_crc, b, eraseblocks'[b], flash')
  BY DEF IndicesOK, ParkedOK, pkts_per_block, total_pkts_per_block
<1> QED BY <1>1, <1>2, <1>3 DEF RecvInv

(* The same for the blocks being decoded and written.                        *)
LEMMA WriteInvNext ==
  ASSUME inst' = inst, WriteInv(rcv', eraseblocks', flash')
  PROVE  WriteInv(rcv, eraseblocks, flash)'
BY DEF WriteInv, PlacesOK, FreeBlank, FlashType, Blocks, BlankBlock,
       IndicesOK, ParkedOK, pkts_per_block, total_pkts_per_block, Block

(* The entry with the packet in it, as Held stores it.                       *)
Stored2(e, pkt) == IF e.nr_pkts = pkts_per_block THEN [e EXCEPT !.crc = pkt.totcrc] ELSE e

(* After the packet is held, collecting goes on or decoding starts.          *)
LEMMA HeldKeeps ==
  ASSUME OperatorFacts, inst \in Instances, inst' = inst, NEW r, NEW eb, NEW e, NEW pkt,
         DOMAIN r = RcvFields, r.pc = "recv", Held(r, eb, pkt, e),
         RecvInv(r, [eb EXCEPT ![pkt.block_nr] = Stored2(e, pkt)], flash')
  PROVE  /\ DOMAIN rcv' = RcvFields /\ rcv'.pc \in {"recv", "decode"}
         /\ rcv'.nr_blocks = inst.nr_blocks /\ rcv'.faults = r.faults /\ rcv'.rewrites = r.rewrites
         /\ rcv'.pc = "recv" => RecvInv(rcv, eraseblocks, flash)'
         /\ rcv'.pc = "decode" => WriteInv(rcv, eraseblocks, flash)'
         /\ rcv'.pc = "decode" => \A b \in Blocks : eraseblocks'[b].nr_pkts >= pkts_per_block
<1> DEFINE eb2 == [eb EXCEPT ![pkt.block_nr] = Stored2(e, pkt)]
<1>1. eraseblocks' = eb2 BY DEF Held, Stored2
<1> HIDE DEF eb2
<1>2. r.nr_blocks = inst.nr_blocks /\ RecvInv(r, eb2, flash') BY DEF RecvInv, eb2
<1>3. CASE rcv' = r
  <2>1. RecvInv(rcv, eraseblocks, flash)'
    <3>1. RecvInv(rcv', eraseblocks', flash') BY <1>1, <1>2, <1>3
    <3> QED BY <3>1, RecvInvNext
  <2> QED BY <1>2, <1>3, <2>1
<1>4. CASE r.total_pkts = inst.nr_blocks * pkts_per_block /\ rcv' = [r EXCEPT !.pc = "decode"]
  <2>1. /\ rcv'.pc = "decode" /\ DOMAIN rcv' = RcvFields /\ rcv'.nr_blocks = r.nr_blocks
        /\ rcv'.faults = r.faults /\ rcv'.rewrites = r.rewrites /\ rcv'.block_nr = r.block_nr
        /\ rcv'.image_crc = r.image_crc /\ rcv'.mtdoffset = r.mtdoffset /\ rcv'.total_pkts = r.total_pkts
    BY <1>4 DEF RcvFields
  <2>2. RecvInv(rcv', eraseblocks', flash') BY <1>1, <1>2, <2>1 DEF RecvInv
  <2>3. WriteInv(rcv', eraseblocks', flash') BY <2>1, <2>2, RecvToWrite
  <2>4. WriteInv(rcv, eraseblocks, flash)' BY <2>3, WriteInvNext
  <2>5. \A b \in Blocks : eraseblocks'[b].nr_pkts >= pkts_per_block
    BY <1>1, <1>2, <1>4, AllComplete
  <2> QED BY <1>2, <2>1, <2>4, <2>5
<1> QED BY <1>3, <1>4 DEF Held

(* One more packet: the units so far are what they were, and its own follow. *)
UnitsFollow(image, b, idx, p) ==
  /\ \A n \in 1 .. Len(idx) * PKT_SIZE :
       Unit(image, b, Append(idx, p), n) = Unit(image, b, idx, n)
  /\ \A u \in 1 .. PKT_SIZE :
       Unit(image, b, Append(idx, p), Len(idx) * PKT_SIZE + u) = <<image, b, p, u>>

(* The units of the packets held when recv_image enters one more.            *)
LEMMA PacketAdded ==
  ASSUME NEW image, NEW b, NEW idx \in Seq(Nat), NEW p \in Nat
  PROVE  UnitsFollow(image, b, idx, p)
<1> DEFINE l == Len(idx)
<1>1. l \in Nat /\ PKT_SIZE \in Nat \ {0} BY SizesOK, SMTT(30)
<1>2. /\ \A i \in 1 .. l : Append(idx, p)[i] = idx[i]
      /\ Append(idx, p)[l + 1] = p
  BY OneMoreElement, SMTT(30)
<1> HIDE DEF l
<1>3. ASSUME NEW n \in 1 .. l * PKT_SIZE PROVE Unit(image, b, Append(idx, p), n) = Unit(image, b, idx, n)
  <2>0. l * PKT_SIZE \in Nat BY <1>1, SMTT(30)
  <2>1. PICK a \in Nat : a = n - 1 BY <2>0, SMTT(30)
  <2>2. a \div PKT_SIZE \in Nat /\ a % PKT_SIZE \in 0 .. PKT_SIZE - 1
        /\ a = (a \div PKT_SIZE) * PKT_SIZE + (a % PKT_SIZE)
    BY <1>1, Division
  <2>3. PICK q \in Nat : q = a \div PKT_SIZE BY <2>2
  <2>4. q < l
    <3> SUFFICES ASSUME l <= q PROVE FALSE BY <1>1, <2>3, SMTT(30)
    <3>1. l * PKT_SIZE <= q * PKT_SIZE BY <1>1, ProductGrows
    <3>2. PICK y \in Nat : y = q * PKT_SIZE BY <1>1, SMTT(30)
    <3> QED BY <2>0, <2>1, <2>2, <2>3, <3>1, <3>2, <1>1, SMTT(30)
  <2>5. q + 1 \in 1 .. l BY <2>4, <1>1, SMTT(30)
  <2> QED BY <2>1, <2>3, <2>5, <1>2 DEF Unit
<1>4. ASSUME NEW u \in 1 .. PKT_SIZE
      PROVE  Unit(image, b, Append(idx, p), l * PKT_SIZE + u) = <<image, b, p, u>>
  <2>1. Unit(image, b, Append(idx, p), l * PKT_SIZE + u) = <<image, b, Append(idx, p)[l + 1], u>>
    BY <1>1, UnitOfPacket
  <2> QED BY <2>1, <1>2
<1> QED BY <1>3, <1>4 DEF l, UnitsFollow

(* A packet as the server sends it.                                          *)
PktOK(pkt) ==
  /\ pkt.totcrc \in 1 .. inst.images /\ pkt.block_nr \in Blocks
  /\ pkt.pkt_nr \in 0 .. total_pkts_per_block - 1 /\ pkt.intact \in BOOLEAN

(* The data of a packet.                                                     *)
LEMMA DataIs ==
  ASSUME NEW pkt, pkt.totcrc \in Nat, pkt.block_nr \in Nat, pkt.pkt_nr \in Nat
  PROVE  /\ Data(pkt) \in Seq(Stored) /\ Len(Data(pkt)) = PKT_SIZE
         /\ \A u \in 1 .. PKT_SIZE : Data(pkt)[u] = <<pkt.totcrc, pkt.block_nr, pkt.pkt_nr, u>>
<1>1. PKT_SIZE \in Nat BY SizesOK
<1>2. Data(pkt) = [u \in 1 .. PKT_SIZE |-> <<pkt.totcrc, pkt.block_nr, pkt.pkt_nr, u>>]
  BY DEF Data, fec_encode_linear
<1>3. \A u \in 1 .. PKT_SIZE : u \in Nat BY <1>1, SMTT(30)
<1>4. Data(pkt) \in [1 .. PKT_SIZE -> Stored] BY <1>2, <1>3, SMTT(30) DEF Stored
<1> QED BY <1>1, <1>2, <1>4, SMTT(30)

(* The write buffer with one more packet behind it, and the indices.         *)
AllOf(e, pkt) == e.wbuf \o Data(pkt)

IdxOf(e, pkt) == Append(e.pkt_indices, pkt.pkt_nr)

UnitsOK(e, pkt) ==
  /\ \A n \in 1 .. Len(AllOf(e, pkt)) :
       AllOf(e, pkt)[n] = Unit(pkt.totcrc, pkt.block_nr, IdxOf(e, pkt), e.ofs + n)
  /\ \A n \in 1 .. e.ofs :
       Unit(pkt.totcrc, pkt.block_nr, IdxOf(e, pkt), n)
         = Unit(pkt.totcrc, pkt.block_nr, e.pkt_indices, n)

(* What they are, units and lengths.                                         *)
LEMMA AllUnits ==
  ASSUME NEW pkt, NEW e \in EntryType, NEW fl, ParkedOK(pkt.totcrc, pkt.block_nr, e, fl),
         pkt.totcrc \in Nat, pkt.block_nr \in Nat, pkt.pkt_nr \in Nat
  PROVE  /\ AllOf(e, pkt) \in Seq(Stored) /\ Len(AllOf(e, pkt)) = Len(e.wbuf) + PKT_SIZE
         /\ IdxOf(e, pkt) \in Seq(Nat) /\ Len(IdxOf(e, pkt)) = Len(e.pkt_indices) + 1
         /\ e.ofs + Len(AllOf(e, pkt)) = Len(IdxOf(e, pkt)) * PKT_SIZE
         /\ UnitsOK(e, pkt)
<1> DEFINE L == Len(e.wbuf)
           I == Len(e.pkt_indices)
           image == pkt.totcrc
           b == pkt.block_nr
           all == AllOf(e, pkt)
           idx == IdxOf(e, pkt)
<1>1. /\ e.ofs \in Nat /\ e.wbuf \in Seq(Stored) /\ e.pkt_indices \in Seq(Nat)
      /\ L \in Nat /\ I \in Nat /\ PKT_SIZE \in Nat \ {0}
  BY SizesOK, SMTT(30) DEF EntryType
<1>2. /\ Data(pkt) \in Seq(Stored) /\ Len(Data(pkt)) = PKT_SIZE
      /\ \A u \in 1 .. PKT_SIZE : Data(pkt)[u] = <<image, b, pkt.pkt_nr, u>>
  BY DataIs
<1>3. all \in Seq(Stored) /\ Len(all) = L + PKT_SIZE
      /\ \A n \in 1 .. L + PKT_SIZE : all[n] = IF n <= L THEN e.wbuf[n] ELSE Data(pkt)[n - L]
  <2>1. e.wbuf \in Seq(Stored) BY <1>1
  <2>2. Data(pkt) \in Seq(Stored) BY <1>2
  <2>3. /\ e.wbuf \o Data(pkt) \in Seq(Stored)
        /\ Len(e.wbuf \o Data(pkt)) = L + Len(Data(pkt))
        /\ \A n \in 1 .. L + Len(Data(pkt)) :
             (e.wbuf \o Data(pkt))[n] = IF n <= L THEN e.wbuf[n] ELSE Data(pkt)[n - L]
    BY <2>1, <2>2, OneAfterAnother
  <2> QED BY <2>3, <1>2 DEF AllOf
<1>4. idx \in Seq(Nat) /\ Len(idx) = I + 1 BY <1>1, OneMoreElement DEF IdxOf
<1>5. /\ e.ofs + L = I * PKT_SIZE
      /\ \A n \in 1 .. L : e.wbuf[n] = Unit(image, b, e.pkt_indices, e.ofs + n)
  BY DEF ParkedOK
<1>6. /\ \A n \in 1 .. I * PKT_SIZE : Unit(image, b, idx, n) = Unit(image, b, e.pkt_indices, n)
      /\ \A u \in 1 .. PKT_SIZE : Unit(image, b, idx, I * PKT_SIZE + u) = <<image, b, pkt.pkt_nr, u>>
  <2>1. PICK d \in Seq(Nat) : d = e.pkt_indices BY <1>1
  <2>2. PICK p \in Nat : p = pkt.pkt_nr OBVIOUS
  <2>3. /\ \A n \in 1 .. Len(d) * PKT_SIZE : Unit(image, b, Append(d, p), n) = Unit(image, b, d, n)
        /\ \A u \in 1 .. PKT_SIZE : Unit(image, b, Append(d, p), Len(d) * PKT_SIZE + u) = <<image, b, p, u>>
    <3>1. UnitsFollow(image, b, d, p) BY PacketAdded
    <3> QED BY <3>1 DEF UnitsFollow
  <2>4. idx = Append(d, p) BY <2>1, <2>2 DEF IdxOf
  <2> QED BY <2>1, <2>2, <2>3, <2>4
<1> HIDE DEF L, I, all, idx
<1>7. PICK x \in Nat : x = I * PKT_SIZE BY <1>1, SMTT(30)
<1>8. e.ofs + Len(all) = Len(idx) * PKT_SIZE
  <2>1. (I + 1) * PKT_SIZE = I * PKT_SIZE + PKT_SIZE BY <1>1, SMTT(30)
  <2>2. Len(all) = L + PKT_SIZE /\ Len(idx) = I + 1 /\ e.ofs + L = x BY <1>3, <1>4, <1>5, <1>7
  <2>3. e.ofs \in Nat /\ L \in Nat /\ PKT_SIZE \in Nat BY <1>1
  <2>4. Len(idx) * PKT_SIZE = x + PKT_SIZE BY <2>1, <2>2, <1>7
  <2>5. e.ofs + Len(all) = x + PKT_SIZE BY <2>2, <2>3, SMTT(30)
  <2> QED BY <2>4, <2>5
<1>9. ASSUME NEW n \in 1 .. Len(all) PROVE all[n] = Unit(image, b, idx, e.ofs + n)
  <2>0. n \in 1 .. L + PKT_SIZE /\ n \in Nat BY <1>1, <1>3, SMTT(30)
  <2>1. CASE n <= L
    <3>0. e.ofs + n \in 1 .. x
      <4>1. e.ofs + L = x BY <1>5, <1>7
      <4>2. e.ofs \in Nat /\ L \in Nat /\ n \in Nat /\ 1 <= n BY <1>1, <2>0, SMTT(30)
      <4> QED BY <4>1, <4>2, <2>1, SMTT(30)
    <3>1. n \in 1 .. L /\ e.ofs + n \in 1 .. I * PKT_SIZE BY <2>1, <2>0, <3>0, <1>1, <1>7, SMTT(30)
    <3>2. all[n] = e.wbuf[n] BY <2>0, <2>1, <1>3
    <3> QED BY <3>1, <3>2, <1>5, <1>6
  <2>2. CASE n > L
    <3>0. e.ofs \in Nat /\ L \in Nat /\ PKT_SIZE \in Nat /\ e.ofs + L = x BY <1>1, <1>5, <1>7
    <3>3. n - L \in 1 .. PKT_SIZE /\ e.ofs + n = x + (n - L) BY <2>2, <2>0, <3>0, SMTT(30)
    <3>1. n - L \in 1 .. PKT_SIZE /\ e.ofs + n = I * PKT_SIZE + (n - L) BY <3>3, <1>7
    <3>2. all[n] = Data(pkt)[n - L] BY <2>0, <2>2, <1>1, <1>3, SMTT(30)
    <3> QED BY <3>1, <3>2, <1>2, <1>6
  <2> QED BY <2>0, <2>1, <2>2, <1>1, SMTT(30)
<1>10. \A n \in 1 .. e.ofs : n \in 1 .. I * PKT_SIZE BY <1>1, <1>5, <1>7, SMTT(30)
<1>11. UnitsOK(e, pkt) BY <1>6, <1>9, <1>10 DEF UnitsOK, all, idx
<1> QED BY <1>3, <1>4, <1>8, <1>11 DEF L, I, all, idx

(* A new packet keeps the indices in order.                                  *)
LEMMA IndexAdded ==
  ASSUME inst \in Instances, NEW pkt, PktOK(pkt), NEW e \in EntryType, IndicesOK(pkt.totcrc, e),
         ~Dropped(e, pkt), NEW z,
         z.pkt_indices = Append(e.pkt_indices, pkt.pkt_nr), z.nr_pkts = e.nr_pkts + 1,
         z.nr_pkts = pkts_per_block => z.crc = pkt.totcrc
  PROVE  /\ IndicesOK(pkt.totcrc, z)
         /\ e.nr_pkts = Len(e.pkt_indices) /\ Len(e.pkt_indices) < pkts_per_block
<1> DEFINE k == pkts_per_block
           n == total_pkts_per_block
           l == Len(e.pkt_indices)
           d == e.pkt_indices
<1>1. k \in Nat \ {0} /\ n \in Nat /\ l \in Nat /\ d \in Seq(Nat) /\ e.nr_pkts \in Nat BY Sizes, SMTT(30) DEF EntryType
<1>2. pkt.pkt_nr \in 0 .. n - 1 /\ pkt.pkt_nr \in Nat BY <1>1, SMTT(30) DEF PktOK
<1>3. /\ l <= k /\ \A i \in 1 .. l : d[i] \in 0 .. n - 1
      /\ \A i, j \in 1 .. l : d[i] = d[j] => i = j
      /\ e.nr_pkts = l \/ (e.nr_pkts = k + 1 /\ l = k)
  BY DEF IndicesOK
<1>4. (\A i \in 1 .. l : d[i] # pkt.pkt_nr) /\ ~(e.nr_pkts >= k) BY DEF Dropped
<1>5. /\ Append(d, pkt.pkt_nr) \in Seq(Nat) /\ Len(Append(d, pkt.pkt_nr)) = l + 1
      /\ \A i \in 1 .. l : Append(d, pkt.pkt_nr)[i] = d[i]
      /\ Append(d, pkt.pkt_nr)[l + 1] = pkt.pkt_nr
  BY <1>1, <1>2, OneMoreElement, SMTT(30)
<1> DEFINE x == z.pkt_indices
<1>6. Len(x) = l + 1 /\ (\A i \in 1 .. l : x[i] = d[i]) /\ x[l + 1] = pkt.pkt_nr BY <1>5
<1> HIDE DEF k, n, l, d, x
<1>7. e.nr_pkts = l /\ l < k BY <1>1, <1>3, <1>4, SMTT(30)
<1>8. \A i \in 1 .. l + 1 : i \in 1 .. l \/ i = l + 1 BY <1>1, SMTT(30)
<1>9. \A i \in 1 .. l + 1 : x[i] \in 0 .. n - 1 BY <1>2, <1>3, <1>6, <1>8
<1>10. \A i, j \in 1 .. l + 1 : x[i] = x[j] => i = j BY <1>3, <1>4, <1>6, <1>8
<1>11. z.nr_pkts = Len(x) /\ Len(x) <= k BY <1>1, <1>6, <1>7, SMTT(30)
<1>12. z.nr_pkts >= k => z.crc = pkt.totcrc BY <1>1, <1>6, <1>11, SMTT(30) DEF k
<1>13. IndicesOK(pkt.totcrc, z) BY <1>6, <1>9, <1>10, <1>11, <1>12 DEF IndicesOK, x, k, n
<1> QED BY <1>7, <1>13 DEF l, k

(* The receiver has a use for the packet.                                    *)
Wanted(r, eb, pkt) ==
  /\ inst \in Instances /\ DOMAIN r = RcvFields /\ RecvInv(r, eb, flash)
  /\ PktOK(pkt) /\ r.image_crc = pkt.totcrc /\ ~Dropped(eb[pkt.block_nr], pkt)

(* What is known of the block the packet belongs to.                         *)
LEMMA WantedFacts ==
  ASSUME OperatorFacts, NEW r, NEW eb, NEW pkt, Wanted(r, eb, pkt), NEW e, e = eb[pkt.block_nr]
  PROVE  /\ pkt.block_nr \in Blocks /\ pkt.block_nr \in Nat /\ pkt.pkt_nr \in Nat
         /\ pkt.totcrc \in Nat /\ pkt.totcrc \in 1 .. inst.images
         /\ e \in EntryType /\ e.blk \notin inst.bad /\ (inst.file_mode => e.blk = pkt.block_nr)
         /\ e.blk < r.mtdoffset /\ r.mtdoffset \in Nat /\ r.total_pkts \in Int
         /\ IndicesOK(pkt.totcrc, e) /\ ParkedOK(pkt.totcrc, pkt.block_nr, e, flash)
         /\ e.nr_pkts = Len(e.pkt_indices) /\ Len(e.pkt_indices) < pkts_per_block
<1> DEFINE b == pkt.block_nr
<1>0. inst \in Instances /\ RecvInv(r, eb, flash) /\ PktOK(pkt) /\ r.image_crc = pkt.totcrc
      /\ ~Dropped(e, pkt)
  BY DEF Wanted
<1>1. b \in Blocks /\ b \in Nat BY <1>0, BlocksFacts DEF PktOK
<1>2. pkt.pkt_nr \in Nat
  <2>1. total_pkts_per_block \in Nat BY <1>0, Sizes
  <2> QED BY <1>0, <2>1, SMTT(30) DEF PktOK
<1>3. pkt.totcrc \in Nat /\ pkt.totcrc \in 1 .. inst.images
  <2>1. inst.images \in Nat BY <1>0, InstancesOK
  <2> QED BY <1>0, <2>1, SMTT(30) DEF PktOK
<1>4. e \in EntryType /\ e.blk \notin inst.bad /\ (inst.file_mode => e.blk = b)
  BY <1>0, <1>1 DEF RecvInv, PlacesOK
<1>5. e.blk < r.mtdoffset /\ r.mtdoffset \in Nat /\ IndicesOK(pkt.totcrc, e) /\ ParkedOK(pkt.totcrc, b, e, flash)
  BY <1>0, <1>1 DEF RecvInv
<1>6. r.total_pkts \in Int
  <2>1. DOMAIN eb = Blocks /\ \A c \in Blocks : eb[c] \in EntryType BY <1>0 DEF RecvInv, PlacesOK
  <2>2. r.total_pkts = TotalPkts(eb) BY <1>0 DEF RecvInv
  <2> QED BY <2>1, <2>2 DEF OperatorFacts, CountFacts
<1>7. e.nr_pkts = Len(e.pkt_indices) /\ Len(e.pkt_indices) < pkts_per_block
  <2>1. pkts_per_block \in Nat BY <1>0, Sizes
  <2>2. e.nr_pkts \in Nat /\ Len(e.pkt_indices) \in Nat BY <1>4, SMTT(30) DEF EntryType
  <2>3. ~(e.nr_pkts >= pkts_per_block) BY <1>0 DEF Dropped
  <2>4. e.nr_pkts = Len(e.pkt_indices) \/ e.nr_pkts = pkts_per_block + 1 BY <1>5 DEF IndicesOK
  <2> QED BY <2>1, <2>2, <2>3, <2>4, SMTT(30)
<1> QED BY <1>1, <1>2, <1>3, <1>4, <1>5, <1>6, <1>7

(* Held stores the entry it is given, with the CRC if the block is complete. *)
EntryIs(z, blk, ofs, wbuf, nr, idx, pkt) ==
  /\ z \in EntryType /\ z.blk = blk /\ z.ofs = ofs /\ z.wbuf = wbuf /\ z.nr_pkts = nr
  /\ z.pkt_indices = idx /\ (nr = pkts_per_block => z.crc = pkt.totcrc)

(* Its fields.                                                               *)
LEMMA StoredIs ==
  ASSUME NEW blk \in Nat, NEW ofs \in Nat, NEW wbuf \in Seq(Stored), NEW nr \in Nat,
         NEW idx \in Seq(Nat), NEW crc \in Nat, NEW pkt, pkt.totcrc \in Nat
  PROVE  EntryIs(Stored2(Entry(blk, ofs, wbuf, nr, idx, crc), pkt), blk, ofs, wbuf, nr, idx, pkt)
<1> DEFINE y == Entry(blk, ofs, wbuf, nr, idx, crc)
           z == Stored2(y, pkt)
<1> SUFFICES EntryIs(z, blk, ofs, wbuf, nr, idx, pkt) OBVIOUS
<1> USE DEF EntryIs
<1>1. y.nr_pkts = nr BY DEF Entry
<1>2. CASE nr = pkts_per_block
  <2>1. z = [y EXCEPT !.crc = pkt.totcrc] BY <1>1, <1>2 DEF Stored2
  <2>2. z = [blk |-> blk, ofs |-> ofs, wbuf |-> wbuf, nr_pkts |-> nr, pkt_indices |-> idx, crc |-> pkt.totcrc]
    BY <2>1 DEF Entry
  <2> QED BY <2>2, SMTT(30) DEF EntryType
<1>3. CASE nr # pkts_per_block
  <2>1. z = y BY <1>1, <1>3 DEF Stored2
  <2>2. z = [blk |-> blk, ofs |-> ofs, wbuf |-> wbuf, nr_pkts |-> nr, pkt_indices |-> idx, crc |-> crc]
    BY <2>1 DEF Entry
  <2> QED BY <2>2, <1>3, SMTT(30) DEF EntryType
<1> QED BY <1>2, <1>3

(* The receiver's variables when a packet is held.                           *)
OneMore(r, r2) ==
  /\ r2.total_pkts = r.total_pkts + 1 /\ r2.mtdoffset = r.mtdoffset /\ r2.nr_blocks = r.nr_blocks
  /\ r2.block_nr = r.block_nr /\ r2.rewrites = r.rewrites /\ r2.image_crc = r.image_crc

(* The entry z is e with the packet.                                         *)
Takes(e, pkt, z) ==
  /\ z \in EntryType /\ z.blk = e.blk /\ z.nr_pkts = e.nr_pkts + 1 /\ z.pkt_indices = IdxOf(e, pkt)
  /\ z.nr_pkts = pkts_per_block => z.crc = pkt.totcrc

(* A packet more in the entry of its block: the rest of the table and of the *)
(* flash stay as they are.                                                   *)
LEMMA TakesKeeps ==
  ASSUME OperatorFacts, NEW r, NEW eb, NEW pkt, Wanted(r, eb, pkt), NEW z, Takes(eb[pkt.block_nr], pkt, z),
         NEW r2, OneMore(r, r2), NEW fl2, FlashType(fl2), ParkedOK(pkt.totcrc, pkt.block_nr, z, fl2),
         \A x \in 0 .. inst.size - 1 : x # eb[pkt.block_nr].blk => fl2[x] = flash[x]
  PROVE  RecvInv(r2, [eb EXCEPT ![pkt.block_nr] = z], fl2)
<1> DEFINE b == pkt.block_nr
           e == eb[b]
<1>0. inst \in Instances /\ RecvInv(r, eb, flash) /\ PktOK(pkt) /\ r.image_crc = pkt.totcrc
      /\ ~Dropped(e, pkt)
  BY DEF Wanted
<1>1. /\ b \in Blocks /\ pkt.pkt_nr \in Nat /\ e \in EntryType
      /\ e.blk \notin inst.bad /\ (inst.file_mode => e.blk = b)
      /\ e.blk < r.mtdoffset /\ r.mtdoffset \in Nat /\ r.total_pkts \in Int
      /\ IndicesOK(pkt.totcrc, e)
  BY WantedFacts, SMTT(30)
<1>2. Len(z.pkt_indices) = Len(e.pkt_indices) + 1 /\ Len(e.pkt_indices) \in Nat
  <2>1. e.pkt_indices \in Seq(Nat) BY <1>1 DEF EntryType
  <2>2. z.pkt_indices = Append(e.pkt_indices, pkt.pkt_nr) BY DEF Takes, IdxOf
  <2> QED BY <2>1, <2>2, SMTT(30)
<1> HIDE DEF b, e
<1>3. z \in EntryType /\ z.blk = e.blk BY DEF Takes, e, b
<1>4. IndicesOK(r.image_crc, z)
  <2>1. z.pkt_indices = Append(e.pkt_indices, pkt.pkt_nr) BY DEF Takes, IdxOf, e, b
  <2>2. z.nr_pkts = e.nr_pkts + 1 /\ (z.nr_pkts = pkts_per_block => z.crc = pkt.totcrc)
    BY DEF Takes, e, b
  <2>3. IndicesOK(pkt.totcrc, e) /\ e \in EntryType BY <1>1
  <2> QED BY <1>0, <2>1, <2>2, <2>3, IndexAdded
<1>5. r2.total_pkts = r.total_pkts - Len(e.pkt_indices) + Len(z.pkt_indices)
  <2>1. r2.total_pkts = r.total_pkts + 1 BY DEF OneMore
  <2> QED BY <2>1, <1>1, <1>2, SMTT(30)
<1>6. /\ r2.mtdoffset = r.mtdoffset /\ r2.nr_blocks = r.nr_blocks
      /\ r2.block_nr = r.block_nr /\ r2.rewrites = r.rewrites /\ r2.image_crc = r.image_crc
  BY DEF OneMore
<1>7. r2.mtdoffset \in Nat /\ r2.mtdoffset >= r.mtdoffset /\ z.blk < r2.mtdoffset
  BY <1>1, <1>3, <1>6, SMTT(30)
<1>8. z.blk \notin inst.bad /\ (inst.file_mode => z.blk = b) /\ z.blk = eb[b].blk
  BY <1>1, <1>3 DEF e
<1>9. ParkedOK(r.image_crc, b, z, fl2) BY <1>0 DEF b
<1>10. \A x \in 0 .. inst.size - 1 : x # eb[b].blk /\ x # z.blk => fl2[x] = flash[x] BY DEF b
<1>11. r2.total_pkts = r.total_pkts - Len(eb[b].pkt_indices) + Len(z.pkt_indices) BY <1>5 DEF e
<1>12. b \in Blocks BY <1>1
<1>13. RecvInv(r2, [eb EXCEPT ![b] = z], fl2)
  BY <1>0, <1>3, <1>4, <1>6, <1>7, <1>8, <1>9, <1>10, <1>11, <1>12, EntryKeeps
<1> QED BY <1>13 DEF b

(* BufferPkt: the packet goes to the write buffer.                           *)
LEMMA BufferKeeps ==
  ASSUME OperatorFacts, NEW r, NEW eb, NEW pkt, Wanted(r, eb, pkt), NEW z, Takes(eb[pkt.block_nr], pkt, z),
         z.ofs = eb[pkt.block_nr].ofs, z.wbuf = AllOf(eb[pkt.block_nr], pkt),
         Len(eb[pkt.block_nr].wbuf) + PKT_SIZE < WBUF_SIZE, NEW r2, OneMore(r, r2)
  PROVE  RecvInv(r2, [eb EXCEPT ![pkt.block_nr] = z], flash)
<1> DEFINE b == pkt.block_nr
           e == eb[b]
           all == AllOf(e, pkt)
           idx == IdxOf(e, pkt)
<1>1. b \in Nat /\ pkt.pkt_nr \in Nat /\ pkt.totcrc \in Nat /\ e \in EntryType BY WantedFacts
<1>2. ParkedOK(pkt.totcrc, b, e, flash) BY WantedFacts
<1>3. /\ Len(all) = Len(e.wbuf) + PKT_SIZE /\ e.ofs + Len(all) = Len(idx) * PKT_SIZE
      /\ UnitsOK(e, pkt)
  BY <1>1, <1>2, AllUnits
<1>4. z.blk = e.blk /\ z.ofs = e.ofs /\ z.wbuf = all /\ z.pkt_indices = idx BY DEF Takes
<1>5. /\ \E m \in 0 .. e.ofs : e.ofs = m * WBUF_SIZE
      /\ e.ofs > 0 => e.blk < inst.size
      /\ \A n \in 1 .. e.ofs : flash[e.blk][n] = Unit(pkt.totcrc, b, e.pkt_indices, n)
      /\ e.blk < inst.size /\ ~inst.file_mode =>
           \A n \in e.ofs + 1 .. inst.erasesize : flash[e.blk][n] = Blank
  BY <1>2 DEF ParkedOK
<1>6. /\ \A n \in 1 .. Len(all) : all[n] = Unit(pkt.totcrc, b, idx, e.ofs + n)
      /\ \A n \in 1 .. e.ofs : Unit(pkt.totcrc, b, idx, n) = Unit(pkt.totcrc, b, e.pkt_indices, n)
  BY <1>3 DEF UnitsOK
<1>7. Len(all) < WBUF_SIZE BY <1>3
<1> HIDE DEF b, e, all, idx
<1>8. \A n \in 1 .. e.ofs : flash[e.blk][n] = Unit(pkt.totcrc, b, idx, n) BY <1>5, <1>6
<1>9. ParkedOK(pkt.totcrc, b, z, flash) BY <1>3, <1>4, <1>5, <1>6, <1>7, <1>8 DEF ParkedOK
<1>10. FlashType(flash) BY DEF Wanted, RecvInv
<1> QED BY <1>9, <1>10, TakesKeeps DEF b

(* An incomplete block has room for one more write buffer on its place.      *)
LEMMA RoomForBuffer ==
  ASSUME inst \in Instances, NEW image, NEW b, NEW fl, NEW e \in EntryType, ParkedOK(image, b, e, fl),
         Len(e.pkt_indices) < pkts_per_block
  PROVE  /\ e.ofs + WBUF_SIZE <= inst.erasesize
         /\ \E m \in 0 .. e.ofs + WBUF_SIZE : e.ofs + WBUF_SIZE = m * WBUF_SIZE
<1> DEFINE k == pkts_per_block
           E == inst.erasesize
           l == Len(e.pkt_indices)
<1>1. /\ k \in Nat \ {0} /\ E \in Nat \ {0} /\ PKT_SIZE \in Nat \ {0} /\ WBUF_SIZE \in Nat \ {0}
      /\ E % WBUF_SIZE = 0
  BY Sizes, InstancesOK, SizesOK, SMTT(30)
<1>2. k * PKT_SIZE < E + PKT_SIZE BY Sizes
<1>3. l \in Nat /\ Len(e.wbuf) \in Nat /\ e.ofs \in Nat /\ l < k BY SMTT(30) DEF EntryType
<1>4. e.ofs + Len(e.wbuf) = l * PKT_SIZE BY DEF ParkedOK
<1>5. PICK m \in 0 .. e.ofs : e.ofs = m * WBUF_SIZE BY DEF ParkedOK
<1>6. PICK q \in Nat : E = q * WBUF_SIZE
  <2> HIDE DEF E
  <2>1. E \div WBUF_SIZE \in Nat /\ E = (E \div WBUF_SIZE) * WBUF_SIZE + (E % WBUF_SIZE)
    BY <1>1, Division
  <2>2. PICK q \in Nat : q = E \div WBUF_SIZE BY <2>1
  <2>3. q * WBUF_SIZE \in Nat BY <2>2, <1>1, SMTT(30)
  <2>4. E = q * WBUF_SIZE BY <2>1, <2>2, <2>3, <1>1, SMTT(30)
  <2> QED BY <2>4
<1> HIDE DEF k, E, l
<1>7. m \in Nat BY <1>3, <1>5, SMTT(30)
<1>8. e.ofs < E
  <2>1. (l + 1) * PKT_SIZE <= k * PKT_SIZE BY <1>1, <1>3, ProductGrows, SMTT(30)
  <2>2. (l + 1) * PKT_SIZE = l * PKT_SIZE + PKT_SIZE BY <1>1, <1>3, SMTT(30)
  <2>3. PICK x \in Nat : x = l * PKT_SIZE BY <1>1, <1>3, SMTT(30)
  <2>4. PICK y \in Nat : y = k * PKT_SIZE BY <1>1, SMTT(30)
  <2>5. x + PKT_SIZE <= y /\ y < E + PKT_SIZE /\ e.ofs + Len(e.wbuf) = x BY <2>1, <2>2, <2>3, <2>4, <1>2, <1>4
  <2> QED BY <2>5, <1>1, <1>3, SMTT(30)
<1>9. m < q
  <2> SUFFICES ASSUME q <= m PROVE FALSE BY <1>7, SMTT(30)
  <2>1. q * WBUF_SIZE <= m * WBUF_SIZE BY <1>1, <1>7, ProductGrows
  <2> QED BY <2>1, <1>1, <1>3, <1>5, <1>6, <1>8, SMTT(30)
<1>10. (m + 1) * WBUF_SIZE <= q * WBUF_SIZE BY <1>1, <1>7, <1>9, ProductGrows, SMTT(30)
<1>11. (m + 1) * WBUF_SIZE = m * WBUF_SIZE + WBUF_SIZE BY <1>1, <1>7, SMTT(30)
<1>12. e.ofs + WBUF_SIZE <= E /\ e.ofs + WBUF_SIZE = (m + 1) * WBUF_SIZE
  BY <1>1, <1>3, <1>5, <1>6, <1>10, <1>11
<1>13. m + 1 \in 0 .. e.ofs + WBUF_SIZE BY <1>1, <1>3, <1>5, <1>7, SMTT(30)
<1> QED BY <1>12, <1>13 DEF E

(* The data fit, and go to a file or to erased flash.                        *)
Writable(fl, x, ofs, data) ==
  /\ x \in 0 .. inst.size - 1 /\ ofs \in Nat /\ Len(data) \in Nat /\ ofs + Len(data) <= inst.erasesize
  /\ inst.file_mode \/ \A n \in ofs + 1 .. ofs + Len(data) : fl[x][n] = Blank

(* Then they are stored, and nothing else changes.                           *)
Stores(fl, x, ofs, data, fl2) ==
  /\ FlashType(fl2)
  /\ \A y \in 0 .. inst.size - 1 : y # x => fl2[y] = fl[y]
  /\ \A n \in 1 .. inst.erasesize :
       fl2[x][n] = IF n \in ofs + 1 .. ofs + Len(data) THEN data[n - ofs] ELSE fl[x][n]

(* write() of recv_image, when it does not fail.                             *)
LEMMA ProgrammedIs ==
  ASSUME NEW fl, FlashType(fl), NEW x, NEW ofs, NEW data, Writable(fl, x, ofs, data)
  PROVE  Stores(fl, x, ofs, data, Programmed(fl, x, ofs, data))
<1> USE DEF Writable
<1> DEFINE U(n) == IF n \notin ofs + 1 .. ofs + Len(data) THEN fl[x][n]
                   ELSE IF inst.file_mode \/ fl[x][n] = Blank THEN data[n - ofs] ELSE Garbage
           F == [n \in 1 .. inst.erasesize |-> U(n)]
           fl2 == [fl EXCEPT ![x] = F]
<1>1. Programmed(fl, x, ofs, data) = fl2 BY DEF Programmed
<1>2. \A n \in 1 .. inst.erasesize : F[n] = IF n \in ofs + 1 .. ofs + Len(data) THEN data[n - ofs] ELSE fl[x][n]
  OBVIOUS
<1>3. F = [n \in 1 .. inst.erasesize |-> F[n]] OBVIOUS
<1> HIDE DEF F
<1>4. fl2[x] = F /\ DOMAIN fl2 = 0 .. inst.size - 1 /\ \A y \in 0 .. inst.size - 1 : y # x => fl2[y] = fl[y]
  BY DEF FlashType
<1> HIDE DEF fl2
<1>5. FlashType(fl2) BY <1>3, <1>4 DEF FlashType
<1> QED BY <1>1, <1>2, <1>4, <1>5 DEF Stores

(* WritePkt: the write buffer is full and goes to flash.                     *)
Flushes(e, pkt, z) ==
  /\ e.blk < inst.size /\ Len(e.wbuf) + PKT_SIZE >= WBUF_SIZE
  /\ z.ofs = e.ofs + WBUF_SIZE
  /\ z.wbuf = SubSeq(AllOf(e, pkt), WBUF_SIZE + 1, Len(AllOf(e, pkt)))

(* What is on flash then are the packets held.                               *)
LEMMA WriteKeeps ==
  ASSUME OperatorFacts, NEW r, NEW eb, NEW pkt, Wanted(r, eb, pkt), NEW e, e = eb[pkt.block_nr], NEW z, Takes(e, pkt, z),
         Flushes(e, pkt, z), NEW r2, OneMore(r, r2), NEW fl2,
         fl2 = Programmed(flash, e.blk, e.ofs, SubSeq(AllOf(e, pkt), 1, WBUF_SIZE))
  PROVE  RecvInv(r2, [eb EXCEPT ![pkt.block_nr] = z], fl2)
<1> DEFINE b == pkt.block_nr
           all == AllOf(e, pkt)
           idx == IdxOf(e, pkt)
           data == SubSeq(all, 1, WBUF_SIZE)
           rest == SubSeq(all, WBUF_SIZE + 1, Len(all))
           U(n) == Unit(pkt.totcrc, b, idx, n)
<1>1. b \in Nat /\ pkt.pkt_nr \in Nat /\ pkt.totcrc \in Nat /\ e \in EntryType BY WantedFacts
<1>2. ParkedOK(pkt.totcrc, b, e, flash) /\ Len(e.pkt_indices) < pkts_per_block BY WantedFacts
<1>3. inst \in Instances /\ FlashType(flash) BY DEF Wanted, RecvInv
<1>4. /\ all \in Seq(Stored) /\ Len(all) = Len(e.wbuf) + PKT_SIZE /\ e.ofs + Len(all) = Len(idx) * PKT_SIZE
      /\ UnitsOK(e, pkt)
  BY <1>1, <1>2, AllUnits
<1>5. z.blk = e.blk /\ z.pkt_indices = idx /\ z.ofs = e.ofs + WBUF_SIZE /\ z.wbuf = rest
  BY DEF Takes, Flushes
<1>6. /\ e.ofs + WBUF_SIZE <= inst.erasesize
      /\ \E m \in 0 .. e.ofs + WBUF_SIZE : e.ofs + WBUF_SIZE = m * WBUF_SIZE
  BY <1>1, <1>2, <1>3, RoomForBuffer
<1>7. /\ \A n \in 1 .. e.ofs : flash[e.blk][n] = Unit(pkt.totcrc, b, e.pkt_indices, n)
      /\ Len(e.wbuf) < WBUF_SIZE
      /\ e.blk < inst.size /\ ~inst.file_mode =>
           \A n \in e.ofs + 1 .. inst.erasesize : flash[e.blk][n] = Blank
  BY <1>2 DEF ParkedOK
<1>8. /\ \A n \in 1 .. Len(all) : all[n] = U(e.ofs + n)
      /\ \A n \in 1 .. e.ofs : U(n) = Unit(pkt.totcrc, b, e.pkt_indices, n)
  BY <1>4 DEF UnitsOK
<1>9. /\ e.ofs \in Nat /\ e.blk \in Nat /\ Len(e.wbuf) \in Nat /\ PKT_SIZE \in Nat /\ WBUF_SIZE \in Nat \ {0}
      /\ PKT_SIZE < WBUF_SIZE /\ inst.erasesize \in Nat /\ inst.size \in Nat
  <2>1. e.ofs \in Nat /\ e.blk \in Nat /\ Len(e.wbuf) \in Nat BY <1>1, SMTT(30) DEF EntryType
  <2>2. inst.erasesize \in Nat /\ inst.size \in Nat BY <1>3, InstancesOK
  <2>3. PKT_SIZE \in Nat /\ WBUF_SIZE \in Nat \ {0} /\ PKT_SIZE < WBUF_SIZE BY SizesOK, SMTT(30)
  <2> QED BY <2>1, <2>2, <2>3
<1>10. e.blk < inst.size /\ Len(e.wbuf) + PKT_SIZE >= WBUF_SIZE BY DEF Flushes
<1> HIDE DEF all, idx, b
<1>11. Len(all) \in Nat /\ WBUF_SIZE <= Len(all) /\ Len(all) - WBUF_SIZE < WBUF_SIZE BY <1>4, <1>7, <1>9, <1>10, SMTT(30)
<1>12. Len(data) = WBUF_SIZE /\ \A n \in 1 .. WBUF_SIZE : data[n] = all[n]
  <2>1. WBUF_SIZE \in Nat /\ all \in Seq(Stored) BY <1>4, <1>9
  <2> QED BY <2>1, <1>11, PartOfSequence, SMTT(30)
<1>13. Len(rest) = Len(all) - WBUF_SIZE /\ \A n \in 1 .. Len(all) - WBUF_SIZE : rest[n] = all[WBUF_SIZE + n]
  <2>1. WBUF_SIZE \in Nat /\ all \in Seq(Stored) BY <1>4, <1>9
  <2> QED BY <2>1, <1>11, PartOfSequence, SMTT(30)
<1> HIDE DEF data, rest
<1>14. /\ FlashType(fl2)
       /\ \A y \in 0 .. inst.size - 1 : y # e.blk => fl2[y] = flash[y]
       /\ \A n \in 1 .. inst.erasesize :
            fl2[e.blk][n] = IF n \in e.ofs + 1 .. e.ofs + WBUF_SIZE THEN data[n - e.ofs] ELSE flash[e.blk][n]
  <2>1. e.blk \in 0 .. inst.size - 1 BY <1>9, <1>10, SMTT(30)
  <2>2. inst.file_mode \/ \A n \in e.ofs + 1 .. e.ofs + Len(data) : flash[e.blk][n] = Blank
    <3>1. e.ofs + 1 .. e.ofs + Len(data) \subseteq e.ofs + 1 .. inst.erasesize BY <1>6, <1>9, <1>12, SMTT(30)
    <3> QED BY <3>1, <1>7, <1>10
  <2>3. fl2 = Programmed(flash, e.blk, e.ofs, data) BY DEF data, all
  <2>4. Len(data) = WBUF_SIZE /\ Len(data) \in Nat /\ e.ofs \in Nat /\ e.ofs + Len(data) <= inst.erasesize
    BY <1>6, <1>9, <1>12
  <2>5. Writable(flash, e.blk, e.ofs, data) BY <1>9, <2>1, <2>2, <2>4 DEF Writable
  <2>6. Stores(flash, e.blk, e.ofs, data, fl2) BY <1>3, <2>3, <2>5, ProgrammedIs
  <2> QED BY <2>4, <2>6 DEF Stores
<1>15. ASSUME NEW n \in 1 .. e.ofs + WBUF_SIZE PROVE fl2[e.blk][n] = U(n)
  <2>1. n \in 1 .. inst.erasesize BY <1>6, <1>9, SMTT(30)
  <2>2. CASE n <= e.ofs
    <3>1. n \in 1 .. e.ofs /\ n \notin e.ofs + 1 .. e.ofs + WBUF_SIZE BY <2>2, <1>9, SMTT(30)
    <3>2. fl2[e.blk][n] = flash[e.blk][n] BY <3>1, <2>1, <1>14
    <3> QED BY <3>1, <3>2, <1>7, <1>8
  <2>3. CASE n > e.ofs
    <3>1. n \in e.ofs + 1 .. e.ofs + WBUF_SIZE /\ n - e.ofs \in 1 .. WBUF_SIZE /\ n - e.ofs \in 1 .. Len(all)
          /\ e.ofs + (n - e.ofs) = n
      BY <2>3, <1>9, <1>11, SMTT(30)
    <3>2. fl2[e.blk][n] = data[n - e.ofs] BY <3>1, <2>1, <1>14
    <3>3. data[n - e.ofs] = all[n - e.ofs] BY <3>1, <1>12
    <3>4. all[n - e.ofs] = U(e.ofs + (n - e.ofs)) BY <3>1, <1>8
    <3> QED BY <3>1, <3>2, <3>3, <3>4
  <2> QED BY <2>2, <2>3, <1>9, SMTT(30)
<1>16. ASSUME NEW n \in 1 .. Len(rest) PROVE rest[n] = U(z.ofs + n)
  <2>1. n \in Nat /\ WBUF_SIZE + n \in 1 .. Len(all) /\ e.ofs + (WBUF_SIZE + n) = (e.ofs + WBUF_SIZE) + n
    BY <1>9, <1>11, <1>13, SMTT(30)
  <2>2. all[WBUF_SIZE + n] = U(e.ofs + (WBUF_SIZE + n)) BY <2>1, <1>8
  <2>3. rest[n] = all[WBUF_SIZE + n] BY <1>13
  <2> QED BY <2>1, <2>2, <2>3, <1>5
<1>17. z.ofs + Len(rest) = Len(idx) * PKT_SIZE
  <2>1. PICK x \in Nat : x = e.ofs + Len(all) BY <1>9, <1>11, SMTT(30)
  <2>2. z.ofs + Len(rest) = x BY <2>1, <1>5, <1>9, <1>11, <1>13, SMTT(30)
  <2> QED BY <2>1, <2>2, <1>4
<1>18. ~inst.file_mode => \A n \in z.ofs + 1 .. inst.erasesize : fl2[e.blk][n] = Blank
  <2> SUFFICES ASSUME ~inst.file_mode, NEW n \in e.ofs + WBUF_SIZE + 1 .. inst.erasesize
               PROVE  fl2[e.blk][n] = Blank
    BY <1>5
  <2>1. n \in 1 .. inst.erasesize /\ n \in e.ofs + 1 .. inst.erasesize /\ n \notin e.ofs + 1 .. e.ofs + WBUF_SIZE
    BY <1>9, SMTT(30)
  <2> QED BY <2>1, <1>7, <1>10, <1>14
<1>19. ParkedOK(pkt.totcrc, b, z, fl2)
  <2>1. Len(rest) < WBUF_SIZE BY <1>11, <1>13
  <2>2. \A n \in 1 .. z.ofs : fl2[z.blk][n] = U(n) BY <1>5, <1>15
  <2>3. \E m \in 0 .. z.ofs : z.ofs = m * WBUF_SIZE BY <1>5, <1>6
  <2> QED BY <1>5, <1>10, <1>16, <1>17, <1>18, <2>1, <2>2, <2>3 DEF ParkedOK
<1>20. \A x \in 0 .. inst.size - 1 : x # eb[pkt.block_nr].blk => fl2[x] = flash[x] BY <1>14
<1>21. Takes(eb[pkt.block_nr], pkt, z) OBVIOUS
<1> QED BY <1>14, <1>19, <1>20, <1>21, TakesKeeps DEF b

(* mtd_erase() of an erase block.                                            *)
Erases(fl, x, fl2) ==
  /\ FlashType(fl2) /\ fl2[x] = BlankBlock
  /\ \A y \in 0 .. inst.size - 1 : y # x => fl2[y] = fl[y]

(* The erase block is blank then, the others are what they were.             *)
LEMMA ErasedIs ==
  ASSUME NEW fl, FlashType(fl), NEW x \in 0 .. inst.size - 1
  PROVE  Erases(fl, x, Erased(fl, x))
<1>1. Erased(fl, x) = [fl EXCEPT ![x] = BlankBlock] BY DEF Erased, BlankBlock
<1> DEFINE fl2 == Erased(fl, x)
<1>2. fl2[x] = BlankBlock /\ DOMAIN fl2 = 0 .. inst.size - 1 /\ \A y \in 0 .. inst.size - 1 : y # x => fl2[y] = fl[y]
  BY <1>1 DEF FlashType
<1>3. BlankBlock = [u \in 1 .. inst.erasesize |-> BlankBlock[u]] BY DEF BlankBlock
<1> HIDE DEF fl2
<1>4. FlashType(fl2) BY <1>2, <1>3 DEF FlashType
<1> QED BY <1>2, <1>4 DEF Erases, fl2

(* MovePkt: the entry z is that of a block that moved to new with the        *)
(* packet.                                                                   *)
Moves(r, e, pkt, z, new, r2) ==
  /\ z \in EntryType /\ z.blk = new /\ z.ofs = 0 /\ z.wbuf = Data(pkt) /\ z.nr_pkts = 1
  /\ z.pkt_indices = <<pkt.pkt_nr>> /\ (z.nr_pkts = pkts_per_block => z.crc = pkt.totcrc)
  /\ r2.total_pkts = r.total_pkts - e.nr_pkts + 1 /\ r2.mtdoffset = new + 1
  /\ r2.nr_blocks = r.nr_blocks /\ r2.block_nr = r.block_nr /\ r2.rewrites = r.rewrites
  /\ r2.image_crc = r.image_crc

(* The new place was free, the old one is free now.                          *)
LEMMA MoveKeeps ==
  ASSUME OperatorFacts, NEW r, NEW eb, NEW pkt, Wanted(r, eb, pkt), ~inst.file_mode, NEW new, new = SkipBad(r.mtdoffset),
         new < inst.size, eb[pkt.block_nr].blk < inst.size,
         NEW z, NEW r2, Moves(r, eb[pkt.block_nr], pkt, z, new, r2),
         NEW fl2, fl2 = Erased(flash, eb[pkt.block_nr].blk)
  PROVE  RecvInv(r2, [eb EXCEPT ![pkt.block_nr] = z], fl2)
<1> DEFINE b == pkt.block_nr
           e == eb[b]
<1>0. inst \in Instances /\ RecvInv(r, eb, flash) /\ PktOK(pkt) /\ r.image_crc = pkt.totcrc
  BY DEF Wanted
<1>1. /\ b \in Blocks /\ b \in Nat /\ pkt.pkt_nr \in Nat /\ pkt.totcrc \in Nat /\ e \in EntryType
      /\ e.blk < r.mtdoffset /\ r.mtdoffset \in Nat /\ r.total_pkts \in Int
      /\ e.nr_pkts = Len(e.pkt_indices)
  BY WantedFacts, SMTT(30)
<1>2. FlashType(flash) /\ FreeBlank(eb, flash) /\ \A c \in Blocks : eb[c].blk < r.mtdoffset /\ eb[c].blk \in Nat
  BY <1>0 DEF RecvInv, PlacesOK, EntryType
<1>3. new \in Nat /\ r.mtdoffset <= new /\ new \notin inst.bad
  <2>1. /\ Place(r.mtdoffset) \in Nat /\ r.mtdoffset <= Place(r.mtdoffset) /\ Place(r.mtdoffset) \notin inst.bad
        /\ SkipBad(r.mtdoffset) = Place(r.mtdoffset)
    BY <1>0, <1>1 DEF OperatorFacts, PlaceFacts
  <2> QED BY <2>1
<1>4. e.blk \in Nat /\ Len(e.pkt_indices) \in Nat BY <1>1 DEF EntryType
<1>5. inst.size \in Nat BY <1>0, InstancesOK
<1>6. e.blk \in 0 .. inst.size - 1 /\ new \in 0 .. inst.size - 1 /\ new # e.blk
  BY <1>1, <1>3, <1>4, <1>5, SMTT(30)
<1>7. Erases(flash, e.blk, fl2) BY <1>2, <1>6, ErasedIs
<1> HIDE DEF b, e
<1>8. flash[new] = BlankBlock
  <2>1. \A c \in Blocks : eb[c].blk # new BY <1>1, <1>2, <1>3, SMTT(30)
  <2> QED BY <1>2, <1>6, <2>1 DEF FreeBlank
<1>9. FlashType(fl2) /\ fl2[e.blk] = BlankBlock /\ fl2[new] = BlankBlock
      /\ \A y \in 0 .. inst.size - 1 : y # e.blk => fl2[y] = flash[y]
  BY <1>6, <1>7, <1>8 DEF Erases
<1>10. /\ z \in EntryType /\ z.blk = new /\ z.ofs = 0 /\ z.wbuf = Data(pkt) /\ z.nr_pkts = 1
       /\ z.pkt_indices = <<pkt.pkt_nr>> /\ (z.nr_pkts = pkts_per_block => z.crc = pkt.totcrc)
  BY DEF Moves
<1>11. /\ r2.total_pkts = r.total_pkts - e.nr_pkts + 1 /\ r2.mtdoffset = new + 1
       /\ r2.nr_blocks = r.nr_blocks /\ r2.block_nr = r.block_nr /\ r2.rewrites = r.rewrites
       /\ r2.image_crc = r.image_crc
  BY DEF Moves, e, b
<1>12. Len(z.pkt_indices) = 1 /\ z.pkt_indices[1] = pkt.pkt_nr BY <1>10, SMTT(30)
<1>13. IndicesOK(r.image_crc, z)
  <2>1. pkts_per_block \in Nat \ {0} BY <1>0, Sizes
  <2>2. pkt.pkt_nr \in 0 .. total_pkts_per_block - 1 BY <1>0 DEF PktOK
  <2>3. z.nr_pkts >= pkts_per_block => z.crc = r.image_crc BY <2>1, <1>0, <1>10, SMTT(30)
  <2> QED BY <2>1, <2>2, <2>3, <1>10, <1>12, SMTT(30) DEF IndicesOK
<1>14. ParkedOK(r.image_crc, b, z, fl2)
  <2>1. PKT_SIZE \in Nat \ {0} /\ WBUF_SIZE \in Nat /\ PKT_SIZE < WBUF_SIZE BY SizesOK
  <2>2. Len(z.wbuf) = PKT_SIZE /\ \A u \in 1 .. PKT_SIZE : z.wbuf[u] = <<pkt.totcrc, b, pkt.pkt_nr, u>>
    BY <1>1, <1>10, DataIs DEF b
  <2>3. ASSUME NEW n \in 1 .. PKT_SIZE PROVE z.wbuf[n] = Unit(r.image_crc, b, z.pkt_indices, z.ofs + n)
    <3>1. Unit(r.image_crc, b, z.pkt_indices, 0 * PKT_SIZE + n) = <<r.image_crc, b, z.pkt_indices[0 + 1], n>>
      BY UnitOfPacket
    <3>2. 0 * PKT_SIZE + n = z.ofs + n BY <2>1, <1>10, SMTT(30)
    <3> QED BY <3>1, <3>2, <2>2, <1>0, <1>12, SMTT(30)
  <2>4. 0 \in 0 .. z.ofs /\ z.ofs = 0 * WBUF_SIZE BY <2>1, <1>10, SMTT(30)
  <2>5. z.ofs + Len(z.wbuf) = Len(z.pkt_indices) * PKT_SIZE BY <2>1, <2>2, <1>10, <1>12, SMTT(30)
  <2>6. \A n \in z.ofs + 1 .. inst.erasesize : fl2[z.blk][n] = Blank
    <3>1. fl2[z.blk] = BlankBlock /\ z.ofs + 1 = 1 BY <1>9, <1>10, SMTT(30)
    <3> QED BY <3>1 DEF BlankBlock
  <2> QED BY <2>1, <2>2, <2>3, <2>4, <2>5, <2>6, <1>10, SMTT(30) DEF ParkedOK
<1>15. r2.total_pkts = r.total_pkts - Len(eb[b].pkt_indices) + Len(z.pkt_indices)
  BY <1>1, <1>4, <1>11, <1>12 DEF e
<1>16. r2.mtdoffset \in Nat /\ r2.mtdoffset >= r.mtdoffset /\ z.blk < r2.mtdoffset /\ z.blk >= r.mtdoffset
  BY <1>1, <1>3, <1>10, <1>11, SMTT(30)
<1>17. z.blk \notin inst.bad BY <1>3, <1>10
<1>18. \A x \in 0 .. inst.size - 1 : x # eb[b].blk /\ x # z.blk => fl2[x] = flash[x] BY <1>9 DEF e
<1>19. fl2[eb[b].blk] = BlankBlock BY <1>9 DEF e
<1>20. z \in EntryType /\ b \in Blocks /\ FlashType(fl2) BY <1>1, <1>9, <1>10
<1>21. /\ r2.nr_blocks = r.nr_blocks /\ r2.block_nr = r.block_nr /\ r2.rewrites = r.rewrites
       /\ r2.image_crc = r.image_crc
  BY <1>11
<1>22. RecvInv(r2, [eb EXCEPT ![b] = z], fl2)
  BY <1>0, <1>13, <1>14, <1>15, <1>16, <1>17, <1>18, <1>19, <1>20, <1>21, EntryKeeps, SMTT(30)
<1> QED BY <1>22 DEF b

(* DropPkt: one packet too many for a complete block.                        *)
LEMMA DropKeeps ==
  ASSUME OperatorFacts, inst \in Instances, NEW r, NEW eb, RecvInv(r, eb, flash), NEW b \in Blocks,
         eb[b].nr_pkts >= pkts_per_block, r.total_pkts \in Int
  PROVE  RecvInv(r, [eb EXCEPT ![b] = [eb[b] EXCEPT !.nr_pkts = pkts_per_block + 1]], flash)
<1> DEFINE e == eb[b]
           z == [e EXCEPT !.nr_pkts = pkts_per_block + 1]
<1>1. /\ e \in EntryType /\ e.blk \notin inst.bad /\ (inst.file_mode => e.blk = b)
      /\ e.blk < r.mtdoffset /\ r.mtdoffset \in Nat /\ FlashType(flash)
      /\ IndicesOK(r.image_crc, e) /\ ParkedOK(r.image_crc, b, e, flash)
  BY DEF RecvInv, PlacesOK
<1>2. pkts_per_block \in Nat \ {0} BY Sizes
<1>3. /\ z \in EntryType /\ z.blk = e.blk /\ z.ofs = e.ofs /\ z.wbuf = e.wbuf
      /\ z.pkt_indices = e.pkt_indices /\ z.crc = e.crc /\ z.nr_pkts = pkts_per_block + 1
  <2> HIDE DEF e
  <2>1. e \in EntryType BY <1>1 DEF e
  <2>2. z = [blk |-> e.blk, ofs |-> e.ofs, wbuf |-> e.wbuf, nr_pkts |-> pkts_per_block + 1,
             pkt_indices |-> e.pkt_indices, crc |-> e.crc]
    BY <2>1, SMTT(30) DEF EntryType
  <2> HIDE DEF z
  <2>3. pkts_per_block + 1 \in Nat BY <1>2, SMTT(30)
  <2>4. z \in EntryType BY <2>1, <2>2, <2>3 DEF EntryType
  <2> QED BY <2>2, <2>4
<1>4. Len(e.pkt_indices) = pkts_per_block /\ e.crc = r.image_crc
  BY <1>1, CompleteParked
<1> HIDE DEF z, e
<1>5. IndicesOK(r.image_crc, z)
  <2>1. /\ \A i \in 1 .. Len(e.pkt_indices) : e.pkt_indices[i] \in 0 .. total_pkts_per_block - 1
        /\ \A i, j \in 1 .. Len(e.pkt_indices) : e.pkt_indices[i] = e.pkt_indices[j] => i = j
    BY <1>1 DEF IndicesOK
  <2> QED BY <1>2, <1>3, <1>4, <2>1, SMTT(30) DEF IndicesOK
<1>6. ParkedOK(r.image_crc, b, z, flash) BY <1>1, <1>3 DEF ParkedOK
<1>7. r.total_pkts = r.total_pkts - Len(eb[b].pkt_indices) + Len(z.pkt_indices)
  BY <1>2, <1>3, <1>4, SMTT(30) DEF e
<1>8. z.blk \notin inst.bad /\ (inst.file_mode => z.blk = b) /\ z.blk = eb[b].blk /\ z.blk < r.mtdoffset
      /\ r.mtdoffset \in Nat /\ r.mtdoffset >= r.mtdoffset /\ z \in EntryType /\ FlashType(flash)
  BY <1>1, <1>3, SMTT(30) DEF e
<1>9. RecvInv(r, [eb EXCEPT ![b] = z], flash) BY <1>5, <1>6, <1>7, <1>8, EntryKeeps
<1> QED BY <1>9 DEF z, e

(* The table a packet meets, new or not.                                     *)
LEMMA TableIs ==
  ASSUME OperatorFacts, McInv, rcv.pc = "recv", NEW pkt, PktOK(pkt), NEW t, t = Table(pkt)
  PROVE  /\ DOMAIN t.rcv = RcvFields /\ t.rcv.pc = "recv" /\ t.rcv.faults = rcv.faults
         /\ t.rcv.rewrites = rcv.rewrites /\ t.rcv.nr_blocks = inst.nr_blocks
         /\ RecvInv(t.rcv, t.eb, flash) /\ t.rcv.total_pkts \in Int
         /\ OnlyNetwork => /\ t.ok /\ t.rcv.image_crc = pkt.totcrc
                           /\ \A b \in Blocks : t.eb[b].blk < inst.size
<1>1. inst \in Instances /\ McTypes BY DEF McInv, McTypes
<1>2. inst.nr_blocks \in Nat \ {0} BY <1>1, InstancesOK
<1>3. /\ DOMAIN t.rcv = RcvFields /\ t.rcv.pc = "recv" /\ t.rcv.faults = rcv.faults
      /\ RecvInv(t.rcv, t.eb, flash)
      /\ OnlyNetwork => t.ok /\ \A b \in Blocks : t.eb[b].blk < inst.size
  <2>1. CASE rcv.nr_blocks = 0
    <3>1. t = AllocEraseblocks(pkt) BY <2>1 DEF Table
    <3>2. Nothing /\ pkt.totcrc \in 1 .. inst.images BY <2>1 DEF McInv, PktOK
    <3> QED BY <2>1, <3>1, <3>2 DEF OperatorFacts, AllocFacts
  <2>2. CASE rcv.nr_blocks # 0
    <3>1. t.ok /\ t.rcv = rcv /\ t.eb = eraseblocks BY <2>2 DEF Table
    <3>2. rcv.nr_blocks > 0 BY <1>1, <1>2, <2>2, SMTT(30) DEF McTypes
    <3>3. DOMAIN rcv = RcvFields BY <1>1 DEF McTypes
    <3>4. RecvInv(rcv, eraseblocks, flash) BY <3>2 DEF McInv
    <3>5. OnlyNetwork => \A b \in Blocks : eraseblocks[b].blk < inst.size BY <3>2 DEF McInv, NetworkInv
    <3> QED BY <3>1, <3>3, <3>4, <3>5
  <2> QED BY <2>1, <2>2
<1>4. t.rcv.rewrites = rcv.rewrites
  <2>1. t.rcv.rewrites = inst.rewrites BY <1>3 DEF RecvInv
  <2>2. CASE rcv.nr_blocks = 0 BY <2>1, <2>2 DEF McInv, Nothing
  <2>3. CASE rcv.nr_blocks # 0 BY <2>3 DEF Table
  <2> QED BY <2>2, <2>3
<1>5. t.rcv.nr_blocks = inst.nr_blocks /\ t.rcv.image_crc \in 1 .. inst.images BY <1>3 DEF RecvInv
<1>6. OnlyNetwork => t.rcv.image_crc = pkt.totcrc
  <2> SUFFICES ASSUME OnlyNetwork PROVE t.rcv.image_crc = pkt.totcrc OBVIOUS
  <2>1. inst.images = 1 BY DEF OnlyNetwork
  <2> QED BY <2>1, <1>5, SMTT(30) DEF PktOK
<1>7. t.rcv.total_pkts \in Int
  <2>1. DOMAIN t.eb = Blocks /\ \A c \in Blocks : t.eb[c] \in EntryType BY <1>3 DEF RecvInv, PlacesOK
  <2>2. t.rcv.total_pkts = TotalPkts(t.eb) BY <1>3 DEF RecvInv
  <2> QED BY <2>1, <2>2 DEF OperatorFacts, CountFacts
<1> QED BY <1>3, <1>4, <1>5, <1>6, <1>7

(* What receiving a packet may do to the receiver.                           *)
Received ==
  /\ DOMAIN rcv' = RcvFields /\ rcv'.rewrites = rcv.rewrites /\ rcv'.faults \in 0 .. inst.faults
  /\ rcv'.pc \in {"recv", "decode", "failed"} /\ rcv'.nr_blocks \in {0, inst.nr_blocks}
  /\ rcv'.pc # "failed" => rcv'.nr_blocks = inst.nr_blocks
  /\ rcv'.nr_blocks = 0 => rcv' = Finish("failed") /\ rcv.nr_blocks = 0 /\ UNCHANGED <<eraseblocks, flash>>
  /\ rcv'.pc = "recv" => RecvInv(rcv, eraseblocks, flash)'
  /\ rcv'.pc = "decode" => WriteInv(rcv, eraseblocks, flash)'
  /\ OnlyNetwork =>
       /\ rcv'.pc # "failed"
       /\ \A b \in Blocks : eraseblocks'[b].blk < inst.size
       /\ rcv'.pc = "decode" => \A b \in Blocks : eraseblocks'[b].nr_pkts >= pkts_per_block

(* A packet that is held: collecting goes on or decoding starts.             *)
LEMMA HeldReceived ==
  ASSUME OperatorFacts, McInv, inst' = inst, NEW pkt, PktOK(pkt), NEW t, t = Table(pkt), rcv.pc = "recv",
         NEW r, DOMAIN r = RcvFields, r.pc = "recv", r.faults \in 0 .. inst.faults, r.rewrites = rcv.rewrites,
         NEW e, Held(r, t.eb, pkt, e), RecvInv(r, [t.eb EXCEPT ![pkt.block_nr] = Stored2(e, pkt)], flash'),
         OnlyNetwork => Stored2(e, pkt).blk < inst.size
  PROVE  Received
<1> DEFINE b == pkt.block_nr
           z == Stored2(e, pkt)
<1>0. inst \in Instances BY DEF McInv, McTypes
<1>1. /\ DOMAIN rcv' = RcvFields /\ rcv'.pc \in {"recv", "decode"}
      /\ rcv'.nr_blocks = inst.nr_blocks /\ rcv'.faults = r.faults /\ rcv'.rewrites = r.rewrites
      /\ rcv'.pc = "recv" => RecvInv(rcv, eraseblocks, flash)'
      /\ rcv'.pc = "decode" => WriteInv(rcv, eraseblocks, flash)'
      /\ rcv'.pc = "decode" => \A c \in Blocks : eraseblocks'[c].nr_pkts >= pkts_per_block
  BY <1>0, HeldKeeps
<1>2. eraseblocks' = [t.eb EXCEPT ![b] = z] BY DEF Held, Stored2
<1> HIDE DEF z, b
<1>3. OnlyNetwork => \A c \in Blocks : eraseblocks'[c].blk < inst.size
  <2>1. OnlyNetwork => \A c \in Blocks : t.eb[c].blk < inst.size BY TableIs
  <2>2. OnlyNetwork => z.blk < inst.size BY DEF z
  <2>3. DOMAIN t.eb = Blocks
    <3>1. RecvInv(t.rcv, t.eb, flash) BY TableIs
    <3> QED BY <3>1 DEF RecvInv, PlacesOK
  <2> QED BY <1>2, <2>1, <2>2, <2>3
<1>4. inst.nr_blocks # 0 BY <1>0, InstancesOK
<1> QED BY <1>1, <1>3, <1>4 DEF Received

(* The entry that BufferPkt and WritePkt make.                               *)
LEMMA TakesIs ==
  ASSUME OperatorFacts, NEW r, NEW eb, NEW pkt, Wanted(r, eb, pkt), NEW e, e = eb[pkt.block_nr], NEW ofs \in Nat,
         NEW wbuf \in Seq(Stored), NEW z,
         z = Stored2(Entry(e.blk, ofs, wbuf, e.nr_pkts + 1, IdxOf(e, pkt), e.crc), pkt)
  PROVE  Takes(e, pkt, z) /\ z.ofs = ofs /\ z.wbuf = wbuf
<1>1. pkt.pkt_nr \in Nat /\ pkt.totcrc \in Nat /\ e \in EntryType /\ pkt.block_nr \in Nat
      /\ ParkedOK(pkt.totcrc, pkt.block_nr, e, flash)
  BY WantedFacts
<1>2. IdxOf(e, pkt) \in Seq(Nat) BY <1>1, AllUnits
<1>3. PICK nr \in Nat : nr = e.nr_pkts + 1 BY <1>1, SMTT(30) DEF EntryType
<1>4. e.blk \in Nat /\ e.crc \in Nat BY <1>1 DEF EntryType
<1>5. z = Stored2(Entry(e.blk, ofs, wbuf, nr, IdxOf(e, pkt), e.crc), pkt) BY <1>3
<1>6. /\ z \in EntryType /\ z.blk = e.blk /\ z.ofs = ofs /\ z.wbuf = wbuf /\ z.nr_pkts = nr
      /\ z.pkt_indices = IdxOf(e, pkt) /\ (nr = pkts_per_block => z.crc = pkt.totcrc)
  <2>1. e.blk \in Nat BY <1>4
  <2>2. e.crc \in Nat BY <1>4
  <2>3. pkt.totcrc \in Nat BY <1>1
  <2>5. EntryIs(Stored2(Entry(e.blk, ofs, wbuf, nr, IdxOf(e, pkt), e.crc), pkt), e.blk, ofs, wbuf, nr, IdxOf(e, pkt), pkt)
    BY <1>2, <2>1, <2>2, <2>3, StoredIs
  <2>4. EntryIs(z, e.blk, ofs, wbuf, nr, IdxOf(e, pkt), pkt) BY <1>5, <2>5
  <2> QED BY <2>4 DEF EntryIs
<1> QED BY <1>3, <1>6 DEF Takes

(* BufferPkt.                                                                *)
LEMMA BufferReceived ==
  ASSUME OperatorFacts, McInv, inst' = inst, rcv.pc = "recv", NEW pkt, PktOK(pkt), NEW t, t = Table(pkt),
         Wanted(t.rcv, t.eb, pkt), BufferPkt(t, pkt)
  PROVE  Received
<1> DEFINE e == t.eb[pkt.block_nr]
           E == Entry(e.blk, e.ofs, AllOf(e, pkt), e.nr_pkts + 1, IdxOf(e, pkt), e.crc)
           r == [t.rcv EXCEPT !.total_pkts = t.rcv.total_pkts + 1]
           z == Stored2(E, pkt)
<1>1. Len(e.wbuf) + PKT_SIZE < WBUF_SIZE /\ flash' = flash BY DEF BufferPkt
<1>2. Held(r, t.eb, pkt, E) BY DEF BufferPkt, AllOf, IdxOf
<1>3. /\ DOMAIN t.rcv = RcvFields /\ t.rcv.pc = "recv" /\ t.rcv.faults = rcv.faults
      /\ t.rcv.rewrites = rcv.rewrites
      /\ OnlyNetwork => \A c \in Blocks : t.eb[c].blk < inst.size
  BY TableIs
<1>4. /\ DOMAIN r = RcvFields /\ r.pc = "recv" /\ r.faults = rcv.faults /\ r.rewrites = rcv.rewrites
      /\ OneMore(t.rcv, r)
  BY <1>3 DEF RcvFields, OneMore
<1> HIDE DEF e, E, r, z
<1>5. pkt.block_nr \in Blocks /\ pkt.pkt_nr \in Nat /\ pkt.totcrc \in Nat /\ e \in EntryType /\ pkt.block_nr \in Nat
      /\ ParkedOK(pkt.totcrc, pkt.block_nr, e, flash)
  BY WantedFacts DEF e
<1>6. e.ofs \in Nat /\ AllOf(e, pkt) \in Seq(Stored)
  <2>1. AllOf(e, pkt) \in Seq(Stored) BY <1>5, AllUnits
  <2> QED BY <1>5, <2>1 DEF EntryType
<1>7. Takes(e, pkt, z) /\ z.ofs = e.ofs /\ z.wbuf = AllOf(e, pkt) BY <1>6, TakesIs, SMTT(30) DEF z, E, e
<1>8. RecvInv(r, [t.eb EXCEPT ![pkt.block_nr] = z], flash) BY <1>1, <1>4, <1>7, BufferKeeps DEF e
<1>9. OnlyNetwork => z.blk < inst.size BY <1>3, <1>5, <1>7 DEF Takes, e
<1>10. rcv.faults \in 0 .. inst.faults BY DEF McInv, McTypes
<1> QED BY <1>1, <1>2, <1>4, <1>8, <1>9, <1>10, HeldReceived DEF z

(* WritePkt.                                                                 *)
LEMMA WriteReceived ==
  ASSUME OperatorFacts, McInv, inst' = inst, rcv.pc = "recv", NEW pkt, PktOK(pkt), NEW t, t = Table(pkt),
         Wanted(t.rcv, t.eb, pkt), WritePkt(t, pkt)
  PROVE  Received
<1> DEFINE e == t.eb[pkt.block_nr]
           all == AllOf(e, pkt)
           rest == SubSeq(all, WBUF_SIZE + 1, Len(all))
           ofs == e.ofs + WBUF_SIZE
           E == Entry(e.blk, ofs, rest, e.nr_pkts + 1, IdxOf(e, pkt), e.crc)
           r == [t.rcv EXCEPT !.total_pkts = t.rcv.total_pkts + 1]
           z == Stored2(E, pkt)
<1>1. /\ Len(e.wbuf) + PKT_SIZE >= WBUF_SIZE /\ e.blk < inst.size
      /\ flash' = Programmed(flash, e.blk, e.ofs, SubSeq(all, 1, WBUF_SIZE))
  BY DEF WritePkt, AllOf
<1>2. Held(r, t.eb, pkt, E) BY DEF WritePkt, AllOf, IdxOf
<1>3. /\ DOMAIN t.rcv = RcvFields /\ t.rcv.pc = "recv" /\ t.rcv.faults = rcv.faults
      /\ t.rcv.rewrites = rcv.rewrites
      /\ OnlyNetwork => \A c \in Blocks : t.eb[c].blk < inst.size
  BY TableIs
<1>4. /\ DOMAIN r = RcvFields /\ r.pc = "recv" /\ r.faults = rcv.faults /\ r.rewrites = rcv.rewrites
      /\ OneMore(t.rcv, r)
  BY <1>3 DEF RcvFields, OneMore
<1> HIDE DEF e, E, r, z, all, rest, ofs
<1>5. pkt.block_nr \in Blocks /\ pkt.pkt_nr \in Nat /\ pkt.totcrc \in Nat /\ e \in EntryType /\ pkt.block_nr \in Nat
      /\ ParkedOK(pkt.totcrc, pkt.block_nr, e, flash)
  BY WantedFacts DEF e
<1>6. ofs \in Nat /\ rest \in Seq(Stored)
  <2>1. all \in Seq(Stored) BY <1>5, AllUnits DEF all
  <2>2. WBUF_SIZE \in Nat /\ e.ofs \in Nat /\ Len(all) \in Nat BY <1>5, <2>1, SizesOK, SMTT(30) DEF EntryType
  <2>3. \A i \in WBUF_SIZE + 1 .. Len(all) : all[i] \in Stored BY <2>1, <2>2, SMTT(30)
  <2>4. rest \in Seq(Stored) BY <2>1, <2>2, <2>3, PartOfSequence, SMTT(30) DEF rest
  <2> QED BY <2>2, <2>4, SMTT(30) DEF ofs
<1>7. Takes(e, pkt, z) /\ z.ofs = ofs /\ z.wbuf = rest BY <1>6, TakesIs, SMTT(30) DEF z, E, e
<1>8. Flushes(e, pkt, z) BY <1>1, <1>7 DEF Flushes, rest, ofs, all
<1>9. RecvInv(r, [t.eb EXCEPT ![pkt.block_nr] = z], flash')
  BY <1>1, <1>4, <1>7, <1>8, WriteKeeps DEF e, all
<1>10. OnlyNetwork => z.blk < inst.size BY <1>3, <1>5, <1>7 DEF Takes, e
<1>11. rcv.faults \in 0 .. inst.faults BY DEF McInv, McTypes
<1> QED BY <1>2, <1>4, <1>9, <1>10, <1>11, HeldReceived DEF z

(* MovePkt.                                                                  *)
LEMMA MoveReceived ==
  ASSUME OperatorFacts, McInv, inst' = inst, rcv.pc = "recv", NEW pkt, PktOK(pkt), NEW t, t = Table(pkt),
         Wanted(t.rcv, t.eb, pkt), MovePkt(t, pkt)
  PROVE  Received
<1> DEFINE e == t.eb[pkt.block_nr]
           new == SkipBad(t.rcv.mtdoffset)
           E == Entry(new, 0, Data(pkt), 1, <<pkt.pkt_nr>>, e.crc)
           r == [t.rcv EXCEPT !.total_pkts = t.rcv.total_pkts - e.nr_pkts + 1,
                              !.mtdoffset = new + 1, !.faults = t.rcv.faults - 1]
           z == Stored2(E, pkt)
<1>0. inst \in Instances /\ rcv.faults \in 0 .. inst.faults BY DEF McInv, McTypes
<1>1. inst.faults \in Nat /\ inst.nr_blocks \in Nat \ {0} BY <1>0, InstancesOK
<1>2. /\ DOMAIN t.rcv = RcvFields /\ t.rcv.pc = "recv" /\ t.rcv.faults = rcv.faults
      /\ t.rcv.rewrites = rcv.rewrites /\ t.rcv.nr_blocks = inst.nr_blocks
      /\ OnlyNetwork => \A c \in Blocks : t.eb[c].blk < inst.size
  BY TableIs
<1>3. /\ pkt.block_nr \in Blocks /\ pkt.block_nr \in Nat /\ pkt.pkt_nr \in Nat /\ pkt.totcrc \in Nat
      /\ e \in EntryType /\ t.rcv.mtdoffset \in Nat
  BY WantedFacts
<1>4. ~OnlyNetwork
  <2> SUFFICES ASSUME OnlyNetwork PROVE FALSE OBVIOUS
  <2>1. inst.faults = 0 /\ inst.size \in Nat BY <1>0, InstancesOK DEF OnlyNetwork
  <2>2. ~(t.rcv.faults > 0) BY <2>1, <1>0, <1>2, SMTT(30)
  <2>3. e.blk < inst.size /\ e.blk \in Nat BY <1>2, <1>3 DEF EntryType
  <2>4. ~(e.blk >= inst.size) BY <2>1, <2>3, SMTT(30)
  <2> QED BY <2>2, <2>4 DEF MovePkt
<1>5. CASE rcv' = [t.rcv EXCEPT !.pc = "failed"]
  <2>1. /\ DOMAIN rcv' = RcvFields /\ rcv'.pc = "failed" /\ rcv'.faults = rcv.faults
        /\ rcv'.rewrites = rcv.rewrites /\ rcv'.nr_blocks = inst.nr_blocks
    BY <1>2, <1>5 DEF RcvFields
  <2> QED BY <2>1, <1>0, <1>1, <1>4 DEF Received
<1>6. CASE /\ ~inst.file_mode /\ e.blk < inst.size /\ t.rcv.faults > 0 /\ new < inst.size
           /\ flash' = Erased(flash, e.blk) /\ Held(r, t.eb, pkt, E)
  <2>1. /\ DOMAIN r = RcvFields /\ r.pc = "recv" /\ r.faults = rcv.faults - 1 /\ r.rewrites = rcv.rewrites
        /\ r.total_pkts = t.rcv.total_pkts - e.nr_pkts + 1 /\ r.mtdoffset = new + 1
        /\ r.nr_blocks = t.rcv.nr_blocks /\ r.block_nr = t.rcv.block_nr /\ r.image_crc = t.rcv.image_crc
    BY <1>2 DEF RcvFields
  <2>2. r.faults \in 0 .. inst.faults BY <2>1, <1>0, <1>1, <1>2, <1>6, SMTT(30)
  <2> HIDE DEF r
  <2>3. new \in Nat BY <1>0, <1>3 DEF OperatorFacts, PlaceFacts
  <2>4. /\ z \in EntryType /\ z.blk = new /\ z.ofs = 0 /\ z.wbuf = Data(pkt) /\ z.nr_pkts = 1
        /\ z.pkt_indices = <<pkt.pkt_nr>> /\ (z.nr_pkts = pkts_per_block => z.crc = pkt.totcrc)
    <3>1. Data(pkt) \in Seq(Stored) BY <1>3, DataIs
    <3>2. <<pkt.pkt_nr>> \in Seq(Nat) BY <1>3, SMTT(30)
    <3>3. e.crc \in Nat BY <1>3 DEF EntryType
    <3>4. 0 \in Nat /\ 1 \in Nat OBVIOUS
    <3>5. pkt.totcrc \in Nat BY <1>3
    <3> HIDE DEF new, e
    <3>6. PICK o \in Nat : o = 0 BY <3>4
    <3>7. PICK nr \in Nat : nr = 1 BY <3>4
    <3>8. z = Stored2(Entry(new, o, Data(pkt), nr, <<pkt.pkt_nr>>, e.crc), pkt) BY <3>6, <3>7
    <3> HIDE DEF z
    <3>9. EntryIs(z, new, o, Data(pkt), nr, <<pkt.pkt_nr>>, pkt)
      BY <2>3, <3>1, <3>2, <3>3, <3>5, <3>8, StoredIs
    <3> QED BY <3>6, <3>7, <3>9 DEF EntryIs
  <2> HIDE DEF z
  <2>5. Moves(t.rcv, e, pkt, z, new, r) BY <2>1, <2>4, <1>2 DEF Moves
  <2>6. RecvInv(r, [t.eb EXCEPT ![pkt.block_nr] = z], flash')
    BY <1>6, <2>5, MoveKeeps
  <2> HIDE DEF E
  <2>7. RecvInv(r, [t.eb EXCEPT ![pkt.block_nr] = Stored2(E, pkt)], flash') BY <2>6 DEF z
  <2> QED BY <1>4, <1>6, <2>1, <2>2, <2>7, HeldReceived
<1> QED BY <1>5, <1>6 DEF MovePkt

(* One turn of the receive loop of recv_image.                               *)
LEMMA ReceiveIs ==
  ASSUME OperatorFacts, McInv, NEW pkt, PktOK(pkt), Receive(pkt)
  PROVE  Received
<1> DEFINE t == Table(pkt)
           b == pkt.block_nr
           e == t.eb[b]
<1>0. inst \in Instances /\ inst' = inst /\ rcv.pc = "recv" /\ rcv.faults \in 0 .. inst.faults
      /\ DOMAIN rcv = RcvFields /\ rcv.nr_blocks \in {0, inst.nr_blocks}
  BY DEF McInv, McTypes, Receive
<1>1. /\ DOMAIN t.rcv = RcvFields /\ t.rcv.pc = "recv" /\ t.rcv.faults = rcv.faults
      /\ t.rcv.rewrites = rcv.rewrites /\ t.rcv.nr_blocks = inst.nr_blocks
      /\ RecvInv(t.rcv, t.eb, flash) /\ t.rcv.total_pkts \in Int
      /\ OnlyNetwork => /\ t.ok /\ t.rcv.image_crc = pkt.totcrc
                        /\ \A c \in Blocks : t.eb[c].blk < inst.size
  BY <1>0, TableIs
<1>2. IF ~t.ok \/ t.rcv.image_crc # pkt.totcrc
      THEN rcv' = Finish("failed") /\ UNCHANGED <<eraseblocks, flash>>
      ELSE IF Dropped(e, pkt) THEN DropPkt(t, pkt)
      ELSE BufferPkt(t, pkt) \/ WritePkt(t, pkt) \/ MovePkt(t, pkt)
  BY DEF Receive
<1>3. b \in Blocks /\ inst.nr_blocks \in Nat \ {0} BY <1>0, InstancesOK DEF PktOK
<1> HIDE DEF t
<1>4. CASE (~t.ok \/ t.rcv.image_crc # pkt.totcrc) /\ rcv' = Finish("failed") /\ UNCHANGED <<eraseblocks, flash>>
  <2>1. /\ rcv'.pc = "failed" /\ DOMAIN rcv' = RcvFields /\ rcv'.rewrites = rcv.rewrites
        /\ rcv'.faults = rcv.faults /\ rcv'.nr_blocks = rcv.nr_blocks
    BY <1>0, <1>4 DEF Finish, RcvFields
  <2>2. ~OnlyNetwork BY <1>1, <1>4
  <2> QED BY <2>1, <2>2, <1>0, <1>4 DEF Received
<1>5. CASE DropPkt(t, pkt)
  <2>1. rcv' = t.rcv /\ flash' = flash BY <1>5 DEF DropPkt
  <2>2. RecvInv(t.rcv, eraseblocks', flash) /\ \A c \in Blocks : eraseblocks'[c].blk = t.eb[c].blk
    <3>1. CASE eraseblocks' = t.eb BY <3>1, <1>1
    <3>2. CASE eraseblocks' = [t.eb EXCEPT ![b] = [e EXCEPT !.nr_pkts = pkts_per_block + 1]]
               /\ e.nr_pkts >= pkts_per_block
      <4>1. RecvInv(t.rcv, eraseblocks', flash) BY <1>0, <1>1, <1>3, <3>2, DropKeeps
      <4>2. DOMAIN t.eb = Blocks /\ \A c \in Blocks : t.eb[c] \in EntryType BY <1>1 DEF RecvInv, PlacesOK
      <4>3. [e EXCEPT !.nr_pkts = pkts_per_block + 1].blk = e.blk BY <4>2, <1>3 DEF EntryType
      <4>4. \A c \in Blocks : eraseblocks'[c].blk = t.eb[c].blk BY <3>2, <4>2, <4>3
      <4> QED BY <4>1, <4>4
    <3> QED BY <1>5, <3>1, <3>2 DEF DropPkt
  <2>3. RecvInv(rcv, eraseblocks, flash)' BY <1>0, <2>1, <2>2, RecvInvNext
  <2>4. OnlyNetwork => \A c \in Blocks : eraseblocks'[c].blk < inst.size BY <1>1, <2>2
  <2> QED BY <1>0, <1>1, <1>3, <2>1, <2>3, <2>4 DEF Received
<1>6. ASSUME t.rcv.image_crc = pkt.totcrc, ~Dropped(e, pkt) PROVE Wanted(t.rcv, t.eb, pkt)
  BY <1>0, <1>1, <1>6 DEF Wanted
<1>7. CASE t.rcv.image_crc = pkt.totcrc /\ ~Dropped(e, pkt) /\ BufferPkt(t, pkt)
  <2>1. Wanted(t.rcv, t.eb, pkt) BY <1>6, <1>7
  <2> QED BY <1>0, <1>7, <2>1, BufferReceived DEF t
<1>8. CASE t.rcv.image_crc = pkt.totcrc /\ ~Dropped(e, pkt) /\ WritePkt(t, pkt)
  <2>1. Wanted(t.rcv, t.eb, pkt) BY <1>6, <1>8
  <2> QED BY <1>0, <1>8, <2>1, WriteReceived DEF t
<1>9. CASE t.rcv.image_crc = pkt.totcrc /\ ~Dropped(e, pkt) /\ MovePkt(t, pkt)
  <2>1. Wanted(t.rcv, t.eb, pkt) BY <1>6, <1>9
  <2> QED BY <1>0, <1>9, <2>1, MoveReceived DEF t
<1>10. CASE ~t.ok \/ t.rcv.image_crc # pkt.totcrc BY <1>2, <1>4, <1>10
<1>11. CASE t.ok /\ t.rcv.image_crc = pkt.totcrc BY <1>2, <1>5, <1>7, <1>8, <1>9, <1>11
<1> QED BY <1>10, <1>11

SrvType == [block_nr : Blocks, pkt_nr : 0 .. total_pkts_per_block - 1, writeerrors : Nat,
            up : BOOLEAN, image : 1 .. inst.images]

(* The server's position stays in the cycle, and it sends packets of it.     *)
LEMMA ServerIs ==
  ASSUME inst \in Instances, srv \in SrvType
  PROVE  /\ Advanced(srv) \in SrvType
         /\ \A intact \in BOOLEAN : PktOK(ThisPkt(intact))
<1> DEFINE n == total_pkts_per_block
           N == inst.nr_blocks
<1>1. n \in Nat \ {0} /\ N \in Nat \ {0} BY Sizes, InstancesOK, SMTT(30)
<1>2. /\ srv.block_nr \in 0 .. N - 1 /\ srv.pkt_nr \in 0 .. n - 1 /\ srv.writeerrors \in Nat
      /\ srv.up \in BOOLEAN /\ srv.image \in 1 .. inst.images
  BY DEF SrvType, Blocks
<1>3. Advanced(srv) \in SrvType
  <2>1. CASE srv.block_nr + 1 < N
    <3>1. Advanced(srv) = [srv EXCEPT !.block_nr = srv.block_nr + 1] BY <2>1 DEF Advanced
    <3>2. srv.block_nr + 1 \in 0 .. N - 1 BY <1>1, <1>2, <2>1, SMTT(30)
    <3> QED BY <3>1, <3>2 DEF SrvType, Blocks
  <2>2. CASE ~(srv.block_nr + 1 < N)
    <3>1. Advanced(srv) = [srv EXCEPT !.block_nr = 0, !.pkt_nr = (srv.pkt_nr + 1) % n] BY <2>2 DEF Advanced
    <3> HIDE DEF n
    <3>2. PICK q \in 0 .. n - 1 : q = (srv.pkt_nr + 1) % n BY <1>1, <1>2, SMTT(30)
    <3>3. Advanced(srv) = [srv EXCEPT !.block_nr = 0, !.pkt_nr = q] BY <3>1, <3>2
    <3>4. 0 \in 0 .. N - 1 BY <1>1, SMTT(30)
    <3> QED BY <3>3, <3>4 DEF SrvType, Blocks, n
  <2> QED BY <2>1, <2>2
<1>4. actualpkt \in 0 .. n - 1
  <2>1. actualpkt = srv.pkt_nr \/ actualpkt = n - 1 - srv.pkt_nr BY DEF actualpkt
  <2> HIDE DEF n
  <2> QED BY <2>1, <1>1, <1>2, SMTT(30)
<1>5. ASSUME NEW intact \in BOOLEAN PROVE PktOK(ThisPkt(intact))
  <2>1. /\ ThisPkt(intact).totcrc = srv.image /\ ThisPkt(intact).block_nr = srv.block_nr
        /\ ThisPkt(intact).pkt_nr = actualpkt /\ ThisPkt(intact).intact = intact
    BY DEF ThisPkt
  <2> QED BY <2>1, <1>2, <1>4 DEF PktOK, Blocks
<1> QED BY <1>3, <1>5

(* A step of the server alone.                                               *)
LEMMA ServerAlone ==
  ASSUME McInv, UNCHANGED <<inst, rcv, eraseblocks, flash>>, srv' \in SrvType
  PROVE  McInv'
<1>1. McTypes' BY DEF McInv, McTypes, SrvType, Blocks, total_pkts_per_block, pkts_per_block
<1>2. (rcv.nr_blocks = 0 => Nothing)' BY DEF McInv, Nothing, BlankBlock
<1>3. (rcv.nr_blocks > 0 /\ rcv.pc = "recv" => RecvInv(rcv, eraseblocks, flash))'
  <2>1. rcv.nr_blocks > 0 /\ rcv.pc = "recv" => RecvInv(rcv', eraseblocks', flash') BY DEF McInv
  <2> QED BY <2>1, RecvInvNext
<1>4. (rcv.nr_blocks > 0 /\ rcv.pc \in {"decode", "write", "done"} /\ Rewritten <= 1 =>
         WriteInv(rcv, eraseblocks, flash))'
  <2>1. rcv.nr_blocks > 0 /\ rcv.pc \in {"decode", "write", "done"} /\ Rewritten <= 1 =>
          WriteInv(rcv', eraseblocks', flash')
    BY DEF McInv
  <2>2. Rewritten' = Rewritten BY DEF Rewritten
  <2> QED BY <2>1, <2>2, WriteInvNext
<1>5. (OnlyNetwork => NetworkInv)'
  BY DEF McInv, OnlyNetwork, NetworkInv, Blocks, pkts_per_block
<1> QED BY <1>1, <1>2, <1>3, <1>4, <1>5 DEF McInv

(* serve_image sends, fails to send, or is started again.                    *)
LEMMA ServerPreserves ==
  ASSUME McInv, Send \/ SendFails \/ ServeOther
  PROVE  McInv'
<1>1. inst \in Instances /\ srv \in SrvType BY DEF McInv, McTypes, SrvType
<1>2. Advanced(srv) \in SrvType BY <1>1, ServerIs
<1>3. CASE Send
  <2>1. srv' = [Advanced(srv) EXCEPT !.writeerrors = 0] BY <1>3 DEF Send
  <2>2. srv' \in SrvType BY <1>2, <2>1 DEF SrvType
  <2> QED BY <1>3, <2>2, ServerAlone DEF Send
<1>4. CASE SendFails
  <2> DEFINE w == srv.writeerrors + 1
             u == w <= MaxErrors
  <2>1. srv' = [Advanced(srv) EXCEPT !.writeerrors = w, !.up = u] BY <1>4 DEF SendFails
  <2>2. w \in Nat /\ u \in BOOLEAN BY <1>1, SMTT(30) DEF SrvType
  <2> HIDE DEF w, u
  <2>3. srv' \in SrvType BY <1>2, <2>1, <2>2 DEF SrvType
  <2> QED BY <1>4, <2>3, ServerAlone DEF SendFails
<1>5. CASE ServeOther
  <2>1. inst.images \in Nat /\ 0 \in Blocks BY <1>1, InstancesOK, BlocksFacts
  <2>2. srv.image + 1 \in 1 .. inst.images BY <1>1, <1>5, <2>1, SMTT(30) DEF SrvType, ServeOther
  <2>3. 0 \in 0 .. total_pkts_per_block - 1 BY <1>1, Sizes, SMTT(30)
  <2>4. srv' \in SrvType BY <1>5, <2>1, <2>2, <2>3 DEF SrvType, ServeOther
  <2> QED BY <1>5, <2>4, ServerAlone DEF ServeOther
<1> QED BY <1>3, <1>4, <1>5

(* recv_image receives a packet.                                             *)
LEMMA ReceivePreserves ==
  ASSUME OperatorFacts, McInv, NEW intact \in BOOLEAN, Receive(ThisPkt(intact))
  PROVE  McInv'
<1>1. inst \in Instances /\ srv \in SrvType BY DEF McInv, McTypes, SrvType
<1>2. Advanced(srv) \in SrvType /\ PktOK(ThisPkt(intact)) BY <1>1, ServerIs
<1>3. inst' = inst /\ srv' = [Advanced(srv) EXCEPT !.writeerrors = 0] BY DEF Receive
<1>4. srv' \in SrvType BY <1>2, <1>3 DEF SrvType
<1>5. Received BY <1>2, ReceiveIs
<1>6. /\ DOMAIN rcv' = RcvFields /\ rcv'.rewrites = rcv.rewrites /\ rcv'.faults \in 0 .. inst.faults
      /\ rcv'.pc \in {"recv", "decode", "failed"} /\ rcv'.nr_blocks \in {0, inst.nr_blocks}
  BY <1>5 DEF Received
<1>7. rcv.rewrites \in 0 .. inst.rewrites BY DEF McInv, McTypes
<1>8. McTypes'
  BY <1>1, <1>3, <1>4, <1>6, <1>7 DEF McTypes, SrvType, Blocks, total_pkts_per_block, pkts_per_block
<1>9. (rcv.nr_blocks = 0 => Nothing)'
  <2> SUFFICES ASSUME rcv'.nr_blocks = 0 PROVE Nothing' OBVIOUS
  <2>1. rcv' = Finish("failed") /\ rcv.nr_blocks = 0 /\ UNCHANGED <<eraseblocks, flash>> BY <1>5 DEF Received
  <2>2. Nothing /\ DOMAIN rcv = RcvFields BY <2>1 DEF McInv, McTypes
  <2>3. /\ rcv'.pc = "failed" /\ rcv'.block_nr = rcv.block_nr /\ rcv'.mtdoffset = rcv.mtdoffset
        /\ rcv'.total_pkts = rcv.total_pkts
    BY <2>1, <2>2 DEF Finish, RcvFields
  <2> QED BY <1>3, <1>6, <2>1, <2>2, <2>3 DEF Nothing, BlankBlock
<1>10. (rcv.nr_blocks > 0 /\ rcv.pc = "recv" => RecvInv(rcv, eraseblocks, flash))' BY <1>5 DEF Received
<1>11. (rcv.nr_blocks > 0 /\ rcv.pc \in {"decode", "write", "done"} /\ Rewritten <= 1 =>
          WriteInv(rcv, eraseblocks, flash))'
  BY <1>5, <1>6 DEF Received
<1>12. (OnlyNetwork => NetworkInv)'
  BY <1>3, <1>5, <1>6 DEF Received, OnlyNetwork, NetworkInv, Blocks, pkts_per_block
<1> QED BY <1>8, <1>9, <1>10, <1>11, <1>12 DEF McInv

(* A step of recv_image that receives nothing: what has to be shown.         *)
LEMMA ReceiverAlone ==
  ASSUME McInv, UNCHANGED <<inst, srv>>, DOMAIN rcv' = RcvFields,
         rcv'.pc \in {"decode", "write", "done", "failed"},
         rcv'.nr_blocks = rcv.nr_blocks, rcv'.faults = rcv.faults, rcv'.rewrites \in 0 .. inst.rewrites,
         rcv'.nr_blocks = 0 => Nothing',
         rcv'.nr_blocks > 0 /\ rcv'.pc # "failed" /\ Rewritten' <= 1 => WriteInv(rcv', eraseblocks', flash'),
         OnlyNetwork => NetworkInv'
  PROVE  McInv'
<1>1. McTypes' BY DEF McInv, McTypes, Blocks, total_pkts_per_block, pkts_per_block
<1>2. (rcv.nr_blocks > 0 /\ rcv.pc \in {"decode", "write", "done"} /\ Rewritten <= 1 =>
         WriteInv(rcv, eraseblocks, flash))'
  BY WriteInvNext
<1>3. OnlyNetwork' = OnlyNetwork BY DEF OnlyNetwork
<1> QED BY <1>1, <1>2, <1>3 DEF McInv

(* read() fails.                                                             *)
LEMMA ReadFailsPreserves ==
  ASSUME McInv, ReadFails
  PROVE  McInv'
<1>1. /\ rcv.pc = "recv" /\ inst.errors /\ UNCHANGED <<inst, srv, eraseblocks, flash>>
      /\ rcv' = Finish(IF rcv.nr_blocks = 0 THEN "done" ELSE "decode")
  BY DEF ReadFails
<1>2. /\ inst \in Instances /\ DOMAIN rcv = RcvFields /\ rcv.nr_blocks \in {0, inst.nr_blocks}
      /\ rcv.rewrites \in 0 .. inst.rewrites /\ inst.nr_blocks \in Nat \ {0}
  BY InstancesOK DEF McInv, McTypes
<1>3. /\ rcv'.pc = (IF rcv.nr_blocks = 0 THEN "done" ELSE "decode") /\ DOMAIN rcv' = RcvFields
      /\ rcv'.nr_blocks = rcv.nr_blocks /\ rcv'.block_nr = rcv.block_nr /\ rcv'.image_crc = rcv.image_crc
      /\ rcv'.mtdoffset = rcv.mtdoffset /\ rcv'.total_pkts = rcv.total_pkts
      /\ rcv'.faults = rcv.faults /\ rcv'.rewrites = rcv.rewrites
  BY <1>1, <1>2 DEF Finish, RcvFields
<1>4. ~OnlyNetwork BY <1>1 DEF OnlyNetwork
<1>5. rcv'.nr_blocks = 0 => Nothing' BY <1>1, <1>3 DEF McInv, Nothing, BlankBlock
<1>6. rcv'.nr_blocks > 0 => WriteInv(rcv', eraseblocks', flash')
  <2> SUFFICES ASSUME rcv'.nr_blocks > 0 PROVE WriteInv(rcv', eraseblocks', flash') OBVIOUS
  <2>1. RecvInv(rcv, eraseblocks, flash) BY <1>1, <1>3 DEF McInv
  <2>2. RecvInv(rcv', eraseblocks', flash') BY <1>1, <1>3, <2>1 DEF RecvInv
  <2>3. rcv'.pc = "decode" BY <1>2, <1>3, SMTT(30)
  <2> QED BY <1>2, <2>2, <2>3, RecvToWrite
<1> QED BY <1>1, <1>2, <1>3, <1>4, <1>5, <1>6, ReceiverAlone

(* What is known of the block that is being decoded or written.              *)
LEMMA CurrentBlock ==
  ASSUME McInv, rcv.pc \in {"decode", "write"}
  PROVE  /\ inst \in Instances /\ DOMAIN rcv = RcvFields /\ rcv.nr_blocks = inst.nr_blocks
         /\ inst.nr_blocks \in Nat \ {0} /\ inst.size \in Nat /\ inst.rewrites \in Nat
         /\ rcv.rewrites \in 0 .. inst.rewrites
         /\ Rewritten <= 1 => WriteInv(rcv, eraseblocks, flash)
         /\ OnlyNetwork => Rewritten <= 1 /\ NetworkInv
<1>1. /\ inst \in Instances /\ DOMAIN rcv = RcvFields /\ rcv.nr_blocks \in {0, inst.nr_blocks}
      /\ rcv.rewrites \in 0 .. inst.rewrites
  BY DEF McInv, McTypes
<1>2. inst.nr_blocks \in Nat \ {0} /\ inst.size \in Nat /\ inst.rewrites \in Nat BY <1>1, InstancesOK
<1>3. rcv.nr_blocks = inst.nr_blocks BY <1>1 DEF McInv, Nothing
<1>4. Rewritten <= 1 => WriteInv(rcv, eraseblocks, flash) BY <1>2, <1>3, SMTT(30) DEF McInv
<1>5. OnlyNetwork => Rewritten <= 1 /\ NetworkInv BY <1>1, <1>2, SMTT(30) DEF McInv, OnlyNetwork, Rewritten
<1> QED BY <1>1, <1>2, <1>3, <1>4, <1>5

(* WriteInv of the blocks other than the current one, when only the place of *)
(* the current one changes.                                                  *)
LEMMA OthersKeep ==
  ASSUME inst \in Instances, NEW r, NEW eb, NEW fl, NEW fl2, WriteInv(r, eb, fl), r.pc \in {"decode", "write"},
         \A y \in 0 .. inst.size - 1 : y # eb[r.block_nr].blk => fl2[y] = fl[y],
         NEW c \in Blocks, c # r.block_nr
  PROVE  IF c > r.block_nr
         THEN IndicesOK(r.image_crc, eb[c]) /\ ParkedOK(r.image_crc, c, eb[c], fl2)
         ELSE eb[c].blk < inst.size /\ fl2[eb[c].blk] = Block(r.image_crc, c)
<1>1. /\ r.block_nr \in Blocks /\ PlacesOK(eb)
      /\ IF c > r.block_nr \/ (c = r.block_nr /\ r.pc = "decode")
         THEN IndicesOK(r.image_crc, eb[c]) /\ ParkedOK(r.image_crc, c, eb[c], fl)
         ELSE /\ eb[c].blk < inst.size
              /\ c < r.block_nr \/ r.pc = "done" => fl[eb[c].blk] = Block(r.image_crc, c)
  BY DEF WriteInv
<1>2. eb[c] \in EntryType /\ eb[c].blk \in Nat /\ eb[c].blk # eb[r.block_nr].blk
  BY <1>1 DEF PlacesOK, EntryType
<1>3. inst.size \in Nat BY InstancesOK
<1>4. eb[c].blk < inst.size => fl2[eb[c].blk] = fl[eb[c].blk] BY <1>2, <1>3, SMTT(30)
<1>5. c \in Nat /\ r.block_nr \in Nat BY <1>1, BlocksFacts
<1>6. CASE c > r.block_nr
  <2>1. IndicesOK(r.image_crc, eb[c]) /\ ParkedOK(r.image_crc, c, eb[c], fl) BY <1>1, <1>6
  <2>2. ParkedOK(r.image_crc, c, eb[c], fl) BY <2>1
  <2>3. ParkedOK(r.image_crc, c, eb[c], fl2) BY <1>2, <1>4, <2>2, ParkedSame
  <2> QED BY <1>6, <2>1, <2>3
<1>7. CASE c < r.block_nr BY <1>1, <1>4, <1>5, <1>7, SMTT(30)
<1> QED BY <1>5, <1>6, <1>7, SMTT(30)

(* A block is decoded.                                                       *)
LEMMA DecodePreserves ==
  ASSUME OperatorFacts, McInv, DecodeBlock
  PROVE  McInv'
<1> DEFINE b == rcv.block_nr
           e == eraseblocks[b]
           d == Decoded(e)
           buf == DecodeBuf(d.pkt)
           good == ~d.err /\ buf = Block(e.crc, b)
<1>1. rcv.pc = "decode" /\ UNCHANGED <<inst, srv, eraseblocks>> BY DEF DecodeBlock
<1>2. /\ inst \in Instances /\ DOMAIN rcv = RcvFields /\ rcv.nr_blocks = inst.nr_blocks
      /\ inst.nr_blocks \in Nat \ {0} /\ inst.size \in Nat /\ rcv.rewrites \in 0 .. inst.rewrites
      /\ Rewritten <= 1 => WriteInv(rcv, eraseblocks, flash)
      /\ OnlyNetwork => Rewritten <= 1 /\ NetworkInv
  BY <1>1, CurrentBlock
<1>3. \/ /\ e.nr_pkts >= pkts_per_block
         /\ rcv' = [rcv EXCEPT !.pc = IF good THEN "write" ELSE "failed", !.decode_buf = buf]
         /\ flash' = IF inst.file_mode \/ ~good THEN flash ELSE Erased(flash, e.blk)
      \/ /\ e.nr_pkts < pkts_per_block \/ inst.errors
         /\ rcv' = Finish("failed") /\ UNCHANGED flash
  BY DEF DecodeBlock, Decoded, Indices
<1> HIDE DEF good, buf, d
<1>4. CASE /\ e.nr_pkts >= pkts_per_block
           /\ rcv' = [rcv EXCEPT !.pc = IF good THEN "write" ELSE "failed", !.decode_buf = buf]
           /\ flash' = IF inst.file_mode \/ ~good THEN flash ELSE Erased(flash, e.blk)
  <2>1. /\ DOMAIN rcv' = RcvFields /\ rcv'.pc = (IF good THEN "write" ELSE "failed") /\ rcv'.decode_buf = buf
        /\ rcv'.nr_blocks = rcv.nr_blocks /\ rcv'.block_nr = rcv.block_nr /\ rcv'.image_crc = rcv.image_crc
        /\ rcv'.mtdoffset = rcv.mtdoffset /\ rcv'.faults = rcv.faults /\ rcv'.rewrites = rcv.rewrites
    BY <1>2, <1>4 DEF RcvFields
  <2>2. Rewritten' = Rewritten BY <1>1, <2>1 DEF Rewritten
  <2>3. ASSUME Rewritten <= 1 PROVE good /\ WriteInv(rcv', eraseblocks', flash')
    <3>1. WriteInv(rcv, eraseblocks, flash) BY <1>2, <2>3
    <3>2. /\ b \in Blocks /\ rcv.image_crc \in 1 .. inst.images /\ PlacesOK(eraseblocks) /\ FlashType(flash)
          /\ FreeBlank(eraseblocks, flash) /\ rcv.mtdoffset \in Nat
          /\ rcv.rewrites = inst.rewrites => \A c \in Blocks : eraseblocks[c].blk < rcv.mtdoffset
      BY <3>1 DEF WriteInv
    <3>3. IndicesOK(rcv.image_crc, e) /\ ParkedOK(rcv.image_crc, b, e, flash) BY <1>1, <3>1, <3>2 DEF WriteInv
    <3>4. e \in EntryType BY <3>2 DEF PlacesOK
    <3>5. e.crc = rcv.image_crc /\ e.blk < inst.size BY <1>2, <1>4, <3>3, <3>4, CompleteParked
    <3>6. ~d.err /\ buf = Block(rcv.image_crc, b)
      BY <1>2, <1>4, <3>2, <3>3, <3>4 DEF OperatorFacts, DecodeFacts, d, buf
    <3>7. good BY <3>5, <3>6 DEF good
    <3>8. e.blk \in 0 .. inst.size - 1 BY <1>2, <3>4, <3>5, SMTT(30) DEF EntryType
    <3>9. /\ FlashType(flash') /\ \A y \in 0 .. inst.size - 1 : y # e.blk => flash'[y] = flash[y]
          /\ inst.file_mode \/ flash'[e.blk] = BlankBlock
      <4>1. CASE inst.file_mode BY <4>1, <1>4, <3>2
      <4>2. CASE ~inst.file_mode
        <5>1. flash' = Erased(flash, e.blk) BY <1>4, <3>7, <4>2
        <5>2. Erases(flash, e.blk, flash') BY <5>1, <3>2, <3>8, ErasedIs
        <5> QED BY <5>2 DEF Erases
      <4> QED BY <4>1, <4>2
    <3>10. FreeBlank(eraseblocks, flash') BY <3>2, <3>9 DEF FreeBlank
    <3>11. ASSUME NEW c \in Blocks
           PROVE  IF c > b
                  THEN IndicesOK(rcv.image_crc, eraseblocks[c]) /\ ParkedOK(rcv.image_crc, c, eraseblocks[c], flash')
                  ELSE /\ eraseblocks[c].blk < inst.size
                       /\ c < b => flash'[eraseblocks[c].blk] = Block(rcv.image_crc, c)
                       /\ c = b => /\ buf = Block(rcv.image_crc, c)
                                   /\ inst.file_mode \/ flash'[eraseblocks[c].blk] = BlankBlock
      <4>1. c \in Nat /\ b \in Nat BY <1>2, <3>2, BlocksFacts
      <4>2. CASE c = b BY <4>1, <4>2, <3>5, <3>6, <3>9, SMTT(30)
      <4>3. CASE c # b BY <4>1, <4>3, <1>1, <1>2, <3>1, <3>9, OthersKeep, SMTT(30)
      <4> QED BY <4>2, <4>3
    <3>12. rcv'.pc = "write" BY <2>1, <3>7
    <3> HIDE DEF b, e
    <3>13. rcv'.block_nr = b BY <2>1 DEF b
    <3>14. WriteInv(rcv', eraseblocks', flash')
      BY <1>1, <1>2, <2>1, <3>2, <3>9, <3>10, <3>11, <3>12, <3>13, SMTT(30) DEF WriteInv
    <3> QED BY <3>7, <3>14
  <2>4. OnlyNetwork => NetworkInv'
    BY <1>1, <1>2, <2>1, <2>3 DEF NetworkInv, Blocks, pkts_per_block
  <2> QED BY <1>1, <1>2, <2>1, <2>2, <2>3, <2>4, ReceiverAlone
<1>5. CASE /\ e.nr_pkts < pkts_per_block \/ inst.errors
           /\ rcv' = Finish("failed") /\ UNCHANGED flash
  <2>1. /\ DOMAIN rcv' = RcvFields /\ rcv'.pc = "failed" /\ rcv'.nr_blocks = rcv.nr_blocks
        /\ rcv'.faults = rcv.faults /\ rcv'.rewrites = rcv.rewrites
    BY <1>2, <1>5 DEF Finish, RcvFields
  <2>2. ~OnlyNetwork
    <3> SUFFICES ASSUME OnlyNetwork PROVE FALSE OBVIOUS
    <3>1. b \in Blocks /\ PlacesOK(eraseblocks) BY <1>2 DEF WriteInv
    <3>2. e.nr_pkts >= pkts_per_block /\ ~inst.errors BY <1>1, <1>2, <3>1 DEF NetworkInv, OnlyNetwork
    <3>3. e.nr_pkts \in Nat /\ pkts_per_block \in Nat BY <1>2, <3>1, Sizes DEF PlacesOK, EntryType
    <3> QED BY <1>5, <3>2, <3>3, SMTT(30)
  <2> QED BY <1>1, <1>2, <2>1, <2>2, ReceiverAlone
<1> QED BY <1>3, <1>4, <1>5

(* The decoded block fills its erase block.                                  *)
LEMMA BlockLen ==
  ASSUME inst \in Instances, NEW image, NEW b
  PROVE  Len(Block(image, b)) = inst.erasesize /\ inst.erasesize \in Nat
<1>1. inst.erasesize \in Nat BY InstancesOK
<1>2. DOMAIN Block(image, b) = 1 .. inst.erasesize BY DEF Block
<1> QED BY <1>1, <1>2, SMTT(30)

(* A block is written.                                                       *)
LEMMA WritePreserves ==
  ASSUME McInv, WriteBlock
  PROVE  McInv'
<1> DEFINE b == rcv.block_nr
           e == eraseblocks[b]
<1>1. /\ rcv.pc = "write" /\ UNCHANGED <<inst, srv, eraseblocks>> /\ rcv' = NextBlock(rcv)
      /\ flash' = Programmed(flash, e.blk, 0, rcv.decode_buf)
  BY DEF WriteBlock
<1>2. /\ inst \in Instances /\ DOMAIN rcv = RcvFields /\ rcv.nr_blocks = inst.nr_blocks
      /\ inst.nr_blocks \in Nat \ {0} /\ inst.size \in Nat /\ rcv.rewrites \in 0 .. inst.rewrites
      /\ Rewritten <= 1 => WriteInv(rcv, eraseblocks, flash)
      /\ OnlyNetwork => Rewritten <= 1 /\ NetworkInv
  BY <1>1, CurrentBlock
<1>3. /\ DOMAIN rcv' = RcvFields /\ rcv'.nr_blocks = rcv.nr_blocks /\ rcv'.image_crc = rcv.image_crc
      /\ rcv'.mtdoffset = rcv.mtdoffset /\ rcv'.faults = rcv.faults /\ rcv'.rewrites = rcv.rewrites
      /\ \/ b + 1 = inst.nr_blocks /\ rcv'.pc = "done" /\ rcv'.block_nr = b
         \/ b + 1 # inst.nr_blocks /\ rcv'.pc = "decode" /\ rcv'.block_nr = b + 1
  <2>1. CASE b + 1 = inst.nr_blocks
    <3>1. rcv' = [rcv EXCEPT !.pc = "done"] BY <1>1, <1>2, <2>1 DEF NextBlock
    <3> QED BY <3>1, <1>2, <2>1 DEF RcvFields
  <2>2. CASE b + 1 # inst.nr_blocks
    <3>1. rcv' = [rcv EXCEPT !.pc = "decode", !.block_nr = rcv.block_nr + 1] BY <1>1, <1>2, <2>2 DEF NextBlock
    <3> QED BY <3>1, <1>2, <2>2 DEF RcvFields
  <2> QED BY <2>1, <2>2
<1>4. Rewritten' = Rewritten BY <1>1, <1>3 DEF Rewritten
<1>5. ASSUME Rewritten <= 1 PROVE WriteInv(rcv', eraseblocks', flash')
  <2>1. WriteInv(rcv, eraseblocks, flash) BY <1>2, <1>5
  <2>2. /\ b \in Blocks /\ rcv.image_crc \in 1 .. inst.images /\ PlacesOK(eraseblocks) /\ FlashType(flash)
        /\ FreeBlank(eraseblocks, flash) /\ rcv.mtdoffset \in Nat
        /\ rcv.rewrites = inst.rewrites => \A c \in Blocks : eraseblocks[c].blk < rcv.mtdoffset
    BY <2>1 DEF WriteInv
  <2>3. b \in Nat BY <1>2, <2>2, BlocksFacts
  <2>4. /\ e.blk < inst.size /\ rcv.decode_buf = Block(rcv.image_crc, b)
        /\ inst.file_mode \/ flash[e.blk] = BlankBlock
    BY <1>1, <2>1, <2>2, <2>3, SMTT(30) DEF WriteInv
  <2>5. e.blk \in 0 .. inst.size - 1 BY <1>2, <2>2, <2>4, SMTT(30) DEF PlacesOK, EntryType
  <2> DEFINE B == Block(rcv.image_crc, b)
  <2>6. Len(B) = inst.erasesize /\ inst.erasesize \in Nat BY <1>2, BlockLen
  <2>7. Stores(flash, e.blk, 0, B, flash')
    <3>1. inst.file_mode \/ \A n \in 1 .. inst.erasesize : flash[e.blk][n] = Blank BY <2>4 DEF BlankBlock
    <3> HIDE DEF B, e
    <3>2. Writable(flash, e.blk, 0, B) BY <2>5, <2>6, <3>1, SMTT(30) DEF Writable
    <3>3. flash' = Programmed(flash, e.blk, 0, B) BY <1>1, <2>4 DEF B
    <3> QED BY <2>2, <3>2, <3>3, ProgrammedIs
  <2>8. /\ FlashType(flash') /\ \A y \in 0 .. inst.size - 1 : y # e.blk => flash'[y] = flash[y]
        /\ flash'[e.blk] = B
    <3>1. /\ FlashType(flash') /\ \A y \in 0 .. inst.size - 1 : y # e.blk => flash'[y] = flash[y]
          /\ \A n \in 1 .. inst.erasesize :
               flash'[e.blk][n] = IF n \in 0 + 1 .. 0 + Len(B) THEN B[n - 0] ELSE flash[e.blk][n]
      BY <2>7 DEF Stores
    <3>2. B = [u \in 1 .. inst.erasesize |-> B[u]] BY DEF Block
    <3> HIDE DEF B, e
    <3>3. \A n \in 1 .. inst.erasesize : flash'[e.blk][n] = B[n] BY <2>6, <3>1, SMTT(30)
    <3>4. flash'[e.blk] = [u \in 1 .. inst.erasesize |-> flash'[e.blk][u]] BY <2>5, <3>1 DEF FlashType
    <3>5. flash'[e.blk] = B BY <3>2, <3>3, <3>4
    <3> QED BY <3>1, <3>5
  <2>9. FreeBlank(eraseblocks, flash') BY <2>2, <2>8 DEF FreeBlank
  <2>10. ASSUME NEW c \in Blocks
         PROVE  IF c > b
                THEN IndicesOK(rcv.image_crc, eraseblocks[c]) /\ ParkedOK(rcv.image_crc, c, eraseblocks[c], flash')
                ELSE eraseblocks[c].blk < inst.size /\ flash'[eraseblocks[c].blk] = Block(rcv.image_crc, c)
    <3>1. c \in Nat BY <1>2, BlocksFacts
    <3>2. CASE c = b BY <2>3, <2>4, <2>8, <3>1, <3>2, SMTT(30)
    <3>3. CASE c # b BY <1>1, <1>2, <2>1, <2>8, <3>3, OthersKeep, SMTT(30)
    <3> QED BY <3>2, <3>3
  <2>11. \A c \in Blocks : c \in Nat /\ c < inst.nr_blocks BY <1>2, SMTT(30) DEF Blocks
  <2>12. rcv'.block_nr \in Blocks BY <1>2, <1>3, <2>2, <2>3, SMTT(30) DEF Blocks
  <2> HIDE DEF b, e
  <2>13. CASE b + 1 = inst.nr_blocks /\ rcv'.pc = "done" /\ rcv'.block_nr = b
    <3>1. \A c \in Blocks : ~(c > b) BY <1>2, <2>3, <2>11, <2>13, SMTT(30)
    <3>2. ASSUME NEW c \in Blocks
          PROVE  IF c > rcv'.block_nr \/ (c = rcv'.block_nr /\ rcv'.pc = "decode")
                 THEN IndicesOK(rcv'.image_crc, eraseblocks'[c]) /\ ParkedOK(rcv'.image_crc, c, eraseblocks'[c], flash')
                 ELSE /\ eraseblocks'[c].blk < inst.size
                      /\ c < rcv'.block_nr \/ rcv'.pc = "done" => flash'[eraseblocks'[c].blk] = Block(rcv'.image_crc, c)
                      /\ c = rcv'.block_nr /\ rcv'.pc = "write" =>
                           /\ rcv'.decode_buf = Block(rcv'.image_crc, c)
                           /\ inst.file_mode \/ flash'[eraseblocks'[c].blk] = BlankBlock
      BY <1>1, <1>3, <2>10, <2>13, <3>1
    <3> QED BY <1>1, <1>2, <1>3, <2>2, <2>8, <2>9, <2>12, <3>2 DEF WriteInv
  <2>14. CASE b + 1 # inst.nr_blocks /\ rcv'.pc = "decode" /\ rcv'.block_nr = b + 1
    <3>1. \A c \in Blocks : c > b <=> c > b + 1 \/ c = b + 1 BY <2>3, <2>11, SMTT(30)
    <3>2. ASSUME NEW c \in Blocks
          PROVE  IF c > rcv'.block_nr \/ (c = rcv'.block_nr /\ rcv'.pc = "decode")
                 THEN IndicesOK(rcv'.image_crc, eraseblocks'[c]) /\ ParkedOK(rcv'.image_crc, c, eraseblocks'[c], flash')
                 ELSE /\ eraseblocks'[c].blk < inst.size
                      /\ c < rcv'.block_nr \/ rcv'.pc = "done" => flash'[eraseblocks'[c].blk] = Block(rcv'.image_crc, c)
                      /\ c = rcv'.block_nr /\ rcv'.pc = "write" =>
                           /\ rcv'.decode_buf = Block(rcv'.image_crc, c)
                           /\ inst.file_mode \/ flash'[eraseblocks'[c].blk] = BlankBlock
      BY <1>1, <1>3, <2>10, <2>14, <3>1
    <3> QED BY <1>1, <1>2, <1>3, <2>2, <2>8, <2>9, <2>12, <3>2 DEF WriteInv
  <2> QED BY <1>3, <2>13, <2>14 DEF b
<1>6. OnlyNetwork => NetworkInv'
  BY <1>1, <1>2, <1>3 DEF NetworkInv, Blocks, pkts_per_block
<1>7. rcv'.pc \in {"decode", "write", "done", "failed"} BY <1>3
<1> QED BY <1>1, <1>2, <1>3, <1>4, <1>5, <1>6, <1>7, ReceiverAlone

(* The write of a decoded block fails: the block moves to a place that       *)
(* nobody has, if it is the first that fails.                                *)
LEMMA WriteFailsPreserves ==
  ASSUME OperatorFacts, McInv, WriteFails
  PROVE  McInv'
<1> DEFINE b == rcv.block_nr
           e == eraseblocks[b]
           new == SkipBad(rcv.mtdoffset)
           z == [e EXCEPT !.blk = new]
<1>1. rcv.pc = "write" /\ rcv.rewrites > 0 /\ UNCHANGED <<inst, srv>> BY DEF WriteFails
<1>2. /\ inst \in Instances /\ DOMAIN rcv = RcvFields /\ rcv.nr_blocks = inst.nr_blocks
      /\ inst.nr_blocks \in Nat \ {0} /\ inst.size \in Nat /\ inst.rewrites \in Nat
      /\ rcv.rewrites \in 0 .. inst.rewrites
      /\ Rewritten <= 1 => WriteInv(rcv, eraseblocks, flash)
  BY <1>1, CurrentBlock
<1>3. ~OnlyNetwork BY <1>1, <1>2, SMTT(30) DEF OnlyNetwork
<1>4. CASE rcv' = Finish("failed")
  <2>1. /\ DOMAIN rcv' = RcvFields /\ rcv'.pc = "failed" /\ rcv'.nr_blocks = rcv.nr_blocks
        /\ rcv'.faults = rcv.faults /\ rcv'.rewrites = rcv.rewrites
    BY <1>2, <1>4 DEF Finish, RcvFields
  <2> QED BY <1>1, <1>2, <1>3, <2>1, ReceiverAlone
<1>5. CASE /\ ~inst.file_mode /\ rcv.mtdoffset < inst.size /\ new < inst.size
           /\ flash' = Erased(flash, e.blk)
           /\ eraseblocks' = [eraseblocks EXCEPT ![b] = z]
           /\ rcv' = [rcv EXCEPT !.mtdoffset = new, !.rewrites = rcv.rewrites - 1]
  <2>1. /\ DOMAIN rcv' = RcvFields /\ rcv'.pc = "write" /\ rcv'.nr_blocks = rcv.nr_blocks
        /\ rcv'.block_nr = rcv.block_nr /\ rcv'.image_crc = rcv.image_crc /\ rcv'.faults = rcv.faults
        /\ rcv'.decode_buf = rcv.decode_buf /\ rcv'.mtdoffset = new /\ rcv'.rewrites = rcv.rewrites - 1
    BY <1>1, <1>2, <1>5 DEF RcvFields
  <2>2. rcv'.rewrites \in 0 .. inst.rewrites /\ rcv'.rewrites # inst.rewrites BY <1>1, <1>2, <2>1, SMTT(30)
  <2>3. Rewritten' <= 1 => rcv.rewrites = inst.rewrites /\ Rewritten <= 1
    BY <1>1, <1>2, <2>1, SMTT(30) DEF Rewritten
  <2>4. ASSUME rcv.rewrites = inst.rewrites, Rewritten <= 1 PROVE WriteInv(rcv', eraseblocks', flash')
    <3>1. WriteInv(rcv, eraseblocks, flash) BY <1>2, <2>4
    <3>2. /\ b \in Blocks /\ rcv.image_crc \in 1 .. inst.images /\ PlacesOK(eraseblocks) /\ FlashType(flash)
          /\ FreeBlank(eraseblocks, flash) /\ rcv.mtdoffset \in Nat
          /\ \A c \in Blocks : eraseblocks[c].blk < rcv.mtdoffset
      BY <2>4, <3>1 DEF WriteInv
    <3>3. b \in Nat BY <1>2, <3>2, BlocksFacts
    <3>4. e.blk < inst.size /\ rcv.decode_buf = Block(rcv.image_crc, b) BY <1>1, <3>1, <3>2, <3>3, SMTT(30) DEF WriteInv
    <3>5. /\ DOMAIN eraseblocks = Blocks
          /\ \A c \in Blocks : eraseblocks[c] \in EntryType /\ eraseblocks[c].blk \notin inst.bad
          /\ \A c, x \in Blocks : eraseblocks[c].blk = eraseblocks[x].blk => c = x
      BY <3>2 DEF PlacesOK
    <3>6. new \in Nat /\ rcv.mtdoffset <= new /\ new \notin inst.bad BY <1>2, <3>2, SMTT(30) DEF OperatorFacts, PlaceFacts
    <3>7. \A c \in Blocks : eraseblocks[c].blk \in Nat BY <3>5 DEF EntryType
    <3>8. \A c \in Blocks : eraseblocks[c].blk # new BY <3>2, <3>6, <3>7, SMTT(30)
    <3>9. z \in EntryType /\ z.blk = new
      <4>1. e \in EntryType BY <3>2, <3>5
      <4> HIDE DEF e, new
      <4>2. z \in EntryType BY <4>1, <3>6 DEF EntryType
      <4>3. z.blk = new BY <4>1 DEF EntryType
      <4> QED BY <4>2, <4>3
    <3> HIDE DEF z, new
    <3>10. /\ eraseblocks'[b] = z /\ DOMAIN eraseblocks' = Blocks
           /\ \A c \in Blocks : c # b => eraseblocks'[c] = eraseblocks[c]
      BY <1>5, <3>2, <3>5
    <3>11. PlacesOK(eraseblocks')
      <4>1. \A c \in Blocks : /\ eraseblocks'[c] \in EntryType /\ eraseblocks'[c].blk \notin inst.bad
        BY <3>5, <3>6, <3>9, <3>10
      <4>2. \A c, x \in Blocks : eraseblocks'[c].blk = eraseblocks'[x].blk => c = x
        BY <3>5, <3>8, <3>9, <3>10
      <4> QED BY <1>5, <3>10, <4>1, <4>2 DEF PlacesOK
    <3>12. e.blk \in 0 .. inst.size - 1 /\ new \in 0 .. inst.size - 1 BY <1>2, <1>5, <3>2, <3>4, <3>6, <3>7, SMTT(30)
    <3>13. Erases(flash, e.blk, flash') BY <1>5, <3>2, <3>12, ErasedIs
    <3>14. /\ FlashType(flash') /\ flash'[e.blk] = BlankBlock
           /\ \A y \in 0 .. inst.size - 1 : y # e.blk => flash'[y] = flash[y]
      BY <3>13 DEF Erases
    <3>15. flash[new] = BlankBlock BY <1>5, <3>2, <3>8, <3>12 DEF FreeBlank
    <3>16. flash'[new] = BlankBlock BY <3>12, <3>14, <3>15
    <3>17. FreeBlank(eraseblocks', flash')
      <4> SUFFICES ASSUME NEW x \in 0 .. inst.size - 1, \A c \in Blocks : eraseblocks'[c].blk # x
                   PROVE  flash'[x] = BlankBlock
        BY DEF FreeBlank
      <4>1. CASE x = e.blk BY <4>1, <3>14
      <4>2. CASE x # e.blk
        <5>1. \A c \in Blocks : eraseblocks[c].blk # x BY <3>10, <4>2
        <5>2. flash[x] = BlankBlock BY <1>5, <3>2, <5>1 DEF FreeBlank
        <5> QED BY <3>14, <4>2, <5>2
      <4> QED BY <4>1, <4>2
    <3>18. ASSUME NEW c \in Blocks
           PROVE  IF c > b
                  THEN IndicesOK(rcv.image_crc, eraseblocks'[c]) /\ ParkedOK(rcv.image_crc, c, eraseblocks'[c], flash')
                  ELSE /\ eraseblocks'[c].blk < inst.size
                       /\ c < b => flash'[eraseblocks'[c].blk] = Block(rcv.image_crc, c)
                       /\ c = b => /\ rcv.decode_buf = Block(rcv.image_crc, c)
                                   /\ flash'[eraseblocks'[c].blk] = BlankBlock
      <4>1. c \in Nat BY <1>2, BlocksFacts
      <4>2. CASE c = b BY <1>5, <3>3, <3>4, <3>9, <3>10, <3>16, <4>1, <4>2, SMTT(30)
      <4>3. CASE c # b
        <5>1. eraseblocks'[c] = eraseblocks[c] BY <3>10, <4>3
        <5>2. IF c > b
              THEN IndicesOK(rcv.image_crc, eraseblocks[c]) /\ ParkedOK(rcv.image_crc, c, eraseblocks[c], flash')
              ELSE eraseblocks[c].blk < inst.size /\ flash'[eraseblocks[c].blk] = Block(rcv.image_crc, c)
          BY <1>1, <1>2, <3>1, <3>14, <4>3, OthersKeep, SMTT(30)
        <5> QED BY <4>3, <5>1, <5>2
      <4> QED BY <4>2, <4>3
    <3>19. new \in Nat BY <3>6
    <3> HIDE DEF b, e
    <3>20. rcv'.block_nr = b /\ b \in Blocks BY <2>1, <3>2 DEF b
    <3> QED BY <1>2, <2>1, <2>2, <3>2, <3>11, <3>14, <3>17, <3>18, <3>19, <3>20, SMTT(30) DEF WriteInv
  <2> QED BY <1>1, <1>2, <1>3, <2>1, <2>2, <2>3, <2>4, ReceiverAlone
<1> QED BY <1>4, <1>5 DEF WriteFails, RewriteOffset

(* The programs start with nothing sent and nothing received.                *)
LEMMA InitMc == Init => McInv
<1> SUFFICES ASSUME Init PROVE McInv OBVIOUS
<1>1. inst \in Instances BY DEF Init
<1>2. /\ inst.nr_blocks \in Nat \ {0} /\ inst.images \in Nat \ {0} /\ inst.faults \in Nat
      /\ inst.rewrites \in Nat
  BY <1>1, InstancesOK
<1>3. total_pkts_per_block \in Nat \ {0} BY <1>1, Sizes, SMTT(30)
<1>4. 0 \in Blocks /\ 0 \in 0 .. total_pkts_per_block - 1 /\ 1 \in 1 .. inst.images
  BY <1>2, <1>3, SMTT(30) DEF Blocks
<1>5. srv \in SrvType
  <2> HIDE DEF total_pkts_per_block
  <2> QED BY <1>4 DEF Init, SrvType
<1>6. /\ DOMAIN rcv = RcvFields /\ rcv.pc = "recv" /\ rcv.block_nr = 0 /\ rcv.nr_blocks = 0
      /\ rcv.mtdoffset = 0 /\ rcv.total_pkts = 0 /\ rcv.faults = inst.faults /\ rcv.rewrites = inst.rewrites
  BY DEF Init, RcvFields
<1>7. Nothing BY <1>6 DEF Init, Nothing, BlankBlock
<1>8. McTypes BY <1>1, <1>2, <1>5, <1>6, SMTT(30) DEF McTypes, SrvType
<1>9. NetworkInv BY <1>6, SMTT(30) DEF NetworkInv
<1> QED BY <1>6, <1>7, <1>8, <1>9, SMTT(30) DEF McInv

(* Every step of the two programs keeps the invariant.                       *)
LEMMA NextMc == OperatorFacts /\ McInv /\ [Next]_vars => McInv'
<1> SUFFICES ASSUME OperatorFacts, McInv, [Next]_vars PROVE McInv' OBVIOUS
<1>1. CASE Send \/ SendFails \/ ServeOther BY <1>1, ServerPreserves
<1>2. CASE \E intact \in BOOLEAN : Receive(ThisPkt(intact)) BY <1>2, ReceivePreserves
<1>3. CASE ReadFails BY <1>3, ReadFailsPreserves
<1>4. CASE DecodeBlock BY <1>4, DecodePreserves
<1>5. CASE WriteBlock BY <1>5, WritePreserves
<1>6. CASE WriteFails BY <1>6, WriteFailsPreserves
<1>7. CASE UNCHANGED vars
  <2>1. UNCHANGED <<inst, rcv, eraseblocks, flash>> /\ srv' = srv BY <1>7 DEF vars
  <2>2. srv \in SrvType BY DEF McInv, McTypes, SrvType
  <2> QED BY <2>1, <2>2, ServerAlone
<1> QED BY <1>1, <1>2, <1>3, <1>4, <1>5, <1>6, <1>7 DEF Next

(* What the receiver holds, from the invariant.                              *)
LEMMA HeldFollows == McInv => HeldExactly
<1> SUFFICES ASSUME McInv, rcv.pc = "recv", rcv.nr_blocks > 0 PROVE HeldExactly BY DEF HeldExactly
<1>1. RecvInv(rcv, eraseblocks, flash) BY DEF McInv
<1>2. /\ PlacesOK(eraseblocks) /\ rcv.total_pkts = TotalPkts(eraseblocks)
      /\ \A b \in Blocks : IndicesOK(rcv.image_crc, eraseblocks[b]) /\ ParkedOK(rcv.image_crc, b, eraseblocks[b], flash)
  BY <1>1 DEF RecvInv
<1>3. DOMAIN eraseblocks = Blocks BY <1>2 DEF PlacesOK
<1>4. ASSUME NEW b \in DOMAIN eraseblocks
      PROVE  LET e       == eraseblocks[b]
                 unit(n) == <<rcv.image_crc, b, e.pkt_indices[((n - 1) \div PKT_SIZE) + 1],
                              1 + ((n - 1) % PKT_SIZE)>>
             IN  /\ e.ofs + Len(e.wbuf) = Len(e.pkt_indices) * PKT_SIZE
                 /\ \A n \in 1 .. e.ofs : flash[e.blk][n] = unit(n)
                 /\ \A n \in 1 .. Len(e.wbuf) : e.wbuf[n] = unit(e.ofs + n)
                 /\ \A i, j \in 1 .. Len(e.pkt_indices) :
                      e.pkt_indices[i] = e.pkt_indices[j] => i = j
                 /\ e.blk \notin inst.bad
                 /\ \A c \in DOMAIN eraseblocks : eraseblocks[c].blk = e.blk => c = b
  <2> DEFINE e == eraseblocks[b]
  <2>1. ParkedOK(rcv.image_crc, b, e, flash) /\ IndicesOK(rcv.image_crc, e) BY <1>2, <1>3, <1>4
  <2>2. /\ e.ofs + Len(e.wbuf) = Len(e.pkt_indices) * PKT_SIZE
        /\ \A n \in 1 .. e.ofs : flash[e.blk][n] = Unit(rcv.image_crc, b, e.pkt_indices, n)
        /\ \A n \in 1 .. Len(e.wbuf) : e.wbuf[n] = Unit(rcv.image_crc, b, e.pkt_indices, e.ofs + n)
    BY <2>1 DEF ParkedOK
  <2>3. \A i, j \in 1 .. Len(e.pkt_indices) : e.pkt_indices[i] = e.pkt_indices[j] => i = j
    BY <2>1 DEF IndicesOK
  <2>4. e.blk \notin inst.bad /\ \A c \in DOMAIN eraseblocks : eraseblocks[c].blk = e.blk => c = b
    BY <1>2, <1>3 DEF PlacesOK
  <2> HIDE DEF e
  <2> QED BY <2>2, <2>3, <2>4 DEF Unit, e
<1>5. rcv.total_pkts = SumFunction([b \in DOMAIN eraseblocks |-> Len(eraseblocks[b].pkt_indices)])
  BY <1>2, <1>3 DEF TotalPkts, SumFunction
<1> QED BY <1>4, <1>5 DEF HeldExactly
=============================================================================
