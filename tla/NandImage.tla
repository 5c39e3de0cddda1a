----------------------------- MODULE NandImage ------------------------------
(***************************************************************************)
(* Storing an image on NAND flash with bad blocks and reading it back:     *)
(* flash_erase, nandwrite and nanddump.                                    *)
(***************************************************************************)
EXTENDS MtdDevice, SequencesExt

(* mtd_erase_multi(): the blocks in order, up to the first that fails.       *)
EraseMulti(f, b, n) ==
  FoldLeft(LAMBDA S, i : UNION {IF r.ok THEN Erase(r.f, b + i - 1) ELSE {r} : r \in S},
           {[f |-> f, ok |-> TRUE]}, [i \in 1..n |-> i])

(***************************************************************************)
(* flash_erase, from block job.eb_start to the end of the device.          *)
(***************************************************************************)
FlashErase ==
  /\ pc = "flash_erase"
  /\ pc' = IF job.eb_start = 0 /\ ~job.noskipbad THEN "erase_chip" ELSE "erase_each"
  /\ v' = [eb |-> job.eb_start]
  /\ UNCHANGED <<flash, bad, job, code, faults>>

(* The whole chip in one call; if that fails, sector by sector.              *)
EraseChip ==
  /\ pc = "erase_chip"
  /\ \E r \in EraseMulti(flash, 0, EbCnt) :
       /\ flash' = r.f
       /\ pc' = IF r.ok THEN "nandwrite" ELSE "erase_each"
  /\ UNCHANGED <<bad, job, v, code, faults>>

LastErased == v.eb = EbCnt

(* A block that cannot be erased is reported, and the next one is tried.     *)
EraseEachSector ==
  /\ pc = "erase_each"
  /\ IF LastErased THEN pc' = "nandwrite" /\ UNCHANGED <<flash, v, faults>>
     ELSE /\ v' = [v EXCEPT !.eb = @ + 1]
          /\ IF ~job.noskipbad /\ v.eb \in bad THEN UNCHANGED <<flash, faults>>
             ELSE \E r \in Erase(flash, v.eb) :
                    /\ flash' = r.f
                    /\ faults' = IF r.ok THEN faults ELSE faults \cup {v.eb}
          /\ UNCHANGED pc
  /\ UNCHANGED <<bad, job, code>>

(***************************************************************************)
(* nandwrite.                                                              *)
(***************************************************************************)
PageLen(j) == IF j.oob = "none" THEN 2 ELSE 3
Aligned == job.align * Pages
BlockStart(p) == p - (p % Aligned)

OnlyFirstBlock(p) == IF Block(p) \in bad THEN 1 ELSE IF Block(p) >= EbCnt THEN -1 ELSE 0

(* is_virt_block_bad(): the first block of the virtual block that is bad (1) *)
(* or beyond the device (-1) decides.                                        *)
IsVirtBlockBad(p) ==
  LET found == {i \in Block(p)..Block(p) + job.align - 1 : i \in bad \/ i >= EbCnt}
  IN IF found = {} THEN 0 ELSE IF \E i \in found : i < EbCnt THEN 1 ELSE -1

(* --skip-bad-blocks-to-start: the start address moves on by a block for     *)
(* every bad one before it; -1 if that leads out of the device.              *)
SkipToStart ==
  LET skip[bbs \in Nat, start \in Nat] ==
        IF bbs >= start THEN start
        ELSE CASE IsVirtBlockBad(bbs) = -1 -> -1
               [] IsVirtBlockBad(bbs) = 0 -> skip[bbs + Aligned, start]
               [] IsVirtBlockBad(bbs) = 1 -> skip[bbs + Aligned, start + Aligned]
  IN skip[0, job.start]

StartPage == IF job.skip_to_start THEN SkipToStart ELSE job.start

(* What is checked before anything is written.  The length of standard       *)
(* input is not known: imglen is then a flag.                                *)
Nandwrite ==
  /\ pc = "nandwrite"
  /\ \E len \in {IF job.inputsize # 0 THEN job.inputsize
                 ELSE IF job.stdin THEN PageLen(job) ELSE Len(job.file)} :
       /\ v' = [mtdoffset |-> StartPage, blockstart |-> -1, filebuf |-> <<>>,
                writebuf |-> -1, imglen |-> len, pos |-> 0, start |-> StartPage, unerased |-> faults]
       /\ IF \/ ~job.pad /\ len % PageLen(job) # 0
             \/ StartPage = -1
             \/ len \div PageLen(job) > Size - StartPage
          THEN Exit(1) ELSE pc' = "while" /\ UNCHANGED code
  /\ UNCHANGED <<flash, bad, job, faults>>

(* While there is input or a buffered page, and room on the device.  Having  *)
(* entered the loop, it goes through new blocks until one is good.           *)
InLoop ==
  \/ pc = "inner"
  \/ pc = "while" /\ v.mtdoffset < Size /\ (v.imglen > 0 \/ v.writebuf < Len(v.filebuf))

AlwaysReset == <<>>

(* If writebuf is at the start of filebuf, the block that failed is to be    *)
(* written again from the buffer.                                            *)
Buffer == IF v.writebuf # 0 THEN <<>> ELSE v.filebuf

NewBlock ==
  /\ InLoop
  /\ v.blockstart # BlockStart(v.mtdoffset)
  /\ \E start \in {BlockStart(v.mtdoffset)} :
     \E r \in {[v EXCEPT !.blockstart = start, !.filebuf = Buffer, !.writebuf = 0]} :
     \E is \in {IF job.noskipbad THEN 0 ELSE IsVirtBlockBad(start)} :
       /\ v' = IF is = 1 THEN [r EXCEPT !.mtdoffset = start + Aligned] ELSE r
       /\ IF is = -1 \/ (is = 1 /\ start + Aligned > Size) THEN Exit(1)
          ELSE pc' = "inner" /\ UNCHANGED code
  /\ UNCHANGED <<flash, bad, job, faults>>

(* One page of input: its data, padded at the end of the file, and its OOB.  *)
Page(d, o) == [bytes |-> d \o [i \in 1..2 - Len(d) |-> FF] \o o,
               got   |-> Len(d) + Len(o),
               eof   |-> Len(d) = 0,
               ended |-> Len(d) < 2,
               error |-> (Len(d) < 2 /\ ~job.pad) \/ Len(o) < PageLen(job) - 2]

(* read(): what there is of the input between two positions.                 *)
Read(from, to) == SubSeq(job.file, from + 1, Min({to, Len(job.file)}))

Input == Page(Read(v.pos, v.pos + 2), Read(v.pos + 2, v.pos + PageLen(job)))

ReadInput ==
  /\ InLoop
  /\ v.blockstart = BlockStart(v.mtdoffset)
  /\ v.writebuf + 2 > Len(v.filebuf)
  /\ \E in \in {Input} :
       IF in.eof THEN /\ pc' = "closeall"
                      /\ v' = [v EXCEPT !.imglen = IF job.stdin THEN 0 ELSE @]
                      /\ UNCHANGED code
       ELSE IF in.error THEN Exit(1) /\ UNCHANGED v
       ELSE /\ v' = [v EXCEPT !.filebuf = @ \o in.bytes, !.pos = @ + in.got,
                              !.imglen = IF ~job.stdin THEN @ - in.got
                                         ELSE IF in.ended THEN 0 ELSE @]
            /\ pc' = "inner" /\ UNCHANGED code
  /\ UNCHANGED <<flash, bad, job, faults>>

(* What is written for a page of the image; --onlyoob leaves the data out.   *)
Cell(j, bytes) == IF j.oob = "none" THEN Append(bytes, FF)
                  ELSE IF j.oob = "only" THEN <<FF, FF, bytes[3]>> ELSE bytes

WriteReady ==
  /\ InLoop
  /\ v.blockstart = BlockStart(v.mtdoffset)
  /\ v.writebuf + 2 <= Len(v.filebuf)

ToWrite == SubSeq(v.filebuf, v.writebuf + 1, v.writebuf + PageLen(job))

AllFFs == ToWrite[1] = FF /\ ToWrite[2] = FF

WritePage ==
  /\ WriteReady
  /\ flash' = IF AllFFs /\ job.skipallffs THEN flash
              ELSE Programmed(flash, v.mtdoffset, Cell(job, ToWrite))
  /\ v' = [v EXCEPT !.mtdoffset = @ + 1, !.writebuf = @ + PageLen(job)]
  /\ pc' = "while"
  /\ UNCHANGED <<bad, job, code, faults>>

KeepBuffer == [v EXCEPT !.mtdoffset = v.blockstart + Aligned]

SameBlock == [v EXCEPT !.writebuf = 0, !.mtdoffset = v.blockstart]

(* After a failed write: from the start of the buffer into the next block.   *)
Rewind == [v EXCEPT !.writebuf = 0, !.mtdoffset = v.blockstart + Aligned]

(* A write that failed with EIO: the virtual block is erased, the block      *)
(* marked bad if the user wants that, and the data goes to the next block.   *)
(* Any other error, also of the erasure, ends the program.                   *)
WriteFails ==
  /\ WriteReady /\ ~(AllFFs /\ job.skipallffs) /\ MayFail(Block(v.mtdoffset))
  /\ faults' = faults \cup {Block(v.mtdoffset)}
  /\ \/ Exit(1) /\ UNCHANGED <<flash, bad, v>>
     \/ /\ Block(v.blockstart) + job.align <= EbCnt
        /\ \E f \in {flash, Spoilt(flash, v.mtdoffset, Cell(job, ToWrite))} :
           \E r \in EraseMulti(f, Block(v.blockstart), job.align) :
             /\ flash' = r.f
             /\ \/ /\ bad' = IF job.markbad THEN bad \cup {Block(v.mtdoffset)} ELSE bad
                   /\ v' = Rewind
                   /\ pc' = "while" /\ UNCHANGED code
                \/ /\ ~r.ok \/ job.markbad
                   /\ Exit(1) /\ UNCHANGED <<bad, v>>
  /\ UNCHANGED job

(* Data that could not be placed is an error.                                *)
CloseAll ==
  /\ pc = "closeall" \/ (pc = "while" /\ ~InLoop)
  /\ Exit(IF (~job.stdin /\ v.imglen > 0) \/ v.writebuf < Len(v.filebuf) THEN 1 ELSE 0)
  /\ UNCHANGED <<flash, bad, job, v, faults>>

(* flash_erase and nandwrite.                                                *)
ImageNext == FlashErase \/ EraseChip \/ EraseEachSector
             \/ Nandwrite \/ NewBlock \/ ReadInput \/ WritePage \/ WriteFails \/ CloseAll

(***************************************************************************)
(* nanddump, as a function of its options and of the device.  Addresses    *)
(* are in units of data here, as the length need not be whole pages.       *)
(***************************************************************************)
EbSize == 2 * Pages
Unit(u) == flash[u \div 2][(u % 2) + 1]

SkipPage(bs) == bs

(* How far the loop moves on from a bad block it skips.                      *)
SkipBad(bs) == EbSize - 2 + bs

(* The loop over the device; <<"error">> if a read is refused.               *)
DumpLoop(d, start, to) ==
  LET Step(ofs, end) ==
        LET left == end - ofs
            bs   == IF d.continuous THEN Min({left, EbSize}) ELSE 2
            isbad == d.bb # "dumpbad" /\ Block(ofs \div 2) \in bad
            n    == IF ~d.oob /\ left < bs THEN left ELSE bs
            skip == isbad /\ d.bb = "skipbad"
        IN [ofs |-> IF skip THEN ofs + SkipBad(bs) ELSE ofs + bs,
            end |-> IF skip THEN Min({end + EbSize, 2 * Size}) ELSE end,
            err |-> ~isbad /\ (ofs % EbSize) + bs > EbSize,
            out |-> IF skip THEN <<>>
                    ELSE [i \in 1..n |-> IF isbad THEN FF ELSE Unit(ofs + i - 1)]
                         \o (IF ~d.oob THEN <<>>
                             ELSE <<IF isbad THEN FF ELSE flash[ofs \div 2][3]>>)]
      dump[ofs \in Nat, end \in Nat, out \in Seq(Int)] ==
        IF ofs >= end THEN out
        ELSE CHOOSE r \in {IF s.err THEN <<"error">> ELSE dump[s.ofs, s.end, out \o s.out] :
                             s \in {Step(ofs, end)}} : TRUE
  IN dump[start, to, <<>>]

DumpStart(from) ==
  LET skip[bbs \in Nat, start \in Nat] ==
        IF bbs >= start THEN start ELSE IF bbs >= 2 * Size THEN -1
        ELSE skip[bbs + EbSize, IF Block(bbs \div 2) \in bad THEN start + EbSize ELSE start]
  IN skip[0, from]

Nanddump(d) ==
  LET start == IF d.skip_to_start THEN DumpStart(d.start) ELSE d.start
  IN IF start = -1 THEN <<"error">>
     ELSE DumpLoop(d, start, IF d.length = 0 THEN 2 * Size ELSE Min({start + d.length, 2 * Size}))

(***************************************************************************)
(* Images on NAND.                                                         *)
(***************************************************************************)
(* The pages nandwrite is to store.                                          *)
ImageLen == IF job.inputsize # 0 THEN job.inputsize ELSE Len(job.file)

Image ==
  LET n == PageLen(job)
      padded == SubSeq(job.file, 1, ImageLen) \o [i \in 1..n |-> FF]
  IN [k \in 1..(ImageLen + n - 1) \div n |-> Cell(job, SubSeq(padded, n * (k - 1) + 1, n * k))]

Ended == pc = "done" /\ job.tool = "image" /\ code = 0 /\ v.unerased = {}
Written == Ended /\ v.pos >= ImageLen

(* The blocks of the virtual block of page p.                                *)
VirtBlock(p) == Block(BlockStart(p))..Block(BlockStart(p)) + job.align - 1

(* If nandwrite reports success then the image lies page after page in the   *)
(* virtual blocks from the start address on that have no bad block and saw   *)
(* no failed write, whatever blocks failed on the way and however much of a  *)
(* block had to be written again.  Only standard input may be cut short, and *)
(* then what does not fit on the device is all that is missing.              *)
Placed ==
  Ended => LET usable(p) == /\ p >= v.start
                            /\ job.noskipbad \/ VirtBlock(p) \cap job.bad = {}
                            /\ VirtBlock(p) \cap faults = {}
               room == SelectSeq([i \in 1..Size |-> i - 1], usable)
           IN /\ Len(room) >= Len(Image) \/ (job.stdin /\ ~Written)
              /\ \A k \in 1..Min({Len(Image), Len(room)}) : flash[room[k]] = Image[k]

(* What nandwrite --markbad has stored from a block boundary on, nanddump    *)
(* with the same start address and the length of the image reads back.       *)
RoundTrip ==
  (Written /\ job.align = 1 /\ job.markbad /\ ~job.noskipbad /\ job.start % Pages = 0)
    => Nanddump([start |-> 2 * job.start, length |-> 2 * Len(Image), bb |-> "skipbad",
                 oob |-> job.oob # "none", continuous |-> FALSE,
                 skip_to_start |-> job.skip_to_start])
         = FlattenSeq([k \in DOMAIN Image |->
                         IF job.oob = "none" THEN SubSeq(Image[k], 1, 2) ELSE Image[k]])

(* Without --noskipbad, no step of flash_erase and nandwrite changes a block *)
(* that was bad; and none changes a block before the one they start in.      *)
Untouched ==
  job.tool = "image" => \A p \in DOMAIN flash :
    ((~job.noskipbad /\ Block(p) \in job.bad) \/ Block(p) < job.eb_start) => flash[p] = Old(p)

(* The data of the good blocks from address start on, at most length units.  *)
GoodData(start, length) ==
  LET isgood(u) == u >= start /\ Block(u \div 2) \notin bad
      good == SelectSeq([i \in 1..2 * Size |-> i - 1], isgood)
  IN [i \in 1..Min({length, Len(good)}) |-> Unit(good[i])]

DumpOptions(start, length, cont) ==
  [start |-> start, length |-> length, bb |-> "skipbad", oob |-> FALSE,
   continuous |-> cont, skip_to_start |-> FALSE]

(* nanddump --bb=skipbad from the start of any block, for any length, gives  *)
(* the data of the good blocks and leaves out the bad blocks, nothing else.  *)
DumpsGoodData ==
  pc = "done" => \A b \in 0..EbCnt - 1, n \in {1, 2, EbSize, EbSize + 1, 2 * Size} :
    Nanddump(DumpOptions(b * EbSize, n, FALSE)) = GoodData(b * EbSize, n)

(* The same of nanddump --continuous, which reads a block at a time.         *)
ContinuousDumpsGoodData ==
  pc = "done" => Nanddump(DumpOptions(0, 2 * Size, TRUE)) = GoodData(0, 2 * Size)

(* flash_erase and nandwrite put the image where nanddump and the kernel     *)
(* look for it, and leave alone what they are not to touch.                  *)
ImageInPlace == Placed /\ Untouched

(* nanddump reads what there is: what nandwrite stored, and the good blocks. *)
ReadsBack == RoundTrip /\ DumpsGoodData
=============================================================================
