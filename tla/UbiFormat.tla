------------------------------ MODULE UbiFormat -----------------------------
(***************************************************************************)
(* Making a UBI device: ubinize builds an image of volumes, ubiformat      *)
(* scans the flash, writes the image or an empty volume table and gives    *)
(* every other physical eraseblock (PEB) an erase counter (EC) header.     *)
(*                                                                         *)
(* The first page of a PEB holds the EC header: the counter and the        *)
(* offsets of what follows.  The second holds the volume identifier (VID)  *)
(* header, with volume and LEB number, and the data.                       *)
(***************************************************************************)
EXTENDS MtdDevice

CONSTANT LebSize  \* units of data in a LEB

ASSUME LebAssumption == LebSize \in 1..4 /\ Pages = 2

(* Header units.  The CRC of an EC header is right or wrong.                 *)
EcUnit(ec) == 1000 + ec
BadCrc == 999
IsEcUnit(u) == u >= 999 /\ u < 2000
VidUnit(vol, lnum) == 2000 + 10 * vol + lnum
(* Both offsets as one number: the data offset that ubigen_info_init() has   *)
(* for a VID header offset makes it even, another one makes it odd.          *)
Offs(u) == u - 500
VidOffs(offs) == offs \div 2
EcHdr(ec, offs) == <<EcUnit(ec), 500 + offs, FF>>

EB_EMPTY == -1
EB_CORRUPTED == -2
EB_ALIEN == -3
EB_BAD == -4
EC_MAX == 50
LayoutVol == 9
MaxConsecutiveBadBlocks == 4

(* What parse_opt() and ubigen_info_init() leave of the options, and that a  *)
(* page has three units.                                                     *)
ASSUME UbiAssumption ==
  \A j \in Jobs : j.tool = "ubi" =>
    /\ j.image \in BOOLEAN /\ j.ec \in -1..EC_MAX - 1 /\ j.offs \in Nat /\ j.offs % 2 = 0
    /\ \A b \in 0..EbCnt - 1 : j.hdrs[b + 1] \in [1..3 -> Int]

(***************************************************************************)
(* ubinize.  A section describes a volume: [mode, id, name, type, bytes,   *)
(* file, alignment, autoresize]; without an image its file is empty.       *)
(***************************************************************************)
UsableLebSize(vi) == LebSize - (LebSize % vi.alignment)

(* The data of a LEB as one unit.                                            *)
Coded(chunk) == SumFunction([i \in DOMAIN chunk |-> chunk[i] * 10^(Len(chunk) - i)])

(* Mutant: the last, partly filled LEB is forgotten.                         *)
WholeLebs(vi) == Len(vi.file) \div UsableLebSize(vi)

UsedLebs(vi) == (Len(vi.file) + UsableLebSize(vi) - 1) \div UsableLebSize(vi)

LebData(vi, lnum) == SubSeq(vi.file, lnum * UsableLebSize(vi) + 1,
                            Min({(lnum + 1) * UsableLebSize(vi), Len(vi.file)}))

(* ubigen_write_volume(): the LEBs of the volume, one PEB each.              *)
WriteVolume(vi) ==
  [l \in 1..UsedLebs(vi) |-> <<VidUnit(vi.id, l - 1), Coded(LebData(vi, l - 1)), FF>>]

(* ubigen_add_volume(): the eraseblocks the volume table reserves.           *)
ReservedPebs(vi) == (vi.bytes + LebSize - 1) \div LebSize

Vtbl(sections) == 5000 + Coded([i \in DOMAIN sections |-> ReservedPebs(sections[i])])

(* ubigen_write_layout_vol(): two copies of the volume table.                *)
LayoutPeb(sections, copy) == <<VidUnit(LayoutVol, copy - 1), Vtbl(sections), FF>>

(* The layout volume is in the first two PEBs of the image, the others follow. *)
UbiImage(sections) ==
  LET img[i \in 0..Len(sections)] ==
        IF i = 0 THEN [copy \in 1..2 |-> LayoutPeb(sections, copy)]
        ELSE img[i - 1] \o WriteVolume(sections[i])
  IN img[Len(sections)]

(* read_section() and main().  For a section of another mode read_section()  *)
(* returns 1, and main() goes on with a volume that has alignment 0 and no   *)
(* name, on which it crashes.                                                *)
SectionOK(vi) ==
  /\ vi.mode = "ubi"
  /\ vi.bytes > 0 /\ Len(vi.file) <= vi.bytes
  /\ vi.type = "static" => vi.file # <<>>
  /\ vi.alignment < LebSize

SectionsOK(sections) ==
  /\ sections # <<>>
  /\ \A i \in DOMAIN sections :
       /\ SectionOK(sections[i])
       /\ \A j \in 1..i - 1 : /\ sections[i].id # sections[j].id
                              /\ sections[i].name # sections[j].name
                              /\ ~(sections[i].autoresize /\ sections[j].autoresize)

Ubinize ==
  /\ pc = "ubinize"
  /\ \/ ~SectionsOK(job.sections) /\ Exit(1) /\ UNCHANGED v
     \/ SectionsOK(job.sections) /\ pc' = "ubiformat" /\ v' = [img |-> UbiImage(job.sections)] /\ UNCHANGED code
  /\ UNCHANGED <<flash, bad, job, faults>>

(***************************************************************************)
(* ubi_scan().                                                             *)
(***************************************************************************)
(* Good blocks with an EC header and its right CRC.  The first of them gives *)
(* the offsets that the others must have; they must be those of whole pages. *)
Scanned(hdr, badblocks) ==
  LET valid == {b \in 0..EbCnt - 1 \ badblocks : IsEcUnit(hdr[b][1]) /\ hdr[b][1] # BadCrc}
      first == Min(valid)
      offs == IF valid = {} THEN -1 ELSE Offs(hdr[first][2])
  IN [ec |-> [b \in 0..EbCnt - 1 |->
                IF b \in badblocks THEN EB_BAD
                ELSE IF ~IsEcUnit(hdr[b][1]) THEN IF hdr[b] = Blank THEN EB_EMPTY ELSE EB_ALIEN
                ELSE IF b \notin valid \/ Offs(hdr[b][2]) # offs \/ (b = first /\ offs % 2 # 0) THEN EB_CORRUPTED
                ELSE hdr[b][1] - 1000],
      offs |-> offs,
      error |-> \E b \in valid : hdr[b][1] > EcUnit(EC_MAX)]

Scan == Scanned([b \in 0..EbCnt - 1 |-> flash[b * Pages]], bad)

With(si, S) == {b \in 0..EbCnt - 1 : si.ec[b] \in S}
OkPebs(si) == {b \in 0..EbCnt - 1 : si.ec[b] >= 0}
Good(si) == 0..EbCnt - 1 \ With(si, {EB_BAD})

MeanEc(si) ==
  IF OkPebs(si) = {} THEN 0
  ELSE SumFunctionOnSet(si.ec, OkPebs(si)) \div Cardinality(OkPebs(si))

(***************************************************************************)
(* ubiformat.                                                              *)
(***************************************************************************)
(* Mutant: the mean of a few counters that are known is used for all.        *)
OverrideMean(si) ==
  LET percent == (100 * Cardinality(OkPebs(si))) \div Cardinality(Good(si)) IN
  IF job.ec >= 0 THEN job.ec
  ELSE IF With(si, {EB_EMPTY}) = Good(si) \/ percent >= 95 THEN -1 ELSE MeanEc(si)

(* The counter for all blocks that main() decides on, -1 for none.           *)
OverrideEc(si) ==
  LET percent == (100 * Cardinality(OkPebs(si))) \div Cardinality(Good(si)) IN
  IF job.ec >= 0 THEN job.ec
  ELSE IF With(si, {EB_EMPTY}) = Good(si) \/ percent >= 95 THEN -1
  ELSE IF percent < 50 THEN 0 ELSE MeanEc(si)

(* The questions main() asks before it writes, unless --yes is given.        *)
Asks(si) == ~job.yes /\ (With(si, {EB_ALIEN}) # {} \/ OverrideEc(si) # job.ec)

(* The offsets the headers get: the flash's only if the user insists.  The   *)
(* offset of the data follows from the one of the VID header.                *)
Offsets(si) ==
  IF si.offs # -1 /\ VidOffs(si.offs) # VidOffs(job.offs) /\ ~job.yes
  THEN {job.offs, 2 * VidOffs(si.offs)} ELSE {job.offs}

(* open_file() and the size checks of flash_image().                         *)
ImageFits(si) == ~job.cut /\ Len(v.img) <= Cardinality(Good(si))

Ubiformat ==
  /\ pc = "ubiformat"
  /\ \E si \in {Scan} :
       \/ /\ si.error \/ Cardinality(Good(si)) < 2 \/ Asks(si) \/ (job.image /\ ~ImageFits(si))
          /\ Exit(1) /\ UNCHANGED v
       \/ /\ ~si.error /\ Cardinality(Good(si)) >= 2 /\ (job.image => ImageFits(si))
          /\ \E offs \in Offsets(si) :
               v' = [img |-> IF job.image THEN v.img ELSE <<>>, si |-> si, ec |-> OverrideEc(si),
                     mean |-> MeanEc(si), offs |-> offs, eb |-> 0, read |-> 0, skip |-> FALSE,
                     written |-> 0, eb1 |-> -1, eb2 |-> -1, prev_bb |-> -1, consecutive |-> 1, tortured |-> {}]
          /\ pc' = IF job.image THEN "flash_image" ELSE "format"
          /\ UNCHANGED code
  /\ UNCHANGED <<flash, bad, job, faults>>

(* Mutant: the mean takes the place of a counter that is known.              *)
MeanForAll(eb) == IF v.ec >= 0 THEN v.ec ELSE v.mean

NewEc(eb) == IF v.ec >= 0 THEN v.ec ELSE IF v.si.ec[eb] >= 0 THEN v.si.ec[eb] + 1 ELSE v.mean

ConsecutiveBad(eb) == IF v.prev_bb # -1 /\ eb = v.prev_bb + 1 THEN v.consecutive + 1 ELSE 1

(* mark_bad(): the user declines, the flash refuses, or the block is bad.    *)
MarkBad(back) ==
  \/ Exit(1) /\ UNCHANGED <<bad, v>>
  \/ /\ bad' = bad \cup {v.eb}
     /\ v' = [v EXCEPT !.si.ec[v.eb] = EB_BAD, !.eb = v.eb + 1, !.prev_bb = v.eb,
                       !.consecutive = ConsecutiveBad(v.eb), !.skip = v.skip \/ pc = "flash_write"]
     /\ \E limit \in {ConsecutiveBad(v.eb) >= MaxConsecutiveBadBlocks} :
          pc' = (IF limit THEN "done" ELSE back) /\ code' = IF limit THEN 1 ELSE code

(* Erase block v.eb, then take step Erased; a block that fails is marked bad. *)
ErasePeb(back, Erased) ==
  \E r \in Erase(flash, v.eb) :
    /\ flash' = r.f
    /\ \/ r.ok /\ Erased /\ UNCHANGED <<bad, faults, code>>
       \/ ~r.ok /\ faults' = faults \cup {v.eb} /\ MarkBad(back)

(* A block that could not be written is tortured and, if it fails that test  *)
(* too, marked bad.  If it passes it stays as the test leaves it.            *)
WritePebFails(back) ==
  /\ MayFail(v.eb)
  /\ faults' = faults \cup {v.eb}
  /\ flash' = Put(flash, PagesOf(v.eb), <<Junk, Junk, FF>>)
  /\ \/ MarkBad(back)
     \/ /\ v' = [v EXCEPT !.eb = v.eb + 1, !.skip = pc = "flash_write", !.tortured = v.tortured \cup {v.eb}]
        /\ pc' = back /\ UNCHANGED <<bad, code>>

WriteEcHdr(f, eb, ec, offs) == Programmed(f, eb * Pages, EcHdr(ec, offs))
WritePeb(f, eb, peb) == Programmed(f, eb * Pages + 1, peb)

NextPeb(back) == v' = [v EXCEPT !.eb = v.eb + 1] /\ pc' = back

(* The buffer: the next eraseblock of the image, or the one not yet written. *)
ReadAll == IF v.skip THEN v.read ELSE v.read + 1

FlashImage ==
  /\ pc = "flash_image"
  /\ \/ /\ v.eb = EbCnt
        /\ NextPeb("format") /\ UNCHANGED <<flash, bad, faults, code>>
     \/ /\ v.eb < EbCnt /\ v.si.ec[v.eb] = EB_BAD
        /\ NextPeb("flash_image") /\ UNCHANGED <<flash, bad, faults, code>>
     \/ /\ v.eb < EbCnt /\ v.si.ec[v.eb] # EB_BAD
        /\ ErasePeb("flash_image", /\ v' = [v EXCEPT !.read = ReadAll, !.skip = FALSE]
                                   /\ pc' = "flash_write")
  /\ UNCHANGED job

(* change_ech() wants a good EC header in the image and keeps its offsets.   *)
BadEch == v.read > Len(v.img) \/ v.read = job.bad_ech

FlashWrite ==
  /\ pc = "flash_write"
  /\ \/ BadEch /\ Exit(1) /\ UNCHANGED <<flash, bad, faults, v>>
     \/ ~BadEch /\ WritePebFails("flash_image")
     \/ /\ ~BadEch
        /\ flash' = WritePeb(WriteEcHdr(flash, v.eb, NewEc(v.eb), job.offs), v.eb, v.img[v.read])
        /\ v' = [v EXCEPT !.eb = v.eb + 1, !.written = v.written + 1]
        /\ pc' = IF v.written + 1 >= Len(v.img) THEN "format" ELSE "flash_image"
        /\ UNCHANGED <<bad, faults, code>>
  /\ UNCHANGED job

(* Mutant: blocks are left for a volume table that the image already has.    *)
AlsoForImage == v.eb2 = -1

(* format(): without an image the first two good blocks are left for the     *)
(* volume table.                                                             *)
ForVtbl == ~job.image /\ v.eb2 = -1

Format ==
  /\ pc = "format"
  /\ \/ /\ v.eb >= EbCnt /\ (job.image \/ ForVtbl)
        /\ Exit(IF job.image THEN 0 ELSE 1) /\ UNCHANGED <<flash, bad, faults, v>>
     \/ /\ v.eb >= EbCnt /\ ~job.image /\ ~ForVtbl
        /\ pc' = "layout_vol" /\ UNCHANGED <<flash, bad, faults, v, code>>
     \/ /\ v.eb < EbCnt /\ v.si.ec[v.eb] = EB_BAD
        /\ NextPeb("format") /\ UNCHANGED <<flash, bad, faults, code>>
     \/ /\ v.eb < EbCnt /\ v.si.ec[v.eb] # EB_BAD
        /\ ErasePeb("format", \/ ~ForVtbl /\ pc' = "format_write" /\ UNCHANGED v
                              \/ /\ ForVtbl /\ pc' = "format"
                                 /\ v' = [v EXCEPT !.eb = v.eb + 1, !.eb1 = IF v.eb1 = -1 THEN v.eb ELSE v.eb1,
                                                   !.eb2 = IF v.eb1 = -1 THEN -1 ELSE v.eb])
  /\ UNCHANGED job

FormatWrite ==
  /\ pc = "format_write"
  /\ \/ WritePebFails("format")
     \/ /\ flash' = WriteEcHdr(flash, v.eb, NewEc(v.eb), v.offs)
        /\ NextPeb("format") /\ UNCHANGED <<bad, faults, code>>
  /\ UNCHANGED job

(* ubigen_write_layout_vol(): one copy after the other, no second try.       *)
LayoutVolume ==
  /\ pc = "layout_vol"
  /\ \E eb \in {IF v.written = 0 THEN v.eb1 ELSE v.eb2} :
       \/ /\ MayFail(eb) /\ faults' = faults \cup {eb}
          /\ flash' = Put(flash, PagesOf(eb), <<Junk, Junk, FF>>)
          /\ Exit(1) /\ UNCHANGED v
       \/ /\ flash' = WritePeb(WriteEcHdr(flash, eb, NewEc(eb), v.offs), eb, LayoutPeb(<<>>, v.written + 1))
          /\ v' = [v EXCEPT !.written = v.written + 1]
          /\ (IF v.written = 1 THEN Exit(0) ELSE UNCHANGED <<pc, code>>)
          /\ UNCHANGED faults
  /\ UNCHANGED <<bad, job>>

UbiNext == Ubinize \/ Ubiformat \/ FlashImage \/ FlashWrite \/ Format \/ FormatWrite \/ LayoutVolume

(***************************************************************************)
(* UBI devices.                                                            *)
(***************************************************************************)
UbiDone == pc = "done" /\ job.tool = "ubi" /\ code = 0

HasEcHdr(b) == b \notin bad /\ flash[b * Pages][1] \in 1000..1000 + EC_MAX

(* The data of the blocks that claim to be LEB lnum of a volume.             *)
Copies(vol, lnum) ==
  {<<b, flash[b * Pages + 1][2]>> : b \in {c \in 0..EbCnt - 1 :
     HasEcHdr(c) /\ flash[c * Pages + 1][1] = VidUnit(vol, lnum)}}

(* When ubiformat reports success, and has come to the end of the image that *)
(* ubinize made of the volumes of an ini-file, every LEB of every volume is  *)
(* on exactly one good block, with its part of the volume's file and within  *)
(* the size of the volume if the alignment wastes nothing; there are no      *)
(* others, also of what was on the flash before, and the volume table has    *)
(* exactly two copies.  Without an image there are the two copies only.      *)
VolumesStored ==
  (UbiDone /\ (job.image => v.written = Len(v.img))) =>
    /\ \A copy \in 0..1 : Cardinality(Copies(LayoutVol, copy)) = 1
    /\ ~job.image => Copies(1, 0) = {}
    /\ job.image => \A i \in DOMAIN job.sections :
         LET vi == job.sections[i]
             usable == LebSize - (LebSize % vi.alignment)
         IN \A l \in 0..Len(vi.file) :
              IF l * usable >= Len(vi.file) THEN Copies(vi.id, l) = {}
              ELSE /\ \E b \in 0..EbCnt - 1 :
                        Copies(vi.id, l) = {<<b, Coded(SubSeq(vi.file, l * usable + 1,
                                                     Min({(l + 1) * usable, Len(vi.file)})))>>}
                   /\ usable = LebSize => l < (vi.bytes + LebSize - 1) \div LebSize

(* The eraseblocks of the image are, in order and each once, in the blocks   *)
(* that flash_image() could write.  When so many failed that the device ends *)
(* before the image does, the device is full of the image's beginning.       *)
ImageInOrder ==
  (UbiDone /\ job.image) =>
    LET room == 0..EbCnt - 1 \ (bad \cup v.tortured)
        nr(b) == Cardinality({c \in room : c <= b})
    IN /\ v.written = Min({Len(v.img), Cardinality(room)})
       /\ \A b \in room : nr(b) <= v.written => flash[b * Pages + 1] = v.img[nr(b)]

(* What ubiformat has formatted, ubi_scan accepts: every block that is not   *)
(* bad has a valid EC header with the same offsets, provided that the image  *)
(* was made for the offsets used and no counter had reached EC_MAX, except   *)
(* for blocks that could not be written but passed the torture test.         *)
Rescans ==
  (UbiDone /\ (job.image => v.offs = job.offs) /\ \A b \in 0..EbCnt - 1 : v.si.ec[b] < EC_MAX) =>
    LET si == Scan IN ~si.error /\ \A b \in 0..EbCnt - 1 \ (bad \cup v.tortured) : si.ec[b] >= 0

(* If every good block had a valid erase counter and none was given with -e, *)
(* ubiformat loses none and counts its erasure: wherever it stops, an EC     *)
(* header has the block's counter or the next one, and after success every   *)
(* good block has the next one.                                              *)
AllCountersKept ==
  LET ec(b) == job.hdrs[b + 1][1] IN
  (job.tool = "ubi" /\ job.ec = -1
     /\ \A b \in 0..EbCnt - 1 \ job.bad : /\ ec(b) \in 1000..1000 + EC_MAX
                                          /\ job.hdrs[b + 1][2] = 500 + job.offs)
    => \A b \in 0..EbCnt - 1 \ bad :
         /\ HasEcHdr(b) => flash[b * Pages][1] \in {ec(b), ec(b) + 1}
         /\ (UbiDone /\ b \notin v.tortured) => flash[b * Pages][1] = ec(b) + 1

(* What a scan of the device finds before the tools are started.             *)
Found == Scanned([b \in 0..EbCnt - 1 |-> job.hdrs[b + 1]], job.bad)

(* The blocks that have been given a counter, and the counter of a block.    *)
CountedEbs == 0..EbCnt - 1 \ (bad \cup v.tortured)
CounterOf(b) == flash[b * Pages][1] - 1000

(* After success every block has the counter that the options, the messages  *)
(* of main() or get_ec() announce.  With -e it is the one given.  If fewer   *)
(* than half of the good blocks have a valid counter, and not all are empty, *)
(* it is 0.  Otherwise it is the mean for a block that has none, and if at   *)
(* least 95 per cent are valid the others count on.  Nothing is said of the  *)
(* valid counters when there are 50 to 94 per cent: see MeanForTheRest.      *)
CountersAnnounced ==
  UbiDone =>
    LET ok == Cardinality(OkPebs(Found))
        good == Cardinality(Good(Found))
        few == 2 * ok < good /\ With(Found, {EB_EMPTY}) # Good(Found)
    IN \A b \in CountedEbs :
         /\ job.ec >= 0 => CounterOf(b) = job.ec
         /\ (job.ec = -1 /\ few) => CounterOf(b) = 0
         /\ (job.ec = -1 /\ ~few /\ Found.ec[b] < 0) => CounterOf(b) = MeanEc(Found)
         /\ (job.ec = -1 /\ 20 * ok >= 19 * good /\ Found.ec[b] >= 0) => CounterOf(b) = Found.ec[b] + 1

(* The erase counters that ubiformat writes (change_ech(), get_ec()).        *)
CountersKept == AllCountersKept /\ CountersAnnounced

(* "mean erase counter %lld will be used for the rest of eraseblock"         *)
(* (ubiformat.c:866): if at least half of the good blocks have a valid       *)
(* counter, they count on, and the rest get the mean.                        *)
MeanForTheRest ==
  (UbiDone /\ job.ec = -1 /\ 2 * Cardinality(OkPebs(Found)) >= Cardinality(Good(Found))) =>
    \A b \in CountedEbs :
      CounterOf(b) = IF Found.ec[b] >= 0 THEN Found.ec[b] + 1 ELSE MeanEc(Found)

(* ubinize ignores sections of an ini-file whose mode is not "ubi": if the   *)
(* other sections are right it makes an image of them.                       *)
OtherModesIgnored ==
  (pc = "done" /\ job.tool = "ubi" /\ job.image) =>
    LET isubi(vi) == vi.mode = "ubi" IN
    SectionsOK(SelectSeq(job.sections, isubi)) => "img" \in DOMAIN v

(* ubinize and ubiformat leave a device with the volumes of the ini-file     *)
(* that ubi_scan() accepts.                                                  *)
Formatted == VolumesStored /\ ImageInOrder /\ Rescans
=============================================================================
