------------------------- MODULE BlockRewriteProofs -------------------------
(***************************************************************************)
(* flashcp, nandtest --keep and nandflipbits rewrite eraseblocks as they   *)
(* are to, for every device, every file and every list of flips: the       *)
(* property RewritesBlocks.                                                *)
(***************************************************************************)
EXTENDS BlockRewrite, FiniteSetTheorems, TLAPS

USE ZenonT(30)

(***************************************************************************)
(* Arithmetic.                                                             *)
(***************************************************************************)
(* Products of natural numbers are monotonic.                                *)
LEMMA ProductGrows ==
  ASSUME NEW x \in Nat, NEW y \in Nat, NEW d \in Nat, x <= y
  PROVE  x * d <= y * d
<1> DEFINE e == y - x
<1>1. e \in Nat /\ y = x + e BY SMTT(30)
<1> HIDE DEF e
<1>2. y * d = x * d + e * d /\ e * d \in Nat /\ x * d \in Nat BY <1>1, SMTT(30)
<1> QED BY <1>2, SMTT(30)

(* The quotient is the number of whole multiples.                            *)
LEMMA QuotientIs ==
  ASSUME NEW a \in Nat, NEW d \in Nat \ {0}, NEW b \in Nat
  PROVE  a \div d = b <=> b * d <= a /\ a < (b + 1) * d
<1> DEFINE k == a \div d
<1>1. k \in Nat /\ k * d <= a /\ a < (k + 1) * d
  BY SMTT(30)
<1> HIDE DEF k
<1>2. k < b => (k + 1) * d <= b * d BY <1>1, ProductGrows, SMTT(30)
<1>3. b < k => (b + 1) * d <= k * d BY <1>1, ProductGrows, SMTT(30)
<1> QED BY <1>1, <1>2, <1>3, SMTT(30) DEF k

(* Division with remainder.                                                  *)
LEMMA Division ==
  ASSUME NEW a \in Nat, NEW d \in Nat \ {0}
  PROVE  a \div d \in Nat /\ a % d \in 0..d - 1 /\ a = (a \div d) * d + (a % d)
<1>1. \A x \in Nat, y \in Nat : y > 0 => x = (x \div y) * y + (x % y) BY SMTT(30)
<1>2. a \div d \in Nat /\ a % d \in 0..d - 1 BY SMTT(30)
<1>3. d \in Nat /\ d > 0 BY SMTT(30)
<1>4. a = (a \div d) * d + (a % d) BY <1>1, <1>3
<1> QED BY <1>2, <1>4

(* A remainder in range determines the quotient.                             *)
LEMMA QuotientAndRest ==
  ASSUME NEW d \in Nat \ {0}, NEW c \in Nat, NEW m \in 0..d - 1, NEW a, a = c * d + m
  PROVE  a \in Nat /\ a \div d = c /\ a % d = m
<1>1. a \in Nat /\ c * d \in Nat BY SMTT(30)
<1>2. c * d <= a /\ a < (c + 1) * d BY <1>1, SMTT(30)
<1>3. a \div d = c BY <1>1, <1>2, QuotientIs
<1>4. PICK x \in 0..d - 1 : x = a % d /\ a = c * d + x BY <1>1, <1>3, Division
<1> QED BY <1>1, <1>3, <1>4, SMTT(30)

(* A set of naturals that is not empty has a least element.  It is a         *)
(* hypothesis here, and LeastNat of ProofLemmas proves it.                   *)
WellOrdered == \A S \in SUBSET Nat : S # {} => \E m \in S : \A k \in S : m <= k

(***************************************************************************)
(* Flash contents.                                                         *)
(***************************************************************************)
Cells == [1..3 -> Int]
Flashes == [0..Size - 1 -> Cells]

(* The pages the tools read and write are pages: blank, junk, and what the   *)
(* device held before.                                                       *)
LEMMA CellFacts ==
  /\ Blank \in Cells /\ <<Junk, Junk, Junk>> \in Cells /\ <<Junk, Junk, FF>> \in Cells
  /\ \A p \in Int : Old(p) \in Cells
  /\ Blank[1] = FF /\ Blank[2] = FF /\ Blank[3] = FF
BY SMTT(30) DEF Cells, Blank, Junk, FF, Old

(* The pages of an eraseblock are those whose number divided by the pages    *)
(* per eraseblock is its number.                                             *)
LEMMA PagesFacts ==
  ASSUME NEW b \in 0..EbCnt - 1
  PROVE  /\ PagesOf(b) \subseteq 0..Size - 1
         /\ \A p \in 0..Size - 1 : p \in PagesOf(b) <=> Block(p) = b
BY MtdAssumption, SMTT(30) DEF PagesOf, Size, Block

(* The data of a page without its OOB area is its two units.                 *)
LEMMA CellData ==
  ASSUME NEW c \in Cells
  PROVE  SubSeq(c, 1, 2) = [i \in 1..2 |-> c[i]]
BY SMTT(30) DEF Cells

(***************************************************************************)
(* Which tool is where.                                                    *)
(***************************************************************************)
FcpPc == {"flashcp", "fcp_erase", "fcp_write", "fcp_last", "diff_blocks", "diff_erase", "diff_write"}
TestPc == {"nandtest", "test_block", "test_erase", "test_write", "test_check"}
FlipPc == {"nandflipbits", "flip_block", "flip_erase", "flip_write"}

(***************************************************************************)
(* The inductive invariant.                                                *)
(***************************************************************************)
OldFlash == [p \in 0..Size - 1 |-> Old(p)]
OldUnit(u) == Old(u \div 2)[(u % 2) + 1]
NewUnit(u) == IF u < FileLen THEN job.file[u + 1] ELSE FF
UnitsOf(b) == b * BlockUnits..(b + 1) * BlockUnits - 1
Fits == FileLen <= BlockUnits * EbCnt

(* flashcp.  What has been verified stays, and the variables are in range.   *)
FcpOK ==
  /\ flash \in Flashes
  /\ pc = "flashcp" => flash = OldFlash /\ faults = {}
  /\ pc \in FcpPc \ {"flashcp"} => Fits
  /\ pc # "flashcp" => /\ DOMAIN v = {"eb", "pos", "last"}
                       /\ v.eb \in Nat /\ v.pos \in Nat /\ v.last \in Nat
  /\ pc \in {"fcp_erase", "fcp_write", "fcp_last"} => ~job.partition
  /\ pc \in {"fcp_write", "fcp_last"} => v.last <= FileLen
  /\ pc \in {"diff_blocks", "diff_erase", "diff_write"} => job.partition
  /\ Verified

(* flashcp --wr-last.  Before the first units are written the rest is there. *)
LastOK ==
  (WrLast /\ ~job.partition /\ Fits /\ faults = {}) =>
    /\ pc \in {"flashcp", "fcp_erase", "fcp_write", "done"} =>
         \/ \A u \in 0..job.wr_last - 1 : Stored(u) \in {FF, OldUnit(u)}
         \/ pc = "done" /\ Holds(job.wr_last, FileLen)
    /\ pc = "fcp_erase" => \A u \in 0..FileLen - 1 : u < v.eb * BlockUnits => Stored(u) = FF
    /\ pc = "fcp_write" => /\ v.last = job.wr_last /\ v.pos \in job.wr_last..FileLen
                           /\ \A u \in 0..FileLen - 1 :
                                Stored(u) = IF u \in job.wr_last..v.pos - 1 THEN job.file[u + 1] ELSE FF
    /\ pc = "fcp_last" => v.last = job.wr_last /\ v.pos <= v.last /\ Holds(job.wr_last, FileLen)

OldOrNew(b) ==
  \/ \A u \in UnitsOf(b) : Stored(u) = OldUnit(u)
  \/ \A u \in UnitsOf(b) : Stored(u) = NewUnit(u)

(* flashcp --partition.  The blocks before v.eb hold the file; the block     *)
(* being written holds it up to v.pos and is erased behind; a block no       *)
(* failure was met on is old or new.                                         *)
PartitionOK ==
  job.partition =>
    /\ pc \in {"diff_blocks", "diff_erase", "diff_write"} =>
         v.eb <= Blocks /\ \A u \in 0..FileLen - 1 : u < v.eb * BlockUnits => Stored(u) = job.file[u + 1]
    /\ pc \in {"diff_erase", "diff_write"} =>
         v.eb < Blocks /\ v.pos \in v.eb * BlockUnits..BlockEnd(v.eb)
    /\ pc = "diff_erase" => v.pos = v.eb * BlockUnits
    /\ (pc = "diff_write" /\ v.eb \notin faults) =>
         \A u \in UnitsOf(v.eb) : Stored(u) = IF u < v.pos THEN job.file[u + 1] ELSE FF
    /\ \A b \in 0..EbCnt - 1 \ (Busy \cup faults) : OldOrNew(b)

(* nandtest --keep.  The blocks are as before, and the buffer has what was   *)
(* in the block being tested.                                                *)
IsOld(b) == \A p \in PagesOf(b) : flash[p][1] = Old(p)[1] /\ flash[p][2] = Old(p)[2]

TestOK ==
  /\ flash \in Flashes
  /\ pc = "nandtest" => flash = OldFlash
  /\ pc # "nandtest" => /\ DOMAIN v = {"eb", "pass", "restore", "kbuf"}
                        /\ v.eb \in Nat /\ v.restore \in BOOLEAN
  /\ pc \in TestPc \ {"nandtest"} => job.offset + job.length <= EbCnt
  /\ pc \in {"test_erase", "test_write", "test_check"} =>
       /\ v.eb \in 0..EbCnt - 1
       /\ \A p \in PagesOf(v.eb) : /\ v.kbuf[p] = <<v.kbuf[p][1], v.kbuf[p][2]>>
                                   /\ v.kbuf[p][1] \in Int /\ v.kbuf[p][2] \in Int
  /\ job.keep =>
       /\ pc = "test_block" => ~v.restore
       /\ \A b \in 0..EbCnt - 1 \ (Busy \cup faults) : IsOld(b)
       /\ (pc \in {"test_erase", "test_write", "test_check"} /\ v.eb \notin faults) =>
            \A p \in PagesOf(v.eb) : v.kbuf[p] = <<Old(p)[1], Old(p)[2]>>

(* nandflipbits.  A block is flipped if one of its flips is done that was    *)
(* not taken for done, and then all its flips are done.                      *)
DoneNow(i) == v.done[i] /\ ~v.given[i]

FlipsOK ==
  /\ v.flips = [i \in DOMAIN job.flips |-> Place(job.flips[i])]
  /\ \A i \in DOMAIN job.flips : v.flips[i].block \in 0..EbCnt - 1
  /\ DOMAIN v = {"flips", "done", "given", "eb", "page", "buf"}
  /\ v.done \in [DOMAIN job.flips -> BOOLEAN] /\ v.given \in [DOMAIN job.flips -> BOOLEAN]
  /\ \A i \in DOMAIN job.flips : v.given[i] => v.done[i]
  /\ \A i, k \in DOMAIN job.flips :
       DoneNow(i) /\ v.flips[k].block = v.flips[i].block => v.done[k]
  /\ \A b \in 0..EbCnt - 1 \ (Busy \cup faults) : \A p \in PagesOf(b) :
       flash[p] = IF \E i \in DOMAIN job.flips : v.flips[i].block = b /\ DoneNow(i)
                  THEN Flipped(p) ELSE Old(p)

FlipOK ==
  /\ flash \in Flashes
  /\ pc = "nandflipbits" => flash = OldFlash /\ faults = {}
  /\ pc \in FlipPc \ {"nandflipbits"} => FlipsOK
  /\ pc \in {"flip_erase", "flip_write"} =>
       /\ \E i \in DOMAIN job.flips : ~v.done[i] /\ v.flips[i].block = v.eb
       /\ v.buf \in [PagesOf(v.eb) -> Cells]
       /\ v.page \in 0..Pages - 1
       /\ v.eb \notin faults => \A p \in PagesOf(v.eb) : v.buf[p] = Flipped(p)
  /\ pc = "flip_erase" => v.page = 0
  /\ (pc = "flip_write" /\ v.eb \notin faults) => \A p \in PagesOf(v.eb) :
       flash[p] = IF p < v.eb * Pages + v.page THEN v.buf[p] ELSE Blank
  /\ pc = "done" => (flash = OldFlash /\ code = 1) \/ FlipsOK
  /\ (pc = "done" /\ code = 0) => \A i \in DOMAIN job.flips : v.done[i]

RewriteInv ==
  /\ job \in Jobs
  /\ job.tool = "flashcp" => pc \in FcpPc \cup {"done"} /\ FcpOK /\ LastOK /\ PartitionOK
  /\ job.tool = "nandtest" => TestOK
  /\ job.tool = "nandflipbits" => pc \in FlipPc \cup {"done"} /\ FlipOK

(***************************************************************************)
(* A tool takes its own steps only.                                        *)
(***************************************************************************)
Stays(P) == pc \in P /\ pc' \in P \cup {"done"} /\ job' = job

(* Every step of flashcp stays inside flashcp.c.                             *)
LEMMA FcpSteps ==
  ASSUME FlashcpNext
  PROVE  Stays(FcpPc)
<1> USE DEF Stays, FcpPc, Exit
<1>1. CASE Flashcp BY <1>1 DEF Flashcp
<1>2. CASE FcpErase BY <1>2 DEF FcpErase
<1>3. CASE FcpWrite BY <1>3 DEF FcpWrite
<1>4. CASE FcpWriteLast BY <1>4 DEF FcpWriteLast
<1>5. CASE FcpVerify BY <1>5 DEF FcpVerify
<1>6. CASE DiffBlock BY <1>6 DEF DiffBlock
<1>7. CASE DiffErase BY <1>7 DEF DiffErase
<1>8. CASE DiffWrite BY <1>8 DEF DiffWrite
<1>9. CASE DiffVerify BY <1>9 DEF DiffVerify
<1> QED BY <1>1, <1>2, <1>3, <1>4, <1>5, <1>6, <1>7, <1>8, <1>9 DEF FlashcpNext

(* Every step of nandtest stays inside nandtest.c.                           *)
LEMMA TestSteps ==
  ASSUME NandtestNext
  PROVE  Stays(TestPc)
<1> USE DEF Stays, TestPc, Exit
<1>1. CASE Nandtest BY <1>1 DEF Nandtest
<1>2. CASE TestBlock BY <1>2 DEF TestBlock
<1>3. CASE TestErase BY <1>3 DEF TestErase, TestFails
<1>4. CASE TestWrite BY <1>4 DEF TestWrite, TestFails
<1>5. CASE TestCheck BY <1>5 DEF TestCheck, AfterCheck
<1> QED BY <1>1, <1>2, <1>3, <1>4, <1>5 DEF NandtestNext

(* Every step of nandflipbits stays inside nandflipbits.c.                   *)
LEMMA FlipSteps ==
  ASSUME FlipNext
  PROVE  Stays(FlipPc)
<1> USE DEF Stays, FlipPc, Exit
<1>1. CASE Nandflipbits BY <1>1 DEF Nandflipbits
<1>2. CASE FlipBlock BY <1>2 DEF FlipBlock
<1>3. CASE FlipErase BY <1>3 DEF FlipErase
<1>4. CASE FlipWrite BY <1>4 DEF FlipWrite
<1> QED BY <1>1, <1>2, <1>3, <1>4 DEF FlipNext


(***************************************************************************)
(* Erasing a block and programming a unit.                                 *)
(***************************************************************************)
UnitOf(f, u) == f[u \div 2][(u % 2) + 1]
InDevice(u) == u \in Nat /\ u < BlockUnits * EbCnt

(* A unit is one of an eraseblock's exactly if its page is in that           *)
(* eraseblock.                                                               *)
LEMMA UnitBlock ==
  ASSUME NEW u \in Nat, NEW b \in Nat
  PROVE  u \in UnitsOf(b) <=> Block(u \div 2) = b
<1> DEFINE q == u \div 2
<1>1. q \in Nat /\ (u = 2 * q \/ u = 2 * q + 1) BY SMTT(30)
<1> HIDE DEF q
<1>3. Block(q) = b <=> b * Pages <= q /\ q < (b + 1) * Pages
  BY <1>1, MtdAssumption, QuotientIs DEF Block
<1>4. u \in UnitsOf(b) <=> b * (2 * Pages) <= u /\ u < (b + 1) * (2 * Pages)
  BY MtdAssumption, SMTT(30) DEF UnitsOf, BlockUnits
<1>5. b * (2 * Pages) = 2 * (b * Pages) /\ (b + 1) * (2 * Pages) = 2 * ((b + 1) * Pages)
      /\ b * Pages \in Nat /\ (b + 1) * Pages \in Nat
  BY MtdAssumption, SMTT(30)
<1> QED BY <1>1, <1>3, <1>4, <1>5, SMTT(30) DEF q

(* A unit of the device is half of a page of the device.                     *)
LEMMA UnitInDevice ==
  ASSUME NEW u, InDevice(u)
  PROVE  /\ u \div 2 \in 0..Size - 1 /\ Block(u \div 2) \in 0..EbCnt - 1
         /\ (u % 2) + 1 \in 1..2
<1> DEFINE q == u \div 2
<1>1. q \in Nat /\ (u = 2 * q \/ u = 2 * q + 1) BY SMTT(30) DEF InDevice
<1>2. (u % 2) + 1 \in 1..2 BY SMTT(30) DEF InDevice
<1> HIDE DEF q
<1>3. BlockUnits * EbCnt = 2 * (EbCnt * Pages) /\ EbCnt * Pages \in Nat
  BY MtdAssumption, SMTT(30) DEF BlockUnits
<1>4. q \in 0..Size - 1
  BY <1>1, <1>3, SMTT(30) DEF InDevice, Size
<1>5. Block(q) \in 0..EbCnt - 1
  BY <1>4, MtdAssumption, SMTT(30) DEF Block, Size
<1> QED BY <1>2, <1>4, <1>5 DEF q

(* What mtd_erase returns: other eraseblocks keep their pages, and if it     *)
(* succeeds the eraseblock is blank.                                         *)
LEMMA EraseFacts ==
  ASSUME NEW f \in Flashes, NEW b \in 0..EbCnt - 1, NEW r \in Erase(f, b)
  PROVE  /\ r.f \in Flashes /\ r.ok \in BOOLEAN
         /\ \A p \in 0..Size - 1 : Block(p) # b => r.f[p] = f[p]
         /\ r.ok => \A p \in PagesOf(b) : r.f[p] = Blank
<1>1. PagesOf(b) \in SUBSET (0..Size - 1) BY PagesFacts
<1>2. \A p \in 0..Size - 1 : Block(p) # b => p \in (0..Size - 1) \ PagesOf(b) BY PagesFacts
<1>3. CASE r = [f |-> Put(f, PagesOf(b), Blank), ok |-> TRUE]
  <2> DEFINE g == Put(f, PagesOf(b), Blank)
  <2>1. /\ g \in Flashes
        /\ \A p \in PagesOf(b) : g[p] = Blank
        /\ \A p \in (0..Size - 1) \ PagesOf(b) : g[p] = f[p]
    BY <1>1, CellFacts DEF Put, Flashes
  <2>2. r.f = g /\ r.ok = TRUE BY <1>3
  <2> HIDE DEF g
  <2> QED BY <2>1, <2>2, <1>2
<1>4. CASE r = [f |-> f, ok |-> FALSE]
  BY <1>4
<1>5. CASE r = [f |-> Put(f, PagesOf(b), <<Junk, Junk, Junk>>), ok |-> FALSE]
  <2> DEFINE g == Put(f, PagesOf(b), <<Junk, Junk, Junk>>)
  <2>1. g \in Flashes /\ \A p \in (0..Size - 1) \ PagesOf(b) : g[p] = f[p]
    BY <1>1, CellFacts DEF Put, Flashes
  <2>2. r.f = g /\ r.ok = FALSE BY <1>5
  <2> HIDE DEF g
  <2> QED BY <2>1, <2>2, <1>2
<1> QED BY <1>3, <1>4, <1>5 DEF Erase

(* At() touches one unit of the page.                                        *)
LEMMA StoreUnit ==
  ASSUME NEW f \in Flashes, NEW u, InDevice(u), NEW val \in Int,
         NEW r \in Store(f, u \div 2, At(u, val))
  PROVE  /\ r.f \in Flashes /\ r.ok \in BOOLEAN /\ r.fault \in BOOLEAN
         /\ ~r.ok => r.fault
         /\ \A w : InDevice(w) /\ w # u => UnitOf(r.f, w) = UnitOf(f, w)
         /\ ~r.fault => UnitOf(r.f, u) = Prog(UnitOf(f, u), val)
<1> DEFINE q == u \div 2
           k == (u % 2) + 1
           good == [i \in 1..3 |-> Prog(f[q][i], At(u, val)[i])]
           spoilt == [i \in 1..3 |-> IF At(u, val)[i] = FF THEN f[q][i] ELSE Junk]
<1>1. q \in 0..Size - 1 /\ k \in 1..2 BY UnitInDevice
<1>2. f[q] \in Cells BY <1>1 DEF Flashes
<1>3. good \in Cells /\ spoilt \in Cells
  BY <1>2, SMTT(30) DEF Cells, Prog, At, FF, Junk
<1>4. /\ r.ok \in BOOLEAN /\ r.fault \in BOOLEAN
      /\ ~r.ok => r.fault
      /\ ~r.fault => r.f = Put(f, {q}, good)
      /\ r.f \in {Put(f, {q}, good), Put(f, {q}, spoilt)}
  <2> HIDE DEF q, good, spoilt
  <2>1. \/ r = [f |-> Put(f, {q}, good), ok |-> TRUE, fault |-> FALSE]
        \/ r = [f |-> Put(f, {q}, spoilt), ok |-> TRUE, fault |-> TRUE]
        \/ r = [f |-> Put(f, {q}, spoilt), ok |-> FALSE, fault |-> TRUE]
    BY DEF Store, Programmed, Spoilt, q, good, spoilt
  <2>2. CASE r = [f |-> Put(f, {q}, good), ok |-> TRUE, fault |-> FALSE]
    <3>1. r.ok = TRUE /\ r.fault = FALSE /\ r.f = Put(f, {q}, good) BY <2>2
    <3> QED BY <3>1
  <2>3. CASE \E o \in BOOLEAN : r = [f |-> Put(f, {q}, spoilt), ok |-> o, fault |-> TRUE]
    <3>1. r.ok \in BOOLEAN /\ r.fault = TRUE /\ r.f = Put(f, {q}, spoilt) BY <2>3, SMTT(30)
    <3> QED BY <3>1
  <2> QED BY <2>1, <2>2, <2>3
<1>5. \A i \in 1..3 : i # k => good[i] = f[q][i] /\ spoilt[i] = f[q][i]
  BY DEF Prog, At, FF
<1>6. good[k] = Prog(f[q][k], val)
  BY <1>1, SMTT(30) DEF At
<1> HIDE DEF good, spoilt
<1>7. PICK c \in Cells : /\ r.f = Put(f, {q}, c)
                         /\ ~r.fault => c = good
                         /\ \A i \in 1..3 : i # k => c[i] = f[q][i]
  BY <1>3, <1>4, <1>5
<1>8. /\ r.f \in Flashes /\ r.f[q] = c
      /\ \A p \in 0..Size - 1 : p # q => r.f[p] = f[p]
  <2>1. {q} \in SUBSET (0..Size - 1) BY <1>1
  <2> HIDE DEF q
  <2>2. /\ Put(f, {q}, c) \in Flashes
        /\ \A p \in {q} : Put(f, {q}, c)[p] = c
        /\ \A p \in (0..Size - 1) \ {q} : Put(f, {q}, c)[p] = f[p]
    BY <2>1 DEF Put, Flashes
  <2> QED BY <1>7, <2>2
<1>9. ASSUME NEW w, InDevice(w), w # u PROVE UnitOf(r.f, w) = UnitOf(f, w)
  <2>1. w \div 2 \in 0..Size - 1 /\ (w % 2) + 1 \in 1..2 BY <1>9, UnitInDevice
  <2>2. CASE w \div 2 # q BY <2>1, <2>2, <1>8 DEF UnitOf
  <2>3. CASE w \div 2 = q
    <3>1. (w % 2) + 1 # k BY <2>3, <1>9, SMTT(30) DEF InDevice
    <3>2. UnitOf(r.f, w) = c[(w % 2) + 1] BY <2>3, <1>8 DEF UnitOf
    <3>3. UnitOf(f, w) = f[q][(w % 2) + 1] BY <2>3 DEF UnitOf
    <3> HIDE DEF q, k
    <3> QED BY <3>1, <3>2, <3>3, <2>1, <1>7, SMTT(30)
  <2> QED BY <2>2, <2>3
<1>10. ~r.fault => UnitOf(r.f, u) = Prog(UnitOf(f, u), val)
  BY <1>7, <1>8, <1>6, <1>1 DEF UnitOf
<1> QED BY <1>4, <1>8, <1>9, <1>10

(* The units of an eraseblock of the device are units of the device.         *)
LEMMA BlockInDevice ==
  ASSUME NEW b \in 0..EbCnt - 1, NEW u \in UnitsOf(b)
  PROVE  InDevice(u)
<1>1. BlockUnits \in Nat \ {0} /\ b \in Nat /\ b + 1 \in Nat /\ b + 1 <= EbCnt /\ EbCnt \in Nat
  BY MtdAssumption, SMTT(30) DEF BlockUnits
<1>2. (b + 1) * BlockUnits <= EbCnt * BlockUnits /\ b * BlockUnits \in Nat
  BY <1>1, ProductGrows, SMTT(30)
<1>3. EbCnt * BlockUnits = BlockUnits * EbCnt BY <1>1, SMTT(30)
<1>4. (b + 1) * BlockUnits \in Nat /\ EbCnt * BlockUnits \in Nat BY <1>1, SMTT(30)
<1> QED BY <1>2, <1>3, <1>4, SMTT(30) DEF InDevice, UnitsOf

(* Before the tool runs every unit holds its old data.                       *)
LEMMA OldStored ==
  ASSUME flash = OldFlash, NEW u, InDevice(u)
  PROVE  Stored(u) = OldUnit(u)
BY UnitInDevice DEF OldFlash, Stored, OldUnit

(***************************************************************************)
(* flashcp.                                                                *)
(***************************************************************************)
(* What an erasure does to the units, and a unit that is stored.             *)
LEMMA EraseUnits ==
  ASSUME NEW f \in Flashes, NEW b \in 0..EbCnt - 1, NEW r \in Erase(f, b)
  PROVE  /\ r.f \in Flashes /\ r.ok \in BOOLEAN
         /\ \A u : InDevice(u) /\ u \notin UnitsOf(b) => UnitOf(r.f, u) = UnitOf(f, u)
         /\ r.ok => \A u \in UnitsOf(b) : UnitOf(r.f, u) = FF
<1>1. /\ r.f \in Flashes /\ r.ok \in BOOLEAN
      /\ \A p \in 0..Size - 1 : Block(p) # b => r.f[p] = f[p]
      /\ r.ok => \A p \in PagesOf(b) : r.f[p] = Blank
  BY EraseFacts
<1>2. ASSUME NEW u, InDevice(u), u \notin UnitsOf(b) PROVE UnitOf(r.f, u) = UnitOf(f, u)
  <2>1. u \in Nat /\ b \in Nat BY <1>2, SMTT(30) DEF InDevice
  <2>2. u \div 2 \in 0..Size - 1 BY <1>2, UnitInDevice
  <2>3. Block(u \div 2) # b BY <1>2, <2>1, UnitBlock
  <2> QED BY <1>1, <2>2, <2>3 DEF UnitOf
<1>3. ASSUME r.ok, NEW u \in UnitsOf(b) PROVE UnitOf(r.f, u) = FF
  <2>1. InDevice(u) /\ u \in Nat /\ b \in Nat BY BlockInDevice, SMTT(30) DEF InDevice
  <2>2. u \div 2 \in 0..Size - 1 /\ (u % 2) + 1 \in 1..2 BY <2>1, UnitInDevice
  <2>3. u \div 2 \in PagesOf(b) BY <2>1, <2>2, UnitBlock, PagesFacts
  <2>4. r.f[u \div 2] = Blank BY <1>1, <1>3, <2>3
  <2> QED BY <2>2, <2>4, CellFacts, SMTT(30) DEF UnitOf
<1> QED BY <1>1, <1>2, <1>3

(* The command lines of flashcp: the file takes the eraseblocks flashcp.c    *)
(* computes from its size, and if it fits the device they are on it.         *)
LEMMA FcpJob ==
  ASSUME job \in Jobs, job.tool = "flashcp"
  PROVE  /\ FileLen \in Nat /\ \A u \in 0..FileLen - 1 : job.file[u + 1] \in Int
         /\ job.wr_last \in Nat /\ job.partition \in BOOLEAN /\ job.erase_all \in BOOLEAN
         /\ BlockUnits \in Nat \ {0} /\ EbCnt \in Nat \ {0}
         /\ Blocks \in Nat /\ FileLen <= Blocks * BlockUnits
         /\ Fits => Blocks <= EbCnt /\ \A u \in 0..FileLen - 1 : InDevice(u)
         /\ \A b \in Nat : b < Blocks => b * BlockUnits < FileLen
<1>1. job.file \in Seq(Int) /\ job.wr_last \in Nat /\ job.partition \in BOOLEAN /\ job.erase_all \in BOOLEAN
  BY RewriteJobs
<1>2. FileLen \in Nat /\ \A u \in 0..FileLen - 1 : job.file[u + 1] \in Int
  BY <1>1, SMTT(30) DEF FileLen
<1>3. BlockUnits \in Nat \ {0} /\ EbCnt \in Nat \ {0} BY MtdAssumption, SMTT(30) DEF BlockUnits
<1> DEFINE a == FileLen + BlockUnits - 1
<1>4. Blocks = a \div BlockUnits /\ a \in Nat BY <1>2, <1>3, SMTT(30) DEF Blocks
<1>5. Blocks \in Nat /\ Blocks * BlockUnits <= a /\ a < (Blocks + 1) * BlockUnits
  <2>1. a \div BlockUnits \in Nat BY <1>3, <1>4, SMTT(30)
  <2> HIDE DEF a
  <2> QED BY <1>3, <1>4, <2>1, QuotientIs
<1>6. (Blocks + 1) * BlockUnits = Blocks * BlockUnits + BlockUnits /\ Blocks * BlockUnits \in Nat
  BY <1>3, <1>5, SMTT(30)
<1>7. FileLen <= Blocks * BlockUnits
  BY <1>2, <1>3, <1>5, <1>6, SMTT(30)
<1>8. ASSUME NEW b \in Nat, b < Blocks PROVE b * BlockUnits < FileLen
  <2>1. (b + 1) * BlockUnits <= Blocks * BlockUnits BY <1>3, <1>5, <1>8, ProductGrows, SMTT(30)
  <2>2. (b + 1) * BlockUnits = b * BlockUnits + BlockUnits /\ b * BlockUnits \in Nat BY <1>3, SMTT(30)
  <2> QED BY <2>1, <2>2, <1>2, <1>3, <1>5, <1>6, SMTT(30)
<1>9. ASSUME Fits PROVE Blocks <= EbCnt
  <2>1. EbCnt < Blocks => EbCnt * BlockUnits < FileLen BY <1>3, <1>8
  <2>2. EbCnt * BlockUnits = BlockUnits * EbCnt /\ EbCnt * BlockUnits \in Nat BY <1>3, SMTT(30)
  <2> QED BY <2>1, <2>2, <1>9, <1>2, <1>3, <1>5, SMTT(30) DEF Fits
<1>10. ASSUME Fits, NEW u \in 0..FileLen - 1 PROVE InDevice(u)
  <2>1. BlockUnits * EbCnt \in Nat BY <1>3, SMTT(30)
  <2> QED BY <2>1, <1>2, <1>10, SMTT(30) DEF Fits, InDevice
<1> QED BY <1>1, <1>2, <1>3, <1>5, <1>7, <1>8, <1>9, <1>10

FcpInv == job \in Jobs /\ job.tool = "flashcp" /\ FcpOK /\ LastOK /\ PartitionOK

(* flashcp checks the size of the file before it erases anything.            *)
LEMMA FlashcpStarts ==
  ASSUME FcpInv, Flashcp
  PROVE  (FcpOK /\ LastOK /\ PartitionOK)'
<1> USE DEF FcpInv
<1>1. /\ flash = OldFlash /\ faults = {} /\ flash \in Flashes /\ job' = job
      /\ flash' = flash /\ faults' = faults
      /\ v' = [eb |-> 0, pos |-> 0, last |-> 0]
      /\ \/ pc' = "done" /\ code' = 1 /\ ~Fits
         \/ pc' = "diff_blocks" /\ job.partition /\ Fits
         \/ pc' = "fcp_erase" /\ ~job.partition /\ Fits
  <2>1. flash = OldFlash /\ faults = {} /\ flash \in Flashes BY DEF Flashcp, FcpOK
  <2>2. job.partition \in BOOLEAN /\ FileLen \in Nat /\ BlockUnits * EbCnt \in Nat BY FcpJob, SMTT(30)
  <2> QED BY <2>1, <2>2, SMTT(30) DEF Flashcp, Exit, Fits
<1>2. FcpOK' BY <1>1, SMTT(30) DEF FcpOK, FcpPc, Verified, FileLen, Fits
<1>3. LastOK'
  <2> SUFFICES ASSUME WrLast, Fits, pc' = "fcp_erase"
               PROVE /\ \A u \in 0..job.wr_last - 1 : Stored(u)' \in {FF, OldUnit(u)}
                     /\ \A u \in 0..FileLen - 1 : u < v'.eb * BlockUnits => Stored(u)' = FF
    BY <1>1 DEF LastOK, WrLast, FileLen, Fits
  <2>1. \A u \in 0..job.wr_last - 1 : u \in 0..FileLen - 1 BY FcpJob, SMTT(30) DEF WrLast
  <2>2. \A u \in 0..job.wr_last - 1 : Stored(u) = OldUnit(u) BY <1>1, <2>1, FcpJob, OldStored
  <2>3. v'.eb * BlockUnits = 0 BY <1>1, FcpJob, SMTT(30)
  <2> QED BY <1>1, <2>2, <2>3, FcpJob, SMTT(30) DEF Stored
<1>4. PartitionOK'
  <2>1. \A b \in 0..EbCnt - 1 : \A u \in UnitsOf(b) : Stored(u) = OldUnit(u)
    BY <1>1, BlockInDevice, OldStored
  <2>2. \A b \in 0..EbCnt - 1 : \A u \in UnitsOf(b)' : Stored(u)' = OldUnit(u)
    BY <1>1, <2>1 DEF Stored, UnitsOf, BlockUnits
  <2>3. v'.eb * BlockUnits = 0 /\ v'.eb = 0 BY <1>1, FcpJob, SMTT(30)
  <2>4. Blocks' = Blocks /\ FileLen' = FileLen /\ Blocks \in Nat BY <1>1, FcpJob DEF Blocks, FileLen
  <2> QED BY <1>1, <2>2, <2>3, <2>4, SMTT(30) DEF PartitionOK, OldOrNew
<1> QED BY <1>2, <1>3, <1>4

(* LastOK and PartitionOK hold when a failure is recorded or is not theirs.  *)
LEMMA NotPartition ==
  ASSUME job.partition = FALSE, job' = job
  PROVE  PartitionOK'
BY DEF PartitionOK

(* Nothing is claimed of the last bytes once a write or an erase failed.     *)
LEMMA LastFaulty ==
  ASSUME faults' # {}
  PROVE  LastOK'
BY DEF LastOK

(* Erasing the eraseblocks the file needs, or all of them (--erase-all), one *)
(* after the other.                                                          *)
LEMMA FcpErasePreserves ==
  ASSUME FcpInv, FcpErase
  PROVE  (FcpOK /\ LastOK /\ PartitionOK)'
<1> USE DEF FcpInv
<1> DEFINE limit == IF job.erase_all THEN EbCnt ELSE Blocks
<1>1. /\ flash \in Flashes /\ Fits /\ DOMAIN v = {"eb", "pos", "last"}
      /\ v.eb \in Nat /\ v.pos \in Nat /\ v.last \in Nat /\ ~job.partition
      /\ pc = "fcp_erase" /\ job' = job
  BY DEF FcpErase, FcpOK, FcpPc
<1>2. PartitionOK' BY <1>1, NotPartition, FcpJob
<1>3. limit \in Nat /\ limit <= EbCnt /\ Blocks <= limit BY <1>1, FcpJob, SMTT(30)
<1>4. CASE v.eb < limit
  <2>1. PICK r \in Erase(flash, v.eb) :
          /\ flash' = r.f /\ Fault(~r.ok, v.eb)
          /\ IF r.ok THEN v' = [v EXCEPT !.eb = @ + 1] /\ UNCHANGED <<pc, code>>
             ELSE Exit(1) /\ UNCHANGED v
    BY <1>4 DEF FcpErase
  <2>2. v.eb \in 0..EbCnt - 1 BY <1>1, <1>3, <1>4, FcpJob, SMTT(30)
  <2>3. /\ r.f \in Flashes /\ r.ok \in BOOLEAN
        /\ \A u : InDevice(u) /\ u \notin UnitsOf(v.eb) => UnitOf(r.f, u) = UnitOf(flash, u)
        /\ r.ok => \A u \in UnitsOf(v.eb) : UnitOf(r.f, u) = FF
    BY <1>1, <2>2, EraseUnits
  <2>4. FcpOK'
    BY <1>1, <2>1, <2>3, SMTT(30) DEF FcpOK, FcpPc, Exit, Verified, Fits, FileLen
  <2>5. CASE ~r.ok
    <3>1. faults' # {} BY <2>1, <2>3, <2>5 DEF Fault
    <3> QED BY <3>1, <1>2, <2>4, LastFaulty
  <2>6. CASE r.ok
    <3>1. faults' = faults /\ v'.eb = v.eb + 1 /\ pc' = "fcp_erase" /\ flash' = r.f
      BY <1>1, <2>1, <2>6 DEF Fault
    <3>2. SUFFICES ASSUME WrLast, faults = {}
                   PROVE /\ \A u \in 0..job.wr_last - 1 : Stored(u)' \in {FF, OldUnit(u)}
                         /\ \A u \in 0..FileLen - 1 : u < v'.eb * BlockUnits => Stored(u)' = FF
      BY <1>1, <1>2, <2>4, <3>1 DEF LastOK, WrLast, FileLen, Fits
    <3>3. /\ \A u \in 0..job.wr_last - 1 : Stored(u) \in {FF, OldUnit(u)}
          /\ \A u \in 0..FileLen - 1 : u < v.eb * BlockUnits => Stored(u) = FF
      BY <1>1, <3>2 DEF LastOK
    <3>4. ASSUME NEW u \in 0..job.wr_last - 1 PROVE Stored(u)' \in {FF, OldUnit(u)}
      <4>1. InDevice(u) BY <3>2, <1>1, FcpJob, SMTT(30) DEF WrLast
      <4> QED BY <4>1, <2>3, <2>6, <3>1, <3>3 DEF Stored, UnitOf
    <3>5. ASSUME NEW u \in 0..FileLen - 1, u < v'.eb * BlockUnits PROVE Stored(u)' = FF
      <4>1. InDevice(u) BY <1>1, FcpJob
      <4>2. v'.eb * BlockUnits = (v.eb + 1) * BlockUnits /\ (v.eb + 1) * BlockUnits \in Nat
            /\ v.eb * BlockUnits \in Nat
        BY <1>1, <3>1, FcpJob, SMTT(30)
      <4>3. u \in UnitsOf(v.eb) \/ u < v.eb * BlockUnits BY <4>2, <3>5, FcpJob, SMTT(30) DEF UnitsOf
      <4> QED BY <4>1, <4>3, <2>3, <2>6, <3>1, <3>3 DEF Stored, UnitOf
    <3> QED BY <3>4, <3>5
  <2> QED BY <2>3, <2>5, <2>6
<1>5. CASE ~(v.eb < limit)
  <2>1. /\ flash' = flash /\ faults' = faults
        /\ \/ pc' = "done" /\ code' = 1 /\ v' = v
           \/ v' = [v EXCEPT !.pos = FirstWritten, !.last = FirstWritten] /\ pc' = "fcp_write"
    BY <1>5 DEF FcpErase, Exit
  <2>2. FirstWritten \in Nat /\ FirstWritten <= FileLen BY FcpJob, SMTT(30) DEF FirstWritten, WrLast
  <2>3. FcpOK'
    <3>1. /\ DOMAIN v' = {"eb", "pos", "last"} /\ v'.eb \in Nat /\ v'.pos \in Nat /\ v'.last \in Nat
          /\ pc' = "fcp_write" => v'.last <= FileLen
      BY <1>1, <2>1, <2>2
    <3> QED BY <1>1, <2>1, <3>1, SMTT(30) DEF FcpOK, FcpPc, Verified, Fits, FileLen
  <2>4. ASSUME WrLast, faults = {}
        PROVE  /\ \A u \in 0..job.wr_last - 1 : Stored(u) \in {FF, OldUnit(u)}
               /\ \A u \in 0..FileLen - 1 : Stored(u) = FF
    <3>1. /\ \A u \in 0..job.wr_last - 1 : Stored(u) \in {FF, OldUnit(u)}
          /\ \A u \in 0..FileLen - 1 : u < v.eb * BlockUnits => Stored(u) = FF
      BY <1>1, <2>4 DEF LastOK
    <3>2. Blocks <= v.eb BY <1>1, <1>3, <1>5, FcpJob, SMTT(30)
    <3>3. Blocks * BlockUnits <= v.eb * BlockUnits BY <1>1, <3>2, FcpJob, ProductGrows
    <3>4. v.eb * BlockUnits \in Nat /\ Blocks * BlockUnits \in Nat BY <1>1, FcpJob, SMTT(30)
    <3>5. FileLen <= v.eb * BlockUnits BY <3>3, <3>4, FcpJob, SMTT(30)
    <3> QED BY <3>1, <3>4, <3>5, FcpJob, SMTT(30)
  <2>5. LastOK'
    <3>1. CASE pc' = "done"
      BY <3>1, <2>1, <2>4, <1>1 DEF LastOK, WrLast, FileLen, Fits, Stored
    <3>2. CASE pc' = "fcp_write"
      <4>1. v'.pos = FirstWritten /\ v'.last = FirstWritten BY <1>1, <2>1, <3>2
      <4>2. SUFFICES ASSUME WrLast, faults = {}
                     PROVE /\ \A u \in 0..job.wr_last - 1 : Stored(u)' \in {FF, OldUnit(u)}
                           /\ v'.last = job.wr_last /\ v'.pos \in job.wr_last..FileLen
                           /\ \A u \in 0..FileLen - 1 :
                                Stored(u)' = IF u \in job.wr_last..v'.pos - 1 THEN job.file[u + 1] ELSE FF
        BY <1>1, <2>1, <3>2 DEF LastOK, WrLast, FileLen, Fits
      <4>3. v'.pos = job.wr_last /\ job.wr_last \in 0..FileLen
        BY <4>1, <4>2, FcpJob, SMTT(30) DEF FirstWritten, WrLast
      <4> QED BY <4>1, <4>2, <4>3, <2>1, <2>4, FcpJob, SMTT(30) DEF Stored
    <3> QED BY <2>1, <3>1, <3>2
  <2> QED BY <2>3, <2>5, <1>2
<1> QED BY <1>4, <1>5

(* Writing the next piece of the file, and the held back end of it in the    *)
(* second round.                                                             *)
LEMMA FcpWritePreserves ==
  ASSUME FcpInv, FcpWrite
  PROVE  (FcpOK /\ LastOK /\ PartitionOK)'
<1> USE DEF FcpInv
<1>1. /\ flash \in Flashes /\ Fits /\ DOMAIN v = {"eb", "pos", "last"}
      /\ v.eb \in Nat /\ v.pos \in Nat /\ v.last \in Nat /\ v.last <= FileLen /\ ~job.partition
      /\ pc \in {"fcp_write", "fcp_last"} /\ job' = job
  BY DEF FcpWrite, FcpOK, FcpPc
<1>0. PICK u \in Nat : u = v.pos BY <1>1
<1>2. PartitionOK' BY <1>1, NotPartition, FcpJob
<1>3. u \in 0..FileLen - 1 /\ (pc = "fcp_last" => u < v.last)
  BY <1>0, <1>1, FcpJob, SMTT(30) DEF FcpWrite
<1>4. InDevice(u) /\ job.file[u + 1] \in Int BY <1>1, <1>3, FcpJob
<1>5. PICK r \in Store(flash, u \div 2, At(u, job.file[u + 1])) :
        /\ flash' = r.f /\ Fault(r.fault, Block(u \div 2))
        /\ IF r.ok THEN v' = [v EXCEPT !.pos = @ + 1] /\ UNCHANGED <<pc, code>>
           ELSE Exit(1) /\ UNCHANGED v
  BY <1>0 DEF FcpWrite
<1>6. /\ r.f \in Flashes /\ r.ok \in BOOLEAN /\ r.fault \in BOOLEAN
      /\ ~r.ok => r.fault
      /\ \A w : InDevice(w) /\ w # u => UnitOf(r.f, w) = UnitOf(flash, w)
      /\ ~r.fault => UnitOf(r.f, u) = Prog(UnitOf(flash, u), job.file[u + 1])
  BY <1>1, <1>4, StoreUnit, SMTT(30)
<1>7. \/ r.ok /\ pc' = pc /\ code' = code /\ v'.pos = u + 1
      \/ ~r.ok /\ pc' = "done" /\ code' = 1
  BY <1>0, <1>1, <1>5, <1>6 DEF Exit
<1>8. /\ DOMAIN v' = {"eb", "pos", "last"} /\ v'.eb \in Nat /\ v'.pos \in Nat /\ v'.last = v.last
  BY <1>1, <1>5, <1>6, SMTT(30) DEF Exit
<1>9. FcpOK'
  BY <1>1, <1>5, <1>6, <1>7, <1>8, SMTT(30) DEF FcpOK, FcpPc, Verified, Fits, FileLen
<1>10. CASE r.fault
  <2>1. faults' # {} BY <1>5, <1>10 DEF Fault
  <2> QED BY <2>1, <1>2, <1>9, LastFaulty
<1>11. CASE ~r.fault
  <2>1. faults' = faults /\ flash' = r.f /\ pc' = pc /\ v'.pos = u + 1
    BY <1>5, <1>6, <1>7, <1>11 DEF Fault
  <2>2. \A w : InDevice(w) /\ w # u => Stored(w)' = Stored(w)
    BY <1>6, <2>1 DEF Stored, UnitOf
  <2>3. Stored(u)' = Prog(Stored(u), job.file[u + 1])
    BY <1>1, <1>6, <1>11, <2>1 DEF Stored, UnitOf
  <2>4. \A w \in 0..FileLen - 1 : InDevice(w) BY <1>1, FcpJob
  <2>5. LastOK'
    <3>1. SUFFICES ASSUME WrLast, faults = {} PROVE LastOK'
      BY <2>1, <1>1 DEF LastOK, WrLast, FileLen
    <3>2. job.wr_last \in 0..FileLen /\ FileLen \in Nat BY <3>1, FcpJob, SMTT(30) DEF WrLast
    <3>3. CASE pc = "fcp_write"
      <4>1. /\ \A w \in 0..job.wr_last - 1 : Stored(w) \in {FF, OldUnit(w)}
            /\ v.last = job.wr_last /\ u \in job.wr_last..FileLen
            /\ \A w \in 0..FileLen - 1 :
                 Stored(w) = IF w \in job.wr_last..u - 1 THEN job.file[w + 1] ELSE FF
        BY <1>0, <1>1, <3>1, <3>3 DEF LastOK
      <4>2. Stored(u)' = job.file[u + 1] BY <4>1, <1>3, <2>3 DEF Prog
      <4>3. /\ \A w \in 0..job.wr_last - 1 : Stored(w)' \in {FF, OldUnit(w)}
            /\ v'.last = job.wr_last /\ v'.pos \in job.wr_last..FileLen
        BY <4>1, <1>3, <1>8, <2>1, <2>2, <2>4, <3>2, SMTT(30)
      <4>4. \A w \in 0..FileLen - 1 :
                 Stored(w)' = IF w \in job.wr_last..v'.pos - 1 THEN job.file[w + 1] ELSE FF
        <5> SUFFICES ASSUME NEW w \in 0..FileLen - 1
                     PROVE Stored(w)' = IF w \in job.wr_last..u THEN job.file[w + 1] ELSE FF
          BY <1>3, <2>1, SMTT(30)
        <5>1. CASE w = u BY <5>1, <4>1, <4>2, SMTT(30)
        <5>2. CASE w # u
          <6>1. Stored(w)' = Stored(w) BY <5>2, <2>2, <2>4
          <6> QED BY <5>2, <6>1, <4>1, <1>3, <3>2, SMTT(30)
        <5> QED BY <5>1, <5>2
      <4> QED BY <4>3, <4>4, <1>1, <2>1, <3>3 DEF LastOK, WrLast, FileLen, Fits
    <3>4. CASE pc = "fcp_last"
      <4>1. v.last = job.wr_last /\ Holds(job.wr_last, FileLen)
        BY <1>1, <3>1, <3>4 DEF LastOK
      <4>2. \A w \in job.wr_last..FileLen - 1 : Stored(w)' = job.file[w + 1]
        BY <4>1, <1>3, <2>2, <2>4, <3>2, <3>4, SMTT(30) DEF Holds, Stored
      <4>3. v'.last = job.wr_last /\ v'.pos <= v'.last
        BY <4>1, <1>3, <1>8, <2>1, <3>2, <3>4, SMTT(30)
      <4> QED BY <4>2, <4>3, <1>1, <2>1, <3>4 DEF LastOK, WrLast, FileLen, Fits, Holds, Stored
    <3> QED BY <1>1, <3>3, <3>4
  <2> QED BY <2>5, <1>2, <1>9
<1> QED BY <1>6, <1>10, <1>11

(* The first round of writes ends and the held back bytes are next.          *)
LEMMA FcpWriteLastPreserves ==
  ASSUME FcpInv, FcpWriteLast
  PROVE  (FcpOK /\ LastOK /\ PartitionOK)'
<1> USE DEF FcpInv
<1>1. /\ flash \in Flashes /\ Fits /\ DOMAIN v = {"eb", "pos", "last"}
      /\ v.eb \in Nat /\ v.pos \in Nat /\ v.last \in Nat /\ v.last <= FileLen /\ ~job.partition
      /\ pc = "fcp_write" /\ v.pos >= FileLen /\ job' = job /\ pc' = "fcp_last"
      /\ flash' = flash /\ faults' = faults
  BY DEF FcpWriteLast, FcpOK, FcpPc
<1>2. PartitionOK' BY <1>1, NotPartition, FcpJob
<1>3. DOMAIN v' = {"eb", "pos", "last"} /\ v'.eb \in Nat /\ v'.pos = 0 /\ v'.last = v.last
  BY <1>1 DEF FcpWriteLast
<1>4. FcpOK' BY <1>1, <1>3, SMTT(30) DEF FcpOK, FcpPc, Verified, Fits, FileLen
<1>5. LastOK'
  <2>1. SUFFICES ASSUME WrLast, faults = {}
                 PROVE v.last = job.wr_last /\ 0 <= v.last /\ Holds(job.wr_last, FileLen)
    BY <1>1, <1>3 DEF LastOK, WrLast, FileLen, Fits, Holds
  <2>2. /\ v.last = job.wr_last /\ v.pos \in job.wr_last..FileLen
        /\ \A w \in 0..FileLen - 1 :
             Stored(w) = IF w \in job.wr_last..v.pos - 1 THEN job.file[w + 1] ELSE FF
    BY <1>1, <2>1 DEF LastOK
  <2> QED BY <1>1, <2>1, <2>2, FcpJob, SMTT(30) DEF Holds, Stored, WrLast
<1> QED BY <1>2, <1>4, <1>5

(* The verification reads the whole file back before flashcp exits with      *)
(* success.                                                                  *)
LEMMA FcpVerifyPreserves ==
  ASSUME FcpInv, FcpVerify
  PROVE  (FcpOK /\ LastOK /\ PartitionOK)'
<1> USE DEF FcpInv
<1>1. /\ flash \in Flashes /\ Fits /\ DOMAIN v = {"eb", "pos", "last"}
      /\ v.eb \in Nat /\ v.pos \in Nat /\ v.last \in Nat /\ ~job.partition
      /\ pc = "fcp_last" /\ job' = job /\ pc' = "done" /\ flash' = flash /\ faults' = faults /\ v' = v
      /\ code' = IF Matches(0, FileLen) THEN 0 ELSE 1
  BY DEF FcpVerify, FcpOK, FcpPc, Exit
<1>2. PartitionOK' BY <1>1, NotPartition, FcpJob
<1>3. FcpOK' BY <1>1, SMTT(30) DEF FcpOK, FcpPc, Verified, Fits, FileLen, Matches, Holds, Stored
<1>4. LastOK'
  <2>1. SUFFICES ASSUME WrLast, faults = {} PROVE Holds(job.wr_last, FileLen)
    BY <1>1 DEF LastOK, WrLast, FileLen, Fits, Holds
  <2> QED BY <1>1, <2>1 DEF LastOK
<1> QED BY <1>2, <1>3, <1>4

(* With --partition no bytes are held back.                                  *)
LEMMA LastNotPartition ==
  ASSUME job.partition, job' = job
  PROVE  LastOK'
BY DEF LastOK

(* Blocks other than the one that is changed stay as they are.               *)
LEMMA OtherBlocks ==
  ASSUME NEW b \in 0..EbCnt - 1, NEW e \in Nat, b # e, job' = job,
         \A u : InDevice(u) /\ u \notin UnitsOf(e) => Stored(u)' = Stored(u), OldOrNew(b)
  PROVE  OldOrNew(b)'
<1>1. ASSUME NEW u \in UnitsOf(b) PROVE Stored(u)' = Stored(u)
  <2>1. InDevice(u) /\ u \in Nat BY BlockInDevice DEF InDevice
  <2>2. b \in Nat BY SMTT(30)
  <2>3. u \notin UnitsOf(e) BY <2>1, <2>2, UnitBlock
  <2> QED BY <2>1, <2>3
<1> QED BY <1>1 DEF OldOrNew, UnitsOf, NewUnit, OldUnit, FileLen, BlockUnits

DiffFacts ==
  /\ flash \in Flashes /\ Fits /\ DOMAIN v = {"eb", "pos", "last"}
  /\ v.eb \in Nat /\ v.pos \in Nat /\ v.last \in Nat /\ job.partition
  /\ v.eb <= Blocks
  /\ \A u \in 0..FileLen - 1 : u < v.eb * BlockUnits => Stored(u) = job.file[u + 1]
  /\ \A b \in 0..EbCnt - 1 \ (Busy \cup faults) : OldOrNew(b)

(* What holds while flashcp --partition works on an eraseblock.              *)
LEMMA DiffState ==
  ASSUME FcpInv, pc \in {"diff_blocks", "diff_erase", "diff_write"}
  PROVE  DiffFacts
BY DEF FcpInv, FcpOK, PartitionOK, FcpPc, DiffFacts

(* An eraseblock that already holds its part of the file is skipped; of any  *)
(* other the erase comes next.                                               *)
LEMMA DiffBlockPreserves ==
  ASSUME FcpInv, DiffBlock
  PROVE  (FcpOK /\ LastOK /\ PartitionOK)'
<1> USE DEF FcpInv
<1>1. DiffFacts BY DiffState DEF DiffBlock
<1>2. /\ pc = "diff_blocks" /\ job' = job /\ flash' = flash /\ faults' = faults
      /\ Busy = {} /\ Blocks' = Blocks /\ FileLen' = FileLen /\ BlockUnits' = BlockUnits
  BY DEF DiffBlock, Busy, Blocks, FileLen, BlockUnits
<1>3. LastOK' BY <1>1, <1>2, LastNotPartition DEF DiffFacts
<1>4. \A b \in 0..EbCnt - 1 \ faults : OldOrNew(b)'
  BY <1>1, <1>2 DEF DiffFacts, OldOrNew, UnitsOf, NewUnit, OldUnit, Stored
<1>5. CASE v.eb = Blocks
  <2>1. pc' = "done" /\ code' = 0 /\ v' = v BY <1>5 DEF DiffBlock, Exit
  <2>2. Holds(0, FileLen) BY <1>1, <1>5, FcpJob, SMTT(30) DEF DiffFacts, Holds, Stored
  <2>3. FcpOK' BY <1>1, <1>2, <2>1, <2>2 DEF FcpOK, FcpPc, Verified, Holds, DiffFacts
  <2>4. PartitionOK' BY <1>2, <2>1, <1>4 DEF PartitionOK, Busy
  <2> QED BY <1>3, <2>3, <2>4
<1>6. CASE v.eb # Blocks /\ Matches(v.eb * BlockUnits, BlockEnd(v.eb))
  <2>1. pc' = "diff_blocks" /\ v' = [v EXCEPT !.eb = @ + 1] /\ code' = code
    BY <1>2, <1>6 DEF DiffBlock
  <2>2. DOMAIN v' = {"eb", "pos", "last"} /\ v'.eb = v.eb + 1 /\ v'.pos = v.pos /\ v'.last = v.last
    BY <2>1, <1>1 DEF DiffFacts
  <2>3. FcpOK' BY <1>1, <1>2, <2>1, <2>2, SMTT(30) DEF FcpOK, FcpPc, Verified, DiffFacts, Fits
  <2>4. v.eb + 1 <= Blocks
    <3>1. v.eb \in Nat /\ v.eb <= Blocks /\ v.eb # Blocks BY <1>1, <1>6 DEF DiffFacts
    <3> QED BY <3>1, FcpJob, SMTT(30)
  <2>5. ASSUME NEW u \in 0..FileLen - 1, u < (v.eb + 1) * BlockUnits PROVE Stored(u) = job.file[u + 1]
    <3>1. (v.eb + 1) * BlockUnits \in Nat /\ v.eb * BlockUnits \in Nat BY <1>1, FcpJob, SMTT(30) DEF DiffFacts
    <3>2. CASE u < v.eb * BlockUnits BY <3>2, <1>1 DEF DiffFacts
    <3>3. CASE ~(u < v.eb * BlockUnits)
      <4>1. u \in v.eb * BlockUnits..BlockEnd(v.eb) - 1 BY <3>1, <3>3, <2>5, FcpJob, SMTT(30) DEF BlockEnd
      <4> QED BY <4>1, <1>6 DEF Matches
    <3> QED BY <3>2, <3>3
  <2>6. PartitionOK'
    BY <1>2, <1>4, <2>1, <2>2, <2>4, <2>5 DEF PartitionOK, Busy, Stored
  <2> QED BY <1>3, <2>3, <2>6
<1>7. CASE v.eb # Blocks /\ ~Matches(v.eb * BlockUnits, BlockEnd(v.eb))
  <2>1. pc' = "diff_erase" /\ v' = [v EXCEPT !.pos = v.eb * BlockUnits] /\ code' = code
    BY <1>7 DEF DiffBlock
  <2>2. v.eb * BlockUnits \in Nat BY <1>1, FcpJob, SMTT(30) DEF DiffFacts
  <2>3. DOMAIN v' = {"eb", "pos", "last"} /\ v'.eb = v.eb /\ v'.pos = v.eb * BlockUnits /\ v'.last = v.last
    BY <2>1, <1>1 DEF DiffFacts
  <2>4. FcpOK' BY <1>1, <1>2, <2>1, <2>2, <2>3 DEF FcpOK, FcpPc, Verified, DiffFacts, Fits
  <2>5. v.eb < Blocks BY <1>1, <1>7, FcpJob, SMTT(30) DEF DiffFacts
  <2>6. v.eb * BlockUnits \in v.eb * BlockUnits..BlockEnd(v.eb)
    <3>1. v.eb * BlockUnits < FileLen BY <2>5, <1>1, FcpJob DEF DiffFacts
    <3>2. (v.eb + 1) * BlockUnits = v.eb * BlockUnits + BlockUnits BY <1>1, FcpJob, SMTT(30) DEF DiffFacts
    <3> QED BY <3>1, <3>2, <2>2, FcpJob, SMTT(30) DEF BlockEnd
  <2>7. BlockEnd(v.eb)' = BlockEnd(v.eb) BY <1>2, <2>3 DEF BlockEnd
  <2>8. PartitionOK'
    BY <1>1, <1>2, <1>4, <2>1, <2>3, <2>5, <2>6, <2>7 DEF PartitionOK, Busy, Stored, DiffFacts
  <2> QED BY <1>3, <2>4, <2>8
<1> QED BY <1>5, <1>6, <1>7

(* The block flashcp --partition works on, when no failure was met on it.    *)
LEMMA DiffBusy ==
  ASSUME FcpInv, pc \in {"diff_erase", "diff_write"}
  PROVE  /\ v.eb \in 0..EbCnt - 1 /\ v.eb < Blocks /\ Busy = {v.eb}
         /\ v.eb * BlockUnits \in Nat /\ (v.eb + 1) * BlockUnits \in Nat
         /\ v.pos \in v.eb * BlockUnits..BlockEnd(v.eb)
         /\ BlockEnd(v.eb) \in Nat /\ BlockEnd(v.eb) <= FileLen /\ BlockEnd(v.eb) <= (v.eb + 1) * BlockUnits
<1>1. DiffFacts BY DiffState
<1>2. v.eb < Blocks /\ v.pos \in v.eb * BlockUnits..BlockEnd(v.eb) /\ Busy = {v.eb}
  BY <1>1 DEF FcpInv, PartitionOK, DiffFacts, Busy
<1>3. v.eb \in 0..EbCnt - 1 BY <1>1, <1>2, FcpJob, SMTT(30) DEF FcpInv, DiffFacts
<1>4. v.eb * BlockUnits \in Nat /\ (v.eb + 1) * BlockUnits \in Nat BY <1>3, FcpJob, SMTT(30) DEF FcpInv
<1> QED BY <1>2, <1>3, <1>4, FcpJob, SMTT(30) DEF BlockEnd, FcpInv

(* Steps that change the units of block v.eb only keep the other blocks.     *)
LEMMA DiffKeeps ==
  ASSUME FcpInv, pc \in {"diff_erase", "diff_write"}, job' = job, v'.eb = v.eb,
         \A u : InDevice(u) /\ u \notin UnitsOf(v.eb) => UnitOf(flash', u) = UnitOf(flash, u),
         faults \subseteq faults'
  PROVE  /\ \A u \in 0..FileLen - 1 : u < v.eb * BlockUnits => UnitOf(flash', u) = job.file[u + 1]
         /\ \A b \in 0..EbCnt - 1 \ ({v.eb} \cup faults') : OldOrNew(b)'
<1>1. PICK e : e = v.eb OBVIOUS
<1>2. DiffFacts /\ e \in 0..EbCnt - 1 /\ Busy = {e} BY <1>1, DiffState, DiffBusy
<1>3. \A u : InDevice(u) /\ u \notin UnitsOf(e) => Stored(u)' = Stored(u)
  BY <1>1 DEF Stored, UnitOf
<1>4. ASSUME NEW b \in 0..EbCnt - 1, b # e, b \notin faults' PROVE OldOrNew(b)'
  <2>1. OldOrNew(b) BY <1>2, <1>4 DEF DiffFacts
  <2>2. e \in Nat BY <1>2, SMTT(30)
  <2> QED BY <1>3, <1>4, <2>1, <2>2, OtherBlocks
<1>5. ASSUME NEW u \in 0..FileLen - 1, u < v.eb * BlockUnits PROVE UnitOf(flash', u) = job.file[u + 1]
  <2>1. InDevice(u) BY <1>2, FcpJob DEF DiffFacts, FcpInv
  <2>2. u \notin UnitsOf(e) BY <1>1, <1>2, <1>5, FcpJob, SMTT(30) DEF UnitsOf, FcpInv
  <2>3. Stored(u) = job.file[u + 1] BY <1>2, <1>5 DEF DiffFacts
  <2> QED BY <1>1, <2>1, <2>2, <2>3 DEF Stored, UnitOf
<1> QED BY <1>1, <1>4, <1>5

(* The erase of an eraseblock that differs.                                  *)
LEMMA DiffErasePreserves ==
  ASSUME FcpInv, DiffErase
  PROVE  (FcpOK /\ LastOK /\ PartitionOK)'
<1> USE DEF FcpInv
<1>0. pc = "diff_erase" /\ job' = job /\ v' = v /\ v.pos = v.eb * BlockUnits
  BY DEF DiffErase, PartitionOK, FcpOK
<1>1. DiffFacts BY <1>0, DiffState
<1>2. LastOK' BY <1>0, <1>1, LastNotPartition DEF DiffFacts
<1>3. PICK r \in Erase(flash, v.eb) :
        /\ flash' = r.f /\ Fault(~r.ok, v.eb)
        /\ IF r.ok THEN pc' = "diff_write" /\ UNCHANGED code ELSE Exit(1)
  BY DEF DiffErase
<1>4. /\ r.f \in Flashes /\ r.ok \in BOOLEAN
      /\ \A u : InDevice(u) /\ u \notin UnitsOf(v.eb) => UnitOf(r.f, u) = UnitOf(flash, u)
      /\ r.ok => \A u \in UnitsOf(v.eb) : UnitOf(r.f, u) = FF
  BY <1>0, <1>1, DiffBusy, EraseUnits DEF DiffFacts
<1>5. FcpOK'
  BY <1>0, <1>1, <1>3, <1>4, SMTT(30) DEF FcpOK, FcpPc, Verified, DiffFacts, Fits, FileLen, Exit
<1>6. faults \subseteq faults' BY <1>3 DEF Fault
<1>7. /\ \A u \in 0..FileLen - 1 : u < v.eb * BlockUnits => UnitOf(flash', u) = job.file[u + 1]
      /\ \A b \in 0..EbCnt - 1 \ ({v.eb} \cup faults') : OldOrNew(b)'
  BY <1>0, <1>3, <1>4, <1>6, DiffKeeps
<1>8. CASE ~r.ok
  <2>1. v.eb \in faults' /\ pc' = "done" BY <1>3, <1>4, <1>8 DEF Fault, Exit
  <2> QED BY <2>1, <1>2, <1>5, <1>7 DEF PartitionOK, Busy
<1>9. CASE r.ok
  <2>1. pc' = "diff_write" /\ faults' = faults BY <1>3, <1>9 DEF Fault
  <2>2. v.eb < Blocks /\ v.pos \in v.eb * BlockUnits..BlockEnd(v.eb) /\ v.eb <= Blocks
    BY <1>0, <1>1, DiffBusy DEF DiffFacts
  <2>3. /\ Blocks' = Blocks /\ FileLen' = FileLen /\ BlockUnits' = BlockUnits
        /\ BlockEnd(v.eb)' = BlockEnd(v.eb) /\ UnitsOf(v.eb)' = UnitsOf(v.eb)
    BY <1>0 DEF Blocks, FileLen, BlockUnits, BlockEnd, UnitsOf
  <2>4. \A u \in UnitsOf(v.eb) : UnitOf(flash', u) = IF u < v.pos THEN job.file[u + 1] ELSE FF
    <3>1. \A u \in UnitsOf(v.eb) : ~(u < v.pos) BY <1>0, DiffBusy, SMTT(30) DEF UnitsOf
    <3> QED BY <3>1, <1>3, <1>4, <1>9
  <2>5. PartitionOK'
    BY <1>0, <1>7, <2>1, <2>2, <2>3, <2>4 DEF PartitionOK, Busy, Stored, UnitOf
  <2> QED BY <2>5, <1>2, <1>5
<1> QED BY <1>4, <1>8, <1>9

(* A write into the erased eraseblock.                                       *)
LEMMA DiffWritePreserves ==
  ASSUME FcpInv, DiffWrite
  PROVE  (FcpOK /\ LastOK /\ PartitionOK)'
<1> USE DEF FcpInv
<1>0. pc = "diff_write" /\ job' = job /\ v.pos < BlockEnd(v.eb) BY DEF DiffWrite
<1>1. DiffFacts BY <1>0, DiffState
<1>2. LastOK' BY <1>0, <1>1, LastNotPartition DEF DiffFacts
<1>3. PICK u : u = v.pos OBVIOUS
<1>4. u \in 0..FileLen - 1 /\ u \in UnitsOf(v.eb)
  BY <1>0, <1>3, DiffBusy, FcpJob, SMTT(30) DEF UnitsOf
<1>5. InDevice(u) /\ job.file[u + 1] \in Int BY <1>1, <1>4, FcpJob DEF DiffFacts
<1>6. PICK r \in Store(flash, u \div 2, At(u, job.file[u + 1])) :
        /\ flash' = r.f /\ Fault(r.fault, v.eb)
        /\ IF r.ok THEN v' = [v EXCEPT !.pos = @ + 1] /\ UNCHANGED <<pc, code>>
           ELSE Exit(1) /\ UNCHANGED v
  BY <1>3 DEF DiffWrite
<1>7. /\ r.f \in Flashes /\ r.ok \in BOOLEAN /\ r.fault \in BOOLEAN
      /\ ~r.ok => r.fault
      /\ \A w : InDevice(w) /\ w # u => UnitOf(r.f, w) = UnitOf(flash, w)
      /\ ~r.fault => UnitOf(r.f, u) = Prog(UnitOf(flash, u), job.file[u + 1])
  BY <1>1, <1>5, StoreUnit, SMTT(30) DEF DiffFacts
<1>8. /\ DOMAIN v' = {"eb", "pos", "last"} /\ v'.eb = v.eb /\ v'.pos \in Nat /\ v'.last = v.last
      /\ \/ r.ok /\ pc' = pc /\ code' = code /\ v'.pos = u + 1
         \/ ~r.ok /\ pc' = "done" /\ code' = 1
  BY <1>1, <1>3, <1>6, <1>7, SMTT(30) DEF Exit, DiffFacts
<1>9. FcpOK'
  BY <1>0, <1>1, <1>6, <1>7, <1>8, SMTT(30) DEF FcpOK, FcpPc, Verified, DiffFacts, Fits, FileLen
<1>10. faults \subseteq faults' BY <1>6 DEF Fault
<1>11. /\ \A w \in 0..FileLen - 1 : w < v.eb * BlockUnits => UnitOf(flash', w) = job.file[w + 1]
       /\ \A b \in 0..EbCnt - 1 \ ({v.eb} \cup faults') : OldOrNew(b)'
  BY <1>0, <1>4, <1>6, <1>7, <1>8, <1>10, DiffKeeps
<1>12. CASE ~r.ok
  <2>1. v.eb \in faults' /\ pc' = "done" BY <1>6, <1>7, <1>8, <1>12 DEF Fault
  <2> QED BY <2>1, <1>2, <1>9, <1>11 DEF PartitionOK, Busy
<1>13. CASE r.ok
  <2>1. pc' = "diff_write" /\ v'.pos = u + 1 BY <1>0, <1>8, <1>13
  <2>2. /\ v.eb < Blocks /\ v.eb <= Blocks /\ u + 1 \in v.eb * BlockUnits..BlockEnd(v.eb)
    BY <1>0, <1>1, <1>3, DiffBusy, SMTT(30) DEF DiffFacts
  <2>3. /\ Blocks' = Blocks /\ FileLen' = FileLen /\ BlockUnits' = BlockUnits
        /\ BlockEnd(v.eb)' = BlockEnd(v.eb) /\ UnitsOf(v.eb)' = UnitsOf(v.eb)
    BY <1>0, <1>8 DEF Blocks, FileLen, BlockUnits, BlockEnd, UnitsOf
  <2>4. ASSUME v.eb \notin faults', NEW w \in UnitsOf(v.eb)
        PROVE  UnitOf(flash', w) = IF w < u + 1 THEN job.file[w + 1] ELSE FF
    <3>1. ~r.fault BY <2>4, <1>6, <1>7 DEF Fault
    <3>2. \A x \in UnitsOf(v.eb) : UnitOf(flash, x) = IF x < u THEN job.file[x + 1] ELSE FF
      BY <2>4, <1>0, <1>1, <1>3, <1>10 DEF PartitionOK, Stored, UnitOf, DiffFacts
    <3>3. CASE w = u
      <4>1. UnitOf(flash, u) = FF BY <3>2, <1>4, SMTT(30)
      <4>2. UnitOf(flash', u) = job.file[u + 1] BY <4>1, <3>1, <1>6, <1>7 DEF Prog
      <4> QED BY <4>2, <3>3, <1>4, SMTT(30)
    <3>4. CASE w # u
      <4>1. InDevice(w) /\ w \in Nat BY <1>0, DiffBusy, BlockInDevice DEF InDevice
      <4>2. UnitOf(flash', w) = UnitOf(flash, w) BY <4>1, <3>4, <1>6, <1>7
      <4> QED BY <4>1, <4>2, <3>2, <3>4, <1>4, SMTT(30)
    <3> QED BY <3>3, <3>4
  <2>5. PartitionOK'
    BY <1>0, <1>1, <1>8, <1>11, <2>1, <2>2, <2>3, <2>4 DEF PartitionOK, Busy, Stored, UnitOf, DiffFacts
  <2> QED BY <2>5, <1>2, <1>9
<1> QED BY <1>7, <1>12, <1>13

(* A block that was written without a failure holds the file and is erased   *)
(* behind it, whatever the comparison says.                                  *)
LEMMA DiffVerifyPreserves ==
  ASSUME FcpInv, DiffVerify
  PROVE  (FcpOK /\ LastOK /\ PartitionOK)'
<1> USE DEF FcpInv
<1>0. /\ pc = "diff_write" /\ v.pos = BlockEnd(v.eb)
      /\ job' = job /\ flash' = flash /\ faults' = faults
      /\ Blocks' = Blocks /\ FileLen' = FileLen /\ BlockUnits' = BlockUnits
  BY DEF DiffVerify, Blocks, FileLen, BlockUnits
<1>1. DiffFacts BY <1>0, DiffState
<1>2. LastOK' BY <1>0, <1>1, LastNotPartition DEF DiffFacts
<1>3. ASSUME v.eb \notin faults PROVE OldOrNew(v.eb)
  <2>1. \A u \in UnitsOf(v.eb) : Stored(u) = IF u < BlockEnd(v.eb) THEN job.file[u + 1] ELSE FF
    BY <1>0, <1>1, <1>3 DEF PartitionOK, DiffFacts
  <2>2. \A u \in UnitsOf(v.eb) : u < BlockEnd(v.eb) <=> u < FileLen
    BY <1>0, DiffBusy, FcpJob, SMTT(30) DEF UnitsOf, BlockEnd
  <2> QED BY <2>1, <2>2 DEF OldOrNew, NewUnit
<1>4. \A b \in 0..EbCnt - 1 \ faults : OldOrNew(b)
  BY <1>0, <1>1, <1>3, DiffBusy DEF DiffFacts
<1>5. \A b \in 0..EbCnt - 1 \ faults : OldOrNew(b)'
  BY <1>0, <1>4 DEF OldOrNew, UnitsOf, NewUnit, OldUnit, Stored
<1>6. CASE ~Matches(v.eb * BlockUnits, BlockEnd(v.eb))
  <2>1. pc' = "done" /\ code' = 1 /\ v' = v BY <1>6 DEF DiffVerify, Exit
  <2>2. FcpOK' BY <1>0, <1>1, <2>1, SMTT(30) DEF FcpOK, FcpPc, Verified, DiffFacts
  <2>3. PartitionOK' BY <1>0, <1>5, <2>1 DEF PartitionOK, Busy
  <2> QED BY <1>2, <2>2, <2>3
<1>7. CASE Matches(v.eb * BlockUnits, BlockEnd(v.eb))
  <2>1. pc' = "diff_blocks" /\ v' = [v EXCEPT !.eb = @ + 1] /\ code' = code BY <1>7 DEF DiffVerify
  <2>2. DOMAIN v' = {"eb", "pos", "last"} /\ v'.eb = v.eb + 1 /\ v'.pos = v.pos /\ v'.last = v.last
    BY <2>1, <1>1 DEF DiffFacts
  <2>3. FcpOK' BY <1>0, <1>1, <2>1, <2>2, SMTT(30) DEF FcpOK, FcpPc, Verified, DiffFacts, Fits
  <2>4. v.eb + 1 <= Blocks BY <1>0, DiffBusy, FcpJob, SMTT(30)
  <2>5. ASSUME NEW u \in 0..FileLen - 1, u < (v.eb + 1) * BlockUnits PROVE Stored(u) = job.file[u + 1]
    <3>1. CASE u < v.eb * BlockUnits BY <3>1, <1>1 DEF DiffFacts
    <3>2. CASE ~(u < v.eb * BlockUnits)
      <4>1. u \in v.eb * BlockUnits..BlockEnd(v.eb) - 1
        BY <1>0, <3>2, <2>5, DiffBusy, FcpJob, SMTT(30) DEF BlockEnd
      <4> QED BY <4>1, <1>7 DEF Matches
    <3> QED BY <3>1, <3>2
  <2>6. PartitionOK' BY <1>0, <1>5, <2>1, <2>2, <2>4, <2>5 DEF PartitionOK, Busy, Stored
  <2> QED BY <1>2, <2>3, <2>6
<1> QED BY <1>6, <1>7

(* Every step of flashcp keeps its invariant.                                *)
LEMMA FcpPreserves ==
  ASSUME FcpInv, FlashcpNext
  PROVE  (FcpOK /\ LastOK /\ PartitionOK)'
BY FlashcpStarts, FcpErasePreserves, FcpWritePreserves, FcpWriteLastPreserves, FcpVerifyPreserves,
   DiffBlockPreserves, DiffErasePreserves, DiffWritePreserves, DiffVerifyPreserves DEF FlashcpNext

(***************************************************************************)
(* nandtest.                                                               *)
(***************************************************************************)
TestInv == job \in Jobs /\ job.tool = "nandtest" /\ TestOK

TestBusy == {"test_erase", "test_write", "test_check"}

(* The block under test and the variables nandtest works with.               *)
LEMMA TestState ==
  ASSUME TestInv, pc \in TestBusy
  PROVE  /\ flash \in Flashes /\ v.eb \in 0..EbCnt - 1 /\ Busy = {v.eb}
         /\ DOMAIN v = {"eb", "pass", "restore", "kbuf"} /\ v.restore \in BOOLEAN
         /\ job.keep \in BOOLEAN /\ job.offset + job.length <= EbCnt
         /\ \A p \in PagesOf(v.eb) : /\ v.kbuf[p] = <<v.kbuf[p][1], v.kbuf[p][2]>>
                                     /\ v.kbuf[p][1] \in Int /\ v.kbuf[p][2] \in Int
BY RewriteJobs DEF TestInv, TestOK, TestBusy, TestPc, Busy

(* A step that changes the block under test only keeps the other blocks.     *)
LEMMA TestKeeps ==
  ASSUME TestInv, pc \in TestBusy, job.keep, faults \subseteq faults',
         \A p \in 0..Size - 1 : Block(p) # v.eb => flash'[p] = flash[p]
  PROVE  \A b \in 0..EbCnt - 1 \ ({v.eb} \cup faults') : IsOld(b)'
<1> SUFFICES ASSUME NEW b \in 0..EbCnt - 1, b # v.eb, b \notin faults' PROVE IsOld(b)'
  OBVIOUS
<1>1. IsOld(b) BY TestState DEF TestInv, TestOK
<1>2. \A p \in PagesOf(b) : p \in 0..Size - 1 /\ Block(p) # v.eb BY PagesFacts
<1> QED BY <1>1, <1>2 DEF IsOld

(* The step to the next block.                                               *)
LEMMA NextBlockFacts ==
  ASSUME DOMAIN v = {"eb", "pass", "restore", "kbuf"}, v.eb \in Nat, v' = NextBlock
  PROVE  /\ DOMAIN v' = {"eb", "pass", "restore", "kbuf"} /\ v'.eb \in Nat
         /\ v'.restore = FALSE /\ v'.restore \in BOOLEAN
BY SMTT(30) DEF NextBlock

(* A failure is recorded, and nandtest goes on with the next block.          *)
LEMMA TestFailsPreserves ==
  ASSUME TestInv, pc \in TestBusy, TestFails, job' = job, flash' \in Flashes,
         \A p \in 0..Size - 1 : Block(p) # v.eb => flash'[p] = flash[p]
  PROVE  TestOK'
<1>1. faults' = faults \cup {v.eb} /\ v' = NextBlock /\ pc' = "test_block" BY DEF TestFails
<1>2. /\ DOMAIN v' = {"eb", "pass", "restore", "kbuf"} /\ v'.eb \in Nat
      /\ v'.restore = FALSE /\ v'.restore \in BOOLEAN
  <2>1. DOMAIN v = {"eb", "pass", "restore", "kbuf"} /\ v.eb \in Nat BY TestState, SMTT(30)
  <2> QED BY <1>1, <2>1, NextBlockFacts
<1>3. job.keep => \A b \in 0..EbCnt - 1 \ ({v.eb} \cup faults') : IsOld(b)'
  BY <1>1, TestKeeps
<1>4. Busy' = {} /\ v.eb \in faults' BY <1>1 DEF Busy
<1> QED BY <1>1, <1>2, <1>3, <1>4, TestState DEF TestOK, TestPc

(* nandtest checks its range before it touches the device.                   *)
LEMMA NandtestStarts ==
  ASSUME TestInv, Nandtest
  PROVE  TestOK'
<1>1. /\ flash = OldFlash /\ flash' = flash /\ flash \in Flashes /\ job' = job /\ faults' = faults
      /\ v' = [eb |-> job.offset, pass |-> 0, restore |-> FALSE, kbuf |-> <<>>]
      /\ job.offset \in Nat /\ job.length \in Nat
  BY RewriteJobs DEF TestInv, TestOK, Nandtest
<1>2. \/ pc' = "done"
      \/ pc' = "test_block" /\ job.offset + job.length <= EbCnt
  BY <1>1, MtdAssumption, SMTT(30) DEF Nandtest, Exit
<1>3. /\ DOMAIN v' = {"eb", "pass", "restore", "kbuf"} /\ v'.eb \in Nat
      /\ v'.restore = FALSE /\ v'.restore \in BOOLEAN
  BY <1>1
<1>4. \A b \in 0..EbCnt - 1 : IsOld(b)'
  BY <1>1, PagesFacts DEF IsOld, OldFlash
<1> QED BY <1>1, <1>2, <1>3, <1>4 DEF TestOK, TestPc

(* nandtest goes to its next eraseblock, and reads it first with --keep.     *)
LEMMA TestBlockPreserves ==
  ASSUME TestInv, TestBlock
  PROVE  TestOK'
<1>1. /\ pc = "test_block" /\ flash' = flash /\ flash \in Flashes /\ job' = job /\ faults' = faults
      /\ DOMAIN v = {"eb", "pass", "restore", "kbuf"} /\ v.eb \in Nat /\ v.restore \in BOOLEAN
      /\ job.offset \in Nat /\ job.length \in Nat /\ job.keep \in BOOLEAN
      /\ job.offset + job.length <= EbCnt
      /\ job.keep => ~v.restore
      /\ job.keep => \A b \in 0..EbCnt - 1 \ faults : IsOld(b)
  BY RewriteJobs DEF TestInv, TestOK, TestBlock, Busy, TestPc
<1>2. job.keep => \A b \in 0..EbCnt - 1 \ faults : IsOld(b)' BY <1>1 DEF IsOld
<1>3. CASE v' = NextBlock /\ pc' = pc
  BY <1>1, <1>2, <1>3, NextBlockFacts DEF TestOK, TestPc, Busy
<1>4. CASE v' = [v EXCEPT !.pass = @ + 1, !.eb = job.offset] /\ pc' = pc
  <2>1. DOMAIN v' = {"eb", "pass", "restore", "kbuf"} /\ v'.eb \in Nat /\ v'.restore = v.restore
    BY <1>1, <1>4
  <2> QED BY <1>1, <1>2, <1>4, <2>1 DEF TestOK, TestPc, Busy
<1>5. CASE v' = v /\ pc' = "done" BY <1>1, <1>2, <1>5 DEF TestOK, TestPc, Busy
<1>6. CASE /\ v.eb < job.offset + job.length
           /\ v' = [v EXCEPT !.kbuf = [p \in PagesOf(v.eb) |-> Data(p)]] /\ pc' = "test_erase"
  <2>1. v.eb \in 0..EbCnt - 1 BY <1>1, <1>6, MtdAssumption, SMTT(30)
  <2>2. /\ DOMAIN v' = {"eb", "pass", "restore", "kbuf"} /\ v'.eb = v.eb /\ v'.restore = v.restore
        /\ v'.kbuf = [p \in PagesOf(v.eb) |-> Data(p)]
    BY <1>1, <1>6
  <2>3. \A p \in PagesOf(v.eb) : flash[p] \in Cells BY <1>1, <2>1, PagesFacts DEF Flashes
  <2>4. \A p \in PagesOf(v'.eb) : /\ v'.kbuf[p] = <<flash[p][1], flash[p][2]>>
                                  /\ flash[p][1] \in Int /\ flash[p][2] \in Int
    BY <2>2, <2>3, SMTT(30) DEF Data, Cells
  <2>5. ASSUME job.keep, v.eb \notin faults
        PROVE  \A p \in PagesOf(v'.eb) : v'.kbuf[p] = <<Old(p)[1], Old(p)[2]>>
    BY <1>1, <2>1, <2>2, <2>4, <2>5 DEF IsOld
  <2> QED BY <1>1, <1>2, <1>6, <2>1, <2>2, <2>4, <2>5, SMTT(30) DEF TestOK, TestPc, Busy
<1> QED BY <1>1, <1>3, <1>4, <1>5, <1>6 DEF TestBlock, Exit

(* The erase before the test pattern, or before the old data is restored.    *)
LEMMA TestErasePreserves ==
  ASSUME TestInv, TestErase
  PROVE  TestOK'
<1>1. pc = "test_erase" /\ pc \in TestBusy /\ job' = job BY DEF TestErase, TestBusy
<1>2. PICK r \in Erase(flash, v.eb) :
       /\ flash' = r.f
       /\ IF r.ok THEN pc' = "test_write" /\ UNCHANGED <<bad, v, code, faults>> ELSE TestFails
  BY DEF TestErase
<1>3. /\ r.f \in Flashes /\ r.ok \in BOOLEAN
      /\ \A p \in 0..Size - 1 : Block(p) # v.eb => r.f[p] = flash[p]
  BY <1>1, TestState, EraseFacts
<1>4. CASE ~r.ok BY <1>1, <1>2, <1>3, <1>4, TestFailsPreserves
<1>5. CASE r.ok
  <2>1. pc' = "test_write" /\ v' = v /\ faults' = faults BY <1>2, <1>5
  <2>2. job.keep => \A b \in 0..EbCnt - 1 \ ({v.eb} \cup faults') : IsOld(b)'
    BY <1>1, <1>2, <1>3, <2>1, TestKeeps
  <2> QED BY <1>1, <1>2, <1>3, <2>1, <2>2, TestState DEF TestInv, TestOK, TestPc, Busy
<1> QED BY <1>3, <1>4, <1>5

(* What writing the block under test does to the flash.                      *)
LEMMA FullFacts ==
  ASSUME TestInv, pc \in TestBusy
  PROVE  /\ Full(flash) \in Flashes
         /\ \A p \in 0..Size - 1 : Block(p) # v.eb => Full(flash)[p] = flash[p]
<1>1. PagesOf(v.eb) \subseteq 0..Size - 1 /\ \A p \in 0..Size - 1 : p \in PagesOf(v.eb) <=> Block(p) = v.eb
  BY TestState, PagesFacts
<1>2. \A p \in PagesOf(v.eb) : <<Wanted(p)[1], Wanted(p)[2], FF>> \in Cells
  <2> SUFFICES ASSUME NEW p \in PagesOf(v.eb) PROVE <<Wanted(p)[1], Wanted(p)[2], FF>> \in Cells
    OBVIOUS
  <2>1. PICK x \in Int, y \in Int : Wanted(p) = <<x, y>> BY TestState, SMTT(30) DEF Wanted, TestUnit
  <2>2. Wanted(p)[1] = x /\ Wanted(p)[2] = y BY <2>1, SMTT(30)
  <2> QED BY <2>2, SMTT(30) DEF FF, Cells
<1> QED BY <1>1, <1>2, TestState DEF Full, Flashes

(* A write that fails spoils only the page it is for.                        *)
LEMMA SpoiltFacts ==
  ASSUME NEW f \in Flashes, NEW b \in 0..EbCnt - 1, NEW p \in PagesOf(b), NEW cell \in Cells
  PROVE  /\ Spoilt(f, p, cell) \in Flashes
         /\ \A q \in 0..Size - 1 : Block(q) # b => Spoilt(f, p, cell)[q] = f[q]
<1>1. p \in 0..Size - 1 /\ Block(p) = b BY PagesFacts
<1>2. f[p] \in Cells BY <1>1 DEF Flashes
<1> DEFINE c == [i \in 1..3 |-> IF cell[i] = FF THEN f[p][i] ELSE Junk]
<1>3. c \in Cells BY <1>2, SMTT(30) DEF Cells, Junk
<1>4. Spoilt(f, p, cell) = Put(f, {p}, c) BY DEF Spoilt
<1> HIDE DEF c
<1> QED BY <1>1, <1>3, <1>4 DEF Put, Flashes

(* The write of the test pattern, or of the old data.                        *)
LEMMA TestWritePreserves ==
  ASSUME TestInv, TestWrite
  PROVE  TestOK'
<1>1. pc = "test_write" /\ pc \in TestBusy /\ job' = job BY DEF TestWrite, TestBusy
<1>2. v.eb * Pages \in PagesOf(v.eb) BY <1>1, TestState, MtdAssumption, SMTT(30) DEF PagesOf
<1>3. /\ flash' \in Flashes
      /\ \A p \in 0..Size - 1 : Block(p) # v.eb => flash'[p] = flash[p]
  <2>1. CASE flash' = Full(flash) BY <1>1, <2>1, FullFacts
  <2>2. CASE flash' = Spoilt(Full(flash), v.eb * Pages, <<Junk, Junk, FF>>)
    <3>1. PICK f \in Flashes : f = Full(flash) BY <1>1, FullFacts
    <3>2. v.eb \in 0..EbCnt - 1 /\ <<Junk, Junk, FF>> \in Cells BY <1>1, TestState, CellFacts
    <3>3. flash' = Spoilt(f, v.eb * Pages, <<Junk, Junk, FF>>) BY <2>2, <3>1
    <3>4. flash' \in Flashes /\ \A p \in 0..Size - 1 : Block(p) # v.eb => flash'[p] = f[p]
      BY <1>2, <3>2, <3>3, SpoiltFacts
    <3> QED BY <1>1, <3>1, <3>4, FullFacts
  <2>3. CASE \E p \in PagesOf(v.eb) : flash' = Spoilt(flash, p, <<Junk, Junk, FF>>)
    <3>1. PICK p \in PagesOf(v.eb) : flash' = Spoilt(flash, p, <<Junk, Junk, FF>>) BY <2>3
    <3>2. v.eb \in 0..EbCnt - 1 /\ <<Junk, Junk, FF>> \in Cells /\ flash \in Flashes
      BY <1>1, TestState, CellFacts
    <3> QED BY <3>1, <3>2, SpoiltFacts
  <2> QED BY <2>1, <2>2, <2>3 DEF TestWrite
<1>4. CASE TestFails BY <1>1, <1>3, <1>4, TestFailsPreserves
<1>5. CASE pc' = "test_check" /\ v' = v /\ faults' = faults
  <2>1. job.keep => \A b \in 0..EbCnt - 1 \ ({v.eb} \cup faults') : IsOld(b)'
    BY <1>1, <1>3, <1>5, TestKeeps
  <2> QED BY <1>1, <1>3, <1>5, <2>1, TestState DEF TestInv, TestOK, TestPc, Busy
<1>6. CASE pc' = "done" /\ faults' = faults \cup {v.eb} /\ v' = v
  <2>1. job.keep => \A b \in 0..EbCnt - 1 \ ({v.eb} \cup faults') : IsOld(b)'
    BY <1>1, <1>3, <1>6, TestKeeps
  <2> QED BY <1>1, <1>3, <1>6, <2>1, TestState DEF TestInv, TestOK, TestPc, Busy
<1> QED BY <1>4, <1>5, <1>6 DEF TestWrite, Exit

(* A block the restored data was read back from is as it was.                *)
LEMMA TestCheckPreserves ==
  ASSUME TestInv, TestCheck
  PROVE  TestOK'
<1>1. pc = "test_check" /\ pc \in TestBusy /\ job' = job /\ flash' = flash BY DEF TestCheck, TestBusy
<1>2. faults \subseteq faults' BY DEF TestCheck
<1>3. job.keep => \A b \in 0..EbCnt - 1 \ ({v.eb} \cup faults') : IsOld(b)'
  BY <1>1, <1>2, TestKeeps
<1>4. CASE ~\A p \in PagesOf(v.eb) : Data(p) = Wanted(p)
  <2>1. faults' = faults \cup {v.eb} /\ v' = NextBlock /\ pc' = "test_block" BY <1>4 DEF TestCheck
  <2>2. /\ DOMAIN v' = {"eb", "pass", "restore", "kbuf"} /\ v'.eb \in Nat
        /\ v'.restore = FALSE /\ v'.restore \in BOOLEAN
    <3>1. DOMAIN v = {"eb", "pass", "restore", "kbuf"} /\ v.eb \in Nat BY <1>1, TestState, SMTT(30)
    <3> QED BY <2>1, <3>1, NextBlockFacts
  <2> QED BY <1>1, <1>3, <2>1, <2>2, TestState DEF TestInv, TestOK, TestPc, Busy
<1>5. CASE (\A p \in PagesOf(v.eb) : Data(p) = Wanted(p)) /\ job.keep /\ ~v.restore
  <2>1. pc' = "test_erase" /\ v' = [v EXCEPT !.restore = TRUE] /\ faults' = faults
    BY <1>5 DEF TestCheck, AfterCheck
  <2>2. /\ DOMAIN v' = {"eb", "pass", "restore", "kbuf"} /\ v'.eb = v.eb
        /\ v'.restore \in BOOLEAN /\ v'.kbuf = v.kbuf
    BY <1>1, <2>1, TestState
  <2> QED BY <1>1, <1>3, <2>1, <2>2, TestState DEF TestInv, TestOK, TestPc, Busy
<1>6. CASE (\A p \in PagesOf(v.eb) : Data(p) = Wanted(p)) /\ ~(job.keep /\ ~v.restore)
  <2>1. pc' = "test_block" /\ v' = NextBlock /\ faults' = faults
    BY <1>6 DEF TestCheck, AfterCheck
  <2>2. /\ DOMAIN v' = {"eb", "pass", "restore", "kbuf"} /\ v'.eb \in Nat
        /\ v'.restore = FALSE /\ v'.restore \in BOOLEAN
    <3>1. DOMAIN v = {"eb", "pass", "restore", "kbuf"} /\ v.eb \in Nat BY <1>1, TestState, SMTT(30)
    <3> QED BY <2>1, <3>1, NextBlockFacts
  <2>3. PICK e : e = v.eb OBVIOUS
  <2>4. ASSUME job.keep, e \notin faults PROVE IsOld(e)'
    <3>1. \A p \in PagesOf(e) : v.kbuf[p] = <<Old(p)[1], Old(p)[2]>>
      BY <1>1, <2>3, <2>4 DEF TestInv, TestOK
    <3>2. \A p \in PagesOf(e) : <<flash[p][1], flash[p][2]>> = <<Old(p)[1], Old(p)[2]>>
      BY <3>1, <1>6, <2>3, <2>4 DEF Data, Wanted
    <3> QED BY <3>2, <1>1 DEF IsOld
  <2> QED BY <1>1, <1>3, <2>1, <2>2, <2>3, <2>4, TestState DEF TestInv, TestOK, TestPc, Busy
<1> QED BY <1>4, <1>5, <1>6

(* Every step of nandtest keeps its invariant.                               *)
LEMMA TestPreserves ==
  ASSUME TestInv, NandtestNext
  PROVE  TestOK'
BY NandtestStarts, TestBlockPreserves, TestErasePreserves, TestWritePreserves, TestCheckPreserves
   DEF NandtestNext

(***************************************************************************)
(* nandflipbits.                                                           *)
(***************************************************************************)
FlipInv == job \in Jobs /\ job.tool = "nandflipbits" /\ FlipOK

(* Place() finds the page and the unit of an address: addresses count        *)
(* FlipLen units to a page.                                                  *)
LEMMA PlaceIs ==
  ASSUME job.oob \in BOOLEAN, NEW a \in Nat, NEW q \in Nat, NEW s \in Nat,
         a = FlipLen * q + s, s < FlipLen
  PROVE  /\ Place(a).block = q \div Pages /\ Place(a).offset = 3 * (q % Pages) + s
         /\ q \div Pages \in Nat
<1>1. PICK L \in {2, 3} : L = FlipLen BY DEF FlipLen
<1>2. PICK c \in Nat, t \in 0..Pages - 1 : c = q \div Pages /\ t = q % Pages /\ q = c * Pages + t
  <2>1. q \div Pages \in Nat /\ q % Pages \in 0..Pages - 1 /\ q = (q \div Pages) * Pages + (q % Pages)
    BY MtdAssumption, Division
  <2> QED BY <2>1
<1>3. PICK D \in Nat \ {0} : D = Pages * L BY <1>1, MtdAssumption, SMTT(30)
<1>4. L * t + s \in Nat /\ L * t + s < D /\ a = c * D + (L * t + s)
  <2>1. c * Pages \in Nat /\ c * D = L * (c * Pages) BY <1>1, <1>2, <1>3, MtdAssumption, SMTT(30)
  <2>2. CASE L = 2 BY <2>1, <2>2, <1>1, <1>2, <1>3, MtdAssumption, SMTT(30)
  <2>3. CASE L = 3 BY <2>1, <2>3, <1>1, <1>2, <1>3, MtdAssumption, SMTT(30)
  <2> QED BY <1>1, <2>2, <2>3
<1>5. PICK m \in 0..D - 1 : m = L * t + s /\ a = c * D + m BY <1>3, <1>4, SMTT(30)
<1>6. a \div D = c /\ a % D = m
  <2>1. a = c * D + m BY <1>5
  <2> QED BY <2>1, QuotientAndRest
<1>7. m \div L = t
  <2>1. L \in Nat \ {0} /\ t \in Nat /\ s \in 0..L - 1 BY <1>1, <1>2, MtdAssumption, SMTT(30)
  <2>2. m = t * L + s BY <1>5, <2>1, SMTT(30)
  <2> QED BY <2>1, <2>2, QuotientAndRest
<1>8. a % L = s
  <2>1. a = q * L + s BY <1>1, SMTT(30)
  <2> QED BY <1>1, <2>1, QuotientAndRest, SMTT(30)
<1> QED BY <1>1, <1>2, <1>3, <1>6, <1>7, <1>8 DEF Place

(* A place is that of cell i of page p, and an address of the command line   *)
(* names that cell.                                                          *)
Hits(place, b, p, i) == place.block = b /\ place.offset = 3 * (p % Pages) + i - 1

Names(a, p, i) == IF job.oob THEN a = 3 * p + i - 1 ELSE i < 3 /\ a = 2 * p + i - 1

(* The index nandflipbits computes for an address is the unit that the       *)
(* address names.                                                            *)
LEMMA HitIs ==
  ASSUME job.oob \in BOOLEAN, NEW a \in Nat, NEW b \in Nat, NEW p \in PagesOf(b), NEW i \in 1..3
  PROVE  Hits(Place(a), b, p, i) <=> Names(a, p, i)
<1>1. PICK q \in Nat, s \in Nat : a = FlipLen * q + s /\ s < FlipLen
  <2>1. PICK L \in Nat \ {0} : L = FlipLen BY SMTT(30) DEF FlipLen
  <2>2. a \div L \in Nat /\ a % L \in 0..L - 1 /\ a = (a \div L) * L + (a % L) BY <2>1, Division
  <2>3. PICK q \in Nat, s \in 0..L - 1 : a = q * L + s BY <2>2
  <2>4. a = L * q + s /\ s \in Nat /\ s < L BY <2>1, <2>3, SMTT(30)
  <2> QED BY <2>1, <2>3, <2>4
<1>2. /\ Place(a).block = q \div Pages /\ Place(a).offset = 3 * (q % Pages) + s
  BY <1>1, PlaceIs
<1>3. PICK c \in Nat, t \in 0..Pages - 1 : c = q \div Pages /\ t = q % Pages /\ q = c * Pages + t
  BY MtdAssumption, Division
<1>4. PICK z \in 0..Pages - 1 : z = p % Pages /\ p = b * Pages + z /\ p \div Pages = b
  <2>1. b * Pages <= p /\ p < (b + 1) * Pages /\ p \in Nat /\ Pages \in Nat \ {0}
    BY MtdAssumption, SMTT(30) DEF PagesOf
  <2>2. p \div Pages = b BY <2>1, QuotientIs
  <2> QED BY <2>1, <2>2, Division
<1>5. c * Pages \in Nat /\ b * Pages \in Nat BY <1>3, MtdAssumption, SMTT(30)
<1>6. s \in 0..2 BY <1>1, SMTT(30) DEF FlipLen
<1>7. (c = b /\ 3 * t + s = 3 * z + i - 1) <=> q = p /\ s = i - 1
  <2>1. ASSUME c = b, 3 * t + s = 3 * z + i - 1 PROVE q = p /\ s = i - 1
    <3>1. t = z /\ s = i - 1 BY <2>1, <1>3, <1>4, <1>6, MtdAssumption, SMTT(30)
    <3> QED BY <2>1, <3>1, <1>3, <1>4
  <2>2. ASSUME q = p, s = i - 1 PROVE c = b /\ 3 * t + s = 3 * z + i - 1
    <3>1. t = z /\ c = b BY <2>2, <1>3, <1>4
    <3> QED BY <3>1, <2>2, <1>3, <1>4, MtdAssumption
  <2> QED BY <2>1, <2>2
<1>8. (IF job.oob THEN a = 3 * p + i - 1 ELSE i < 3 /\ a = 2 * p + i - 1) <=> q = p /\ s = i - 1
  <2>1. p \in Nat BY <1>4, <1>5, MtdAssumption, SMTT(30)
  <2>2. CASE job.oob BY <2>1, <2>2, <1>1, <1>6, SMTT(30) DEF FlipLen
  <2>3. CASE ~job.oob BY <2>1, <2>3, <1>1, <1>6, SMTT(30) DEF FlipLen
  <2> QED BY <2>2, <2>3
<1> QED BY <1>2, <1>3, <1>4, <1>7, <1>8 DEF Hits, Names

(* The command line of nandflipbits.                                         *)
LEMMA FlipJob ==
  ASSUME job \in Jobs, job.tool = "nandflipbits"
  PROVE  /\ job.oob \in BOOLEAN /\ DOMAIN job.flips \subseteq Nat
         /\ \A i \in DOMAIN job.flips : job.flips[i] \in Nat
BY RewriteJobs, SMTT(30)

(* A page flipped is a page.                                                 *)
LEMMA ToggleInt ==
  ASSUME NEW u \in Int
  PROVE  Toggle(u) \in Int
BY SMTT(30) DEF Toggle

(* What is computed for a block is, page by page, what the command line asks *)
(* for, if the block was as before.                                          *)
LEMMA FlippedBlockIs ==
  ASSUME FlipInv, FlipsOK, NEW b \in 0..EbCnt - 1
  PROVE  /\ FlippedBlock(b, flash, v.flips) \in [PagesOf(b) -> Cells]
         /\ (\A p \in PagesOf(b) : flash[p] = Old(p)) =>
              \A p \in PagesOf(b) : FlippedBlock(b, flash, v.flips)[p] = Flipped(p)
<1> DEFINE hits(p, i) == {k \in DOMAIN v.flips : /\ v.flips[k].block = b
                                                 /\ v.flips[k].offset = 3 * (p % Pages) + i - 1}
           named(p, i) == {k \in DOMAIN job.flips :
                             IF job.oob THEN job.flips[k] = 3 * p + i - 1
                             ELSE i < 3 /\ job.flips[k] = 2 * p + i - 1}
           cell(p) == [i \in 1..3 |-> IF Cardinality(hits(p, i)) % 2 = 1
                                      THEN Toggle(flash[p][i]) ELSE flash[p][i]]
<1>1. FlippedBlock(b, flash, v.flips) = [p \in PagesOf(b) |-> cell(p)]
  BY DEF FlippedBlock
<1>2. \A p \in PagesOf(b) : Flipped(p) = [i \in 1..3 |-> IF Cardinality(named(p, i)) % 2 = 1
                                                          THEN Toggle(Old(p)[i]) ELSE Old(p)[i]]
  BY DEF Flipped
<1>3. DOMAIN v.flips = DOMAIN job.flips /\ \A k \in DOMAIN job.flips : v.flips[k] = Place(job.flips[k])
  BY DEF FlipsOK
<1>4. \A p \in PagesOf(b), i \in 1..3 : hits(p, i) = named(p, i)
  <2> SUFFICES ASSUME NEW p \in PagesOf(b), NEW i \in 1..3 PROVE hits(p, i) = named(p, i)
    OBVIOUS
  <2>1. ASSUME NEW k \in DOMAIN job.flips PROVE k \in hits(p, i) <=> k \in named(p, i)
    <3>1. job.oob \in BOOLEAN /\ job.flips[k] \in Nat /\ b \in Nat BY FlipJob, SMTT(30) DEF FlipInv
    <3>2. Hits(Place(job.flips[k]), b, p, i) <=> Names(job.flips[k], p, i) BY <3>1, HitIs
    <3> QED BY <1>3, <3>2 DEF Hits, Names
  <2>2. hits(p, i) \subseteq DOMAIN job.flips /\ named(p, i) \subseteq DOMAIN job.flips BY <1>3
  <2> HIDE DEF hits, named
  <2> QED BY <2>1, <2>2
<1>5. \A p \in PagesOf(b) : flash[p] \in Cells BY PagesFacts DEF FlipInv, FlipOK, Flashes
<1>6. \A p \in PagesOf(b) : cell(p) \in Cells
  <2> HIDE DEF hits
  <2> SUFFICES ASSUME NEW p \in PagesOf(b), NEW i \in 1..3
               PROVE (IF Cardinality(hits(p, i)) % 2 = 1 THEN Toggle(flash[p][i]) ELSE flash[p][i]) \in Int
    BY DEF Cells
  <2>1. flash[p][i] \in Int BY <1>5 DEF Cells
  <2> QED BY <2>1, ToggleInt
<1>7. ASSUME \A p \in PagesOf(b) : flash[p] = Old(p), NEW p \in PagesOf(b)
      PROVE  cell(p) = Flipped(p)
  <2> HIDE DEF hits, named
  <2> QED BY <1>2, <1>4, <1>7
<1> HIDE DEF cell
<1> QED BY <1>1, <1>6, <1>7

(* A block without flips has none of its pages flipped.                      *)
LEMMA NoFlips ==
  ASSUME FlipInv, FlipsOK, NEW b \in 0..EbCnt - 1, NEW p \in PagesOf(b),
         \A k \in DOMAIN job.flips : v.flips[k].block # b
  PROVE  Flipped(p) = Old(p)
<1> DEFINE named(i) == {k \in DOMAIN job.flips : IF job.oob THEN job.flips[k] = 3 * p + i - 1
                                                 ELSE i < 3 /\ job.flips[k] = 2 * p + i - 1}
<1>1. ASSUME NEW i \in 1..3 PROVE named(i) = {}
  <2>1. ASSUME NEW k \in DOMAIN job.flips PROVE ~Names(job.flips[k], p, i)
    <3>1. job.oob \in BOOLEAN /\ job.flips[k] \in Nat /\ b \in Nat BY FlipJob, SMTT(30) DEF FlipInv
    <3>2. Hits(Place(job.flips[k]), b, p, i) <=> Names(job.flips[k], p, i) BY <3>1, HitIs
    <3> QED BY <3>2 DEF Hits, FlipsOK
  <2> QED BY <2>1 DEF Names
<1>2. Flipped(p) = [i \in 1..3 |-> IF Cardinality(named(i)) % 2 = 1 THEN Toggle(Old(p)[i]) ELSE Old(p)[i]]
  BY DEF Flipped
<1>3. Cardinality({}) % 2 # 1 BY FS_EmptySet, SMTT(30)
<1>4. Old(p) \in Cells
  <2>1. p \in Int BY PagesFacts, SMTT(30)
  <2> QED BY <2>1, CellFacts
<1> HIDE DEF named
<1>5. ASSUME NEW i \in 1..3
      PROVE  (IF Cardinality(named(i)) % 2 = 1 THEN Toggle(Old(p)[i]) ELSE Old(p)[i]) = Old(p)[i]
  BY <1>1, <1>3
<1> QED BY <1>2, <1>4, <1>5 DEF Cells

(* A page that is stored: the other pages stay, and without a failure an     *)
(* erased page takes the data.                                               *)
LEMMA StorePage ==
  ASSUME NEW f \in Flashes, NEW p \in 0..Size - 1, NEW cell \in Cells, NEW r \in Store(f, p, cell)
  PROVE  /\ r.f \in Flashes /\ r.ok \in BOOLEAN /\ r.fault \in BOOLEAN
         /\ ~r.ok => r.fault
         /\ \A q \in 0..Size - 1 : q # p => r.f[q] = f[q]
         /\ (~r.fault /\ f[p] = Blank) => r.f[p] = cell
<1> DEFINE good == [i \in 1..3 |-> Prog(f[p][i], cell[i])]
           spoilt == [i \in 1..3 |-> IF cell[i] = FF THEN f[p][i] ELSE Junk]
<1>1. f[p] \in Cells BY DEF Flashes
<1>2. good \in Cells /\ spoilt \in Cells BY <1>1, SMTT(30) DEF Cells, Prog, FF, Junk
<1>3. f[p] = Blank => good = cell
  <2>1. \A i \in 1..3 : cell[i] \in Int BY DEF Cells
  <2>2. \A u \in Int : Prog(FF, u) = u BY DEF Prog
  <2>3. ASSUME f[p] = Blank, NEW i \in 1..3 PROVE good[i] = cell[i]
    BY <2>1, <2>2, <2>3, CellFacts, SMTT(30)
  <2> QED BY <2>3, <1>2 DEF Cells
<1> HIDE DEF good, spoilt
<1>4. \/ r = [f |-> Put(f, {p}, good), ok |-> TRUE, fault |-> FALSE]
      \/ r = [f |-> Put(f, {p}, spoilt), ok |-> TRUE, fault |-> TRUE]
      \/ r = [f |-> Put(f, {p}, spoilt), ok |-> FALSE, fault |-> TRUE]
  BY DEF Store, Programmed, Spoilt, good, spoilt
<1>5. \A c \in Cells : /\ Put(f, {p}, c) \in Flashes /\ Put(f, {p}, c)[p] = c
                       /\ \A q \in 0..Size - 1 : q # p => Put(f, {p}, c)[q] = f[q]
  BY DEF Put, Flashes
<1>6. CASE r = [f |-> Put(f, {p}, good), ok |-> TRUE, fault |-> FALSE]
  <2>1. r.ok = TRUE /\ r.fault = FALSE /\ r.f = Put(f, {p}, good) BY <1>6
  <2>2. r.f \in Flashes /\ r.f[p] = good /\ \A q \in 0..Size - 1 : q # p => r.f[q] = f[q]
    <3>1. /\ Put(f, {p}, good) \in Flashes /\ Put(f, {p}, good)[p] = good
          /\ \A q \in 0..Size - 1 : q # p => Put(f, {p}, good)[q] = f[q]
      BY <1>2, <1>5
    <3> QED BY <2>1, <3>1
  <2>3. r.ok \in BOOLEAN /\ r.fault \in BOOLEAN /\ (~r.ok => r.fault) BY <2>1
  <2> QED BY <2>2, <2>3, <1>3
<1>7. CASE \E o \in BOOLEAN : r = [f |-> Put(f, {p}, spoilt), ok |-> o, fault |-> TRUE]
  <2>1. r.ok \in BOOLEAN /\ r.fault = TRUE /\ r.f = Put(f, {p}, spoilt) BY <1>7, SMTT(30)
  <2>2. r.f \in Flashes /\ \A q \in 0..Size - 1 : q # p => r.f[q] = f[q]
    BY <2>1, <1>2, <1>5, SMTT(30)
  <2>3. r.ok \in BOOLEAN /\ r.fault \in BOOLEAN /\ r.fault BY <2>1
  <2> QED BY <2>2, <2>3
<1> QED BY <1>4, <1>6, <1>7

(* nandflipbits with a block at risk.                                        *)
LEMMA FlipState ==
  ASSUME FlipInv, pc \in {"flip_erase", "flip_write"}
  PROVE  /\ flash \in Flashes /\ FlipsOK /\ Busy = {v.eb} /\ v.eb \in 0..EbCnt - 1
         /\ \E i \in DOMAIN job.flips : ~v.done[i] /\ v.flips[i].block = v.eb
         /\ v.buf \in [PagesOf(v.eb) -> Cells] /\ v.page \in 0..Pages - 1
         /\ v.eb \notin faults => \A p \in PagesOf(v.eb) : v.buf[p] = Flipped(p)
<1>1. FlipsOK BY DEF FlipInv, FlipOK, FlipPc
<1>2. \E i \in DOMAIN job.flips : ~v.done[i] /\ v.flips[i].block = v.eb
  BY DEF FlipInv, FlipOK
<1>3. v.eb \in 0..EbCnt - 1 BY <1>1, <1>2 DEF FlipsOK
<1> QED BY <1>1, <1>2, <1>3 DEF FlipInv, FlipOK, Busy

(* A step that changes one block only, and no flip of another block, keeps   *)
(* the other blocks.                                                         *)
LEMMA FlipKeeps ==
  ASSUME FlipInv, pc \in {"flip_erase", "flip_write"}, job' = job, faults \subseteq faults',
         \A p \in 0..Size - 1 : Block(p) # v.eb => flash'[p] = flash[p],
         v'.flips = v.flips, v'.given = v.given,
         \A i \in DOMAIN job.flips : v.flips[i].block # v.eb => v'.done[i] = v.done[i]
  PROVE  \A b \in 0..EbCnt - 1 \ ({v.eb} \cup faults') : \A p \in PagesOf(b) :
           flash'[p] = IF \E i \in DOMAIN job.flips : v.flips[i].block = b /\ DoneNow(i)'
                       THEN Flipped(p) ELSE Old(p)
<1> SUFFICES ASSUME NEW b \in 0..EbCnt - 1, b # v.eb, b \notin faults', NEW p \in PagesOf(b)
             PROVE flash'[p] = IF \E i \in DOMAIN job.flips : v.flips[i].block = b /\ DoneNow(i)'
                               THEN Flipped(p) ELSE Old(p)
  OBVIOUS
<1>1. flash[p] = IF \E i \in DOMAIN job.flips : v.flips[i].block = b /\ DoneNow(i)
                 THEN Flipped(p) ELSE Old(p)
  BY FlipState DEF FlipsOK
<1>2. flash'[p] = flash[p] BY PagesFacts
<1>3. \A i \in DOMAIN job.flips : v.flips[i].block = b => (DoneNow(i)' <=> DoneNow(i))
  BY DEF DoneNow
<1> QED BY <1>1, <1>2, <1>3

(* Pages flipped depend on the command line only.                            *)
LEMMA FlippedStays ==
  ASSUME job' = job
  PROVE  \A p : Flipped(p)' = Flipped(p)
BY DEF Flipped

(* nandflipbits checks every bit number it is given before it touches the    *)
(* device.                                                                   *)
LEMMA NandflipbitsStarts ==
  ASSUME FlipInv, Nandflipbits
  PROVE  FlipOK'
<1>1. /\ flash = OldFlash /\ flash \in Flashes /\ faults = {} /\ pc = "nandflipbits"
      /\ flash' = flash /\ faults' = faults /\ job' = job
  BY DEF FlipInv, FlipOK, Nandflipbits
<1>2. CASE \E i \in DOMAIN job.flips : job.flips[i] >= EbCnt * Pages * FlipLen
  <2>1. pc' = "done" /\ code' = 1 BY <1>2 DEF Nandflipbits, Exit
  <2> QED BY <1>1, <2>1, SMTT(30) DEF FlipOK, FlipPc, OldFlash
<1>3. CASE ~\E i \in DOMAIN job.flips : job.flips[i] >= EbCnt * Pages * FlipLen
  <2>1. PICK done \in [DOMAIN job.flips -> BOOLEAN] :
          v' = [flips |-> [i \in DOMAIN job.flips |-> Place(job.flips[i])],
                done |-> done, given |-> done, eb |-> EbCnt, page |-> 0, buf |-> <<>>]
    BY <1>3 DEF Nandflipbits
  <2>2. /\ v'.flips = [i \in DOMAIN job.flips |-> Place(job.flips[i])]
        /\ DOMAIN v' = {"flips", "done", "given", "eb", "page", "buf"}
        /\ v'.done = done /\ v'.given = done
    BY <2>1
  <2>3. pc' = "flip_block" BY <1>3 DEF Nandflipbits
  <2>4. ASSUME NEW i \in DOMAIN job.flips PROVE Place(job.flips[i]).block \in 0..EbCnt - 1
    <3>1. PICK a \in Nat : a = job.flips[i] BY FlipJob DEF FlipInv
    <3>2. PICK D \in Nat \ {0} : D = Pages * FlipLen
      BY FlipJob, MtdAssumption, SMTT(30) DEF FlipInv, FlipLen
    <3>3. a < EbCnt * D
      <4>1. EbCnt * Pages * FlipLen = EbCnt * D /\ EbCnt * D \in Nat
        BY <3>2, FlipJob, MtdAssumption, SMTT(30) DEF FlipInv, FlipLen
      <4> QED BY <4>1, <3>1, <1>3, SMTT(30)
    <3>4. PICK c \in Nat : c = a \div D /\ c * D <= a
      <4>1. a \div D \in Nat /\ a % D \in 0..D - 1 /\ a = (a \div D) * D + (a % D) BY Division
      <4>2. PICK c \in Nat, m \in 0..D - 1 : c = a \div D /\ a = c * D + m BY <4>1
      <4> QED BY <4>2, SMTT(30)
    <3>5. EbCnt <= c => EbCnt * D <= c * D BY <3>4, ProductGrows, MtdAssumption
    <3>6. c < EbCnt
      <4>1. EbCnt * D \in Nat /\ c * D \in Nat BY <3>4, MtdAssumption, SMTT(30)
      <4> QED BY <4>1, <3>3, <3>4, <3>5, MtdAssumption, SMTT(30)
    <3>7. Place(job.flips[i]).block = c BY <3>1, <3>2, <3>4 DEF Place
    <3> QED BY <3>4, <3>6, <3>7, MtdAssumption, SMTT(30)
  <2>5. FlipsOK'
    <3>1. \A i : ~DoneNow(i)' BY <2>2 DEF DoneNow
    <3>2. \A b \in 0..EbCnt - 1 : \A p \in PagesOf(b) : flash'[p] = Old(p)
      BY <1>1, PagesFacts DEF OldFlash
    <3>3. [i \in DOMAIN job.flips |-> Place(job.flips[i])]' = [i \in DOMAIN job.flips |-> Place(job.flips[i])]
      BY <1>1 DEF Place, FlipLen
    <3> QED BY <1>1, <2>2, <2>4, <3>1, <3>2, <3>3 DEF FlipsOK
  <2> QED BY <1>1, <2>3, <2>5 DEF FlipOK, FlipPc
<1> QED BY <1>2, <1>3

(* FlipsOK depends on the flips and on the flash only.                       *)
LEMMA FlipsStay ==
  ASSUME FlipsOK, Busy = {}, job' = job, flash' = flash, faults' = faults,
         DOMAIN v' = {"flips", "done", "given", "eb", "page", "buf"},
         v'.flips = v.flips, v'.done = v.done, v'.given = v.given
  PROVE  FlipsOK'
<1>1. [i \in DOMAIN job.flips |-> Place(job.flips[i])]' = [i \in DOMAIN job.flips |-> Place(job.flips[i])]
  BY DEF Place, FlipLen
<1>2. \A i : DoneNow(i)' <=> DoneNow(i) BY DEF DoneNow
<1>3. (\A b \in 0..EbCnt - 1 \ (Busy \cup faults) : \A p \in PagesOf(b) :
         flash[p] = IF \E i \in DOMAIN job.flips : v.flips[i].block = b /\ DoneNow(i)
                    THEN Flipped(p) ELSE Old(p))'
  BY <1>2, FlippedStays, SMTT(30) DEF FlipsOK
<1>4. (v.flips = [i \in DOMAIN job.flips |-> Place(job.flips[i])])'
  BY <1>1 DEF FlipsOK
<1>5. (/\ \A i \in DOMAIN job.flips : v.flips[i].block \in 0..EbCnt - 1
       /\ v.done \in [DOMAIN job.flips -> BOOLEAN] /\ v.given \in [DOMAIN job.flips -> BOOLEAN]
       /\ \A i \in DOMAIN job.flips : v.given[i] => v.done[i])'
  BY DEF FlipsOK
<1>6. (\A i, k \in DOMAIN job.flips : DoneNow(i) /\ v.flips[k].block = v.flips[i].block => v.done[k])'
  BY <1>2 DEF FlipsOK
<1> QED BY <1>3, <1>4, <1>5, <1>6 DEF FlipsOK

(* The eraseblock of the next bit not flipped yet is read whole, and its     *)
(* bits are flipped in the buffer.                                           *)
LEMMA FlipBlockPreserves ==
  ASSUME FlipInv, FlipBlock, WellOrdered
  PROVE  FlipOK'
<1>1. /\ flash \in Flashes /\ pc = "flip_block" /\ FlipsOK /\ Busy = {}
      /\ flash' = flash /\ faults' = faults /\ job' = job
  BY DEF FlipInv, FlipOK, FlipBlock, FlipPc, Busy
<1>2. CASE \A i \in DOMAIN v.done : v.done[i]
  <2>1. pc' = "done" /\ code' = 0 /\ v' = v BY <1>2 DEF FlipBlock, Exit
  <2>2. DOMAIN v = {"flips", "done", "given", "eb", "page", "buf"} BY <1>1 DEF FlipsOK
  <2>3. FlipsOK' BY <1>1, <2>1, <2>2, FlipsStay
  <2>4. \A i \in DOMAIN job.flips : v.done[i] BY <1>1, <1>2 DEF FlipsOK
  <2> QED BY <1>1, <2>1, <2>3, <2>4 DEF FlipOK, FlipPc
<1>3. CASE ~\A i \in DOMAIN v.done : v.done[i]
  <2> DEFINE S == {i \in DOMAIN v.done : ~v.done[i]}
  <2>1. S \subseteq Nat /\ S # {} /\ DOMAIN v.done = DOMAIN job.flips
    BY <1>1, <1>3, FlipJob DEF FlipsOK, FlipInv
  <2>2. PICK i \in S : i = Min(S)
    <3> HIDE DEF S
    <3>1. \E m \in S : \A k \in S : m <= k BY <2>1 DEF WellOrdered
    <3> QED BY <3>1 DEF Min
  <2>3. PICK b \in 0..EbCnt - 1 : b = v.flips[i].block BY <1>1, <2>1, <2>2 DEF FlipsOK
  <2>4. v' = [v EXCEPT !.eb = b, !.page = 0, !.buf = FlippedBlock(b, flash, v.flips)]
        /\ pc' = "flip_erase"
    BY <1>3, <2>2, <2>3 DEF FlipBlock
  <2>5. /\ DOMAIN v' = {"flips", "done", "given", "eb", "page", "buf"}
        /\ v'.flips = v.flips /\ v'.done = v.done /\ v'.given = v.given
        /\ v'.eb = b /\ v'.page = 0 /\ v'.buf = FlippedBlock(b, flash, v.flips)
    BY <1>1, <2>4 DEF FlipsOK
  <2>6. /\ FlippedBlock(b, flash, v.flips) \in [PagesOf(b) -> Cells]
        /\ (\A p \in PagesOf(b) : flash[p] = Old(p)) =>
             \A p \in PagesOf(b) : FlippedBlock(b, flash, v.flips)[p] = Flipped(p)
    BY <1>1, FlippedBlockIs
  <2>7. ASSUME b \notin faults PROVE \A p \in PagesOf(b) : v'.buf[p] = Flipped(p)
    <3>1. ~\E k \in DOMAIN job.flips : v.flips[k].block = b /\ DoneNow(k)
      BY <1>1, <2>1, <2>2, <2>3 DEF FlipsOK
    <3>2. \A p \in PagesOf(b) : flash[p] = Old(p) BY <1>1, <2>7, <3>1 DEF FlipsOK
    <3> QED BY <2>5, <2>6, <3>2
  <2>8. FlipsOK' BY <1>1, <2>5, FlipsStay
  <2>9. i \in DOMAIN job.flips /\ ~v.done[i] BY <2>1, <2>2
  <2> HIDE DEF S
  <2> QED BY <1>1, <2>3, <2>4, <2>5, <2>6, <2>7, <2>8, <2>9, FlippedStays, MtdAssumption, SMTT(30) DEF FlipOK, FlipPc
<1> QED BY <1>2, <1>3

(* FlipsOK after a step that works on block v.eb.                            *)
LEMMA FlipsStep ==
  ASSUME FlipInv, pc \in {"flip_erase", "flip_write"}, job' = job, faults \subseteq faults',
         \A p \in 0..Size - 1 : Block(p) # v.eb => flash'[p] = flash[p],
         DOMAIN v' = {"flips", "done", "given", "eb", "page", "buf"},
         v'.flips = v.flips, v'.given = v.given, v'.done = v.done,
         v.eb \in Busy' \cup faults'
  PROVE  FlipsOK'
<1>1. FlipsOK BY FlipState
<1>2. [i \in DOMAIN job.flips |-> Place(job.flips[i])]' = [i \in DOMAIN job.flips |-> Place(job.flips[i])]
  BY DEF Place, FlipLen
<1>3. \A i : DoneNow(i)' <=> DoneNow(i) BY DEF DoneNow
<1>4. \A b \in 0..EbCnt - 1 \ ({v.eb} \cup faults') : \A p \in PagesOf(b) :
           flash'[p] = IF \E i \in DOMAIN job.flips : v.flips[i].block = b /\ DoneNow(i)'
                       THEN Flipped(p) ELSE Old(p)
  BY FlipKeeps
<1>5. (\A b \in 0..EbCnt - 1 \ (Busy \cup faults) : \A p \in PagesOf(b) :
         flash[p] = IF \E i \in DOMAIN job.flips : v.flips[i].block = b /\ DoneNow(i)
                    THEN Flipped(p) ELSE Old(p))'
  BY <1>4, FlippedStays, SMTT(30)
<1>6. (v.flips = [i \in DOMAIN job.flips |-> Place(job.flips[i])])'
  BY <1>1, <1>2 DEF FlipsOK
<1>7. (/\ \A i \in DOMAIN job.flips : v.flips[i].block \in 0..EbCnt - 1
       /\ v.done \in [DOMAIN job.flips -> BOOLEAN] /\ v.given \in [DOMAIN job.flips -> BOOLEAN]
       /\ \A i \in DOMAIN job.flips : v.given[i] => v.done[i])'
  BY <1>1 DEF FlipsOK
<1>8. (\A i, k \in DOMAIN job.flips : DoneNow(i) /\ v.flips[k].block = v.flips[i].block => v.done[k])'
  BY <1>1, <1>3 DEF FlipsOK
<1> QED BY <1>5, <1>6, <1>7, <1>8 DEF FlipsOK

(* The erase of the eraseblock whose bits are flipped in the buffer.         *)
LEMMA FlipErasePreserves ==
  ASSUME FlipInv, FlipErase
  PROVE  FlipOK'
<1>1. /\ pc = "flip_erase" /\ v' = v /\ job' = job /\ v.page = 0 BY DEF FlipErase, FlipInv, FlipOK
<1>2. PICK r \in Erase(flash, v.eb) :
        /\ flash' = r.f /\ Fault(~r.ok, v.eb)
        /\ IF r.ok THEN pc' = "flip_write" /\ UNCHANGED code ELSE Exit(1)
  BY DEF FlipErase
<1>3. /\ r.f \in Flashes /\ r.ok \in BOOLEAN
      /\ \A p \in 0..Size - 1 : Block(p) # v.eb => r.f[p] = flash[p]
      /\ r.ok => \A p \in PagesOf(v.eb) : r.f[p] = Blank
  BY <1>1, FlipState, EraseFacts
<1>4. faults \subseteq faults' BY <1>2 DEF Fault
<1>5. DOMAIN v = {"flips", "done", "given", "eb", "page", "buf"} BY <1>1, FlipState DEF FlipsOK
<1>6. CASE ~r.ok
  <2>1. pc' = "done" /\ code' = 1 /\ v.eb \in faults' BY <1>2, <1>6 DEF Fault, Exit
  <2>2. FlipsOK' BY <1>1, <1>2, <1>3, <1>4, <1>5, <2>1, FlipsStep
  <2> QED BY <1>2, <1>3, <2>1, <2>2, SMTT(30) DEF FlipOK, FlipPc
<1>7. CASE r.ok
  <2>1. pc' = "flip_write" /\ faults' = faults BY <1>2, <1>7 DEF Fault
  <2>2. v.eb \in Busy' BY <1>1, <2>1 DEF Busy
  <2>3. FlipsOK' BY <1>1, <1>2, <1>3, <1>4, <1>5, <2>2, FlipsStep
  <2>4. \A p \in PagesOf(v.eb) : ~(p < v.eb * Pages + v.page)
    BY <1>1, FlipState, MtdAssumption, SMTT(30) DEF PagesOf
  <2>5. \A p \in PagesOf(v.eb) : flash'[p] = Blank BY <1>2, <1>3, <1>7
  <2> QED BY <1>1, <1>2, <1>3, <2>1, <2>3, <2>4, <2>5, FlipState, FlippedStays DEF FlipOK, FlipPc
<1> QED BY <1>3, <1>6, <1>7

(* The last page of a block: all flips of the block are done.                *)
LEMMA FlipsBlockDone ==
  ASSUME FlipInv, pc = "flip_write", job' = job, pc' = "flip_block", faults \subseteq faults',
         \A p \in 0..Size - 1 : Block(p) # v.eb => flash'[p] = flash[p],
         v' = [v EXCEPT !.done = [i \in DOMAIN v.flips |-> @[i] \/ v.flips[i].block = v.eb]],
         v.eb \notin faults' => \A p \in PagesOf(v.eb) : flash'[p] = Flipped(p)
  PROVE  FlipsOK'
<1>1. FlipsOK BY FlipState
<1>2. /\ DOMAIN v' = {"flips", "done", "given", "eb", "page", "buf"}
      /\ v'.flips = v.flips /\ v'.given = v.given /\ DOMAIN v.flips = DOMAIN job.flips
      /\ v'.done = [i \in DOMAIN job.flips |-> v.done[i] \/ v.flips[i].block = v.eb]
  BY <1>1 DEF FlipsOK
<1>3. v'.done \in [DOMAIN job.flips -> BOOLEAN]
      /\ \A i \in DOMAIN job.flips : v'.done[i] <=> v.done[i] \/ v.flips[i].block = v.eb
  <2>1. \A i \in DOMAIN job.flips : v.done[i] \in BOOLEAN BY <1>1 DEF FlipsOK
  <2>2. \A i \in DOMAIN job.flips : (v.done[i] \/ v.flips[i].block = v.eb) \in BOOLEAN OBVIOUS
  <2> QED BY <1>2, <2>2
<1>4. [i \in DOMAIN job.flips |-> Place(job.flips[i])]' = [i \in DOMAIN job.flips |-> Place(job.flips[i])]
  BY DEF Place, FlipLen
<1>5. \A i \in DOMAIN job.flips : DoneNow(i)' <=> (v.done[i] \/ v.flips[i].block = v.eb) /\ ~v.given[i]
  BY <1>2, <1>3 DEF DoneNow
<1>6. \A i \in DOMAIN job.flips : v.flips[i].block # v.eb => v'.done[i] = v.done[i]
  BY <1>1, <1>2 DEF FlipsOK
<1>7. \A b \in 0..EbCnt - 1 \ ({v.eb} \cup faults') : \A p \in PagesOf(b) :
           flash'[p] = IF \E i \in DOMAIN job.flips : v.flips[i].block = b /\ DoneNow(i)'
                       THEN Flipped(p) ELSE Old(p)
  BY <1>2, <1>6, FlipKeeps
<1>8. \E i \in DOMAIN job.flips : v.flips[i].block = v.eb /\ DoneNow(i)'
  <2>1. PICK i \in DOMAIN job.flips : ~v.done[i] /\ v.flips[i].block = v.eb BY FlipState
  <2>2. ~v.given[i] BY <1>1, <2>1 DEF FlipsOK
  <2> QED BY <2>1, <2>2, <1>5
<1>9. (\A b \in 0..EbCnt - 1 \ (Busy \cup faults) : \A p \in PagesOf(b) :
         flash[p] = IF \E i \in DOMAIN job.flips : v.flips[i].block = b /\ DoneNow(i)
                    THEN Flipped(p) ELSE Old(p))'
  <2> SUFFICES ASSUME NEW b \in 0..EbCnt - 1, b \notin faults', NEW p \in PagesOf(b)
               PROVE flash'[p] = IF \E i \in DOMAIN job.flips : v.flips[i].block = b /\ DoneNow(i)'
                                 THEN Flipped(p) ELSE Old(p)
    BY <1>2, FlippedStays, SMTT(30)
  <2>1. CASE b = v.eb BY <2>1, <1>8
  <2>2. CASE b # v.eb BY <2>2, <1>7
  <2> QED BY <2>1, <2>2
<1>10. (v.flips = [i \in DOMAIN job.flips |-> Place(job.flips[i])])'
  BY <1>1, <1>2, <1>4 DEF FlipsOK
<1>11. (/\ \A i \in DOMAIN job.flips : v.flips[i].block \in 0..EbCnt - 1
        /\ v.done \in [DOMAIN job.flips -> BOOLEAN] /\ v.given \in [DOMAIN job.flips -> BOOLEAN]
        /\ \A i \in DOMAIN job.flips : v.given[i] => v.done[i])'
  BY <1>1, <1>2, <1>3 DEF FlipsOK
<1>12. (\A i, k \in DOMAIN job.flips : DoneNow(i) /\ v.flips[k].block = v.flips[i].block => v.done[k])'
  <2> SUFFICES ASSUME NEW i \in DOMAIN job.flips, NEW k \in DOMAIN job.flips, DoneNow(i)',
                      v.flips[k].block = v.flips[i].block
               PROVE v'.done[k]
    BY <1>2
  <2>1. CASE v.flips[i].block = v.eb BY <2>1, <1>3
  <2>2. CASE v.flips[i].block # v.eb
    <3>1. DoneNow(i) BY <2>2, <1>5 DEF DoneNow
    <3>2. v.done[k] BY <3>1, <1>1 DEF FlipsOK
    <3> QED BY <3>2, <1>3
  <2> QED BY <2>1, <2>2
<1> QED BY <1>2, <1>9, <1>10, <1>11, <1>12 DEF FlipsOK

(* The buffer goes back page by page.                                        *)
LEMMA FlipWritePreserves ==
  ASSUME FlipInv, FlipWrite
  PROVE  FlipOK'
<1>1. pc = "flip_write" /\ job' = job BY DEF FlipWrite
<1>2. PICK p : p = v.eb * Pages + v.page OBVIOUS
<1>3. /\ flash \in Flashes /\ FlipsOK /\ v.eb \in 0..EbCnt - 1
      /\ \E i \in DOMAIN job.flips : ~v.done[i] /\ v.flips[i].block = v.eb
      /\ v.buf \in [PagesOf(v.eb) -> Cells] /\ v.page \in 0..Pages - 1
      /\ v.eb \notin faults => \A q \in PagesOf(v.eb) : v.buf[q] = Flipped(q)
  BY <1>1, FlipState
<1>4. v.eb * Pages \in Nat /\ (v.eb + 1) * Pages = v.eb * Pages + Pages BY <1>3, MtdAssumption, SMTT(30)
<1>5. PICK x \in Nat : x = v.eb * Pages /\ PagesOf(v.eb) = x..x + Pages - 1 BY <1>4, MtdAssumption, SMTT(30) DEF PagesOf
<1>6. p = x + v.page /\ v.page \in 0..Pages - 1 /\ p \in PagesOf(v.eb) BY <1>2, <1>3, <1>5, MtdAssumption, SMTT(30)
<1>7. p \in 0..Size - 1 /\ Block(p) = v.eb /\ v.buf[p] \in Cells BY <1>3, <1>6, PagesFacts
<1>8. PICK r \in Store(flash, p, v.buf[p]) :
       /\ flash' = r.f /\ Fault(r.fault, v.eb)
       /\ IF ~r.ok THEN Exit(1) /\ UNCHANGED v
          ELSE IF v.page + 1 < Pages THEN v' = [v EXCEPT !.page = @ + 1] /\ UNCHANGED <<pc, code>>
          ELSE /\ v' = [v EXCEPT !.done = [i \in DOMAIN v.flips |->
                                             @[i] \/ v.flips[i].block = v.eb]]
               /\ pc' = "flip_block" /\ UNCHANGED code
  BY <1>2 DEF FlipWrite
<1>9. /\ r.f \in Flashes /\ r.ok \in BOOLEAN /\ r.fault \in BOOLEAN
      /\ ~r.ok => r.fault
      /\ \A q \in 0..Size - 1 : q # p => r.f[q] = flash[q]
      /\ (~r.fault /\ flash[p] = Blank) => r.f[p] = v.buf[p]
  BY <1>3, <1>7, StorePage
<1>10. /\ faults \subseteq faults' /\ flash' \in Flashes
      /\ \A q \in 0..Size - 1 : Block(q) # v.eb => flash'[q] = flash[q]
  BY <1>7, <1>8, <1>9 DEF Fault
<1>11. DOMAIN v = {"flips", "done", "given", "eb", "page", "buf"} BY <1>3 DEF FlipsOK
<1>12. ASSUME v.eb \notin faults', NEW q \in PagesOf(v.eb)
       PROVE  flash'[q] = IF q <= p THEN v.buf[q] ELSE Blank
  <2>1. ~r.fault /\ v.eb \notin faults BY <1>8, <1>9, <1>12 DEF Fault
  <2>2. \A w \in PagesOf(v.eb) : flash[w] = IF w < p THEN v.buf[w] ELSE Blank
    BY <1>1, <1>2, <2>1 DEF FlipInv, FlipOK
  <2>3. q \in 0..Size - 1 /\ q \in Int /\ p \in Int BY <1>3, <1>7, PagesFacts, SMTT(30)
  <2>4. CASE q = p
    <3>1. flash[p] = Blank BY <1>6, <2>2, <2>3, SMTT(30)
    <3> QED BY <3>1, <2>1, <2>3, <2>4, <1>8, <1>9, SMTT(30)
  <2>5. CASE q # p
    <3>1. flash'[q] = flash[q] BY <2>3, <2>5, <1>8, <1>9
    <3>2. q < p <=> q <= p BY <2>3, <2>5, SMTT(30)
    <3> QED BY <3>1, <3>2, <2>2
  <2> QED BY <2>4, <2>5
<1>13. CASE ~r.ok
  <2>1. pc' = "done" /\ code' = 1 /\ v' = v /\ v.eb \in faults'
    BY <1>8, <1>9, <1>13 DEF Fault, Exit
  <2>2. FlipsOK' BY <1>1, <1>10, <1>11, <2>1, FlipsStep
  <2> QED BY <1>10, <2>1, <2>2, SMTT(30) DEF FlipOK, FlipPc
<1>14. CASE r.ok /\ v.page + 1 < Pages
  <2>1. v' = [v EXCEPT !.page = @ + 1] /\ pc' = "flip_write" BY <1>1, <1>8, <1>14
  <2>2. /\ DOMAIN v' = {"flips", "done", "given", "eb", "page", "buf"}
        /\ v'.flips = v.flips /\ v'.done = v.done /\ v'.given = v.given
        /\ v'.eb = v.eb /\ v'.page = v.page + 1 /\ v'.buf = v.buf
    BY <1>11, <2>1
  <2>3. v.eb \in Busy' BY <2>1, <2>2 DEF Busy
  <2>4. FlipsOK' BY <1>1, <1>10, <2>2, <2>3, FlipsStep
  <2>5. v'.page \in 0..Pages - 1 BY <1>3, <1>14, <2>2, MtdAssumption, SMTT(30)
  <2>6. \A q \in PagesOf(v.eb) : q <= p <=> q < v.eb * Pages + v'.page
    BY <1>6, <1>5, <2>2, MtdAssumption, SMTT(30)
  <2>7. v.eb \notin faults' => \A q \in PagesOf(v.eb) : v.buf[q] = Flipped(q)
    BY <1>3, <1>10
  <2> QED BY <1>1, <1>3, <1>10, <1>12, <2>1, <2>2, <2>4, <2>5, <2>6, <2>7, FlippedStays DEF FlipOK, FlipPc
<1>15. CASE r.ok /\ ~(v.page + 1 < Pages)
  <2>1. /\ v' = [v EXCEPT !.done = [i \in DOMAIN v.flips |-> @[i] \/ v.flips[i].block = v.eb]]
        /\ pc' = "flip_block"
    BY <1>8, <1>15
  <2>2. \A q \in PagesOf(v.eb) : q <= p
    BY <1>6, <1>15, <1>5, MtdAssumption, SMTT(30)
  <2>3. ASSUME v.eb \notin faults' PROVE \A q \in PagesOf(v.eb) : flash'[q] = Flipped(q)
    BY <1>3, <1>10, <1>12, <2>2, <2>3
  <2>4. FlipsOK' BY <1>1, <1>10, <2>1, <2>3, FlipsBlockDone
  <2> QED BY <1>10, <2>1, <2>4 DEF FlipOK, FlipPc
<1> QED BY <1>9, <1>13, <1>14, <1>15

(* Every step of nandflipbits keeps its invariant.                           *)
LEMMA FlipPreserves ==
  ASSUME FlipInv, FlipNext, WellOrdered
  PROVE  FlipOK'
BY NandflipbitsStarts, FlipBlockPreserves, FlipErasePreserves, FlipWritePreserves DEF FlipNext

(***************************************************************************)
(* The invariant implies the property.                                     *)
(***************************************************************************)
(* The data of a page are its first two units.                               *)
LEMMA PageUnits ==
  ASSUME NEW b \in 0..EbCnt - 1, NEW p \in PagesOf(b)
  PROVE  /\ p \in Nat /\ 2 * p \in UnitsOf(b) /\ 2 * p + 1 \in UnitsOf(b)
         /\ Stored(2 * p) = flash[p][1] /\ Stored(2 * p + 1) = flash[p][2]
         /\ OldUnit(2 * p) = Old(p)[1] /\ OldUnit(2 * p + 1) = Old(p)[2]
<1>1. p \in 0..Size - 1 /\ Block(p) = b /\ b \in Nat BY PagesFacts, SMTT(30)
<1>2. (2 * p) \div 2 = p /\ (2 * p) % 2 = 0 /\ (2 * p + 1) \div 2 = p /\ (2 * p + 1) % 2 = 1 /\ p \in Nat
  BY <1>1, SMTT(30)
<1>3. 2 * p \in Nat /\ 2 * p + 1 \in Nat BY <1>2, SMTT(30)
<1>4. 2 * p \in UnitsOf(b) /\ 2 * p + 1 \in UnitsOf(b) BY <1>1, <1>2, <1>3, UnitBlock
<1> QED BY <1>2, <1>4, SMTT(30) DEF Stored, OldUnit

(* Two pages with the same data.                                             *)
LEMMA SameData ==
  ASSUME NEW c \in Cells, NEW d \in Cells, c[1] = d[1], c[2] = d[2]
  PROVE  SubSeq(c, 1, 2) = SubSeq(d, 1, 2)
<1>1. SubSeq(c, 1, 2) = [i \in 1..2 |-> c[i]] /\ SubSeq(d, 1, 2) = [i \in 1..2 |-> d[i]] BY CellData
<1>2. \A i \in 1..2 : c[i] = d[i] BY SMTT(30)
<1> QED BY <1>1, <1>2

(* flashcp.                                                                  *)
LEMMA FcpMeets ==
  ASSUME FcpInv, pc \in FcpPc \cup {"done"}
  PROVE  RewritesBlocks
<1>1. Verified BY DEF FcpInv, FcpOK
<1>2. FlipsApplied BY DEF FcpInv, FlipsApplied
<1>3. LastIsLast
  <2> SUFFICES ASSUME WrLast, ~job.partition, Fits, faults = {}, NewStart, Holds(0, job.wr_last)
               PROVE  Holds(job.wr_last, FileLen)
    BY DEF LastIsLast, Fits
  <2>1. PICK u \in 0..job.wr_last - 1 : job.file[u + 1] \notin {FF, OldUnit(u)} BY DEF NewStart, OldUnit
  <2>2. Stored(u) = job.file[u + 1] BY DEF Holds, Stored
  <2>3. ~\A w \in 0..job.wr_last - 1 : Stored(w) \in {FF, OldUnit(w)} BY <2>1, <2>2
  <2>4. pc \in {"flashcp", "fcp_erase", "fcp_write", "fcp_last", "done"} BY DEF FcpInv, FcpOK, FcpPc
  <2> QED BY <2>3, <2>4 DEF FcpInv, LastOK
<1>4. OneBlockAtRisk
  <2> SUFFICES ASSUME job.partition, NEW b \in 0..EbCnt - 1, b \notin Busy \cup faults
               PROVE  \E want \in {Target(b), [p \in PagesOf(b) |-> SubSeq(Old(p), 1, 2)]} :
                        \A p \in PagesOf(b) : SubSeq(flash[p], 1, 2) = want[p]
    BY DEF OneBlockAtRisk, FcpInv
  <2>1. OldOrNew(b) BY DEF FcpInv, PartitionOK
  <2>2. \A p \in PagesOf(b) : flash[p] \in Cells /\ Old(p) \in Cells
    BY PagesFacts, CellFacts, SMTT(30) DEF FcpInv, FcpOK, Flashes
  <2>3. CASE \A u \in UnitsOf(b) : Stored(u) = OldUnit(u)
    <3>1. \A p \in PagesOf(b) : flash[p][1] = Old(p)[1] /\ flash[p][2] = Old(p)[2] BY <2>3, PageUnits, SMTT(30)
    <3> QED BY <3>1, <2>2, SameData
  <2>4. CASE \A u \in UnitsOf(b) : Stored(u) = NewUnit(u)
    <3>1. Target(b) = [p \in PagesOf(b) |->
            [i \in 1..2 |-> IF 2 * p + i <= FileLen THEN job.file[2 * p + i] ELSE FF]]
      BY DEF Target, FcpInv
    <3>2. ASSUME NEW p \in PagesOf(b)
          PROVE  SubSeq(flash[p], 1, 2)
                 = [i \in 1..2 |-> IF 2 * p + i <= FileLen THEN job.file[2 * p + i] ELSE FF]
      <4>1. p \in Nat /\ flash[p][1] = NewUnit(2 * p) /\ flash[p][2] = NewUnit(2 * p + 1) /\ FileLen \in Nat
        BY <2>4, PageUnits, FcpJob DEF FcpInv
      <4>2. \A i \in 1..2 : flash[p][i] = IF 2 * p + i <= FileLen THEN job.file[2 * p + i] ELSE FF
        BY <4>1, SMTT(30) DEF NewUnit
      <4>3. SubSeq(flash[p], 1, 2) = [i \in 1..2 |-> flash[p][i]] BY <2>2, CellData
      <4> QED BY <4>2, <4>3
    <3> QED BY <3>1, <3>2
  <2> QED BY <2>1, <2>3, <2>4 DEF OldOrNew
<1> QED BY <1>1, <1>2, <1>3, <1>4 DEF RewritesBlocks

(* nandtest.                                                                 *)
LEMMA TestMeets ==
  ASSUME TestInv
  PROVE  RewritesBlocks
<1>1. Verified /\ LastIsLast /\ FlipsApplied BY DEF TestInv, Verified, LastIsLast, FlipsApplied
<1>2. OneBlockAtRisk
  <2> SUFFICES ASSUME job.keep, NEW b \in 0..EbCnt - 1, b \notin Busy \cup faults
               PROVE  \A p \in PagesOf(b) :
                        SubSeq(flash[p], 1, 2) = [q \in PagesOf(b) |-> SubSeq(Old(q), 1, 2)][p]
    BY DEF OneBlockAtRisk, TestInv
  <2>1. IsOld(b) BY DEF TestInv, TestOK
  <2>2. \A p \in PagesOf(b) : flash[p] \in Cells /\ Old(p) \in Cells
    BY PagesFacts, CellFacts, SMTT(30) DEF TestInv, TestOK, Flashes
  <2> QED BY <2>1, <2>2, SameData DEF IsOld
<1> QED BY <1>1, <1>2 DEF RewritesBlocks

(* nandflipbits.                                                             *)
LEMMA FlipMeets ==
  ASSUME FlipInv, pc \in FlipPc \cup {"done"}
  PROVE  RewritesBlocks
<1>1. Verified /\ LastIsLast BY DEF FlipInv, Verified, LastIsLast
<1>2. FlipsApplied
  <2>1. SUFFICES ASSUME pc = "done", code = 0, faults = {}, NEW b \in 0..EbCnt - 1, NEW p \in PagesOf(b),
                        \A i \in DOMAIN v.flips : v.flips[i].block = b =>
                          \E k \in DOMAIN v.flips : v.flips[k].block = b /\ ~v.given[k]
                 PROVE  flash[p] = Flipped(p)
    BY DEF FlipsApplied
  <2>2. FlipsOK /\ \A i \in DOMAIN job.flips : v.done[i] BY <2>1, SMTT(30) DEF FlipInv, FlipOK
  <2>3. DOMAIN v.flips = DOMAIN job.flips BY <2>2 DEF FlipsOK
  <2>4. flash[p] = IF \E i \in DOMAIN job.flips : v.flips[i].block = b /\ DoneNow(i)
                   THEN Flipped(p) ELSE Old(p)
    BY <2>1, <2>2 DEF FlipsOK, Busy
  <2>5. CASE \E i \in DOMAIN job.flips : v.flips[i].block = b
    BY <2>1, <2>2, <2>3, <2>4, <2>5 DEF DoneNow
  <2>6. CASE ~\E i \in DOMAIN job.flips : v.flips[i].block = b
    <3>1. Flipped(p) = Old(p) BY <2>2, <2>6, NoFlips
    <3> QED BY <2>4, <2>6, <3>1
  <2> QED BY <2>5, <2>6
<1>3. OneBlockAtRisk
  <2> SUFFICES ASSUME NEW b \in 0..EbCnt - 1, b \notin Busy \cup faults
               PROVE  \E want \in {Target(b), [p \in PagesOf(b) |-> SubSeq(Old(p), 1, 2)]} :
                        \A p \in PagesOf(b) : SubSeq(flash[p], 1, 2) = want[p]
    BY DEF OneBlockAtRisk
  <2>1. Target(b) = [p \in PagesOf(b) |-> SubSeq(Flipped(p), 1, 2)]
    BY DEF Target, FlipInv
  <2>2. (\A p \in PagesOf(b) : flash[p] = Flipped(p)) \/ (\A p \in PagesOf(b) : flash[p] = Old(p))
    <3>1. CASE FlipsOK BY <3>1 DEF FlipsOK
    <3>2. CASE flash = OldFlash BY <3>2, PagesFacts DEF OldFlash
    <3> QED BY <3>1, <3>2 DEF FlipInv, FlipOK, FlipPc
  <2> QED BY <2>1, <2>2
<1> QED BY <1>1, <1>2, <1>3 DEF RewritesBlocks

(* The other tools.                                                          *)
LEMMA OthersMeet ==
  ASSUME job.tool \notin {"flashcp", "nandtest", "nandflipbits"}
  PROVE  RewritesBlocks
BY DEF RewritesBlocks, Verified, LastIsLast, OneBlockAtRisk, FlipsApplied

(* The tools start on the old flash.                                         *)
LEMMA RewriteStarts ==
  ASSUME job \in Jobs, faults = {}, flash = OldFlash,
         job.tool \in {"flashcp", "nandtest", "nandflipbits"}, pc = job.tool
  PROVE  RewriteInv
<1>1. OldFlash \in Flashes BY CellFacts, SMTT(30) DEF OldFlash, Flashes
<1>2. job.tool = "flashcp" => FcpOK /\ LastOK /\ PartitionOK
  <2> SUFFICES ASSUME job.tool = "flashcp", pc = "flashcp" PROVE FcpOK /\ LastOK /\ PartitionOK
    OBVIOUS
  <2>1. FcpOK BY <1>1 DEF FcpOK, Verified
  <2>2. LastOK
    <3> SUFFICES ASSUME WrLast, Fits, NEW u \in 0..job.wr_last - 1 PROVE Stored(u) = OldUnit(u)
      BY DEF LastOK
    <3>1. InDevice(u) BY FcpJob, SMTT(30) DEF WrLast
    <3> QED BY <3>1, OldStored
  <2>3. PartitionOK
    <3>1. \A b \in 0..EbCnt - 1 : \A u \in UnitsOf(b) : Stored(u) = OldUnit(u) BY BlockInDevice, OldStored
    <3> QED BY <3>1 DEF PartitionOK, OldOrNew
  <2> QED BY <2>1, <2>2, <2>3
<1>3. job.tool = "nandtest" => TestOK
  <2>1. \A b \in 0..EbCnt - 1 : IsOld(b) BY PagesFacts DEF IsOld, OldFlash
  <2> QED BY <1>1, <2>1 DEF TestOK, TestPc
<1>4. job.tool = "nandflipbits" => FlipOK BY <1>1 DEF FlipOK, FlipPc
<1> QED BY <1>2, <1>3, <1>4 DEF RewriteInv, FcpPc, FlipPc

(* The invariant is kept by the steps of the three tools, and by any step of *)
(* another tool.                                                             *)
LEMMA RewriteStep ==
  ASSUME RewriteInv, job' = job, WellOrdered,
         job.tool = "flashcp" => FlashcpNext \/ UNCHANGED vars,
         job.tool = "nandtest" => NandtestNext \/ UNCHANGED vars,
         job.tool = "nandflipbits" => FlipNext \/ UNCHANGED vars
  PROVE  RewriteInv'
<1>1. ASSUME job.tool = "flashcp", FlashcpNext
      PROVE (pc \in FcpPc \cup {"done"} /\ FcpOK /\ LastOK /\ PartitionOK)'
  BY <1>1, FcpPreserves, FcpSteps DEF RewriteInv, FcpInv, Stays
<1>2. ASSUME job.tool = "nandtest", NandtestNext PROVE TestOK'
  BY <1>2, TestPreserves DEF RewriteInv, TestInv
<1>3. ASSUME job.tool = "nandflipbits", FlipNext PROVE (pc \in FlipPc \cup {"done"} /\ FlipOK)'
  BY <1>3, FlipPreserves, FlipSteps DEF RewriteInv, FlipInv, Stays
<1>4. ASSUME UNCHANGED vars PROVE RewriteInv'
  <2>1. flash' = flash /\ pc' = pc /\ v' = v /\ code' = code /\ faults' = faults BY <1>4 DEF vars
  <2>2. job.tool = "flashcp" => (FcpOK /\ LastOK /\ PartitionOK)'
    BY <2>1 DEF RewriteInv, FcpOK, LastOK, PartitionOK, FcpPc, Verified, Holds, Fits, FileLen, WrLast, Stored,
                Blocks, BlockEnd, UnitsOf, Busy, OldOrNew, NewUnit, OldUnit, BlockUnits
  <2>3. job.tool = "nandtest" => TestOK'
    BY <2>1 DEF RewriteInv, TestOK, TestPc, Busy, IsOld
  <2>4. job.tool = "nandflipbits" => FlipOK'
    <3>1. FlipsOK' <=> FlipsOK
      BY <2>1, FlippedStays, SMTT(30) DEF FlipsOK, Place, FlipLen, DoneNow, Busy
    <3> QED BY <2>1, <3>1, FlippedStays DEF RewriteInv, FlipOK, FlipPc
  <2> QED BY <2>1, <2>2, <2>3, <2>4 DEF RewriteInv
<1> QED BY <1>1, <1>2, <1>3, <1>4 DEF RewriteInv

(* The invariant implies what is checked of the three tools.                 *)
LEMMA RewriteMeets ==
  ASSUME RewriteInv
  PROVE  RewritesBlocks
BY FcpMeets, TestMeets, FlipMeets, OthersMeet DEF RewriteInv, FcpInv, TestInv, FlipInv
=============================================================================
