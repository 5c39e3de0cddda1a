--------------------------- MODULE UbiFormatProofs ---------------------------
(***************************************************************************)
(* ubiformat keeps the erase counters: the inductive invariant of the      *)
(* program and the proof that its steps keep it.                           *)
(***************************************************************************)
EXTENDS UbiFormat, ProofLemmas

USE ZenonT(30)

Ebs == 0..EbCnt - 1

UbiPc == {"flash_image", "flash_write", "format", "format_write", "layout_vol"}

(* ubiformat has begun to write, or has reported success.                    *)
Formatting == pc \in UbiPc \/ (pc = "done" /\ code = 0)

IsErased(b) == flash[b * Pages][1] = FF /\ flash[b * Pages][2] = FF

(* Block b has the EC header that ubiformat gives it.                        *)
HasNewEc(b) ==
  /\ flash[b * Pages][1] = EcUnit(NewEc(b))
  /\ (job.image => v.offs = job.offs) => flash[b * Pages][2] = 500 + v.offs

(* The blocks that wait for the volume table.                                *)
VtblLeft == {b \in Ebs : (b = v.eb1 /\ v.written = 0) \/ (b = v.eb2 /\ v.written <= 1)}

UbiFields == {"img", "si", "ec", "mean", "offs", "eb", "read", "skip", "written", "eb1", "eb2",
              "prev_bb", "consecutive", "tortured"}

UbiState ==
  /\ UbiFields \subseteq DOMAIN v /\ "ec" \in DOMAIN v.si /\ v.si.ec \in [Ebs -> Int]
  /\ v.eb \in Nat /\ v.ec \in Int /\ v.mean \in Int /\ v.offs \in Int /\ v.written \in Nat
  /\ v.eb1 \in -1..v.eb - 1 /\ v.eb2 \in -1..v.eb - 1 /\ (v.eb2 # -1 => v.eb1 # -1 /\ v.eb1 # v.eb2)
  /\ v.eb1 \in Ebs \cup {-1} /\ v.eb2 \in Ebs \cup {-1}
  /\ v.tortured \subseteq {b \in Ebs : b < v.eb}
  /\ job.image => v.eb1 = -1 /\ v.eb2 = -1

(* The counters that main() decides on.                                      *)
UbiEcs ==
  /\ v.offs % 2 = 0
  /\ v.ec <= EC_MAX /\ v.mean \in 0..EC_MAX
  /\ v.ec = OverrideEc(Found) /\ v.mean = MeanEc(Found) /\ Cardinality(Good(Found)) >= 2
  /\ \A b \in Ebs : (b \in bad <=> v.si.ec[b] = EB_BAD) /\ (b \notin bad => v.si.ec[b] = Found.ec[b])

UbiPlace ==
  /\ pc \in {"flash_image", "flash_write"} => job.image
  /\ pc \in {"flash_write", "format_write"} => v.eb < EbCnt /\ IsErased(v.eb)
  /\ pc = "layout_vol" => ~job.image /\ v.written \in {0, 1} /\ v.eb2 # -1 /\ v.eb >= EbCnt
  /\ ~job.image /\ pc \in {"format", "format_write"} => v.written = 0
  /\ pc = "done" => v.eb >= EbCnt /\ (~job.image => v.written = 2)

(* What is known of the blocks that ubiformat is through with.               *)
Through(b) ==
  /\ b \in VtblLeft => IsErased(b)
  /\ b \in v.tortured \ bad => flash[b * Pages][1] = Junk
  /\ b \notin bad \cup v.tortured \cup VtblLeft => HasNewEc(b)

UbiWritten == \A b \in Ebs : b < v.eb => Through(b)

(* All counters were known, and none was given.                              *)
AllKnown ==
  /\ job.ec = -1
  /\ \A b \in Ebs \ job.bad : /\ job.hdrs[b + 1][1] \in 1000..1000 + EC_MAX
                              /\ job.hdrs[b + 1][2] = 500 + job.offs

UbiNear ==
  LET ec(b) == job.hdrs[b + 1][1] IN
  \A b \in Ebs \ bad : /\ flash[b * Pages][1] \in {ec(b), ec(b) + 1, FF, Junk}
                       /\ Formatting => v.ec = -1 /\ v.si.ec[b] = ec(b) - 1000

UbiInv ==
  /\ job \in Jobs
  /\ job.tool = "ubi" =>
       /\ DOMAIN flash = 0..Size - 1
       /\ job.bad \subseteq bad /\ bad \subseteq Ebs
       /\ pc \in {"ubinize", "ubiformat"} =>
            bad = job.bad /\ \A b \in Ebs : flash[b * Pages] = job.hdrs[b + 1]
       /\ Formatting => UbiState /\ UbiEcs /\ UbiPlace /\ UbiWritten
       /\ AllKnown => UbiNear

-----------------------------------------------------------------------------
(* The first page of an eraseblock of two pages, and what erasing and        *)
(* writing a block does to the first pages of all.                           *)
LEMMA FirstPage ==
  ASSUME NEW b \in Ebs
  PROVE  /\ b * Pages \in 0..Size - 1 /\ b * Pages + 1 \in 0..Size - 1
         /\ \A c \in Ebs : (b * Pages \in PagesOf(c) <=> b = c) /\ (b * Pages = c * Pages <=> b = c)
         /\ \A c \in Ebs : b * Pages # c * Pages + 1 /\ (b * Pages + 1 = c * Pages + 1 <=> b = c)
         /\ \A c \in Ebs : b * Pages + 1 \in PagesOf(c) <=> b = c
<1>1. Pages = 2 /\ EbCnt \in Nat BY LebAssumption, MtdAssumption
<1>2. \A c \in Ebs : c \in Nat /\ c < EbCnt BY <1>1, SMTT(30) DEF Ebs
<1>3. Size = EbCnt * 2 BY <1>1 DEF Size
<1> QED BY <1>1, <1>2, <1>3, SMTT(30) DEF PagesOf

(* The first unit of a written page is the old one, the new one or junk, and *)
(* an erased page takes the EC header.                                       *)
LEMMA WriteEcHdrIs ==
  ASSUME DOMAIN flash = 0..Size - 1, NEW b \in Ebs, NEW ec, NEW offs
  PROVE  LET f == WriteEcHdr(flash, b, ec, offs) IN
         /\ DOMAIN f = 0..Size - 1
         /\ \A p \in 0..Size - 1 : p # b * Pages => f[p] = flash[p]
         /\ f[b * Pages][1] \in {flash[b * Pages][1], EcUnit(ec), Junk}
         /\ IsErased(b) => f[b * Pages][1] = EcUnit(ec) /\ f[b * Pages][2] = 500 + offs
<1> DEFINE f == WriteEcHdr(flash, b, ec, offs)
           cell == [i \in 1..3 |-> Prog(flash[b * Pages][i], EcHdr(ec, offs)[i])]
<1>1. b * Pages \in 0..Size - 1 BY FirstPage
<1>2. DOMAIN f = 0..Size - 1 /\ \A p \in 0..Size - 1 : f[p] = IF p = b * Pages THEN cell ELSE flash[p]
  BY DEF WriteEcHdr, Programmed, Put
<1>3. EcHdr(ec, offs)[1] = EcUnit(ec) /\ EcHdr(ec, offs)[2] = 500 + offs BY DEF EcHdr
<1>4. cell[1] = Prog(flash[b * Pages][1], EcUnit(ec)) /\ cell[2] = Prog(flash[b * Pages][2], 500 + offs)
  BY <1>3, SMTT(30)
<1> HIDE DEF f, cell
<1>5. cell[1] \in {flash[b * Pages][1], EcUnit(ec), Junk} BY <1>4 DEF Prog
<1>6. IsErased(b) => cell[1] = EcUnit(ec) /\ cell[2] = 500 + offs BY <1>4 DEF Prog, IsErased
<1> QED BY <1>1, <1>2, <1>5, <1>6 DEF f

(* Erasing a block changes its own pages.                                    *)
LEMMA EraseIs ==
  ASSUME DOMAIN flash = 0..Size - 1, NEW b \in Ebs, NEW r \in Erase(flash, b)
  PROVE  /\ DOMAIN r.f = 0..Size - 1
         /\ \A p \in 0..Size - 1 : p \notin PagesOf(b) => r.f[p] = flash[p]
         /\ r.f[b * Pages][1] \in {flash[b * Pages][1], FF, Junk}
         /\ r.ok => b \notin bad /\ r.f[b * Pages] = Blank
<1>1. b * Pages \in 0..Size - 1 /\ b * Pages \in PagesOf(b) BY FirstPage
<1>2. \/ b \notin bad /\ r = [f |-> Put(flash, PagesOf(b), Blank), ok |-> TRUE]
      \/ r = [f |-> flash, ok |-> FALSE]
      \/ r = [f |-> Put(flash, PagesOf(b), <<Junk, Junk, Junk>>), ok |-> FALSE]
  BY DEF Erase
<1>3. CASE b \notin bad /\ r = [f |-> Put(flash, PagesOf(b), Blank), ok |-> TRUE]
  <2>1. r.f = Put(flash, PagesOf(b), Blank) BY <1>3
  <2> QED BY <1>1, <1>3, <2>1 DEF Put, Blank
<1>4. CASE r = [f |-> flash, ok |-> FALSE]
  <2>1. r.f = flash /\ r.ok = FALSE BY <1>4
  <2> QED BY <2>1
<1>5. CASE r = [f |-> Put(flash, PagesOf(b), <<Junk, Junk, Junk>>), ok |-> FALSE]
  <2>1. r.f = Put(flash, PagesOf(b), <<Junk, Junk, Junk>>) /\ r.ok = FALSE BY <1>5
  <2> QED BY <1>1, <2>1, SMTT(30) DEF Put
<1> QED BY <1>2, <1>3, <1>4, <1>5

-----------------------------------------------------------------------------
(* A step that works on block e only: on the flash, and in the variables of  *)
(* the program.                                                              *)
Touches(e) ==
  /\ DOMAIN flash' = 0..Size - 1 /\ \A c \in Ebs \ {e} : flash'[c * Pages] = flash[c * Pages]
  /\ flash'[e * Pages][1] \in {flash[e * Pages][1], FF, Junk, EcUnit(NewEc(e))}

BlockStep(e) == job' = job /\ e \in Ebs /\ Touches(e) /\ bad \subseteq bad' /\ bad' \subseteq bad \cup {e}

VarStep(e) ==
  /\ UbiFields \subseteq DOMAIN v' /\ "ec" \in DOMAIN v'.si
  /\ v'.ec = v.ec /\ v'.mean = v.mean /\ v'.offs = v.offs /\ v'.img = v.img
  /\ v'.si.ec \in [Ebs -> Int] /\ \A c \in Ebs \ {e} : v'.si.ec[c] = v.si.ec[c]
  /\ e \in bad' <=> v'.si.ec[e] = EB_BAD
  /\ e \notin bad' => v'.si.ec[e] = v.si.ec[e]
  /\ v'.tortured \in {v.tortured, v.tortured \cup {e}}

(* What was found, and what follows from it, depends on the job only.        *)
LEMMA FoundStays ==
  ASSUME job' = job
  PROVE  /\ Found' = Found /\ OverrideEc(Found)' = OverrideEc(Found) /\ MeanEc(Found)' = MeanEc(Found)
         /\ Good(Found)' = Good(Found)
<1>1. Found' = Found
  <2> DEFINE f == [b \in 0..EbCnt - 1 |-> job.hdrs[b + 1]]
  <2>1. f' = f /\ job'.bad = job.bad OBVIOUS
  <2>2. Found = Scanned(f, job.bad) BY DEF Found
  <2>3. Found' = Scanned(f', job'.bad) BY DEF Found
  <2> HIDE DEF f
  <2> QED BY <2>1, <2>2, <2>3
<1>2. OverrideEc(Found)' = OverrideEc(Found) BY <1>1 DEF OverrideEc, MeanEc, OkPebs, Good, With
<1> QED BY <1>1, <1>2 DEF MeanEc, OkPebs, Good, With

(* The decisions of main() stay.                                             *)
LEMMA EcsStay ==
  ASSUME UbiState, UbiEcs, NEW e, BlockStep(e), VarStep(e)
  PROVE  UbiEcs'
<1>1. ASSUME NEW b \in Ebs PROVE b \in bad' <=> v'.si.ec[b] = EB_BAD
  BY <1>1 DEF UbiEcs, BlockStep, VarStep
<1>2. ASSUME NEW b \in Ebs, b \notin bad' PROVE v'.si.ec[b] = Found.ec[b]
  BY <1>2 DEF UbiEcs, BlockStep, VarStep
<1>3. job' = job BY DEF BlockStep
<1> QED BY <1>1, <1>2, <1>3, FoundStays DEF UbiEcs, VarStep

(* Counters stay near the old ones.                                          *)
LEMMA NearStays ==
  ASSUME AllKnown, UbiNear, Formatting, job \in Jobs, job.bad \subseteq bad, NEW e, BlockStep(e),
         Formatting' => VarStep(e)
  PROVE  UbiNear'
<1> DEFINE ec(b) == job.hdrs[b + 1][1]
<1>1. \A b \in Ebs \ bad : /\ flash[b * Pages][1] \in {ec(b), ec(b) + 1, FF, Junk}
                           /\ v.ec = -1 /\ v.si.ec[b] = ec(b) - 1000 /\ ec(b) \in 1000..1000 + EC_MAX
  BY SMTT(30) DEF UbiNear, AllKnown
<1>2. ASSUME NEW b \in Ebs \ bad' PROVE flash'[b * Pages][1] \in {ec(b), ec(b) + 1, FF, Junk}
  <2>1. b \in Ebs \ bad BY <1>2 DEF BlockStep
  <2>2. CASE b = e
    <3>1. NewEc(e) = ec(e) - 1000 + 1 /\ ec(e) \in Int BY <1>1, <2>1, <2>2, SMTT(30) DEF NewEc, EC_MAX
    <3>2. EcUnit(NewEc(e)) = ec(e) + 1 BY <3>1, SMTT(30) DEF EcUnit
    <3> HIDE DEF ec
    <3> QED BY <1>1, <2>1, <2>2, <3>2, SMTT(30) DEF BlockStep, Touches
  <2>3. CASE b # e BY <1>1, <2>1, <2>3, SMTT(30) DEF BlockStep, Touches
  <2> QED BY <2>2, <2>3
<1>3. ASSUME Formatting', NEW b \in Ebs \ bad' PROVE v'.ec = -1 /\ v'.si.ec[b] = ec(b) - 1000
  <2>1. b \in Ebs \ bad BY <1>3 DEF BlockStep
  <2>2. v'.ec = v.ec /\ v'.si.ec[b] = v.si.ec[b] BY <1>3 DEF VarStep
  <2> QED BY <1>1, <2>1, <2>2, SMTT(30)
<1>4. job' = job BY DEF BlockStep
<1> QED BY <1>2, <1>3, <1>4, SMTT(30) DEF UbiNear

(* Blocks that the step does not work on are as before.                      *)
LEMMA ThroughStays ==
  ASSUME UbiState, NEW e, BlockStep(e), VarStep(e), NEW b \in Ebs, b # e,
         b \in VtblLeft' <=> b \in VtblLeft, Through(b)
  PROVE  Through(b)'
<1>1. flash'[b * Pages] = flash[b * Pages] /\ job' = job BY DEF BlockStep, Touches
<1>2. b \in bad' <=> b \in bad BY DEF BlockStep
<1>3. b \in v'.tortured <=> b \in v.tortured BY DEF VarStep
<1>4. NewEc(b)' = NewEc(b) BY DEF NewEc, VarStep
<1>5. IsErased(b)' <=> IsErased(b) BY <1>1 DEF IsErased
<1>6. HasNewEc(b)' <=> HasNewEc(b) BY <1>1, <1>4 DEF HasNewEc, VarStep
<1> QED BY <1>1, <1>2, <1>3, <1>5, <1>6 DEF Through

(* mark_bad(): the program ends, or goes on with the next block.             *)
LEMMA MarkBadIs ==
  ASSUME UbiState, v.eb \in Ebs, NEW back, MarkBad(back)
  PROVE  \/ bad' = bad /\ pc' = "done" /\ code' = 1
         \/ /\ bad' = bad \cup {v.eb} /\ VarStep(v.eb) /\ v'.eb = v.eb + 1
            /\ v'.written = v.written /\ v'.eb1 = v.eb1 /\ v'.eb2 = v.eb2 /\ v'.tortured = v.tortured
            /\ v'.read = v.read /\ v'.skip = (v.skip \/ pc = "flash_write")
            /\ (pc' = "done" /\ code' = 1) \/ pc' = back
<1>1. CASE Exit(1) /\ UNCHANGED <<bad, v>> BY <1>1 DEF Exit
<1>2. CASE ~(Exit(1) /\ UNCHANGED <<bad, v>>)
  <2> DEFINE si == [v.si EXCEPT !.ec = [v.si.ec EXCEPT ![v.eb] = EB_BAD]]
  <2>1. /\ bad' = bad \cup {v.eb}
        /\ v' = [v EXCEPT !.si = si, !.eb = v.eb + 1, !.prev_bb = v.eb, !.consecutive = ConsecutiveBad(v.eb),
                          !.skip = v.skip \/ pc = "flash_write"]
        /\ (pc' = "done" /\ code' = 1) \/ pc' = back
    BY <1>2 DEF MarkBad
  <2>2. v.si.ec \in [Ebs -> Int] /\ "ec" \in DOMAIN v.si /\ UbiFields \subseteq DOMAIN v BY DEF UbiState
  <2>3. si.ec = [v.si.ec EXCEPT ![v.eb] = EB_BAD] /\ DOMAIN si = DOMAIN v.si BY <2>2
  <2> HIDE DEF si
  <2>4. /\ DOMAIN v' = DOMAIN v /\ v'.si = si /\ v'.eb = v.eb + 1
        /\ v'.ec = v.ec /\ v'.mean = v.mean /\ v'.offs = v.offs /\ v'.img = v.img
        /\ v'.written = v.written /\ v'.eb1 = v.eb1 /\ v'.eb2 = v.eb2 /\ v'.tortured = v.tortured
        /\ v'.read = v.read /\ v'.skip = (v.skip \/ pc = "flash_write")
    BY <2>1, <2>2 DEF UbiFields
  <2>5. v'.si.ec \in [Ebs -> Int] /\ v'.si.ec[v.eb] = EB_BAD /\ \A c \in Ebs \ {v.eb} : v'.si.ec[c] = v.si.ec[c]
    BY <2>2, <2>3, <2>4, SMTT(30) DEF EB_BAD
  <2>6. VarStep(v.eb) BY <2>1, <2>2, <2>3, <2>4, <2>5 DEF VarStep
  <2> QED BY <2>1, <2>4, <2>6
<1> QED BY <1>1, <1>2

(* The invariant after a step that works on one block.                       *)
LEMMA BlockStepKeeps ==
  ASSUME UbiInv, job.tool = "ubi", pc \in UbiPc, NEW e, BlockStep(e), pc' \notin {"ubinize", "ubiformat"},
         Formatting' => VarStep(e) /\ UbiState' /\ UbiPlace' /\ UbiWritten'
  PROVE  UbiInv'
<1>1. Formatting BY DEF Formatting
<1>2. UbiState /\ UbiEcs /\ job \in Jobs /\ job.bad \subseteq bad /\ bad \subseteq Ebs /\ (AllKnown => UbiNear)
  BY <1>1 DEF UbiInv
<1>3. Formatting' => UbiEcs' BY <1>2, EcsStay
<1>4. AllKnown => UbiNear' BY <1>1, <1>2, NearStays
<1>5. job' = job /\ DOMAIN flash' = 0..Size - 1 /\ job.bad \subseteq bad' /\ bad' \subseteq Ebs
  BY <1>2 DEF BlockStep, Touches
<1>6. AllKnown' <=> AllKnown BY <1>5, SMTT(30) DEF AllKnown
<1> QED BY <1>2, <1>3, <1>4, <1>5, <1>6 DEF UbiInv

(* What a step that works on block v.eb and goes on to the next one is to    *)
(* show.                                                                     *)
LEMMA ThroughStep ==
  ASSUME UbiInv, job.tool = "ubi", pc \in UbiPc, v.eb \in Ebs, BlockStep(v.eb), VarStep(v.eb),
         v'.eb \in {v.eb, v.eb + 1}, VtblLeft' \ {v.eb} = VtblLeft \ {v.eb},
         NEW e, e = v.eb, v'.eb = v.eb + 1 => Through(e)'
  PROVE  UbiWritten'
<1>1. UbiState /\ UbiWritten BY DEF UbiInv, Formatting
<1>2. v.eb \in Nat BY <1>1 DEF UbiState
<1>3. ASSUME NEW b \in Ebs, b < v'.eb PROVE Through(b)'
  <2>1. b \in Nat BY SMTT(30) DEF Ebs
  <2>2. CASE b = v.eb BY <1>2, <1>3, <2>2, SMTT(30)
  <2>3. CASE b # v.eb
    <3>1. b < v.eb BY <1>2, <1>3, <2>1, <2>3, SMTT(30)
    <3>2. Through(b) BY <1>1, <3>1 DEF UbiWritten
    <3>3. b \in VtblLeft' <=> b \in VtblLeft BY <2>3
    <3> QED BY <1>1, <2>3, <3>2, <3>3, ThroughStays
  <2> QED BY <2>2, <2>3
<1> QED BY <1>3 DEF UbiWritten

(* The next block of a device that ends, or that is bad.                     *)
LEMMA SkipKeeps ==
  ASSUME UbiInv, job.tool = "ubi", pc \in {"flash_image", "format"}, v.eb = EbCnt \/ (v.eb \in Ebs /\ v.eb \in bad),
         NEW back \in {"flash_image", "format"}, NextPeb(back), back = "flash_image" => job.image,
         UNCHANGED <<flash, bad, faults, code, job>>
  PROVE  UbiInv'
<1>1. UbiState /\ UbiEcs /\ UbiPlace /\ UbiWritten /\ DOMAIN flash = 0..Size - 1
  BY DEF UbiInv, Formatting, UbiPc
<1>2. EbCnt \in Nat \ {0} BY MtdAssumption
<1>3. PICK e \in Ebs : v.eb \in Ebs => e = v.eb
  <2>1. 0 \in Ebs BY <1>2, SMTT(30) DEF Ebs
  <2> QED BY <2>1
<1>4. v' = [v EXCEPT !.eb = v.eb + 1] /\ pc' = back BY DEF NextPeb
<1>5. /\ DOMAIN v' = DOMAIN v /\ v'.eb = v.eb + 1 /\ v'.si = v.si
      /\ v'.ec = v.ec /\ v'.mean = v.mean /\ v'.offs = v.offs /\ v'.img = v.img
      /\ v'.written = v.written /\ v'.eb1 = v.eb1 /\ v'.eb2 = v.eb2 /\ v'.tortured = v.tortured
  BY <1>1, <1>4 DEF UbiFields, UbiState
<1>6. BlockStep(e) BY <1>1 DEF BlockStep, Touches
<1>7. VarStep(e) BY <1>1, <1>5 DEF VarStep, UbiState, UbiEcs
<1>8. v.eb \in Nat /\ v'.eb \in Nat /\ \A b \in Ebs : b \in Nat /\ b < EbCnt
  <2>1. v.eb \in Nat BY <1>1 DEF UbiState
  <2>2. v.eb + 1 \in Nat BY <2>1, SMTT(30)
  <2> QED BY <2>1, <2>2, <1>2, <1>5, SMTT(30) DEF Ebs
<1>9. UbiState'
  <2>0. v.eb1 \in -1..v.eb - 1 /\ v.eb2 \in -1..v.eb - 1 BY <1>1 DEF UbiState
  <2>1. v.eb1 \in -1..v'.eb - 1 /\ v.eb2 \in -1..v'.eb - 1 BY <1>5, <1>8, <2>0, SMTT(30)
  <2>2. v'.tortured \subseteq {b \in Ebs : b < v'.eb} BY <1>1, <1>5, <1>8, SMTT(30) DEF UbiState
  <2> QED BY <1>1, <1>5, <1>8, <2>1, <2>2 DEF UbiState
<1>10. UbiPlace' BY <1>1, <1>4, <1>5 DEF UbiPlace
<1>11. VtblLeft' = VtblLeft BY <1>5 DEF VtblLeft
<1>12. ASSUME NEW b \in Ebs, b < v'.eb PROVE Through(b)'
  <2>1. CASE b = v.eb
    <3>1. v.eb \in Ebs /\ v.eb < EbCnt /\ b \in bad BY <2>1, <1>8, SMTT(30)
    <3>2. b \notin VtblLeft BY <1>1, <1>8, <2>1, SMTT(30) DEF VtblLeft, UbiState
    <3> QED BY <2>1, <1>11, <3>1, <3>2 DEF Through
  <2>2. CASE b # v.eb
    <3>1. b < v.eb BY <2>2, <1>5, <1>8, <1>12, SMTT(30)
    <3>2. Through(b) BY <1>1, <3>1 DEF UbiWritten
    <3>3. flash' = flash /\ bad' = bad /\ job' = job OBVIOUS
    <3>4. NewEc(b)' = NewEc(b) BY <1>5 DEF NewEc
    <3>5. IsErased(b)' <=> IsErased(b) BY <3>3 DEF IsErased
    <3>6. HasNewEc(b)' <=> HasNewEc(b) BY <3>3, <3>4, <1>5, SMTT(30) DEF HasNewEc
    <3> QED BY <3>2, <3>3, <3>5, <3>6, <1>5, <1>11 DEF Through
  <2> QED BY <2>1, <2>2
<1>13. UbiWritten' BY <1>12 DEF UbiWritten
<1> QED BY <1>4, <1>6, <1>7, <1>9, <1>10, <1>13, BlockStepKeeps DEF UbiPc

(* The variables after a step that leaves the volume table alone.            *)
LEMMA StateStep ==
  ASSUME UbiState, NEW e \in Ebs, VarStep(e), v'.eb \in {v.eb, v.eb + 1}, v'.written \in Nat,
         v'.eb1 = v.eb1, v'.eb2 = v.eb2, v'.tortured = v.tortured \/ (e = v.eb /\ v'.eb = v.eb + 1), job' = job
  PROVE  UbiState'
<1>1. v.eb \in Nat /\ v.eb + 1 \in Nat BY SMTT(30) DEF UbiState
<1>2. v'.eb \in Nat /\ v.eb1 \in -1..v'.eb - 1 /\ v.eb2 \in -1..v'.eb - 1 BY <1>1, SMTT(30) DEF UbiState
<1>3. \A b \in Ebs : b \in Nat /\ (b < v.eb => b < v'.eb) BY <1>1, SMTT(30) DEF Ebs
<1>4. v'.tortured \subseteq {b \in Ebs : b < v'.eb}
  <2>1. v.tortured \subseteq {b \in Ebs : b < v'.eb} BY <1>3 DEF UbiState
  <2>2. e = v.eb /\ v'.eb = v.eb + 1 => e < v'.eb BY <1>1, SMTT(30)
  <2> QED BY <2>1, <2>2 DEF VarStep
<1> QED BY <1>2, <1>4 DEF UbiState, VarStep

(* A block that fails is marked bad, and the next one takes its place.       *)
LEMMA BadBlock ==
  ASSUME UbiInv, job.tool = "ubi", pc \in UbiPc \ {"layout_vol"}, v.eb < EbCnt, Touches(v.eb), job' = job,
         NEW back, back = (IF pc \in {"flash_image", "flash_write"} THEN "flash_image" ELSE "format"),
         MarkBad(back)
  PROVE  UbiInv'
<1>1. UbiState /\ UbiEcs /\ UbiPlace /\ UbiWritten BY DEF UbiInv, Formatting
<1>2. v.eb \in Nat /\ v.eb \in Ebs BY <1>1, MtdAssumption, SMTT(30) DEF UbiState, Ebs
<1>3. CASE bad' = bad /\ pc' = "done" /\ code' = 1
  <2>1. BlockStep(v.eb) BY <1>2, <1>3 DEF BlockStep
  <2>2. ~Formatting' BY <1>3, SMTT(30) DEF Formatting, UbiPc
  <2> QED BY <1>3, <2>1, <2>2, BlockStepKeeps
<1>4. CASE /\ bad' = bad \cup {v.eb} /\ VarStep(v.eb) /\ v'.eb = v.eb + 1
           /\ v'.written = v.written /\ v'.eb1 = v.eb1 /\ v'.eb2 = v.eb2 /\ v'.tortured = v.tortured
           /\ (pc' = "done" /\ code' = 1) \/ pc' = back
  <2>1. BlockStep(v.eb) BY <1>2, <1>4 DEF BlockStep
  <2>2. pc' \notin {"ubinize", "ubiformat"} BY <1>4
  <2>3. ASSUME Formatting' PROVE UbiState' /\ UbiPlace' /\ UbiWritten'
    <3>1. pc' = back BY <2>3, <1>4, SMTT(30) DEF Formatting, UbiPc
    <3>2. v.written \in Nat BY <1>1 DEF UbiState
    <3>3. UbiState' BY <1>1, <1>2, <1>4, <3>2, StateStep
    <3>4. UbiPlace' BY <1>1, <1>4, <3>1 DEF UbiPlace, UbiPc
    <3>5. VtblLeft' = VtblLeft BY <1>4 DEF VtblLeft
    <3>6. PICK e : e = v.eb OBVIOUS
    <3>7. e \notin VtblLeft /\ e \in bad' BY <1>1, <1>2, <1>4, <3>6, SMTT(30) DEF VtblLeft, UbiState
    <3>8. Through(e)' BY <3>5, <3>7 DEF Through
    <3>9. UbiWritten' BY <1>2, <1>4, <2>1, <3>5, <3>6, <3>8, ThroughStep
    <3> QED BY <3>3, <3>4, <3>9
  <2> QED BY <1>4, <2>1, <2>2, <2>3, BlockStepKeeps
<1> QED BY <1>1, <1>2, <1>3, <1>4, MarkBadIs, SMTT(30)

(* A block that passes the torture test after a failed write stays as it is. *)
LEMMA TorturedBlock ==
  ASSUME UbiInv, job.tool = "ubi", pc \in {"flash_write", "format_write"}, Touches(v.eb), job' = job, bad' = bad,
         flash'[v.eb * Pages][1] = Junk,
         v' = [v EXCEPT !.eb = v.eb + 1, !.skip = pc = "flash_write", !.tortured = v.tortured \cup {v.eb}],
         pc' = (IF pc = "flash_write" THEN "flash_image" ELSE "format")
  PROVE  UbiInv'
<1>1. UbiState /\ UbiEcs /\ UbiPlace /\ UbiWritten BY DEF UbiInv, Formatting, UbiPc
<1>2. v.eb \in Nat /\ v.eb \in Ebs BY <1>1, MtdAssumption, SMTT(30) DEF UbiState, UbiPlace, Ebs
<1>3. /\ DOMAIN v' = DOMAIN v /\ v'.eb = v.eb + 1 /\ v'.si = v.si
      /\ v'.ec = v.ec /\ v'.mean = v.mean /\ v'.offs = v.offs /\ v'.img = v.img
      /\ v'.written = v.written /\ v'.eb1 = v.eb1 /\ v'.eb2 = v.eb2 /\ v'.tortured = v.tortured \cup {v.eb}
  BY <1>1 DEF UbiFields, UbiState
<1>4. BlockStep(v.eb) BY <1>2 DEF BlockStep
<1>5. VarStep(v.eb) BY <1>1, <1>2, <1>3 DEF VarStep, UbiState, UbiEcs
<1>6. v.written \in Nat BY <1>1 DEF UbiState
<1>7. UbiState' BY <1>1, <1>2, <1>3, <1>5, <1>6, StateStep
<1>8. UbiPlace' BY <1>1, <1>3 DEF UbiPlace
<1>9. VtblLeft' = VtblLeft BY <1>3 DEF VtblLeft
<1>10. PICK e : e = v.eb OBVIOUS
<1>11. e \notin VtblLeft /\ e \in v'.tortured BY <1>1, <1>2, <1>3, <1>10, SMTT(30) DEF VtblLeft, UbiState
<1>12. Through(e)' BY <1>9, <1>10, <1>11 DEF Through
<1>13. pc \in UbiPc /\ pc' \notin {"ubinize", "ubiformat"} BY DEF UbiPc
<1>14. UbiWritten' BY <1>2, <1>3, <1>4, <1>5, <1>9, <1>10, <1>12, <1>13, ThroughStep
<1> QED BY <1>4, <1>5, <1>7, <1>8, <1>13, <1>14, BlockStepKeeps

(* Both ends of a write that fails.                                          *)
LEMMA WriteFailsKeeps ==
  ASSUME UbiInv, job.tool = "ubi", pc \in {"flash_write", "format_write"}, job' = job,
         NEW back, back = (IF pc = "flash_write" THEN "flash_image" ELSE "format"), WritePebFails(back)
  PROVE  UbiInv'
<1>1. UbiState /\ UbiPlace /\ DOMAIN flash = 0..Size - 1 BY DEF UbiInv, Formatting, UbiPc
<1>2. v.eb < EbCnt /\ v.eb \in Ebs BY <1>1, MtdAssumption, SMTT(30) DEF UbiState, UbiPlace, Ebs
<1>3. flash' = Put(flash, PagesOf(v.eb), <<Junk, Junk, FF>>) BY DEF WritePebFails
<1>4. PICK e \in Ebs : e = v.eb BY <1>2
<1>5. e * Pages \in 0..Size - 1 /\ e * Pages \in PagesOf(e) BY FirstPage
<1>6. \A c \in Ebs \ {e} : c * Pages \in 0..Size - 1 /\ c * Pages \notin PagesOf(e) BY FirstPage
<1>7. Touches(e) /\ flash'[e * Pages][1] = Junk BY <1>1, <1>3, <1>4, <1>5, <1>6 DEF Touches, Put
<1>8. CASE MarkBad(back) BY <1>2, <1>4, <1>7, <1>8, BadBlock DEF UbiPc
<1>9. CASE ~MarkBad(back)
  <2>1. /\ v' = [v EXCEPT !.eb = v.eb + 1, !.skip = pc = "flash_write", !.tortured = v.tortured \cup {v.eb}]
        /\ pc' = back /\ bad' = bad
    BY <1>9 DEF WritePebFails
  <2> QED BY <1>4, <1>7, <2>1, TorturedBlock
<1> QED BY <1>8, <1>9

(* A block that could be erased is blank and has not been worked on before.  *)
LEMMA FreshBlock ==
  ASSUME UbiInv, job.tool = "ubi", pc \in UbiPc, v.eb \in Ebs
  PROVE  v.eb \in Nat /\ v.eb \notin VtblLeft /\ v.eb \notin v.tortured
<1>1. UbiState BY DEF UbiInv, Formatting
<1>2. v.eb \in Nat BY SMTT(30) DEF Ebs
<1> QED BY <1>1, <1>2, SMTT(30) DEF UbiState, VtblLeft

(* Erasing touches no other block.                                           *)
LEMMA EraseTouches ==
  ASSUME DOMAIN flash = 0..Size - 1, NEW e \in Ebs, NEW r \in Erase(flash, e), flash' = r.f
  PROVE  Touches(e) /\ (r.ok => flash'[e * Pages] = Blank /\ e \notin bad)
<1>1. \A c \in Ebs \ {e} : c * Pages \in 0..Size - 1 /\ c * Pages \notin PagesOf(e) BY FirstPage
<1> QED BY <1>1, EraseIs DEF Touches

(* flash_image() and format() after the erasure of a block that they are to  *)
(* write.                                                                    *)
LEMMA ErasedKeeps ==
  ASSUME UbiInv, job.tool = "ubi", pc \in {"flash_image", "format"}, v.eb < EbCnt, job' = job, bad' = bad,
         Touches(v.eb), flash'[v.eb * Pages] = Blank,
         pc' = (IF pc = "flash_image" THEN "flash_write" ELSE "format_write"),
         DOMAIN v' = DOMAIN v, v'.eb = v.eb, v'.si = v.si,
         v'.ec = v.ec, v'.mean = v.mean, v'.offs = v.offs, v'.img = v.img,
         v'.written = v.written, v'.eb1 = v.eb1, v'.eb2 = v.eb2, v'.tortured = v.tortured
  PROVE  UbiInv'
<1>1. UbiState /\ UbiEcs /\ UbiPlace /\ UbiWritten BY DEF UbiInv, Formatting, UbiPc
<1>2. v.eb \in Nat /\ v.eb \in Ebs BY <1>1, MtdAssumption, SMTT(30) DEF UbiState, Ebs
<1>3. BlockStep(v.eb) BY <1>2 DEF BlockStep
<1>4. VarStep(v.eb) BY <1>1, <1>2 DEF VarStep, UbiState, UbiEcs
<1>5. v.written \in Nat BY <1>1 DEF UbiState
<1>6. UbiState' BY <1>1, <1>2, <1>4, <1>5, StateStep
<1>7. IsErased(v.eb)' BY SMTT(30) DEF IsErased, Blank
<1>8. UbiPlace' BY <1>1, <1>7 DEF UbiPlace
<1>9. VtblLeft' = VtblLeft BY DEF VtblLeft
<1>10. pc \in UbiPc /\ pc' \notin {"ubinize", "ubiformat"} BY DEF UbiPc
<1>11. v'.eb # v.eb + 1 BY <1>2, SMTT(30)
<1>12. UbiWritten' BY <1>2, <1>3, <1>4, <1>9, <1>10, <1>11, ThroughStep
<1> QED BY <1>3, <1>4, <1>6, <1>8, <1>10, <1>12, BlockStepKeeps

(* format() leaves an erased block for the volume table.                     *)
LEMMA VtblKeeps ==
  ASSUME UbiInv, job.tool = "ubi", pc = "format", v.eb < EbCnt, job' = job, bad' = bad,
         Touches(v.eb), flash'[v.eb * Pages] = Blank, v.eb \notin bad, ForVtbl, pc' = "format",
         v' = [v EXCEPT !.eb = v.eb + 1, !.eb1 = IF v.eb1 = -1 THEN v.eb ELSE v.eb1,
                        !.eb2 = IF v.eb1 = -1 THEN -1 ELSE v.eb]
  PROVE  UbiInv'
<1>1. UbiState /\ UbiEcs /\ UbiPlace /\ UbiWritten BY DEF UbiInv, Formatting, UbiPc
<1>2. v.eb \in Nat /\ v.eb \in Ebs /\ pc \in UbiPc BY <1>1, MtdAssumption, SMTT(30) DEF UbiState, Ebs, UbiPc
<1>3. /\ DOMAIN v' = DOMAIN v /\ v'.eb = v.eb + 1 /\ v'.si = v.si
      /\ v'.ec = v.ec /\ v'.mean = v.mean /\ v'.offs = v.offs /\ v'.img = v.img
      /\ v'.written = v.written /\ v'.tortured = v.tortured
      /\ v'.eb1 = IF v.eb1 = -1 THEN v.eb ELSE v.eb1
      /\ v'.eb2 = IF v.eb1 = -1 THEN -1 ELSE v.eb
  BY <1>1 DEF UbiFields, UbiState
<1>4. BlockStep(v.eb) BY <1>2 DEF BlockStep
<1>5. VarStep(v.eb) BY <1>1, <1>2, <1>3 DEF VarStep, UbiState, UbiEcs
<1>6. ~job.image /\ v.eb2 = -1 /\ v.written = 0 BY <1>1 DEF ForVtbl, UbiPlace
<1>7. UbiState'
  <2>1. v'.eb \in Nat /\ v'.eb1 \in -1..v'.eb - 1 /\ v'.eb2 \in -1..v'.eb - 1
        /\ (v'.eb2 # -1 => v'.eb1 # -1 /\ v'.eb1 # v'.eb2)
        /\ v'.eb1 \in Ebs \cup {-1} /\ v'.eb2 \in Ebs \cup {-1}
    BY <1>1, <1>2, <1>3, SMTT(30) DEF UbiState
  <2>2. \A b \in Ebs : b < v.eb => b < v'.eb BY <1>2, <1>3, SMTT(30) DEF Ebs
  <2>3. v'.tortured \subseteq {b \in Ebs : b < v'.eb} BY <1>1, <1>3, <2>2 DEF UbiState
  <2>4. v'.ec \in Int /\ v'.mean \in Int /\ v'.offs \in Int /\ v'.written \in Nat BY <1>1, <1>3 DEF UbiState
  <2> QED BY <1>5, <1>6, <2>1, <2>3, <2>4 DEF UbiState, VarStep
<1>8. UbiPlace' BY <1>1, <1>3, <1>6 DEF UbiPlace
<1>9. VtblLeft' \ {v.eb} = VtblLeft \ {v.eb} /\ v.eb \in VtblLeft'
  <2>1. -1 \notin Ebs BY SMTT(30) DEF Ebs
  <2> QED BY <1>2, <1>3, <1>6, <2>1, SMTT(30) DEF VtblLeft
<1>10. PICK e : e = v.eb OBVIOUS
<1>11. Through(e)'
  <2>1. IsErased(e)' BY <1>10, SMTT(30) DEF IsErased, Blank
  <2>2. e \in VtblLeft' /\ e \notin v'.tortured BY <1>2, <1>3, <1>9, <1>10, FreshBlock
  <2> QED BY <2>1, <2>2 DEF Through
<1>12. UbiWritten' BY <1>2, <1>3, <1>4, <1>5, <1>9, <1>10, <1>11, ThroughStep
<1> QED BY <1>2, <1>4, <1>5, <1>7, <1>8, <1>12, BlockStepKeeps

(* A written block has the EC header that it is to have.                     *)
LEMMA WrittenKeeps ==
  ASSUME UbiInv, job.tool = "ubi", pc \in {"flash_write", "format_write"}, job' = job, bad' = bad,
         NEW offs, offs = (IF pc = "flash_write" THEN job.offs ELSE v.offs),
         Touches(v.eb), flash'[v.eb * Pages][1] = EcUnit(NewEc(v.eb)), flash'[v.eb * Pages][2] = 500 + offs,
         DOMAIN v' = DOMAIN v, v'.eb = v.eb + 1, v'.si = v.si,
         v'.ec = v.ec, v'.mean = v.mean, v'.offs = v.offs, v'.img = v.img,
         v'.eb1 = v.eb1, v'.eb2 = v.eb2, v'.tortured = v.tortured,
         v'.written = (IF pc = "flash_write" THEN v.written + 1 ELSE v.written),
         pc' \in (IF pc = "flash_write" THEN {"flash_image", "format"} ELSE {"format"})
  PROVE  UbiInv'
<1>1. UbiState /\ UbiEcs /\ UbiPlace /\ UbiWritten BY DEF UbiInv, Formatting, UbiPc
<1>2. v.eb \in Nat /\ v.eb \in Ebs /\ pc \in UbiPc BY <1>1, MtdAssumption, SMTT(30) DEF UbiState, UbiPlace, Ebs, UbiPc
<1>3. BlockStep(v.eb) BY <1>2 DEF BlockStep
<1>4. VarStep(v.eb) BY <1>1, <1>2, SMTT(30) DEF VarStep, UbiState, UbiEcs
<1>5. v'.written \in Nat BY <1>1, SMTT(30) DEF UbiState
<1>6. UbiState' BY <1>1, <1>2, <1>4, <1>5, StateStep
<1>7. UbiPlace' BY <1>1, SMTT(30) DEF UbiPlace
<1>8. VtblLeft' = VtblLeft
  <2>1. CASE pc = "flash_write"
    <3>1. v.eb1 \notin Ebs /\ v.eb2 \notin Ebs BY <1>1, <2>1, SMTT(30) DEF UbiState, UbiPlace, Ebs
    <3> QED BY <3>1, SMTT(30) DEF VtblLeft
  <2>2. CASE pc # "flash_write" BY <2>2, SMTT(30) DEF VtblLeft
  <2> QED BY <2>1, <2>2
<1>9. PICK e : e = v.eb OBVIOUS
<1>10. Through(e)'
  <2>1. e \notin VtblLeft' /\ e \notin v'.tortured BY <1>2, <1>8, <1>9, FreshBlock
  <2>2. NewEc(e)' = NewEc(e) BY DEF NewEc
  <2>3. HasNewEc(e)' BY <2>2, <1>1, <1>9, SMTT(30) DEF HasNewEc, UbiPlace
  <2> QED BY <2>1, <2>3 DEF Through
<1>11. UbiWritten' BY <1>2, <1>3, <1>4, <1>8, <1>9, <1>10, ThroughStep
<1> QED BY <1>2, <1>3, <1>4, <1>6, <1>7, <1>11, BlockStepKeeps

(* A block that ubiformat writes with its EC header, and perhaps more.       *)
LEMMA WriteTouches ==
  ASSUME DOMAIN flash = 0..Size - 1, NEW e \in Ebs, NEW offs, NEW peb,
         \/ flash' = WriteEcHdr(flash, e, NewEc(e), offs)
         \/ flash' = WritePeb(WriteEcHdr(flash, e, NewEc(e), offs), e, peb)
  PROVE  /\ Touches(e)
         /\ IsErased(e) => flash'[e * Pages][1] = EcUnit(NewEc(e)) /\ flash'[e * Pages][2] = 500 + offs
<1> DEFINE f == WriteEcHdr(flash, e, NewEc(e), offs)
<1>1. /\ DOMAIN f = 0..Size - 1
      /\ \A p \in 0..Size - 1 : p # e * Pages => f[p] = flash[p]
      /\ f[e * Pages][1] \in {flash[e * Pages][1], EcUnit(NewEc(e)), Junk}
      /\ IsErased(e) => f[e * Pages][1] = EcUnit(NewEc(e)) /\ f[e * Pages][2] = 500 + offs
  BY WriteEcHdrIs, SMTT(30)
<1> HIDE DEF f
<1>2. \A c \in Ebs : c * Pages \in 0..Size - 1 /\ c * Pages # e * Pages + 1 /\ (c # e => c * Pages # e * Pages)
  BY FirstPage
<1>3. DOMAIN flash' = 0..Size - 1 /\ \A c \in Ebs : flash'[c * Pages] = f[c * Pages]
  <2>1. CASE flash' = f BY <1>1, <2>1
  <2>2. CASE flash' = WritePeb(f, e, peb)
    <3>1. /\ DOMAIN WritePeb(f, e, peb) = 0..Size - 1
          /\ \A p \in 0..Size - 1 : p # e * Pages + 1 => WritePeb(f, e, peb)[p] = f[p]
      BY <1>1 DEF WritePeb, Programmed, Put
    <3> QED BY <1>2, <2>2, <3>1
  <2> QED BY <2>1, <2>2 DEF f
<1> QED BY <1>1, <1>2, <1>3 DEF Touches

(* flash_image() takes the next block and erases it.                         *)
LEMMA FlashImageKeeps ==
  ASSUME UbiInv, job.tool = "ubi", FlashImage
  PROVE  UbiInv'
<1>1. pc = "flash_image" /\ job' = job BY DEF FlashImage
<1>2. UbiState /\ UbiEcs /\ UbiPlace /\ DOMAIN flash = 0..Size - 1 BY <1>1 DEF UbiInv, Formatting, UbiPc
<1>3. v.eb \in Nat /\ job.image BY <1>1, <1>2 DEF UbiState, UbiPlace
<1>4. CASE v.eb = EbCnt /\ NextPeb("format") /\ UNCHANGED <<flash, bad, faults, code>>
  BY <1>1, <1>4, SkipKeeps
<1>5. CASE v.eb < EbCnt /\ v.si.ec[v.eb] = EB_BAD /\ NextPeb("flash_image") /\ UNCHANGED <<flash, bad, faults, code>>
  <2>1. v.eb \in Ebs /\ v.eb \in bad BY <1>2, <1>3, <1>5, MtdAssumption, SMTT(30) DEF UbiEcs, Ebs
  <2> QED BY <1>1, <1>3, <1>5, <2>1, SkipKeeps
<1>6. CASE v.eb < EbCnt /\ ErasePeb("flash_image", /\ v' = [v EXCEPT !.read = ReadAll, !.skip = FALSE]
                                                   /\ pc' = "flash_write")
  <2>1. PICK e \in Ebs : e = v.eb BY <1>3, <1>6, MtdAssumption, SMTT(30) DEF Ebs
  <2>2. PICK r \in Erase(flash, e) :
          /\ flash' = r.f
          /\ \/ /\ r.ok /\ v' = [v EXCEPT !.read = ReadAll, !.skip = FALSE] /\ pc' = "flash_write"
                /\ bad' = bad
             \/ ~r.ok /\ MarkBad("flash_image")
    BY <1>6, <2>1 DEF ErasePeb
  <2>3. Touches(e) /\ (r.ok => flash'[e * Pages] = Blank) BY <1>2, <2>2, EraseTouches
  <2>4. CASE ~r.ok
    <3>1. MarkBad("flash_image") BY <2>2, <2>4
    <3> QED BY <1>1, <1>6, <2>1, <2>3, <3>1, BadBlock DEF UbiPc
  <2>5. CASE r.ok
    <3>1. v' = [v EXCEPT !.read = ReadAll, !.skip = FALSE] /\ pc' = "flash_write" /\ bad' = bad BY <2>2, <2>5
    <3>2. /\ DOMAIN v' = DOMAIN v /\ v'.eb = v.eb /\ v'.si = v.si
          /\ v'.ec = v.ec /\ v'.mean = v.mean /\ v'.offs = v.offs /\ v'.img = v.img
          /\ v'.written = v.written /\ v'.eb1 = v.eb1 /\ v'.eb2 = v.eb2 /\ v'.tortured = v.tortured
      BY <1>2, <3>1 DEF UbiFields, UbiState
    <3> QED BY <1>1, <1>6, <2>1, <2>3, <2>5, <3>1, <3>2, ErasedKeeps
  <2> QED BY <2>4, <2>5
<1> QED BY <1>4, <1>5, <1>6 DEF FlashImage

(* flash_image() writes an eraseblock of the image.                          *)
LEMMA FlashWriteKeeps ==
  ASSUME UbiInv, job.tool = "ubi", FlashWrite
  PROVE  UbiInv'
<1>1. pc = "flash_write" /\ job' = job BY DEF FlashWrite
<1>2. UbiState /\ UbiEcs /\ UbiPlace /\ DOMAIN flash = 0..Size - 1 BY <1>1 DEF UbiInv, Formatting, UbiPc
<1>3. PICK e \in Ebs : e = v.eb BY <1>1, <1>2, MtdAssumption, SMTT(30) DEF UbiState, UbiPlace, Ebs
<1>4. CASE Exit(1) /\ UNCHANGED <<flash, bad, faults, v>>
  <2>1. BlockStep(e) BY <1>1, <1>2, <1>4 DEF BlockStep, Touches
  <2>2. ~Formatting' /\ pc' = "done" BY <1>4, SMTT(30) DEF Formatting, Exit, UbiPc
  <2> QED BY <1>1, <2>1, <2>2, BlockStepKeeps DEF UbiPc
<1>5. CASE WritePebFails("flash_image") BY <1>1, <1>5, WriteFailsKeeps
<1>6. CASE /\ flash' = WritePeb(WriteEcHdr(flash, v.eb, NewEc(v.eb), job.offs), v.eb, v.img[v.read])
           /\ v' = [v EXCEPT !.eb = v.eb + 1, !.written = v.written + 1]
           /\ pc' \in {"format", "flash_image"} /\ bad' = bad
  <2>1. IsErased(e) BY <1>1, <1>2, <1>3 DEF UbiPlace
  <2>2. Touches(e) /\ flash'[e * Pages][1] = EcUnit(NewEc(e)) /\ flash'[e * Pages][2] = 500 + job.offs
    BY <1>2, <1>3, <1>6, <2>1, WriteTouches, SMTT(30)
  <2>3. /\ DOMAIN v' = DOMAIN v /\ v'.eb = v.eb + 1 /\ v'.si = v.si
        /\ v'.ec = v.ec /\ v'.mean = v.mean /\ v'.offs = v.offs /\ v'.img = v.img
        /\ v'.written = v.written + 1 /\ v'.eb1 = v.eb1 /\ v'.eb2 = v.eb2 /\ v'.tortured = v.tortured
    BY <1>2, <1>6 DEF UbiFields, UbiState
  <2> QED BY <1>1, <1>3, <1>6, <2>2, <2>3, WrittenKeeps, SMTT(30)
<1> QED BY <1>4, <1>5, <1>6 DEF FlashWrite

(* format() takes the next block and erases it, or comes to the end.         *)
LEMMA FormatKeeps ==
  ASSUME UbiInv, job.tool = "ubi", Format
  PROVE  UbiInv'
<1>1. pc = "format" /\ job' = job BY DEF Format
<1>2. UbiState /\ UbiEcs /\ UbiPlace /\ UbiWritten /\ DOMAIN flash = 0..Size - 1
  BY <1>1 DEF UbiInv, Formatting, UbiPc
<1>3. v.eb \in Nat /\ EbCnt \in Nat \ {0} BY <1>2, MtdAssumption DEF UbiState
<1>4. CASE v.eb >= EbCnt /\ UNCHANGED <<flash, bad, faults, v>> /\
             \/ job.image /\ Exit(0)
             \/ Exit(1)
             \/ ~job.image /\ ~ForVtbl /\ pc' = "layout_vol"
  <2>1. 0 \in Ebs BY <1>3, SMTT(30) DEF Ebs
  <2>2. BlockStep(0) BY <1>1, <1>2, <1>4, <2>1 DEF BlockStep, Touches
  <2>3. VarStep(0) BY <1>2, <1>4, <2>1 DEF VarStep, UbiState, UbiEcs
  <2>4. UbiState' BY <1>1, <1>2, <1>4 DEF UbiState
  <2>5. UbiWritten'
    <3>1. VtblLeft' = VtblLeft BY <1>4 DEF VtblLeft
    <3>2. \A b \in Ebs : Through(b)' <=> Through(b)
      BY <1>1, <1>4, <3>1, SMTT(30) DEF Through, IsErased, HasNewEc, NewEc
    <3> QED BY <1>2, <1>4, <3>2 DEF UbiWritten
  <2>6. Formatting' => UbiPlace' BY <1>1, <1>2, <1>4 DEF UbiPlace, Exit, Formatting, UbiPc, ForVtbl
  <2>7. pc' \notin {"ubinize", "ubiformat"} BY <1>4 DEF Exit
  <2> QED BY <1>1, <2>2, <2>3, <2>4, <2>5, <2>6, <2>7, BlockStepKeeps DEF UbiPc
<1>5. CASE v.eb < EbCnt /\ v.si.ec[v.eb] = EB_BAD /\ NextPeb("format") /\ UNCHANGED <<flash, bad, faults, code>>
  <2>1. v.eb \in Ebs /\ v.eb \in bad BY <1>2, <1>3, <1>5, MtdAssumption, SMTT(30) DEF UbiEcs, Ebs
  <2> QED BY <1>1, <1>3, <1>5, <2>1, SkipKeeps
<1>6. CASE v.eb < EbCnt /\ \E r \in Erase(flash, v.eb) :
             /\ flash' = r.f
             /\ \/ r.ok /\ bad' = bad /\ ~ForVtbl /\ pc' = "format_write" /\ v' = v
                \/ /\ r.ok /\ bad' = bad /\ ForVtbl /\ pc' = "format"
                   /\ v' = [v EXCEPT !.eb = v.eb + 1, !.eb1 = IF v.eb1 = -1 THEN v.eb ELSE v.eb1,
                                     !.eb2 = IF v.eb1 = -1 THEN -1 ELSE v.eb]
                \/ ~r.ok /\ MarkBad("format")
  <2>1. PICK e \in Ebs : e = v.eb BY <1>3, <1>6, MtdAssumption, SMTT(30) DEF Ebs
  <2>2. PICK r \in Erase(flash, e) :
          /\ flash' = r.f
          /\ \/ r.ok /\ bad' = bad /\ pc' = "format_write" /\ v' = v
             \/ /\ r.ok /\ bad' = bad /\ ForVtbl /\ pc' = "format"
                /\ v' = [v EXCEPT !.eb = v.eb + 1, !.eb1 = IF v.eb1 = -1 THEN v.eb ELSE v.eb1,
                                  !.eb2 = IF v.eb1 = -1 THEN -1 ELSE v.eb]
             \/ ~r.ok /\ MarkBad("format")
    BY <1>6, <2>1
  <2>3. Touches(e) /\ (r.ok => flash'[e * Pages] = Blank /\ e \notin bad) BY <1>2, <2>2, EraseTouches
  <2>4. CASE ~r.ok
    <3>1. MarkBad("format") BY <2>2, <2>4
    <3> QED BY <1>1, <1>6, <2>1, <2>3, <3>1, BadBlock DEF UbiPc
  <2>5. CASE r.ok /\ bad' = bad /\ pc' = "format_write" /\ v' = v
    BY <1>1, <1>6, <2>1, <2>3, <2>5, ErasedKeeps
  <2>6. CASE /\ r.ok /\ bad' = bad /\ ForVtbl /\ pc' = "format"
             /\ v' = [v EXCEPT !.eb = v.eb + 1, !.eb1 = IF v.eb1 = -1 THEN v.eb ELSE v.eb1,
                               !.eb2 = IF v.eb1 = -1 THEN -1 ELSE v.eb]
    BY <1>1, <1>6, <2>1, <2>3, <2>6, VtblKeeps
  <2> QED BY <2>2, <2>4, <2>5, <2>6
<1> QED BY <1>1, <1>4, <1>5, <1>6 DEF Format, ErasePeb

(* format() writes an EC header.                                             *)
LEMMA FormatWriteKeeps ==
  ASSUME UbiInv, job.tool = "ubi", FormatWrite
  PROVE  UbiInv'
<1>1. pc = "format_write" /\ job' = job BY DEF FormatWrite
<1>2. UbiState /\ UbiEcs /\ UbiPlace /\ DOMAIN flash = 0..Size - 1 BY <1>1 DEF UbiInv, Formatting, UbiPc
<1>3. PICK e \in Ebs : e = v.eb BY <1>1, <1>2, MtdAssumption, SMTT(30) DEF UbiState, UbiPlace, Ebs
<1>4. CASE WritePebFails("format") BY <1>1, <1>4, WriteFailsKeeps
<1>5. CASE /\ flash' = WriteEcHdr(flash, v.eb, NewEc(v.eb), v.offs)
           /\ v' = [v EXCEPT !.eb = v.eb + 1] /\ pc' = "format" /\ bad' = bad
  <2>1. IsErased(e) BY <1>1, <1>2, <1>3 DEF UbiPlace
  <2>2. Touches(e) /\ flash'[e * Pages][1] = EcUnit(NewEc(e)) /\ flash'[e * Pages][2] = 500 + v.offs
    BY <1>2, <1>3, <1>5, <2>1, WriteTouches
  <2>3. /\ DOMAIN v' = DOMAIN v /\ v'.eb = v.eb + 1 /\ v'.si = v.si
        /\ v'.ec = v.ec /\ v'.mean = v.mean /\ v'.offs = v.offs /\ v'.img = v.img
        /\ v'.written = v.written /\ v'.eb1 = v.eb1 /\ v'.eb2 = v.eb2 /\ v'.tortured = v.tortured
    BY <1>2, <1>5 DEF UbiFields, UbiState
  <2> QED BY <1>1, <1>3, <1>5, <2>2, <2>3, WrittenKeeps, SMTT(30)
<1> QED BY <1>4, <1>5 DEF FormatWrite, NextPeb

(* The layout volume.                                                        *)
LEMMA LayoutKeeps ==
  ASSUME UbiInv, job.tool = "ubi", LayoutVolume
  PROVE  UbiInv'
<1>1. pc = "layout_vol" /\ job' = job /\ bad' = bad BY DEF LayoutVolume
<1>2. UbiState /\ UbiEcs /\ UbiPlace /\ UbiWritten /\ DOMAIN flash = 0..Size - 1
  BY <1>1 DEF UbiInv, Formatting, UbiPc
<1>3. /\ ~job.image /\ v.written \in {0, 1} /\ v.eb1 \in Ebs /\ v.eb2 \in Ebs /\ v.eb1 # v.eb2
      /\ v.eb2 # -1 /\ v.eb >= EbCnt /\ v.eb \in Nat /\ EbCnt \in Nat
  BY <1>1, <1>2, MtdAssumption DEF UbiPlace, UbiState
<1>4. PICK e \in Ebs : e = IF v.written = 0 THEN v.eb1 ELSE v.eb2 BY <1>3
<1>5. CASE flash' = Put(flash, PagesOf(e), <<Junk, Junk, FF>>) /\ Exit(1)
  <2>1. e * Pages \in 0..Size - 1 /\ e * Pages \in PagesOf(e) BY FirstPage
  <2>2. \A c \in Ebs \ {e} : c * Pages \in 0..Size - 1 /\ c * Pages \notin PagesOf(e) BY FirstPage
  <2>3. BlockStep(e) BY <1>1, <1>2, <1>5, <2>1, <2>2 DEF BlockStep, Touches, Put
  <2>4. ~Formatting' /\ pc' = "done" BY <1>5, SMTT(30) DEF Formatting, Exit, UbiPc
  <2> QED BY <1>1, <2>3, <2>4, BlockStepKeeps DEF UbiPc
<1>6. CASE /\ flash' = WritePeb(WriteEcHdr(flash, e, NewEc(e), v.offs), e, LayoutPeb(<<>>, v.written + 1))
           /\ v' = [v EXCEPT !.written = v.written + 1]
           /\ (IF v.written = 1 THEN Exit(0) ELSE UNCHANGED <<pc, code>>)
  <2>1. /\ DOMAIN v' = DOMAIN v /\ v'.eb = v.eb /\ v'.si = v.si
        /\ v'.ec = v.ec /\ v'.mean = v.mean /\ v'.offs = v.offs /\ v'.img = v.img
        /\ v'.written = v.written + 1 /\ v'.eb1 = v.eb1 /\ v'.eb2 = v.eb2 /\ v'.tortured = v.tortured
    BY <1>2, <1>6 DEF UbiFields, UbiState
  <2>2. \A b \in Ebs : b < v.eb /\ Through(b) BY <1>2, <1>3, SMTT(30) DEF UbiWritten, Ebs
  <2>3. e \in VtblLeft /\ VtblLeft' = VtblLeft \ {e} BY <1>3, <1>4, <2>1, SMTT(30) DEF VtblLeft
  <2>4. IsErased(e) /\ e \notin v.tortured \ bad
    BY <2>2, <2>3, SMTT(30) DEF Through, IsErased, FF, Junk
  <2>5. Touches(e) /\ flash'[e * Pages][1] = EcUnit(NewEc(e)) /\ flash'[e * Pages][2] = 500 + v.offs
    BY <1>2, <1>6, <2>4, WriteTouches, SMTT(30)
  <2>6. BlockStep(e) BY <1>1, <2>5 DEF BlockStep
  <2>7. VarStep(e) BY <1>1, <1>2, <2>1 DEF VarStep, UbiState, UbiEcs
  <2>8. v'.written \in Nat BY <1>3, <2>1, SMTT(30)
  <2>9. UbiState' BY <1>1, <1>2, <2>1, <2>7, <2>8, StateStep
  <2>10. UbiPlace'
    <3>1. CASE v.written = 0
      <4>1. pc' = "layout_vol" /\ v'.written = 1 BY <1>1, <1>6, <2>1, <3>1, SMTT(30)
      <4> QED BY <1>1, <1>3, <2>1, <3>1, <4>1 DEF UbiPlace
    <3>2. CASE v.written = 1
      <4>1. pc' = "done" /\ v'.written = 2 BY <1>6, <2>1, <3>2, SMTT(30) DEF Exit
      <4> QED BY <1>1, <1>3, <2>1, <3>2, <4>1 DEF UbiPlace
    <3> QED BY <1>3, <3>1, <3>2
  <2>11. ASSUME NEW b \in Ebs PROVE Through(b)'
    <3>1. CASE b = e
      <4>1. NewEc(e)' = NewEc(e) BY <2>1 DEF NewEc
      <4>2. HasNewEc(e)' BY <2>1, <2>5, <4>1 DEF HasNewEc
      <4> QED BY <1>1, <2>1, <2>3, <2>4, <3>1, <4>2 DEF Through
    <3>2. CASE b # e
      <4>1. b \in VtblLeft' <=> b \in VtblLeft BY <2>3, <3>2
      <4> QED BY <1>2, <2>2, <2>6, <2>7, <3>2, <4>1, ThroughStays
    <3> QED BY <3>1, <3>2
  <2>12. UbiWritten' BY <2>11 DEF UbiWritten
  <2>13. pc' \notin {"ubinize", "ubiformat"} BY <1>1, <1>6 DEF Exit
  <2> QED BY <1>1, <2>6, <2>7, <2>9, <2>10, <2>12, <2>13, BlockStepKeeps DEF UbiPc
<1> QED BY <1>4, <1>5, <1>6 DEF LayoutVolume

(* ubinize ends, or leaves the device to ubiformat.                          *)
LEMMA UbinizeKeeps ==
  ASSUME UbiInv, job.tool = "ubi", Ubinize
  PROVE  UbiInv'
<1>1. /\ pc = "ubinize" /\ job' = job /\ bad' = bad /\ flash' = flash
      /\ (pc' = "done" /\ code' = 1) \/ pc' = "ubiformat"
  BY DEF Ubinize, Exit
<1>2. ~Formatting' /\ ~Formatting BY <1>1, SMTT(30) DEF Formatting, UbiPc
<1>3. AllKnown' <=> AllKnown BY <1>1, SMTT(30) DEF AllKnown
<1>4. AllKnown => UbiNear' BY <1>1, <1>2 DEF UbiInv, UbiNear
<1> QED BY <1>1, <1>2, <1>3, <1>4 DEF UbiInv

-----------------------------------------------------------------------------
(* Good blocks with an EC header and its right CRC.                          *)
ValidEbs == {b \in Ebs \ bad : IsEcUnit(flash[b * Pages][1]) /\ flash[b * Pages][1] # BadCrc}

(* The result of ubi_scan(): its types, bad blocks are told from the others, *)
(* counters are in range unless it fails, and valid headers that agree are   *)
(* all accepted.                                                             *)
LEMMA ScanIs ==
  ASSUME bad \subseteq Ebs, \A b \in ValidEbs : flash[b * Pages][1] \in Int /\ flash[b * Pages][2] \in Int
  PROVE  /\ "ec" \in DOMAIN Scan /\ Scan.ec \in [Ebs -> Int] /\ Scan.offs \in Int
         /\ \A b \in Ebs : b \in bad <=> Scan.ec[b] = EB_BAD
         /\ Scan.error <=> \E b \in ValidEbs : flash[b * Pages][1] > EcUnit(EC_MAX)
         /\ ~Scan.error => \A b \in Ebs : Scan.ec[b] <= EC_MAX
         /\ \A o \in Int : (o % 2 = 0 /\ \A b \in ValidEbs : flash[b * Pages][2] = 500 + o)
                             => \A b \in ValidEbs : Scan.ec[b] = flash[b * Pages][1] - 1000
<1> DEFINE hdr(b) == flash[b * Pages]
           first == Min(ValidEbs)
           offs == IF ValidEbs = {} THEN -1 ELSE Offs(hdr(first)[2])
           ec(b) == IF b \in bad THEN EB_BAD
                    ELSE IF ~IsEcUnit(hdr(b)[1]) THEN IF hdr(b) = Blank THEN EB_EMPTY ELSE EB_ALIEN
                    ELSE IF b \notin ValidEbs \/ Offs(hdr(b)[2]) # offs \/ (b = first /\ offs % 2 # 0) THEN EB_CORRUPTED
                    ELSE hdr(b)[1] - 1000
<1>1. Scan = [ec |-> [b \in Ebs |-> ec(b)], offs |-> offs, error |-> \E b \in ValidEbs : hdr(b)[1] > EcUnit(EC_MAX)]
  <2> DEFINE f == [b \in Ebs |-> hdr(b)]
             valid == {b \in Ebs \ bad : IsEcUnit(f[b][1]) /\ f[b][1] # BadCrc}
             one == Min(valid)
             offset == IF valid = {} THEN -1 ELSE Offs(f[one][2])
             cat(b) == IF b \in bad THEN EB_BAD
                       ELSE IF ~IsEcUnit(f[b][1]) THEN IF f[b] = Blank THEN EB_EMPTY ELSE EB_ALIEN
                       ELSE IF b \notin valid \/ Offs(f[b][2]) # offset \/ (b = one /\ offset % 2 # 0)
                       THEN EB_CORRUPTED ELSE f[b][1] - 1000
  <2>1. Scan = [ec |-> [b \in Ebs |-> cat(b)], offs |-> offset, error |-> \E b \in valid : f[b][1] > EcUnit(EC_MAX)]
    BY DEF Scan, Scanned, Ebs
  <2>2. \A b \in Ebs : f[b] = hdr(b) OBVIOUS
  <2>3. valid = ValidEbs BY <2>2 DEF ValidEbs
  <2>4. ValidEbs # {} => first \in Ebs
    <3>1. ValidEbs \subseteq Ebs /\ ValidEbs \subseteq Nat BY SMTT(30) DEF ValidEbs, Ebs
    <3> QED BY <3>1, MinIs
  <2>5. offset = offs BY <2>2, <2>3, <2>4
  <2>6. one = first BY <2>3
  <2>7. \A b \in Ebs : cat(b) = ec(b)
    <3> HIDE DEF f, valid, hdr, offset, offs, one, first
    <3> QED BY <2>2, <2>3, <2>5, <2>6, SMTT(30)
  <2>8. (\E b \in valid : f[b][1] > EcUnit(EC_MAX)) = (\E b \in ValidEbs : hdr(b)[1] > EcUnit(EC_MAX))
    <3>1. \A b \in ValidEbs : f[b] = hdr(b) BY <2>2 DEF ValidEbs
    <3> HIDE DEF f, valid, hdr
    <3> QED BY <2>3, <3>1
  <2> HIDE DEF f, valid, hdr, offset, offs, one, first, ec, cat
  <2>9. [b \in Ebs |-> cat(b)] = [b \in Ebs |-> ec(b)] BY <2>7
  <2> QED BY <2>1, <2>5, <2>8, <2>9
<1>2. ValidEbs \subseteq Ebs \ bad /\ ValidEbs \subseteq Nat BY SMTT(30) DEF ValidEbs, Ebs
<1>3. ValidEbs # {} => first \in ValidEbs BY <1>2, MinIs
<1>4. \A b \in ValidEbs : hdr(b)[1] \in Int /\ hdr(b)[1] >= 1000 /\ Offs(hdr(b)[2]) \in Int
  <2>1. ASSUME NEW b \in ValidEbs PROVE hdr(b)[1] \in Int /\ hdr(b)[1] >= 1000 /\ Offs(hdr(b)[2]) \in Int
    <3>1. hdr(b)[1] \in Int /\ hdr(b)[2] \in Int BY <1>2
    <3>2. hdr(b)[1] >= 999 /\ hdr(b)[1] # 999 BY SMTT(30) DEF ValidEbs, IsEcUnit, BadCrc
    <3> HIDE DEF hdr
    <3> QED BY <3>1, <3>2, SMTT(30) DEF Offs
  <2> QED BY <2>1
<1>5. offs \in Int BY <1>3, <1>4, SMTT(30)
<1> HIDE DEF first, offs, hdr
<1>6. \A b \in Ebs : \/ b \in bad /\ ec(b) = EB_BAD
                     \/ b \notin bad /\ ec(b) \in {EB_EMPTY, EB_ALIEN, EB_CORRUPTED}
                     \/ b \in ValidEbs /\ ec(b) = hdr(b)[1] - 1000
  BY SMTT(30)
<1>7. ASSUME NEW o \in Int, o % 2 = 0, \A b \in ValidEbs : hdr(b)[2] = 500 + o, NEW b \in ValidEbs
      PROVE ec(b) = hdr(b)[1] - 1000
  <2>1. \A c \in ValidEbs : Offs(hdr(c)[2]) = o BY <1>7, SMTT(30) DEF Offs
  <2>2. offs = o BY <1>3, <2>1 DEF offs
  <2>3. b \notin bad /\ IsEcUnit(hdr(b)[1]) BY DEF ValidEbs, hdr
  <2> QED BY <1>7, <2>1, <2>2, <2>3, SMTT(30)
<1> HIDE DEF ec
<1>8. /\ "ec" \in DOMAIN Scan /\ Scan.ec = [b \in Ebs |-> ec(b)] /\ Scan.offs = offs
      /\ Scan.error = (\E b \in ValidEbs : hdr(b)[1] > EcUnit(EC_MAX))
  BY <1>1
<1>9. \A b \in Ebs : ec(b) \in Int /\ (b \in bad <=> ec(b) = EB_BAD)
  <2>1. \A b \in ValidEbs : b \notin bad /\ hdr(b)[1] - 1000 \in Nat BY <1>2, <1>4, SMTT(30)
  <2>2. EB_BAD \in Int /\ EB_BAD \notin Nat /\ \A x \in {EB_EMPTY, EB_ALIEN, EB_CORRUPTED} : x \in Int /\ x # EB_BAD
    BY SMTT(30) DEF EB_BAD, EB_EMPTY, EB_ALIEN, EB_CORRUPTED
  <2>3. ASSUME NEW b \in Ebs PROVE ec(b) \in Int /\ (b \in bad <=> ec(b) = EB_BAD)
    <3>1. CASE b \in bad /\ ec(b) = EB_BAD BY <2>2, <3>1
    <3>2. CASE b \notin bad /\ ec(b) \in {EB_EMPTY, EB_ALIEN, EB_CORRUPTED} BY <2>2, <3>2
    <3>3. CASE b \in ValidEbs /\ ec(b) = hdr(b)[1] - 1000
      <4>1. ec(b) \in Nat /\ b \notin bad BY <2>1, <3>3, SMTT(30)
      <4> QED BY <2>2, <4>1, SMTT(30)
    <3> QED BY <1>6, <3>1, <3>2, <3>3, SMTT(30)
  <2> QED BY <2>3
<1>10. ASSUME ~Scan.error, NEW b \in Ebs PROVE ec(b) <= EC_MAX
  <2>1. \A c \in ValidEbs : ~(hdr(c)[1] > EcUnit(EC_MAX)) BY <1>8, <1>10
  <2> QED BY <2>1, <1>4, <1>6, SMTT(30) DEF EB_BAD, EB_EMPTY, EB_ALIEN, EB_CORRUPTED, EC_MAX, EcUnit
<1>11. ValidEbs \subseteq Ebs BY <1>2
<1>12. \A o \in Int : (o % 2 = 0 /\ \A b \in ValidEbs : flash[b * Pages][2] = 500 + o)
                             => \A b \in ValidEbs : Scan.ec[b] = flash[b * Pages][1] - 1000
  BY <1>7, <1>8, <1>11, SMTT(30) DEF hdr
<1>13. Scan.ec \in [Ebs -> Int] /\ \A b \in Ebs : Scan.ec[b] = ec(b) BY <1>8, <1>9
<1>14. ~Scan.error => \A b \in Ebs : Scan.ec[b] <= EC_MAX BY <1>10, <1>13
<1>15. \A b \in Ebs : b \in bad <=> Scan.ec[b] = EB_BAD BY <1>9, <1>13
<1>16. Scan.error <=> \E b \in ValidEbs : flash[b * Pages][1] > EcUnit(EC_MAX) BY <1>8 DEF hdr
<1> QED BY <1>5, <1>8, <1>12, <1>13, <1>14, <1>15, <1>16

(* A device has finitely many eraseblocks.                                   *)
LEMMA EbsFinite == IsFiniteSet(Ebs)
<1>1. PICK n \in Int : n = EbCnt - 1 BY MtdAssumption, SMTT(30)
<1>2. IsFiniteSet(0..n) BY FS_Interval, SMTT(30)
<1> QED BY <1>1, <1>2 DEF Ebs

(* The mean is a counter, and so is what main() decides on.                  *)
LEMMA MeanIs ==
  ASSUME NEW si, si.ec \in [Ebs -> Int], \A b \in Ebs : si.ec[b] <= EC_MAX
  PROVE  MeanEc(si) \in 0..EC_MAX
<1> DEFINE S == {b \in Ebs : si.ec[b] >= 0}
<1>1. OkPebs(si) = S BY DEF OkPebs, Ebs
<1>2. IsFiniteSet(Ebs) BY EbsFinite
<1>3. IsFiniteSet(S) BY <1>2, FS_Subset
<1>4. EC_MAX \in Nat BY DEF EC_MAX
<1>5. \A b \in S : si.ec[b] \in 0..EC_MAX BY <1>4, SMTT(30)
<1> HIDE DEF S
<1>6. CASE S = {} BY <1>1, <1>4, <1>6, SMTT(30) DEF MeanEc
<1>7. CASE S # {}
  <2>1. Cardinality(S) \in Nat \ {0} BY <1>3, <1>7, FS_CardinalityType, FS_EmptySet
  <2>2. PICK sum \in Nat : sum = SumFunctionOnSet(si.ec, S) /\ sum <= EC_MAX * Cardinality(S)
    BY <1>3, <1>4, <1>5, SumBound
  <2>3. sum \div Cardinality(S) \in 0..EC_MAX BY <1>4, <2>1, <2>2, DivBound
  <2> QED BY <1>1, <1>7, <2>2, <2>3 DEF MeanEc
<1> QED BY <1>6, <1>7

(* If all good blocks have a counter, main() overrides none.                 *)
LEMMA NoOverride ==
  ASSUME job.ec = -1, NEW si, si.ec \in [Ebs -> Int], OkPebs(si) = Good(si), Cardinality(Good(si)) >= 2
  PROVE  OverrideEc(si) = -1
<1> DEFINE n == Cardinality(Good(si))
<1>1. IsFiniteSet(Ebs) BY EbsFinite
<1>2. IsFiniteSet(Good(si)) BY <1>1, FS_Subset DEF Good, Ebs
<1>3. n \in Nat \ {0} BY <1>2, FS_CardinalityType, SMTT(30)
<1> HIDE DEF n
<1>4. (100 * n) \div n = 100 BY <1>3, DivIs, SMTT(30)
<1> QED BY <1>4, SMTT(30) DEF OverrideEc, n

(* ubiformat ends, or begins to write with what it has found.                *)
LEMMA UbiformatKeeps ==
  ASSUME UbiInv, job.tool = "ubi", Ubiformat
  PROVE  UbiInv'
<1>1. pc = "ubiformat" /\ job' = job /\ bad' = bad /\ flash' = flash BY DEF Ubiformat
<1>2. /\ job \in Jobs /\ bad = job.bad /\ bad \subseteq Ebs /\ DOMAIN flash = 0..Size - 1
      /\ \A b \in Ebs : flash[b * Pages] = job.hdrs[b + 1]
      /\ ~Formatting
  BY <1>1 DEF UbiInv, Formatting, UbiPc
<1>3. /\ job.image \in BOOLEAN /\ job.ec \in -1..EC_MAX - 1 /\ job.offs \in Nat /\ job.offs % 2 = 0
      /\ \A b \in Ebs : flash[b * Pages] \in [1..3 -> Int]
  BY <1>2, UbiAssumption DEF Ebs
<1>4. \A b \in ValidEbs : flash[b * Pages][1] \in Int /\ flash[b * Pages][2] \in Int BY <1>3, SMTT(30) DEF ValidEbs
<1>5. AllKnown' <=> AllKnown BY <1>1, SMTT(30) DEF AllKnown
<1>6. AllKnown => \A b \in Ebs \ bad : flash[b * Pages][1] \in {job.hdrs[b + 1][1], job.hdrs[b + 1][1] + 1, FF, Junk}
  BY <1>2
<1>7. CASE pc' = "done" /\ code' = 1
  <2>1. ~Formatting' BY <1>7, SMTT(30) DEF Formatting, UbiPc
  <2>2. AllKnown => UbiNear' BY <1>1, <1>6, <2>1 DEF UbiNear
  <2> QED BY <1>1, <1>2, <1>5, <1>7, <2>1, <2>2 DEF UbiInv
<1>8. CASE ~(pc' = "done" /\ code' = 1)
  <2>1. PICK si : si = Scan OBVIOUS
  <2>2. PICK offs \in Offsets(si), img \in {v'.img} :
          /\ v' = [img |-> img, si |-> si, ec |-> OverrideEc(si),
                   mean |-> MeanEc(si), offs |-> offs, eb |-> 0, read |-> 0, skip |-> FALSE,
                   written |-> 0, eb1 |-> -1, eb2 |-> -1, prev_bb |-> -1, consecutive |-> 1, tortured |-> {}]
          /\ pc' = IF job.image THEN "flash_image" ELSE "format"
          /\ ~si.error /\ Cardinality(Good(si)) >= 2
    BY <1>8, <2>1, SMTT(30) DEF Ubiformat, Exit
  <2>3. /\ v'.si = si /\ v'.ec = OverrideEc(si) /\ v'.mean = MeanEc(si) /\ v'.offs = offs /\ v'.eb = 0
        /\ v'.written = 0 /\ v'.eb1 = -1 /\ v'.eb2 = -1 /\ v'.tortured = {} /\ UbiFields \subseteq DOMAIN v'
    BY <2>2 DEF UbiFields
  <2>4. /\ "ec" \in DOMAIN si /\ si.ec \in [Ebs -> Int] /\ si.offs \in Int
        /\ \A b \in Ebs : b \in bad <=> si.ec[b] = EB_BAD
        /\ \A b \in Ebs : si.ec[b] <= EC_MAX
    BY <1>2, <1>4, <2>1, <2>2, ScanIs, SMTT(30)
  <2>14. si = Found
    <3>1. [b \in Ebs |-> flash[b * Pages]] = [b \in Ebs |-> job.hdrs[b + 1]] BY <1>2
    <3> QED BY <1>2, <2>1, <3>1 DEF Scan, Found, Ebs
  <2>5. MeanEc(si) \in 0..EC_MAX BY <2>4, MeanIs
  <2>6. OverrideEc(si) \in Int /\ OverrideEc(si) <= EC_MAX
    <3>1. OverrideEc(si) \in {job.ec, -1, 0, MeanEc(si)} BY DEF OverrideEc
    <3> QED BY <3>1, <2>5, <1>3, SMTT(30) DEF EC_MAX
  <2>7. offs \in Int /\ offs % 2 = 0
    <3>1. \A x \in Int : x \div 2 \in Int /\ (2 * (x \div 2)) % 2 = 0 BY SMTT(30)
    <3>2. offs = job.offs \/ offs = 2 * (si.offs \div 2) BY <2>2 DEF Offsets, VidOffs
    <3> QED BY <3>1, <3>2, <2>4, <1>3, SMTT(30)
  <2>8. UbiState' BY <2>3, <2>4, <2>5, <2>6, <2>7, <1>1, SMTT(30) DEF UbiState, EC_MAX
  <2>9. UbiEcs' BY <2>2, <2>3, <2>4, <2>5, <2>6, <2>7, <2>14, <1>1, FoundStays DEF UbiEcs
  <2>10. UbiPlace' BY <1>1, <1>3, <2>2, <2>3 DEF UbiPlace
  <2>11. UbiWritten' BY <2>3, SMTT(30) DEF UbiWritten, Ebs
  <2>12. ASSUME AllKnown PROVE UbiNear'
    <3>1. \A b \in Ebs \ bad : flash[b * Pages][1] \in 1000..1000 + EC_MAX /\ flash[b * Pages][2] = 500 + job.offs
      BY <1>2, <2>12, SMTT(30) DEF AllKnown
    <3>2. ValidEbs = Ebs \ bad BY <3>1, SMTT(30) DEF ValidEbs, IsEcUnit, BadCrc, EC_MAX
    <3>3. \A b \in Ebs \ bad : si.ec[b] = flash[b * Pages][1] - 1000
      <4>1. job.offs \in Int /\ \A b \in ValidEbs : flash[b * Pages][2] = 500 + job.offs BY <1>3, <3>1, <3>2, SMTT(30)
      <4>2. \A o \in Int : (o % 2 = 0 /\ \A b \in ValidEbs : flash[b * Pages][2] = 500 + o)
                             => \A b \in ValidEbs : si.ec[b] = flash[b * Pages][1] - 1000
        BY <1>2, <1>4, <2>1, ScanIs, SMTT(30)
      <4> QED BY <1>3, <3>2, <4>1, <4>2
    <3>4. OkPebs(si) = Good(si)
      <4>1. \A b \in Ebs : si.ec[b] >= 0 <=> b \notin bad BY <2>4, <3>1, <3>3, SMTT(30) DEF EB_BAD, EC_MAX
      <4> QED BY <2>4, <4>1 DEF OkPebs, Good, With, Ebs
    <3>5. v'.ec = -1 BY <2>2, <2>3, <2>4, <2>12, <3>4, NoOverride DEF AllKnown
    <3> QED BY <1>1, <1>2, <1>6, <2>3, <2>12, <3>3, <3>5, SMTT(30) DEF UbiNear
  <2>13. pc' \in {"flash_image", "format"} BY <2>2
  <2> QED BY <1>1, <1>2, <1>5, <2>8, <2>9, <2>10, <2>11, <2>12, <2>13 DEF UbiInv
<1> QED BY <1>7, <1>8

-----------------------------------------------------------------------------
(* The invariant holds before ubinize or ubiformat is started ...            *)
LEMMA UbiStarts ==
  ASSUME job \in Jobs,
         job.tool = "ubi" => /\ pc \in {"ubinize", "ubiformat"} /\ bad = job.bad /\ DOMAIN flash = 0..Size - 1
                             /\ \A b \in Ebs : flash[b * Pages] = job.hdrs[b + 1]
  PROVE  UbiInv
<1> SUFFICES ASSUME job.tool = "ubi" PROVE UbiInv BY DEF UbiInv
<1>1. ~Formatting BY DEF Formatting, UbiPc
<1>2. bad \subseteq Ebs BY JobsAssumption DEF Ebs
<1>3. AllKnown => UbiNear BY <1>1 DEF UbiNear
<1> QED BY <1>1, <1>2, <1>3 DEF UbiInv

(* ... and every step keeps it.                                              *)
LEMMA UbiStep ==
  ASSUME UbiInv, job' = job, job.tool = "ubi" => UbiNext \/ UNCHANGED vars
  PROVE  UbiInv'
<1>1. CASE job.tool # "ubi" BY <1>1 DEF UbiInv
<1>2. CASE job.tool = "ubi" /\ UNCHANGED vars
  <2>1. flash' = flash /\ bad' = bad /\ pc' = pc /\ v' = v /\ code' = code BY <1>2 DEF vars
  <2>2. (Formatting' <=> Formatting) /\ (AllKnown' <=> AllKnown) BY <2>1, SMTT(30) DEF Formatting, AllKnown
  <2>3. UbiNear => UbiNear' BY <2>1, <2>2, SMTT(30) DEF UbiNear
  <2>4. (UbiState => UbiState') /\ (UbiEcs => UbiEcs') BY <2>1, FoundStays DEF UbiState, UbiEcs
  <2>5. UbiPlace => UbiPlace' BY <2>1 DEF UbiPlace, IsErased
  <2>6. UbiWritten => UbiWritten'
    <3>1. VtblLeft' = VtblLeft BY <2>1 DEF VtblLeft
    <3> QED BY <2>1, <3>1 DEF UbiWritten, Through, IsErased, HasNewEc, NewEc
  <2> QED BY <2>1, <2>2, <2>3, <2>4, <2>5, <2>6 DEF UbiInv
<1>3. CASE job.tool = "ubi" /\ UbiNext
  BY <1>3, UbinizeKeeps, UbiformatKeeps, FlashImageKeeps, FlashWriteKeeps, FormatKeeps, FormatWriteKeeps, LayoutKeeps
     DEF UbiNext
<1> QED BY <1>1, <1>2, <1>3

(* After success every block that is neither bad nor tortured has its new EC *)
(* header.                                                                   *)
LEMMA AllWritten ==
  ASSUME UbiInv, UbiDone
  PROVE  /\ UbiState /\ UbiEcs
         /\ \A b \in Ebs : /\ b \in v.tortured \ bad => flash[b * Pages][1] = Junk
                           /\ b \notin bad \cup v.tortured => HasNewEc(b)
<1>1. UbiState /\ UbiEcs /\ UbiPlace /\ UbiWritten BY DEF UbiInv, UbiDone, Formatting
<1>2. v.eb >= EbCnt /\ v.eb \in Nat /\ EbCnt \in Nat BY <1>1, MtdAssumption DEF UbiPlace, UbiState, UbiDone
<1>3. VtblLeft = {}
  <2>1. CASE job.image BY <1>1, <2>1, SMTT(30) DEF VtblLeft, UbiState, Ebs
  <2>2. CASE ~job.image BY <1>1, <2>2, SMTT(30) DEF VtblLeft, UbiPlace, UbiDone
  <2> QED BY <2>1, <2>2
<1>4. \A b \in Ebs : b < v.eb BY <1>2, SMTT(30) DEF Ebs
<1> QED BY <1>1, <1>3, <1>4 DEF UbiWritten, Through

(* The limits that main() has for the percentage of valid counters.          *)
LEMMA PercentIs ==
  ASSUME NEW ok \in Nat, NEW good \in Nat \ {0}
  PROVE  LET percent == (100 * ok) \div good IN
         /\ percent \in Nat
         /\ percent < 50 <=> 2 * ok < good
         /\ percent >= 95 <=> 20 * ok >= 19 * good
<1>1. PICK a \in Nat : a = 100 * ok BY SMTT(30)
<1>2. PICK k \in Nat : k = a \div good BY DivMod
<1>3. k * good <= a /\ a < (k + 1) * good BY <1>2, DivIs
<1>4. PICK kg \in Nat : kg = k * good /\ kg <= a /\ a < kg + good BY <1>3, SMTT(30)
<1>5. k >= 50 => 50 * good <= kg BY <1>4, MulMono, SMTT(30)
<1>6. k <= 49 => kg <= 49 * good BY <1>4, MulMono, SMTT(30)
<1>7. k >= 95 => 95 * good <= kg BY <1>4, MulMono, SMTT(30)
<1>8. k <= 94 => kg <= 94 * good BY <1>4, MulMono, SMTT(30)
<1>9. k < 50 <=> 2 * ok < good BY <1>1, <1>4, <1>5, <1>6, SMTT(30)
<1>10. k >= 95 <=> 20 * ok >= 19 * good BY <1>1, <1>4, <1>7, <1>8, SMTT(30)
<1> QED BY <1>1, <1>2, <1>9, <1>10

(* The invariant implies what is checked of the counters.                    *)
LEMMA CountersMeet ==
  ASSUME UbiInv
  PROVE  CountersKept
<1>1. AllCountersKept
  <2>1. SUFFICES ASSUME job.tool = "ubi", AllKnown, NEW b \in Ebs \ bad
                 PROVE  LET ec == job.hdrs[b + 1][1] IN
                        /\ HasEcHdr(b) => flash[b * Pages][1] \in {ec, ec + 1}
                        /\ (UbiDone /\ b \notin v.tortured) => flash[b * Pages][1] = ec + 1
    BY DEF AllCountersKept, AllKnown, Ebs
  <2> DEFINE ec == job.hdrs[b + 1][1]
  <2>2. /\ flash[b * Pages][1] \in {ec, ec + 1, FF, Junk} /\ ec \in 1000..1000 + EC_MAX
        /\ Formatting => v.ec = -1 /\ v.si.ec[b] = ec - 1000
    BY <2>1, SMTT(30) DEF UbiInv, UbiNear, AllKnown
  <2> HIDE DEF ec
  <2>3. HasEcHdr(b) => flash[b * Pages][1] \in {ec, ec + 1} BY <2>2, SMTT(30) DEF HasEcHdr, FF, Junk, EC_MAX
  <2>4. ASSUME UbiDone, b \notin v.tortured PROVE flash[b * Pages][1] = ec + 1
    <3>1. flash[b * Pages][1] = EcUnit(NewEc(b)) BY <2>4, AllWritten DEF HasNewEc
    <3>2. v.ec = -1 /\ v.si.ec[b] = ec - 1000 BY <2>2, <2>4 DEF Formatting, UbiDone
    <3>3. NewEc(b) = ec - 1000 + 1 BY <2>2, <3>2, SMTT(30) DEF NewEc, EC_MAX
    <3> QED BY <2>2, <3>1, <3>3, SMTT(30) DEF EcUnit, EC_MAX
  <2> QED BY <2>3, <2>4 DEF ec
<1>2. CountersAnnounced
  <2> DEFINE ok == Cardinality(OkPebs(Found))
             good == Cardinality(Good(Found))
             empty == With(Found, {EB_EMPTY}) = Good(Found)
  <2>1. SUFFICES ASSUME UbiDone, NEW b \in Ebs \ (bad \cup v.tortured)
                 PROVE  LET now == CounterOf(b)
                            few == 2 * ok < good /\ ~empty
                        IN /\ job.ec >= 0 => now = job.ec
                           /\ (job.ec = -1 /\ few) => now = 0
                           /\ (job.ec = -1 /\ ~few /\ Found.ec[b] < 0) => now = MeanEc(Found)
                           /\ (job.ec = -1 /\ 20 * ok >= 19 * good /\ Found.ec[b] >= 0) => now = Found.ec[b] + 1
    BY DEF CountersAnnounced, CountedEbs, Ebs
  <2>2. /\ v.ec = OverrideEc(Found) /\ v.mean = MeanEc(Found) /\ v.ec \in Int /\ v.mean \in 0..EC_MAX
        /\ v.si.ec[b] = Found.ec[b] /\ v.si.ec[b] \in Int /\ good >= 2
        /\ flash[b * Pages][1] = EcUnit(NewEc(b))
    BY <2>1, AllWritten DEF UbiState, UbiEcs, HasNewEc
  <2>3. ok \in Nat /\ good \in Nat \ {0}
    <3>1. OkPebs(Found) \subseteq Ebs /\ Good(Found) \subseteq Ebs BY DEF OkPebs, Good, Ebs
    <3>2. ok \in Nat /\ good \in Nat BY <3>1, EbsFinite, FS_Subset, FS_CardinalityType
    <3> QED BY <2>2, <3>2, SMTT(30)
  <2>4. job.ec \in Int BY <2>1, UbiAssumption, SMTT(30) DEF UbiInv, UbiDone
  <2> DEFINE percent == (100 * ok) \div good
             new == IF v.ec >= 0 THEN v.ec ELSE IF Found.ec[b] >= 0 THEN Found.ec[b] + 1 ELSE v.mean
  <2>5. CounterOf(b) = new
    <3>1. NewEc(b) = new /\ new \in Int BY <2>2, SMTT(30) DEF NewEc, EC_MAX
    <3> HIDE DEF new
    <3> QED BY <2>2, <3>1, SMTT(30) DEF CounterOf, EcUnit
  <2>6. v.ec = IF job.ec >= 0 THEN job.ec ELSE IF empty \/ percent >= 95 THEN -1
               ELSE IF percent < 50 THEN 0 ELSE v.mean
    BY <2>2 DEF OverrideEc
  <2>7. percent \in Nat /\ (percent < 50 <=> 2 * ok < good) /\ (percent >= 95 <=> 20 * ok >= 19 * good)
    BY <2>3, PercentIs
  <2> HIDE DEF ok, good, empty, percent
  <2> QED BY <2>2, <2>3, <2>4, <2>5, <2>6, <2>7, SMTT(30) DEF EC_MAX
<1> QED BY <1>1, <1>2 DEF CountersKept

(* It also implies that ubi_scan() accepts what was formatted.               *)
LEMMA RescanMeets ==
  ASSUME UbiInv
  PROVE  Rescans
<1> SUFFICES ASSUME UbiDone, job.image => v.offs = job.offs, \A b \in Ebs : v.si.ec[b] < EC_MAX
             PROVE  ~Scan.error /\ \A b \in Ebs \ (bad \cup v.tortured) : Scan.ec[b] >= 0
  BY DEF Rescans, Ebs
<1> DEFINE good == Ebs \ (bad \cup v.tortured)
<1>1. UbiState /\ UbiEcs /\ bad \subseteq Ebs BY AllWritten DEF UbiInv, UbiDone
<1>2. ASSUME NEW b \in good
      PROVE  flash[b * Pages][1] \in 1000..1000 + EC_MAX /\ flash[b * Pages][2] = 500 + v.offs
  <2>1. flash[b * Pages][1] = 1000 + NewEc(b) /\ flash[b * Pages][2] = 500 + v.offs
    BY AllWritten, SMTT(30) DEF HasNewEc, EcUnit
  <2>2. v.ec \in Int /\ v.ec <= EC_MAX /\ v.mean \in 0..EC_MAX /\ v.si.ec[b] \in Int /\ v.si.ec[b] < EC_MAX
    BY <1>1 DEF UbiState, UbiEcs
  <2>3. NewEc(b) \in 0..EC_MAX BY <2>2, SMTT(30) DEF NewEc, EC_MAX
  <2> QED BY <2>1, <2>3, SMTT(30) DEF EC_MAX
<1>3. \A b \in Ebs \ bad : b \notin good => flash[b * Pages][1] = Junk BY AllWritten
<1>4. ValidEbs = good BY <1>2, <1>3, SMTT(30) DEF ValidEbs, IsEcUnit, BadCrc, Junk, EC_MAX
<1>5. \A b \in good : flash[b * Pages][1] \in Int /\ flash[b * Pages][2] \in Int BY <1>1, <1>2, SMTT(30) DEF UbiState, EC_MAX
<1>6. v.offs \in Int /\ v.offs % 2 = 0 /\ EcUnit(EC_MAX) = 1000 + EC_MAX BY <1>1 DEF UbiState, UbiEcs, EcUnit
<1> HIDE DEF good
<1>7. /\ Scan.error <=> \E b \in good : flash[b * Pages][1] > 1000 + EC_MAX
      /\ \A b \in good : Scan.ec[b] = flash[b * Pages][1] - 1000
  <2>1. /\ Scan.error <=> \E b \in good : flash[b * Pages][1] > 1000 + EC_MAX
        /\ \A o \in Int : (o % 2 = 0 /\ \A b \in good : flash[b * Pages][2] = 500 + o)
                             => \A b \in good : Scan.ec[b] = flash[b * Pages][1] - 1000
    BY <1>1, <1>4, <1>5, <1>6, ScanIs, SMTT(30)
  <2> QED BY <1>2, <1>6, <2>1, SMTT(30)
<1>8. ASSUME NEW b \in good PROVE Scan.ec[b] >= 0 /\ ~(flash[b * Pages][1] > 1000 + EC_MAX)
  BY <1>2, <1>7, <1>8, SMTT(30) DEF EC_MAX
<1> QED BY <1>7, <1>8 DEF good
=============================================================================
