---------------------------- MODULE BlockRewrite ----------------------------
(***************************************************************************)
(* The tools that rewrite eraseblocks in place: flashcp copies a file to   *)
(* flash, nandtest tests blocks and can restore them, nandflipbits changes *)
(* single bits.                                                            *)
(*                                                                         *)
(* A write may fail, and it may store something else without an error.     *)
(* Both are recorded in faults.                                            *)
(***************************************************************************)
EXTENDS MtdDevice

(* The options, as the tools' own parsing leaves them: files of units,       *)
(* offsets and counts that are not negative.                                 *)
ASSUME RewriteJobs ==
  \A j \in Jobs :
    /\ j.tool = "flashcp" => /\ j.file \in Seq(Int) /\ j.wr_last \in Nat
                             /\ j.partition \in BOOLEAN /\ j.erase_all \in BOOLEAN
    /\ j.tool = "nandtest" => /\ j.offset \in Nat /\ j.length \in Nat
                              /\ j.keep \in BOOLEAN /\ j.markbad \in BOOLEAN
    /\ j.tool = "nandflipbits" => j.flips \in Seq(Nat) /\ j.oob \in BOOLEAN

BlockUnits == 2 * Pages
FileLen == Len(job.file)
Blocks == (FileLen + BlockUnits - 1) \div BlockUnits

(* The cell that puts unit u of the data in its page and nothing else.       *)
At(u, val) == [i \in 1..3 |-> IF i = (u % 2) + 1 THEN val ELSE FF]

Stored(u) == flash[u \div 2][(u % 2) + 1]

(* Programming a cell: it is stored, or it is not, with or without an error. *)
Store(f, p, cell) ==
  {[f |-> Programmed(f, p, cell), ok |-> TRUE, fault |-> FALSE]} \cup
  (IF MayFail(Block(p)) THEN {[f |-> Spoilt(f, p, cell), ok |-> o, fault |-> TRUE] : o \in BOOLEAN}
   ELSE {})

Fault(is, b) == faults' = IF is THEN faults \cup {b} ELSE faults

(***************************************************************************)
(* flashcp.                                                                *)
(***************************************************************************)
Flashcp ==
  /\ pc = "flashcp"
  /\ v' = [eb |-> 0, pos |-> 0, last |-> 0]
  /\ IF FileLen > BlockUnits * EbCnt THEN Exit(1)
     ELSE pc' = (IF job.partition THEN "diff_blocks" ELSE "fcp_erase") /\ UNCHANGED code
  /\ UNCHANGED <<flash, bad, job, faults>>

WrLast == job.wr_last > 0 /\ FileLen > job.wr_last

FromZero == 0

(* Where writing begins, and how much is left for last.                      *)
FirstWritten == IF WrLast THEN job.wr_last ELSE 0

(* Enough blocks for the file, or all, are erased; then the first wr_last    *)
(* units of the file are left for last.                                      *)
FcpErase ==
  /\ pc = "fcp_erase"
  /\ IF v.eb < (IF job.erase_all THEN EbCnt ELSE Blocks)
     THEN \E r \in Erase(flash, v.eb) :
            /\ flash' = r.f /\ Fault(~r.ok, v.eb)
            /\ IF r.ok THEN v' = [v EXCEPT !.eb = @ + 1] /\ UNCHANGED <<pc, code>>
               ELSE Exit(1) /\ UNCHANGED v
     ELSE /\ IF WrLast /\ job.wr_last > BlockUnits THEN Exit(1) /\ UNCHANGED v
             ELSE /\ v' = [v EXCEPT !.pos = FirstWritten, !.last = FirstWritten]
                  /\ pc' = "fcp_write" /\ UNCHANGED code
          /\ UNCHANGED <<flash, faults>>
  /\ UNCHANGED <<bad, job>>

(* The file up to its end; then, from address 0, what was left for last.     *)
FcpWrite ==
  /\ pc \in {"fcp_write", "fcp_last"}
  /\ v.pos < (IF pc = "fcp_last" THEN v.last ELSE FileLen)
  /\ \E r \in Store(flash, v.pos \div 2, At(v.pos, job.file[v.pos + 1])) :
       /\ flash' = r.f /\ Fault(r.fault, Block(v.pos \div 2))
       /\ IF r.ok THEN v' = [v EXCEPT !.pos = @ + 1] /\ UNCHANGED <<pc, code>>
          ELSE Exit(1) /\ UNCHANGED v
  /\ UNCHANGED <<bad, job>>

FcpWriteLast ==
  /\ pc = "fcp_write" /\ v.pos >= FileLen
  /\ v' = [v EXCEPT !.pos = 0]
  /\ pc' = "fcp_last"
  /\ UNCHANGED <<flash, bad, job, code, faults>>

AllButLast(from, to) == \A u \in from..to - 2 : Stored(u) = job.file[u + 1]

Matches(from, to) == \A u \in from..to - 1 : Stored(u) = job.file[u + 1]

FcpVerify ==
  /\ pc = "fcp_last" /\ v.pos = v.last
  /\ Exit(IF Matches(0, FileLen) THEN 0 ELSE 1)
  /\ UNCHANGED <<flash, bad, job, v, faults>>

(* --partition: only the blocks that differ are erased, written, verified.   *)
BlockEnd(b) == IF (b + 1) * BlockUnits < FileLen THEN (b + 1) * BlockUnits ELSE FileLen

DiffBlock ==
  /\ pc = "diff_blocks"
  /\ IF v.eb = Blocks THEN Exit(0) /\ UNCHANGED v
     ELSE IF Matches(v.eb * BlockUnits, BlockEnd(v.eb))
     THEN v' = [v EXCEPT !.eb = @ + 1] /\ UNCHANGED <<pc, code>>
     ELSE v' = [v EXCEPT !.pos = v.eb * BlockUnits] /\ pc' = "diff_erase" /\ UNCHANGED code
  /\ UNCHANGED <<flash, bad, job, faults>>

DiffErase ==
  /\ pc = "diff_erase"
  /\ \E r \in Erase(flash, v.eb) :
       /\ flash' = r.f /\ Fault(~r.ok, v.eb)
       /\ IF r.ok THEN pc' = "diff_write" /\ UNCHANGED code ELSE Exit(1)
  /\ UNCHANGED <<bad, job, v>>

DiffWrite ==
  /\ pc = "diff_write" /\ v.pos < BlockEnd(v.eb)
  /\ \E r \in Store(flash, v.pos \div 2, At(v.pos, job.file[v.pos + 1])) :
       /\ flash' = r.f /\ Fault(r.fault, v.eb)
       /\ IF r.ok THEN v' = [v EXCEPT !.pos = @ + 1] /\ UNCHANGED <<pc, code>>
          ELSE Exit(1) /\ UNCHANGED v
  /\ UNCHANGED <<bad, job>>

DiffVerify ==
  /\ pc = "diff_write" /\ v.pos = BlockEnd(v.eb)
  /\ IF Matches(v.eb * BlockUnits, BlockEnd(v.eb))
     THEN v' = [v EXCEPT !.eb = @ + 1] /\ pc' = "diff_blocks" /\ UNCHANGED code
     ELSE Exit(1) /\ UNCHANGED v
  /\ UNCHANGED <<flash, bad, job, faults>>

FlashcpNext == Flashcp \/ FcpErase \/ FcpWrite \/ FcpWriteLast \/ FcpVerify
               \/ DiffBlock \/ DiffErase \/ DiffWrite \/ DiffVerify

(***************************************************************************)
(* nandtest.  A block is erased, written with test data and compared; with *)
(* --keep its old data is then written back in the same way.               *)
(***************************************************************************)
TestUnit == 500
Data(p) == <<flash[p][1], flash[p][2]>>

NextBlock == [v EXCEPT !.eb = @ + 1, !.restore = FALSE]

Nandtest ==
  /\ pc = "nandtest"
  /\ v' = [eb |-> job.offset, pass |-> 0, restore |-> FALSE, kbuf |-> <<>>]
  /\ IF job.offset + job.length > EbCnt THEN Exit(1)
     ELSE pc' = "test_block" /\ UNCHANGED code
  /\ UNCHANGED <<flash, bad, job, faults>>

(* The loops over passes and blocks; bad blocks are skipped.                 *)
TestBlock ==
  /\ pc = "test_block"
  /\ IF v.eb < job.offset + job.length
     THEN IF v.eb \in bad THEN v' = NextBlock /\ UNCHANGED <<pc, code>>
          ELSE /\ v' = [v EXCEPT !.kbuf = [p \in PagesOf(v.eb) |-> Data(p)]]
               /\ pc' = "test_erase" /\ UNCHANGED code
     ELSE IF v.pass + 1 < job.passes
     THEN v' = [v EXCEPT !.pass = @ + 1, !.eb = job.offset] /\ UNCHANGED <<pc, code>>
     ELSE Exit(0) /\ UNCHANGED v
  /\ UNCHANGED <<flash, bad, job, faults>>

(* erase_and_write() failed: the block may be marked bad, and the loop goes  *)
(* on with the next one; also when the old data was not restored.            *)
TestFails ==
  /\ faults' = faults \cup {v.eb}
  /\ bad' \in {bad, IF job.markbad THEN bad \cup {v.eb} ELSE bad}
  /\ v' = NextBlock
  /\ pc' = "test_block"
  /\ UNCHANGED code

TestErase ==
  /\ pc = "test_erase"
  /\ \E r \in Erase(flash, v.eb) :
       /\ flash' = r.f
       /\ IF r.ok THEN pc' = "test_write" /\ UNCHANGED <<bad, v, code, faults>> ELSE TestFails
  /\ UNCHANGED job

Wanted(p) == IF v.restore THEN v.kbuf[p] ELSE <<TestUnit, TestUnit>>

Full(f) ==
  [p \in DOMAIN f |-> IF p \in PagesOf(v.eb) THEN <<Wanted(p)[1], Wanted(p)[2], FF>> ELSE f[p]]

(* The write ends well or not, or with a short count, which is fatal.        *)
TestWrite ==
  /\ pc = "test_write"
  /\ \/ /\ \/ flash' = Full(flash)
           \/ MayFail(v.eb) /\ flash' = Spoilt(Full(flash), v.eb * Pages, <<Junk, Junk, FF>>)
        /\ pc' = "test_check" /\ UNCHANGED <<bad, v, code, faults>>
     \/ \E p \in PagesOf(v.eb) :
          /\ MayFail(v.eb)
          /\ flash' = Spoilt(flash, p, <<Junk, Junk, FF>>)
          /\ \/ TestFails
             \/ Exit(1) /\ faults' = faults \cup {v.eb} /\ UNCHANGED <<bad, v>>
  /\ UNCHANGED job

NoRestore == "test_block"

AfterCheck == IF job.keep /\ ~v.restore THEN "test_erase" ELSE "test_block"

(* The data is read back and compared, nr_reads times; a mismatch does not   *)
(* mark the block bad.                                                       *)
TestCheck ==
  /\ pc = "test_check"
  /\ IF \A p \in PagesOf(v.eb) : Data(p) = Wanted(p)
     THEN /\ pc' = AfterCheck
          /\ v' = IF AfterCheck = "test_erase" THEN [v EXCEPT !.restore = TRUE] ELSE NextBlock
          /\ UNCHANGED faults
     ELSE faults' = faults \cup {v.eb} /\ v' = NextBlock /\ pc' = "test_block"
  /\ UNCHANGED <<flash, bad, job, code>>

NandtestNext == Nandtest \/ TestBlock \/ TestErase \/ TestWrite \/ TestCheck

(***************************************************************************)
(* nandflipbits.  A flip is an address, in units, of data only or with OOB *)
(* counted in.  It toggles one bit of that unit.                           *)
(***************************************************************************)
Toggle(u) == IF u >= 1000 THEN u - 1000 ELSE u + 1000

FlipLen == IF job.oob THEN 3 ELSE 2

PlaceAsGiven(a) == [block |-> a \div (Pages * FlipLen), offset |-> a % (Pages * FlipLen)]

(* The block of an address, and its index in a buffer of data and OOB.       *)
Place(a) == [block  |-> a \div (Pages * FlipLen),
             offset |-> 3 * ((a % (Pages * FlipLen)) \div FlipLen) + (a % FlipLen)]

(* The done flags come out of malloc() and are never cleared.                *)
Nandflipbits ==
  /\ pc = "nandflipbits"
  /\ IF \E i \in DOMAIN job.flips : job.flips[i] >= EbCnt * Pages * FlipLen
     THEN Exit(1) /\ UNCHANGED v
     ELSE /\ \E done \in [DOMAIN job.flips -> BOOLEAN] :
               v' = [flips |-> [i \in DOMAIN job.flips |-> Place(job.flips[i])],
                     done |-> done, given |-> done, eb |-> EbCnt, page |-> 0, buf |-> <<>>]
          /\ pc' = "flip_block" /\ UNCHANGED code
  /\ UNCHANGED <<flash, bad, job, faults>>

(* A block with all its flips applied.                                       *)
FlippedBlock(b, f, flips) ==
  LET hits(p, i) == Cardinality({k \in DOMAIN flips : /\ flips[k].block = b
                                                      /\ flips[k].offset = 3 * (p % Pages) + i - 1})
  IN [p \in PagesOf(b) |-> [i \in 1..3 |->
        IF hits(p, i) % 2 = 1 THEN Toggle(f[p][i]) ELSE f[p][i]]]

(* The first flip that is not done chooses the block; all flips of that      *)
(* block are applied to what is read from it.                                *)
FlipBlock ==
  /\ pc = "flip_block"
  /\ IF \A i \in DOMAIN v.done : v.done[i] THEN Exit(0) /\ UNCHANGED v
     ELSE /\ \E b \in {v.flips[Min({i \in DOMAIN v.done : ~v.done[i]})].block} :
               v' = [v EXCEPT !.eb = b, !.page = 0, !.buf = FlippedBlock(b, flash, v.flips)]
          /\ pc' = "flip_erase" /\ UNCHANGED code
  /\ UNCHANGED <<flash, bad, job, faults>>

FlipErase ==
  /\ pc = "flip_erase"
  /\ \E r \in Erase(flash, v.eb) :
       /\ flash' = r.f /\ Fault(~r.ok, v.eb)
       /\ IF r.ok THEN pc' = "flip_write" /\ UNCHANGED code ELSE Exit(1)
  /\ UNCHANGED <<bad, job, v>>

(* The pages in order; after the last one the flips of the block are done.   *)
FlipWrite ==
  /\ pc = "flip_write"
  /\ \E p \in {v.eb * Pages + v.page} : \E r \in Store(flash, p, v.buf[p]) :
       /\ flash' = r.f /\ Fault(r.fault, v.eb)
       /\ IF ~r.ok THEN Exit(1) /\ UNCHANGED v
          ELSE IF v.page + 1 < Pages THEN v' = [v EXCEPT !.page = @ + 1] /\ UNCHANGED <<pc, code>>
          ELSE /\ v' = [v EXCEPT !.done = [i \in DOMAIN v.flips |->
                                             @[i] \/ v.flips[i].block = v.eb]]
               /\ pc' = "flip_block" /\ UNCHANGED code
  /\ UNCHANGED <<bad, job>>

FlipNext == Nandflipbits \/ FlipBlock \/ FlipErase \/ FlipWrite

(***************************************************************************)
(* Blocks rewritten in place.                                              *)
(***************************************************************************)
Holds(from, to) == \A u \in from..to - 1 : flash[u \div 2][(u % 2) + 1] = job.file[u + 1]

(* flashcp succeeds only if the flash holds the file.                        *)
Verified == (pc = "done" /\ job.tool = "flashcp" /\ code = 0) => Holds(0, FileLen)

(* The units left for last tell the file from an erased and from the old     *)
(* flash.                                                                    *)
NewStart ==
  \E u \in 0..job.wr_last - 1 : job.file[u + 1] \notin {FF, Old(u \div 2)[(u % 2) + 1]}

(* flashcp --wr-last: whenever the program or the power may stop, a flash    *)
(* that has the beginning of a new file that fits also has the rest of it,   *)
(* unless a write failed.                                                    *)
LastIsLast ==
  (/\ job.tool = "flashcp" /\ WrLast /\ ~job.partition /\ FileLen <= BlockUnits * EbCnt
   /\ faults = {} /\ NewStart /\ Holds(0, job.wr_last))
    => Holds(job.wr_last, FileLen)

(* A page with the bits flipped that the command line names.                 *)
Flipped(p) ==
  [i \in 1..3 |->
     LET hits == {k \in DOMAIN job.flips :
                    IF job.oob THEN job.flips[k] = 3 * p + i - 1
                    ELSE i < 3 /\ job.flips[k] = 2 * p + i - 1}
     IN IF Cardinality(hits) % 2 = 1 THEN Toggle(Old(p)[i]) ELSE Old(p)[i]]

(* What a tool makes of a block.                                             *)
Target(b) ==
  CASE job.tool = "flashcp" -> [p \in PagesOf(b) |->
         [i \in 1..2 |-> IF 2 * p + i <= FileLen THEN job.file[2 * p + i] ELSE FF]]
    [] job.tool = "nandtest" -> [p \in PagesOf(b) |-> SubSeq(Old(p), 1, 2)]
    [] job.tool = "nandflipbits" -> [p \in PagesOf(b) |->
         SubSeq(Flipped(p), 1, 2)]

(* The block a tool is working on.                                           *)
Busy == IF pc \in {"diff_erase", "diff_write", "test_erase", "test_write", "test_check",
                   "flip_erase", "flip_write"} THEN {v.eb} ELSE {}

(* flashcp --partition, nandtest --keep and nandflipbits put at most one     *)
(* block at risk: wherever they stop, every other block, unless a failure    *)
(* was met on it, has the data it had before or the data it is to have.      *)
OneBlockAtRisk ==
  (IF job.tool = "flashcp" THEN job.partition
   ELSE IF job.tool = "nandtest" THEN job.keep ELSE job.tool = "nandflipbits")
    => \A b \in 0..EbCnt - 1 \ (Busy \cup faults) :
         \E want \in {Target(b), [p \in PagesOf(b) |-> SubSeq(Old(p), 1, 2)]} :
           \A p \in PagesOf(b) : SubSeq(flash[p], 1, 2) = want[p]

(* When nandflipbits reports success, the bits given are flipped, all of     *)
(* them and each once, and nothing else has changed, in data and OOB.        *)
(* Nothing is said of a block with flips that have all been taken for done   *)
(* before the first step: see IndicatedBitsFlipped.                          *)
FlipsApplied ==
  (pc = "done" /\ job.tool = "nandflipbits" /\ code = 0 /\ faults = {}) =>
    \A b \in 0..EbCnt - 1 :
      (\A i \in DOMAIN v.flips : v.flips[i].block = b => \E k \in DOMAIN v.flips :
         v.flips[k].block = b /\ ~v.given[k])
        => \A p \in PagesOf(b) : flash[p] = Flipped(p)

(* "Flips the indicated bit(s)" (nandflipbits.c:40): after success they are. *)
IndicatedBitsFlipped ==
  (pc = "done" /\ job.tool = "nandflipbits" /\ code = 0 /\ faults = {}) =>
    \A p \in 0..Size - 1 : flash[p] = Flipped(p)

(* flashcp, nandtest --keep and nandflipbits: a copy that succeeded is       *)
(* complete, with --wr-last one that looks complete is, and blocks that are  *)
(* rewritten in place change as they are to change, one at a time.           *)
RewritesBlocks == Verified /\ LastIsLast /\ OneBlockAtRisk /\ FlipsApplied
=============================================================================
