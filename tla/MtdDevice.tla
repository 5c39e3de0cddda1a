----------------------------- MODULE MtdDevice ------------------------------
(***************************************************************************)
(* One MTD device as the raw flash tools use it through libmtd, and the    *)
(* state of the tool that runs on it.                                      *)
(*                                                                         *)
(* A page has two units of data and one of out-of-band (OOB) data.         *)
(* Addresses count pages; flashcp, which writes bytes, counts data units.  *)
(***************************************************************************)
EXTENDS Integers, Sequences, FiniteSets, FiniteSetsExt

CONSTANTS EbCnt,  \* eraseblocks of the device
          Pages,  \* pages of an eraseblock
          Jobs    \* command lines, each with the bad blocks it meets and with
                  \* how many good eraseblocks at most fail during it

ASSUME MtdAssumption == EbCnt \in Nat \ {0} /\ Pages \in Nat \ {0}

ASSUME JobsAssumption ==
  \A j \in Jobs : /\ j.tool \in {"image", "flashcp", "nandtest", "nandflipbits", "ubi", "jffs2"}
                  /\ j.bad \subseteq 0..EbCnt - 1

VARIABLES flash,  \* what every page reads as
          bad,    \* bad eraseblocks
          job,    \* the command line
          pc,
          v,      \* variables of the running tool
          code,   \* its exit code
          faults  \* eraseblocks for which a failure was reported

vars == <<flash, bad, job, pc, v, code, faults>>

FF == 0     \* an erased unit
Junk == -1  \* neither erased nor what was written

Size == EbCnt * Pages
Block(p) == p \div Pages
PagesOf(b) == b * Pages .. (b + 1) * Pages - 1
Blank == <<FF, FF, FF>>

(* What the flash holds before the tool runs.                                *)
Old(p) == <<10 * p + 1, 10 * p + 2, 10 * p + 3>>

Put(f, S, cell) == [p \in DOMAIN f |-> IF p \in S THEN cell ELSE f[p]]

(* Whether block b may fail now.                                             *)
MayFail(b) == b \in bad \cup faults \/ Cardinality(faults \ job.bad) < job.max_faults

(* MEMERASE of one block: the kernel refuses a bad block; a failed erasure   *)
(* leaves the block as it was or with undefined contents.                    *)
Erase(f, b) ==
  (IF b \in bad THEN {} ELSE {[f |-> Put(f, PagesOf(b), Blank), ok |-> TRUE]}) \cup
  (IF MayFail(b) THEN {[f |-> f, ok |-> FALSE]} ELSE {}) \cup
  (IF MayFail(b) /\ b \notin bad
   THEN {[f |-> Put(f, PagesOf(b), <<Junk, Junk, Junk>>), ok |-> FALSE]} ELSE {})

(* Programming can only clear bits.                                          *)
Prog(was, u) == IF u = FF THEN was ELSE IF was = FF THEN u ELSE IF was = u THEN u ELSE Junk

Programmed(f, p, cell) == Put(f, {p}, [i \in 1..3 |-> Prog(f[p][i], cell[i])])

(* A write that fails leaves undefined contents.                             *)
Spoilt(f, p, cell) == Put(f, {p}, [i \in 1..3 |-> IF cell[i] = FF THEN f[p][i] ELSE Junk])

Exit(c) == pc' = "done" /\ code' = c
=============================================================================
