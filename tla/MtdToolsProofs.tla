--------------------------- MODULE MtdToolsProofs ---------------------------
(***************************************************************************)
(* The theorems about the raw flash tools.                                 *)
(***************************************************************************)
EXTENDS MtdTools, BlockRewriteProofs, UbiFormatProofs

(* Before their first step the three tools that rewrite blocks meet the old  *)
(* flash.                                                                    *)
LEMMA RewriteInit ==
  ASSUME Init
  PROVE  RewriteInv
<1>1. job \in Jobs /\ faults = {} BY DEF Init
<1>2. CASE job.tool \in {"flashcp", "nandtest", "nandflipbits"}
  <2>1. pc = job.tool BY <1>2 DEF Init
  <2>2. flash = OldFlash BY <1>2 DEF Init, Before, OldFlash
  <2> QED BY <1>1, <1>2, <2>1, <2>2, RewriteStarts
<1>3. CASE job.tool \notin {"flashcp", "nandtest", "nandflipbits"} BY <1>1, <1>3 DEF RewriteInv
<1> QED BY <1>2, <1>3

(* flashcp, nandtest --keep and nandflipbits: a copy that succeeded is       *)
(* complete, with --wr-last one that looks complete is, and blocks that are  *)
(* rewritten in place change as they are to change, one at a time, on every  *)
(* device and wherever reads, writes and erasures fail.                      *)
THEOREM ToolsRewriteBlocks == Spec => []RewritesBlocks
<1>1. RewriteInv /\ [Next]_vars => RewriteInv'
  <2> SUFFICES ASSUME RewriteInv, [Next]_vars PROVE RewriteInv'
    OBVIOUS
  <2>1. /\ job' = job
        /\ job.tool = "flashcp" => FlashcpNext \/ UNCHANGED vars
        /\ job.tool = "nandtest" => NandtestNext \/ UNCHANGED vars
        /\ job.tool = "nandflipbits" => FlipNext \/ UNCHANGED vars
    BY DEF Next, Done, vars
  <2>2. WellOrdered BY LeastNat DEF WellOrdered
  <2> QED BY <2>1, <2>2, RewriteStep
<1> QED BY <1>1, RewriteInit, RewriteMeets, PTL DEF Spec

(* Before ubinize and ubiformat are started the flash has the headers that   *)
(* the job gives.                                                            *)
LEMMA UbiInit ==
  ASSUME Init
  PROVE  UbiInv
<1>1. job \in Jobs /\ bad = job.bad /\ flash = [p \in 0..Size - 1 |-> Before(p)] BY DEF Init
<1>2. ASSUME job.tool = "ubi"
      PROVE  pc \in {"ubinize", "ubiformat"} /\ \A b \in Ebs : flash[b * Pages] = job.hdrs[b + 1]
  <2>1. pc \in {"ubinize", "ubiformat"} BY <1>2 DEF Init
  <2>2. ASSUME NEW b \in Ebs PROVE flash[b * Pages] = job.hdrs[b + 1]
    <3>1. b * Pages \in 0..Size - 1 BY FirstPage
    <3>2. Block(b * Pages) = b /\ (b * Pages) % Pages = 0 BY LebAssumption DEF Ebs, Block
    <3> QED BY <1>1, <1>2, <3>1, <3>2 DEF Before
  <2> QED BY <2>1, <2>2
<1> QED BY <1>1, <1>2, UbiStarts

(* ubinize and ubiformat keep their invariant.                               *)
LEMMA UbiAlways == Spec => []UbiInv
<1>1. UbiInv /\ [Next]_vars => UbiInv'
  <2> SUFFICES ASSUME UbiInv, [Next]_vars PROVE UbiInv'
    OBVIOUS
  <2>1. job' = job /\ (job.tool = "ubi" => UbiNext \/ UNCHANGED vars)
    BY DEF Next, Done, vars
  <2> QED BY <2>1, UbiStep
<1> QED BY <1>1, UbiInit, PTL DEF Spec

(* ubiformat keeps valid erase counters if it finds enough of them, and      *)
(* gives the other blocks the counter it has announced, wherever erasures    *)
(* and writes fail and whatever it finds on the device.                      *)
THEOREM ToolsKeepCounters == Spec => []CountersKept
BY UbiAlways, CountersMeet, PTL

(* What ubiformat has formatted, ubi_scan() accepts.                         *)
THEOREM FormattedRescans == Spec => []Rescans
BY UbiAlways, RescanMeets, PTL
=============================================================================
