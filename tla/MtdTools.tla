------------------------------ MODULE MtdTools ------------------------------
(***************************************************************************)
(* The raw flash tools: every command line of Jobs on every device it may  *)
(* meet.  The "image" job is flash_erase followed by nandwrite, the "ubi"  *)
(* job is ubinize, if an image is to be flashed, followed by ubiformat.    *)
(***************************************************************************)
EXTENDS NandImage, BlockRewrite, UbiFormat, Jffs2Reader

(* The flash before the tool runs.  The eraseblocks ubiformat finds have the *)
(* first pages the job gives, and an old LEB behind each EC header.          *)
Before(p) ==
  IF job.tool # "ubi" THEN Old(p)
  ELSE LET hdr == job.hdrs[Block(p) + 1] IN
       IF p % Pages = 0 THEN hdr
       ELSE IF IsEcUnit(hdr[1]) THEN <<VidUnit(1, 0), 8, FF>> ELSE Blank

Init ==
  /\ job \in Jobs
  /\ bad = job.bad
  /\ flash = [p \in 0..Size - 1 |-> Before(p)]
  /\ pc = CASE job.tool = "image" -> "flash_erase"
           [] job.tool = "ubi" -> IF job.image THEN "ubinize" ELSE "ubiformat"
           [] OTHER -> job.tool
  /\ v = [eb |-> 0]
  /\ code = -1
  /\ faults = {}

(* The tool has left main().                                                 *)
Done == pc = "done" /\ UNCHANGED vars

(* The program that the command line names takes its steps.                  *)
Next ==
  /\ \/ job.tool = "image" /\ ImageNext
     \/ job.tool = "flashcp" /\ FlashcpNext
     \/ job.tool = "nandtest" /\ NandtestNext
     \/ job.tool = "nandflipbits" /\ FlipNext
     \/ job.tool = "ubi" /\ UbiNext
     \/ job.tool = "jffs2" /\ Jffs2Next
     \/ Done
  /\ UNCHANGED job

(* A tool that has been started runs until it exits.                         *)
Spec == Init /\ [][Next]_vars /\ WF_vars(Next)

TypeOK ==
  /\ bad \subseteq 0..EbCnt - 1 /\ faults \subseteq 0..EbCnt - 1
  /\ DOMAIN flash = 0..Size - 1
  /\ \A p \in DOMAIN flash : flash[p] \in [1..3 -> Int]
  /\ code \in {-1, 0, 1} /\ (code = -1 <=> pc # "done")

(* Every tool comes to an end, whatever fails.                               *)
Terminates == <>(pc = "done")
=============================================================================
