---------------------------- MODULE LpropsTable -----------------------------
(***************************************************************************)
(* What the LEB properties tree promises: a table that changes in memory,  *)
(* of which a commit makes one snapshot durable, and of which a power cut  *)
(* leaves exactly the last snapshot that was made durable.                 *)
(***************************************************************************)
VARIABLES cur,   \* the table in memory
          snap,  \* the table as it was when the running commit started
          disk   \* the table a mount would read

Down == [p \in {} |-> 0]   \* no table is loaded

Change == cur # Down /\ cur' # Down /\ UNCHANGED <<snap, disk>>
Freeze == cur # Down /\ snap' = cur /\ UNCHANGED <<cur, disk>>
Commit == cur # Down /\ disk' = snap /\ UNCHANGED <<cur, snap>>
Load == cur = Down /\ cur' = disk /\ snap' = disk /\ UNCHANGED disk
Stop == cur' = Down /\ snap' = disk /\ UNCHANGED disk

TableInit == cur = Down /\ snap = disk
TableNext == Change \/ Freeze \/ Commit \/ Load \/ Stop

DurableTable == TableInit /\ [][TableNext]_<<cur, snap, disk>>
=============================================================================
