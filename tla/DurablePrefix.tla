--------------------------- MODULE DurablePrefix ---------------------------
(***************************************************************************)
(* What a journalled file system promises to a sequence of updates: after  *)
(* a power cut the file system is the one after some prefix of them, each  *)
(* of them there whole or not at all, and that prefix never gets shorter.  *)
(***************************************************************************)
EXTENDS Integers

VARIABLES done,  \* updates the running program has made
          kept   \* updates a mount at this moment would find

Update == done' = done + 1 /\ UNCHANGED kept
Persist == kept' \in kept .. done /\ UNCHANGED done
Crash == kept' \in kept .. done /\ done' = kept'

PrefixInit == done = 0 /\ kept = 0
PrefixNext == Update \/ Persist \/ Crash

PrefixSpec == PrefixInit /\ [][PrefixNext]_<<done, kept>>
=============================================================================
