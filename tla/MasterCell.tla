------------------------------ MODULE MasterCell ------------------------------
(***************************************************************************)
(* What the UBIFS master area promises to the rest of the file system: one *)
(* durable cell.  A write first becomes pending, takes effect at a single  *)
(* moment, and returns success only after that moment.  A writer that is   *)
(* interrupted (power cut, I/O error, killed process) leaves either the    *)
(* old or the new contents; the cell is never empty, never goes back to    *)
(* older contents and never shows contents nobody asked to write.  What a  *)
(* running program goes on with, after it opened the cell or after a       *)
(* successful write, is what is stored.                                    *)
(***************************************************************************)
EXTENDS Integers

CONSTANTS First,   \* contents written by mkfs
          None     \* no write is pending, no program is running

VARIABLES val,     \* what a mount at this moment would read
          pend,    \* what the running writer wants to store, or None
          known    \* what the running program takes to be stored, or None

vars == <<val, pend, known>>

Init == val = First /\ pend = None /\ known = None

Contents == [ver : Nat, dirty : BOOLEAN]

(* A writer starts with contents that are newer than what is stored.       *)
Begin == /\ pend = None
         /\ pend' \in Contents
         /\ pend'.ver > val.ver
         /\ known' = None
         /\ UNCHANGED val

TakeEffect == /\ pend # None
              /\ val' = pend
              /\ UNCHANGED <<pend, known>>

Return == /\ pend # None /\ val = pend
          /\ pend' = None
          /\ known' = val
          /\ UNCHANGED val

(* The writer stops half-way.  The write has taken effect or it never will, *)
(* or it takes effect in the very step that interrupts it.                  *)
Abandon == /\ pend # None
           /\ pend' = None
           /\ val' \in {val, pend}
           /\ UNCHANGED known

Open == /\ pend = None
        /\ known' = val
        /\ UNCHANGED <<val, pend>>

Close == /\ pend = None
         /\ known' = None
         /\ UNCHANGED <<val, pend>>

Next == \/ Begin
        \/ TakeEffect
        \/ Return
        \/ Abandon
        \/ Open \/ Close

Spec == Init /\ [][Next]_vars
=============================================================================
