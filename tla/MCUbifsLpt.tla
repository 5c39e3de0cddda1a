----------------------------- MODULE MCUbifsLpt -----------------------------
(***************************************************************************)
(* Small volumes: one whose LPT takes half a LEB (two LPT LEBs), one that  *)
(* takes a whole LEB and was resized after mkfs, and one of the big model. *)
(***************************************************************************)
EXTENDS UbifsLpt

Half == [big |-> FALSE, hght |-> 1, pnodes |-> 2, made |-> 2, leb_size |-> 16, min_io |-> 8,
         pnode_sz |-> 1, nnode_sz |-> 1, ltab_sz |-> 1, lsave_sz |-> 0, lebs |-> 2,
         busy |-> {0, 1}, max_commits |-> 4, max_cuts |-> 1, max_changes |-> 2]
Whole == [big |-> FALSE, hght |-> 2, pnodes |-> 4, made |-> 3, leb_size |-> 24, min_io |-> 4,
          pnode_sz |-> 2, nnode_sz |-> 2, ltab_sz |-> 3, lsave_sz |-> 0, lebs |-> 4,
          busy |-> {0, 3}, max_commits |-> 3, max_cuts |-> 1, max_changes |-> 2]
Big == [big |-> TRUE, hght |-> 2, pnodes |-> 4, made |-> 4, leb_size |-> 12, min_io |-> 4,
        pnode_sz |-> 2, nnode_sz |-> 2, ltab_sz |-> 3, lsave_sz |-> 2, lebs |-> 8,
        busy |-> {0, 3}, max_commits |-> 4, max_cuts |-> 1, max_changes |-> 2]
GeometriesVal == {Half, Whole, Big}

(* Here mkfs fills one LEB with pnodes and the next one with nnodes.       *)
Deep == [big |-> TRUE, hght |-> 3, pnodes |-> 8, made |-> 8, leb_size |-> 8, min_io |-> 1,
         pnode_sz |-> 1, nnode_sz |-> 1, ltab_sz |-> 1, lsave_sz |-> 1, lebs |-> 10,
         busy |-> {0, 2, 4, 6}, max_commits |-> 6, max_cuts |-> 0, max_changes |-> 1]
EmptyVal == {Deep}
ValsVal == {0, 1}
=============================================================================
