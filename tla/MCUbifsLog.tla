------------------------------ MODULE MCUbifsLog ------------------------------
EXTENDS UbifsLog

Superblock(lebs, size, per, heads, main, leb, max, faults, sq) ==
  [log_lebs |-> lebs, log_size |-> size, per_unit |-> per, jhead_cnt |-> heads,
   main |-> main, leb_size |-> leb, max_bud_bytes |-> max, faults |-> faults,
   max_sqnum |-> sq]

\* A log that goes round, one journal head.  Here a consolidation has up to two
\* LEBs to unmap; it is not cut between them, which GapSuperblocks is for.
Ring == Superblock(3, 2, 4, 1, {0, 1}, 2, 7, {"erase"}, 11)

\* The smallest log, two journal heads.
TwoHeads == Superblock(2, 3, 4, 2, {0, 1}, 2, 9, {"erase", "gap"}, 10)

\* Every node has a unit of its own, as on NOR flash.
Nor == Superblock(2, 3, 1, 1, {0, 1, 2}, 1, 4, {"erase", "gap"}, 12)

AllSuperblocks == {Ring, TwoHeads, Nor}

\* A consolidation that is cut between two unmaps: Recoverable does not hold.
GapSuperblocks == {[Ring EXCEPT !.faults = {"gap"}]}
=============================================================================
