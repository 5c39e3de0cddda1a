CONSTANT Superblocks <- GapSuperblocks
SPECIFICATION Spec
INVARIANT Recoverable
