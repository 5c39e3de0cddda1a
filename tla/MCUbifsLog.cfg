CONSTANT Superblocks <- AllSuperblocks
SPECIFICATION Spec
INVARIANTS Recoverable LogNeverStuck CommitMakesRoom BudsRight
