SPECIFICATION Spec
CONSTANT Instances <- MCInstances
INVARIANTS SpaceAgrees BudgetHonoured GcLebRecovered
PROPERTY IsDurablePrefix
CHECK_DEADLOCK FALSE
