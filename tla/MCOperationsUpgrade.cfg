SPECIFICATION Spec
CHECK_DEADLOCK FALSE
CONSTANT Families = {"upgrade"}
INVARIANT UpgradeConsistent
