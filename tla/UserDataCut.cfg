CONSTANT MaxFault = 1
SPECIFICATION Spec
INVARIANT MigrationIsWhole
CHECK_DEADLOCK FALSE
