SPECIFICATION DisSpec
INVARIANT SomeStatementHolds
CHECK_DEADLOCK FALSE
