SPECIFICATION Spec
INVARIANT StartChecksAll
CHECK_DEADLOCK FALSE
