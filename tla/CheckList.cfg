SPECIFICATION Spec
INVARIANTS TypeOK HandChecked SkipHasRoom
PROPERTY EnabledWithInk
CHECK_DEADLOCK FALSE
