SPECIFICATION Spec
INVARIANT AutoNameIsExact
CHECK_DEADLOCK FALSE
