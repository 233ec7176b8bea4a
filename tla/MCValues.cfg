CONSTANT Points <- Boundaries
SPECIFICATION Spec
INVARIANT WrittenAsCommented
CHECK_DEADLOCK FALSE
