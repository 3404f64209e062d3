SPECIFICATION Spec
CONSTANT HighBytes = {0}
INVARIANT UltAfterSub
