SPECIFICATION Spec
CONSTANT TwoHanded = TRUE
INVARIANT StatusHeld
