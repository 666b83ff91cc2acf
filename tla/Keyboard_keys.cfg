SPECIFICATION Spec
CONSTANT TwoHanded = FALSE
INVARIANT StatusHeld
PROPERTY TypedAsHeld
