SPECIFICATION Spec
CONSTANTS
    None = None
    Call = {c1, c2}
    MaxEvents = 1
    Counter = {0}
    MaxPayload = 0
SYMMETRY Symmetry
INVARIANT UnavailableIsNotHeld
CHECK_DEADLOCK FALSE
