SPECIFICATION Spec
CONSTANTS
    None = None
    Call = {c1, c2}
    MaxEvents = 2
    Counter = {0, 41, 999998, 999999}
    MaxPayload = 2
SYMMETRY Symmetry
INVARIANTS TypeOK ApprovedIsHeld UndoneIsNotHeld SentReversalUndoes
           ElementsReadBack AnswersNameRequests StreamsSplitBack
CHECK_DEADLOCK FALSE
