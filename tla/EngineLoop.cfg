SPECIFICATION Spec
CONSTANTS
    Req = {q1, q2}
    Slots = 4
INVARIANTS
    SlotReadBeforeReuse
    DispatchedIsComputed
    OneResultBehind
PROPERTIES
    LaunchedIsDispatched
CHECK_DEADLOCK FALSE
