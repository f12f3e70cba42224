SPECIFICATION Spec
CONSTANTS
    a = a
    b = b
    Clients = {a, b}
    NoClient = NoClient
    AnySlot = AnySlot
    NoSlot = NoSlot
    NSlots = 2
    Wants <- WantsMixed
    MaxSteps = 2
    ContBatching = TRUE
    LaunchFails = TRUE
    DecodeFails = FALSE
    Signals = TRUE
INVARIANTS HeldOnce EndsOnce DoneWhenAllDone SleepsOnlyIdle
CHECK_DEADLOCK FALSE
