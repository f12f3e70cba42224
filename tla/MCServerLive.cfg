SPECIFICATION Spec
CONSTANTS
    a = a
    b = b
    Clients = {a, b}
    NoClient = NoClient
    AnySlot = AnySlot
    NoSlot = NoSlot
    NSlots = 2
    Wants <- WantsPairs
    MaxSteps = 1
    ContBatching = FALSE
    LaunchFails = TRUE
    DecodeFails = TRUE
    Signals = FALSE
PROPERTIES EveryRequestAnswered Drains
CHECK_DEADLOCK FALSE
