SPECIFICATION Spec
CONSTANTS
    a = a
    b = b
    Clients = {a, b}
    NoClient = NoClient
    AnySlot = AnySlot
    NoSlot = NoSlot
    NSlots = 2
    Wants <- WantsAction
    MaxSteps = 1
    ContBatching = TRUE
    LaunchFails = FALSE
    DecodeFails = FALSE
    Signals = FALSE
PROPERTIES EveryRequestAnswered
CHECK_DEADLOCK FALSE
