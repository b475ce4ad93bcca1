CONSTANTS
    meta = meta
    grave = grave
    Key = {}
    Modifier <- Modifiers
    Button <- NoButtons
    bindings <- NoBindings
    Device = {d1, d2}
    Client = {1}
    propagate_switch_keys = TRUE
    consume_switch_buttons = FALSE
    QUEUE = 2
    COMMANDS = 1
    EVENTS = 1
    ACTIVATIONS = 3
    FRAME = 1
SPECIFICATION Spec
SYMMETRY DeviceSymmetry
INVARIANT ServerTypeOK
INVARIANT NothingRefused
INVARIANT ClientsKnowDevices
INVARIANT ResetAnswersLoss
PROPERTY ReleasedIsGone
CHECK_DEADLOCK FALSE
