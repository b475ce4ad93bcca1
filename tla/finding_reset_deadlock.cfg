CONSTANTS
    meta = meta
    grave = grave
    Key = {grave}
    Modifier <- Modifiers
    Button <- NoButtons
    bindings <- SingleBinding
    Device = {d1, d2}
    Client = {}
    propagate_switch_keys = TRUE
    consume_switch_buttons = FALSE
    QUEUE = 1
    COMMANDS = 1
    EVENTS = 1
    ACTIVATIONS = 2
    FRAME = 1
SPECIFICATION FairSpec
PROPERTY FailedIsReleased
CHECK_DEADLOCK FALSE
