CONSTANTS
    meta = meta
    grave = grave
    Key = {grave}
    Modifier <- Modifiers
    Button <- NoButtons
    bindings <- SingleBinding
    Device = {d1}
    Client = {1, 2}
    propagate_switch_keys = TRUE
    consume_switch_buttons = FALSE
    QUEUE = 1
    COMMANDS = 1
    EVENTS = 1
    ACTIVATIONS = 1
    FRAME = 1
SPECIFICATION FairSpec
INVARIANT InputHasRoute
PROPERTY ImplementsRoutedOutputs
PROPERTY HandlersEnd
PROPERTY FailedIsReleased
