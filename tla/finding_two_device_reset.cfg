CONSTANTS
    meta = meta
    grave = grave
    rctrl = rctrl
    shift = shift
    a = a
    back = back
    brightness = brightness
    display = display
    Name <- Names
    NamedKey <- AllKeys
    KEY_MAX = 767
    REL_MAX = 15
    ABS_MAX = 63
    rel_from_raw <- MC_rel
    rel_to_raw <- MC_rel_raw
    abs_from_raw <- MC_abs
    abs_to_raw <- MC_abs_raw
    ABS_MT_TOOL_TYPE = 55
    ToolType = {0, 1, 2}
    into <- MC_into
    to_raw <- MC_to_raw
    keyboard <- MC_keyboard
    button <- MC_button
    Key = {meta, grave}
    Modifier <- Modifiers
    Button <- Buttons
    config <- LegacyConfig
    bindings <- ChordBindings
    Device = {d1, d2}
    Route = {0, 1}
    propagate_switch_keys = TRUE
    consume_switch_buttons = FALSE
SYMMETRY DeviceSymmetry
SPECIFICATION Spec
INVARIANT Converges
