CONSTANTS
    ctrl = ctrl
    a = a
    d1 = d1
    Key = {ctrl, a}
    Modifier = {ctrl}
    Button = {}
    Device = {d1}
    device = d1
    UserKey = {a}
    ServerUpdate <- MC_ServerUpdate
    KERNEL = 3
    LIBEVDEV = 2
    RAWS = 4
    COMMANDS = 1
    EVENTS = 1
SPECIFICATION Spec
CHECK_DEADLOCK FALSE
INVARIANT InputAccounted
INVARIANT RawPassedOnce
INVARIANT KeysMirrorNode
PROPERTY NoAccidentalShortcut
PROPERTY InputReported
PROPERTY ImplementsDeviceTask
