------------------------------- MODULE Input -------------------------------
(* What every part of rkvm shares: the keys of rkvm-input/src/key.rs and    *)
(* the ids under which the server knows the source devices.                 *)
CONSTANTS
    Key,        \* the keys and buttons a device can report
    Modifier,   \* Key::is_modifier
    Button,     \* Key::Button(_), the mouse buttons
    Device      \* device ids (keys of the server's device slab)

ASSUME InputAssumption ==
    /\ Modifier \subseteq Key
    /\ Button \subseteq Key
    /\ Modifier \cap Button = {}
=============================================================================
