------------------------------ MODULE Updates ------------------------------
(***************************************************************************)
(* What the server tells the two kinds of outputs.  A client gets Update   *)
(* messages (rkvm-net/src/lib.rs), the local copy of a device gets         *)
(* DeviceCommands (rkvm-server/src/server.rs); those that both share write *)
(* to a Writer (rkvm-input/src/writer.rs), whose pressed_keys follow.      *)
(***************************************************************************)
EXTENDS Input, Sequences, SequencesExt

CreateDevice(d)       == [kind |-> "create", device |-> d]
DestroyDevice(d)      == [kind |-> "destroy", device |-> d]
Events(d, events)     == [kind |-> "events", device |-> d, events |-> events]
SetKeyState(d, keys)  == [kind |-> "keys", device |-> d, keys |-> keys]
Reset(d)              == [kind |-> "reset", device |-> d]

(* The key events of a frame, in order.  Its other events press nothing.   *)
press(k)   == [key |-> k, down |-> TRUE]
release(k) == [key |-> k, down |-> FALSE]

IsKey(event) == "key" \in DOMAIN event

update_key_state(pressed, event) ==
    IF ~IsKey(event) THEN pressed
    ELSE IF event.down THEN pressed \cup {event.key} ELSE pressed \ {event.key}

keys_after(pressed, events) == FoldLeft(update_key_state, pressed, events)

\* The keys that a writer holds down once it has carried out an update.
written(pressed, u) ==
    CASE u.kind = "events"  -> keys_after(pressed, u.events)
      [] u.kind = "keys"    -> u.keys
      [] OTHER              -> {}   \* a writer is created, destroyed or replaced
=============================================================================
