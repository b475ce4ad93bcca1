------------------------------- MODULE Writer -------------------------------
(***************************************************************************)
(* A Writer (rkvm-input/src/writer.rs): a uinput device that frames and    *)
(* key states are written to.  A frame is written event by event, for the  *)
(* device may not take more at once; the next write goes on where the last *)
(* one stopped.  pressed_keys follows when the whole frame is written.     *)
(***************************************************************************)
EXTENDS Updates, FiniteSets

ASSUME WriterAssumption == IsFiniteSet(Key)

VARIABLES
    pressed_keys,   \* the keys the Writer takes to be down
    node_keys,      \* the keys that are down at the device node
    writing_frame   \* events of the current frame and how many are written

writer == <<pressed_keys, node_keys, writing_frame>>

SYN     == [mark |-> "report"]
NoWrite == [events |-> <<>>, cursor |-> 0]

WriterInit ==
    /\ pressed_keys = {}
    /\ node_keys = {}
    /\ writing_frame = NoWrite

all_down(keys) == LET s == SetToSeq(keys) IN [i \in DOMAIN s |-> press(s[i])]
all_up(keys)   == LET s == SetToSeq(keys) IN [i \in DOMAIN s |-> release(s[i])]

\* MUTANT of key_state_events: the keys are sorted the same way in both parts.
key_state_events_in_one_order(current, desired) ==
    LET released == current \ desired
        pressed  == desired \ current
    IN  IF current = desired THEN <<>>
        ELSE all_up(released \ Modifier) \o all_up(released \cap Modifier)
             \o all_down(pressed \ Modifier) \o all_down(pressed \cap Modifier)
             \o <<SYN>>

\* The order among modifiers, and among other keys, is fixed.
key_state_events(current, desired) ==
    LET released == current \ desired
        pressed  == desired \ current
    IN  IF current = desired THEN <<>>
        ELSE all_up(released \ Modifier) \o all_up(released \cap Modifier)
             \o all_down(pressed \cap Modifier) \o all_down(pressed \ Modifier)
             \o <<SYN>>

\* The events that carry out an update on this writer.
frame_of(u) ==
    IF u.kind = "keys" THEN key_state_events(pressed_keys, u.keys)
    ELSE Append(u.events, SYN)

start_write(u) ==
    /\ writing_frame' = [events |-> frame_of(u), cursor |-> 0]
    /\ UNCHANGED <<pressed_keys, node_keys>>

\* MUTANT of write_event: pressed_keys does not follow.
write_event_but_pressed_keys ==
    LET cursor == writing_frame.cursor + 1
    IN  /\ cursor <= Len(writing_frame.events)
        /\ node_keys' = update_key_state(node_keys, writing_frame.events[cursor])
        /\ writing_frame' = IF cursor = Len(writing_frame.events) THEN NoWrite
                            ELSE [writing_frame EXCEPT !.cursor = cursor]
        /\ UNCHANGED pressed_keys

\* One event is taken, the last one with what follows the loop.
write_event ==
    LET cursor == writing_frame.cursor + 1
        done   == cursor = Len(writing_frame.events)
    IN  /\ cursor <= Len(writing_frame.events)
        /\ node_keys' = update_key_state(node_keys, writing_frame.events[cursor])
        /\ IF done
           THEN /\ pressed_keys' = keys_after(pressed_keys, writing_frame.events)
                /\ writing_frame' = NoWrite
           ELSE /\ writing_frame' = [writing_frame EXCEPT !.cursor = cursor]
                /\ UNCHANGED pressed_keys

\* A new device in place of the old one; also what is left when it is dropped.
new_writer ==
    /\ pressed_keys' = {}
    /\ node_keys' = {}
    /\ writing_frame' = NoWrite
=============================================================================
