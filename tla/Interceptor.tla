---------------------------- MODULE Interceptor ----------------------------
(***************************************************************************)
(* How a device task reads its source and writes its local copy, event by  *)
(* event: Interceptor (rkvm-input/src/interceptor.rs) in the task of       *)
(* rkvm-server/src/server.rs (run, reset_local_device,                     *)
(* handle_device_command).  The task is spawned; its steps up to its end   *)
(* are modelled.                                                           *)
(*                                                                         *)
(* The source's events go through a buffer of the kernel and libevdev's    *)
(* queue.  Those rkvm knows are collected in events until the frame is     *)
(* complete; those it does not know are written to the copy at once.  The  *)
(* select! of the task drops read_frame, with its local variable, whenever *)
(* it takes a command while read_frame waits; what read keeps in the       *)
(* Interceptor stays.                                                      *)
(*                                                                         *)
(* The kernel and libevdev are modelled from how the Interceptor uses      *)
(* them.  When the kernel's buffer overflows, it drops what is there and   *)
(* says so; libevdev then fetches the state of the keys anew.              *)
(***************************************************************************)
EXTENDS Writer, Naturals, TLC

CONSTANTS
    device,     \* the device of this task
    KERNEL,     \* events that the kernel buffers
    LIBEVDEV,   \* events that libevdev queues
    RAWS,       \* bound: unknown events are numbered modulo RAWS
    COMMANDS, EVENTS,   \* capacities of the channels, as in DeviceTask
    UserKey,        \* bound: the keys the user presses
    ServerUpdate    \* bound: the updates the server has for this device

ASSUME InterceptorAssumption ==
    /\ device \in Device
    /\ {KERNEL, LIBEVDEV, RAWS, COMMANDS, EVENTS} \subseteq Nat \ {0}
    /\ 2 * RAWS > KERNEL + LIBEVDEV + 2     \* a report follows every unknown event
    /\ UserKey \subseteq Key
    /\ ServerUpdate \subseteq
          [kind : {"keys"}, device : {device}, keys : SUBSET Key]
          \cup [kind : {"events"}, device : {device},
                events : Seq([key : Key, down : BOOLEAN])]

VARIABLES
    held,       \* the keys the user holds on the source
    raws,       \* the number of its last unknown event
    kernel,     \* events in the kernel's buffer, whole packets
    libevdev,   \* events in libevdev's queue
    key_state,  \* libevdev's view of the keys
    events,     \* Interceptor.events: known events read so far
    writing,    \* Interceptor.writing: an unknown event to be written, or NoRaw
    frame,      \* the local variable of read_frame
    passed,     \* the number of the last unknown event written to the copy
    task,       \* what the task does, as in DeviceTask
    commands,   \* the commands in its channel
    command,    \* the command being carried out, or NoCommand
    channel,    \* what the task has sent or waits to send: results, in order
    seen,       \* the keys that are down by what has been sent
    resets      \* losses received by the server and not yet answered

source == <<held, raws, kernel>>
reader == <<libevdev, key_state, events, writing, frame, passed>>
vars   == <<source, reader, writer, task, commands, command, channel, seen, resets>>

NoRaw     == 0
NoCommand == [kind |-> "none"]
DROPPED   == [mark |-> "dropped"]
REPEAT    == [mark |-> "repeat"]

raw(n)    == [raw |-> n]
IsRaw(e)  == "raw" \in DOMAIN e
next(n)   == (n % RAWS) + 1

Init ==
    /\ held \in SUBSET UserKey
    /\ raws = RAWS /\ passed = RAWS
    /\ kernel = <<>> /\ libevdev = <<>> /\ events = <<>> /\ frame = <<>>
    /\ writing = NoRaw
    /\ key_state = held /\ seen = held
    /\ WriterInit
    /\ task = "reading"
    /\ commands = <<>> /\ command = NoCommand /\ channel = <<>>
    /\ resets = 0

-----------------------------------------------------------------------------
(* The source, the kernel and libevdev. *)

toggle(k) == IF k \in held THEN release(k) ELSE press(k)

\* A scan code comes with most key events; rkvm does not know it.
packets ==
    (UNION {{<<toggle(k), SYN>>, <<raw(next(raws)), toggle(k), SYN>>,
             <<toggle(k), raw(next(raws)), SYN>>} : k \in UserKey})
    \cup {<<REPEAT, SYN>>}

Emit ==
    \E packet \in packets :
        /\ held' = keys_after(held, packet)
        /\ raws' = IF \E i \in DOMAIN packet : IsRaw(packet[i]) THEN next(raws) ELSE raws
        /\ kernel' = IF Len(kernel \o packet) <= KERNEL THEN kernel \o packet
                     ELSE <<DROPPED, SYN>>
        /\ UNCHANGED <<reader, writer, task, commands, command, channel, seen, resets>>

\* libevdev_next_event takes in what its queue has room for, then gives the first.
taken_in == Min({LIBEVDEV - Len(libevdev), Len(kernel)})
readable == libevdev \o SubSeq(kernel, 1, taken_in)
unread   == SubSeq(kernel, taken_in + 1, Len(kernel))

-----------------------------------------------------------------------------
(* The task sends to the server. *)

report(result) ==
    /\ task' = result
    /\ channel' = Append(channel, result)

waiting == Len(channel) > EVENTS

after_send(result) ==
    CASE result = "sending" -> "reading"
      [] result = "lost"    -> "resetting"
      [] result = "failed"  -> "ended"

\* The send returns.
Sent ==
    /\ task \in {"sending", "lost", "failed"}
    /\ ~waiting
    /\ task' = after_send(task)
    /\ IF task = "failed" THEN commands' = <<>> /\ new_writer
                          ELSE UNCHANGED <<commands, writer>>
    /\ UNCHANGED <<source, reader, command, channel, seen, resets>>

-----------------------------------------------------------------------------
(* read and read_frame. *)

\* MUTANT of is_complete: read hands out its events as they come.
is_complete_at_once == events # <<>>

is_complete == events # <<>> /\ Last(events) = SYN

Reads == task = "reading" /\ command = NoCommand

\* MUTANT of has_event: what libevdev has queued is looked at only when the
\* kernel has more.
has_event_of_kernel == kernel # <<>>

\* has_pending_event, or the file becomes readable.
has_event == libevdev # <<>> \/ kernel # <<>>

ReadEvent ==
    /\ Reads
    /\ writing = NoRaw
    /\ ~is_complete
    /\ has_event
    /\ LET e == Head(readable) IN
       /\ e # DROPPED
       /\ libevdev' = Tail(readable)
       /\ kernel' = unread
       /\ key_state' = update_key_state(key_state, e)
       /\ events' = IF IsRaw(e) \/ e = REPEAT THEN events ELSE Append(events, e)
       /\ writing' = IF IsRaw(e) THEN e.raw ELSE NoRaw
    /\ UNCHANGED <<held, raws, frame, passed, writer, task, commands, command, channel,
                   seen, resets>>

\* write_raw, at once or resumed.
PassRaw ==
    /\ Reads
    /\ writing # NoRaw
    /\ passed' = writing
    /\ writing' = NoRaw
    /\ UNCHANGED <<source, libevdev, key_state, events, frame, writer, task, commands,
                   command, channel, seen, resets>>

\* read returns the first event to read_frame, which returns at the end of the frame.
TakeEvent ==
    /\ Reads
    /\ is_complete
    /\ events' = Tail(events)
    /\ IF Head(events) = SYN
       THEN /\ report("sending")
            /\ seen' = keys_after(seen, frame)
            /\ frame' = <<>>
       ELSE /\ frame' = Append(frame, Head(events))
            /\ UNCHANGED <<task, channel, seen>>
    /\ UNCHANGED <<source, libevdev, key_state, writing, passed, writer, commands,
                   command, resets>>

\* libevdev throws away what it has and what the kernel has, and asks for the keys.
recover_input_loss ==
    /\ events' = <<>> /\ writing' = NoRaw
    /\ libevdev' = <<>> /\ kernel' = <<>>
    /\ key_state' = held

InputLost ==
    /\ Reads
    /\ writing = NoRaw
    /\ ~is_complete
    /\ has_event
    /\ Head(readable) = DROPPED
    /\ recover_input_loss
    /\ report("lost")
    /\ seen' = key_state'
    /\ frame' = <<>>
    /\ passed' = raws
    /\ UNCHANGED <<held, raws, writer, commands, command, resets>>

\* The device is gone, or a raw event cannot be written.
ReadFails ==
    /\ Reads
    /\ report("failed")
    /\ frame' = <<>>
    /\ UNCHANGED <<source, libevdev, key_state, events, writing, passed, writer, commands,
                   command, seen, resets>>

-----------------------------------------------------------------------------
(* Commands. *)

\* read_frame waits, or has not been polled yet.
yields ==
    \/ writing # NoRaw
    \/ ~is_complete /\ libevdev = <<>>
    \/ events = <<>> /\ frame = <<>>

\* MUTANT of drop_read: the unknown event is not kept in the Interceptor.
drop_read_with_raw == frame' = <<>> /\ writing' = NoRaw

\* select! drops the future that waits.
drop_read == frame' = <<>> /\ UNCHANGED writing

TakeCommand ==
    /\ command = NoCommand
    /\ commands # <<>>
    /\ \/ task = "reading" /\ yields
       \/ task = "resetting"
    /\ drop_read
    /\ command' = Head(commands)
    /\ commands' = Tail(commands)
    /\ IF Head(commands).kind = "reset" THEN UNCHANGED writer
       ELSE start_write(Head(commands))
    /\ UNCHANGED <<source, libevdev, key_state, events, passed, task, channel, seen, resets>>

\* write_frame, and a key state that needs no event.
WriteCommand ==
    /\ command.kind \in {"events", "keys"}
    /\ \/ write_event
       \/ writing_frame = NoWrite /\ UNCHANGED writer
    /\ command' = IF writing_frame' = NoWrite THEN NoCommand ELSE command
    /\ UNCHANGED <<source, reader, task, commands, channel, seen, resets>>

ResetWriter ==
    /\ command.kind = "reset"
    /\ new_writer
    /\ task' = "reading"
    /\ command' = NoCommand
    /\ UNCHANGED <<source, reader, commands, channel, seen, resets>>

\* MUTANT of CommandFails: the task reports the failure and goes on.
CommandFails_and_continues ==
    /\ command # NoCommand
    /\ channel' = Append(channel, "failed")
    /\ command' = NoCommand
    /\ writing_frame' = NoWrite
    /\ UNCHANGED <<source, reader, pressed_keys, node_keys, task, commands, seen, resets>>

\* A frame stays as far as it was written; reset_writer has dropped the old writer.
CommandFails ==
    /\ command # NoCommand
    /\ report("failed")
    /\ command' = NoCommand
    /\ IF command.kind = "reset" THEN new_writer
       ELSE writing_frame' = NoWrite /\ UNCHANGED <<pressed_keys, node_keys>>
    /\ UNCHANGED <<source, reader, commands, seen, resets>>

-----------------------------------------------------------------------------
(* The server. *)

Receive ==
    /\ channel # <<>>
    /\ channel' = Tail(channel)
    /\ resets' = IF Head(channel) = "lost" THEN resets + 1 ELSE resets
    /\ UNCHANGED <<source, reader, writer, task, commands, command, seen>>

Command ==
    /\ task # "ended"
    /\ Len(commands) < COMMANDS
    /\ resets = 0
    /\ \E u \in ServerUpdate : commands' = Append(commands, u)
    /\ UNCHANGED <<source, reader, writer, task, command, channel, seen, resets>>

\* The server answers a loss before it goes on.
AnswerLoss ==
    /\ resets > 0
    /\ IF task = "ended" THEN UNCHANGED commands
       ELSE Len(commands) < COMMANDS /\ commands' = Append(commands, Reset(device))
    /\ resets' = resets - 1
    /\ UNCHANGED <<source, reader, writer, task, command, channel, seen>>

ReadStep == ReadEvent \/ PassRaw \/ TakeEvent \/ InputLost

Next ==
    \/ Emit
    \/ ReadStep \/ ReadFails \/ Sent
    \/ TakeCommand \/ WriteCommand \/ ResetWriter \/ CommandFails
    \/ Receive \/ Command \/ AnswerLoss

(* A task that can go on does.  Its select! polls its arms in random order, *)
(* so input that can be read again and again is.  The server always comes   *)
(* back to its channels (HandlersEnd of Server).                            *)
Fairness ==
    /\ SF_vars(ReadStep)
    /\ WF_vars(Sent)
    /\ SF_vars(TakeCommand)
    /\ WF_vars(WriteCommand \/ ResetWriter)
    /\ WF_vars(Receive) /\ WF_vars(AnswerLoss)

Spec == Init /\ [][Next]_vars /\ Fairness

-----------------------------------------------------------------------------
buffered == libevdev \o kernel

\* The device works, and nothing is known to be lost.
intact == task \notin {"failed", "ended"} /\ ~Contains(buffered, DROPPED)

(* The keys by what was sent, with what is still to be read, are those that *)
(* are held: no event is lost, doubled or overtaken on its way through the  *)
(* kernel, libevdev and the Interceptor, however often read is dropped,     *)
(* unless the kernel has dropped events; then the server gets the keys anew.*)
InputAccounted ==
    intact =>
        /\ keys_after(seen, frame \o events) = key_state
        /\ keys_after(key_state, buffered) = held

(* The number of the last unknown event, if they come in the order in which *)
(* they are numbered.                                                       *)
follow(n, e) ==
    IF ~IsRaw(e) THEN n ELSE IF n # NoRaw /\ e.raw = next(n) THEN e.raw ELSE NoRaw

unwritten == IF writing = NoRaw THEN <<>> ELSE <<raw(writing)>>

(* Every unknown event is written to the copy once and in its order, also   *)
(* if read is dropped while it waits to write it.                           *)
RawPassedOnce ==
    intact => FoldLeft(follow, passed, unwritten \o buffered) = raws

(* pressed_keys is what is down at the copy whenever the task may take a    *)
(* command: a key state is never worked out from a frame that was written   *)
(* in part.                                                                 *)
KeysMirrorNode ==
    command = NoCommand /\ task \notin {"failed", "ended"} => pressed_keys = node_keys

(* A key state never shows a shortcut that nobody typed: an ordinary key    *)
(* goes down only under the modifiers it is to have, and a modifier goes up *)
(* only after the ordinary keys that are to go up.                          *)
NoAccidentalShortcut ==
    [][command.kind = "keys" =>
          /\ node_keys' \ node_keys \subseteq Modifier
                \/ node_keys \cap Modifier = command.keys \cap Modifier
          /\ node_keys \cap Modifier \subseteq node_keys'
                \/ node_keys \ Modifier \subseteq command.keys]_vars

(* Input that has come in leads to a frame or the report of a loss, unless  *)
(* the device fails.                                                        *)
InputReported == has_event ~> task # "reading"

(* Event by event, the task does what DeviceTask says of it; a command      *)
(* counts as in its channel until it is carried out.                        *)
Task == INSTANCE DeviceTask WITH
    task          <- [d \in {device} |-> task],
    activation_id <- [d \in {device} |-> 1],
    commands      <- [d \in {device} |->
                         (IF command = NoCommand THEN <<>> ELSE <<command>>) \o commands],
    local_keys    <- [d \in {device} |-> pressed_keys],
    events        <- [i \in DOMAIN channel |->
                         [device |-> device, activation_id |-> 1, result |-> channel[i]]]

ServerOfTask == Receive \/ Command \/ AnswerLoss

ImplementsDeviceTask ==
    [][\/ Task!read_frame(device) \/ Task!sent(device) \/ Task!handle_device_command(device)
       \/ ServerOfTask]_(Task!tasks)
=============================================================================
