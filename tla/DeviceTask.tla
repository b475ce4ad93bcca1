----------------------------- MODULE DeviceTask -----------------------------
(***************************************************************************)
(* The task that owns a source device (rkvm-server/src/server.rs, run and  *)
(* reset_local_device): it reads frames from the device and sends them to  *)
(* the server over one channel shared by all devices, and it carries out   *)
(* the server's commands on the local copy of the device.                  *)
(*                                                                         *)
(* Sending is part of the arm of the select! that read the frame: a task   *)
(* that waits for room in the events channel does not handle commands.     *)
(* The content of a frame is chosen when the server handles it.            *)
(***************************************************************************)
EXTENDS Updates, Naturals, FiniteSets

CONSTANTS
    COMMANDS,   \* capacity of a task's command channel, 32 in the source
    EVENTS      \* capacity of the events channel, 1 in the source

ASSUME ChannelAssumption ==
    /\ COMMANDS \in Nat \ {0} /\ EVENTS \in Nat \ {0}
    /\ IsFiniteSet(Device)

VARIABLES
    task,           \* device -> what its task is doing
    activation_id,  \* device -> the activation its latest task belongs to
    commands,       \* device -> the commands its task has not yet received
    local_keys,     \* device -> pressed_keys of the local copy's writer
    events          \* [device, activation_id, result] not yet received, in order

tasks == <<task, activation_id, commands, local_keys, events>>

(* The frame a task read, or the error it met, is already in events: among  *)
(* the first EVENTS it is in the channel, behind them its task waits for    *)
(* room, in order of arrival (tokio's channels are fair).  The task goes on *)
(* when it does not wait any more: after "sending" it reads, after "lost"   *)
(* it waits for its Reset, after "failed" it ends, which drops its receiver.*)
TaskState == {"none", "reading", "sending", "lost", "resetting", "failed", "ended"}

TaskInit ==
    /\ task = [d \in Device |-> "none"]
    /\ activation_id = [d \in Device |-> 0]
    /\ commands = [d \in Device |-> <<>>]
    /\ local_keys = [d \in Device |-> {}]
    /\ events = <<>>

(* The messages of senders that still wait, and where that of a task is.    *)
waiting        == SubSeq(events, EVENTS + 1, Len(events))
waits_at(d, i) == i > EVENTS /\ events[i].device = d

waits(d) == \E i \in DOMAIN events : waits_at(d, i)

\* MUTANT of report: a failure is not reported.
report_but_failure(d, result) ==
    /\ task' = [task EXCEPT ![d] = result]
    /\ events' = IF result = "failed" THEN events
                 ELSE Append(events, [device |-> d, activation_id |-> activation_id[d],
                                      result |-> result])

\* The task calls send on the events channel.
report(d, result) ==
    /\ task' = [task EXCEPT ![d] = result]
    /\ events' = Append(events, [device |-> d, activation_id |-> activation_id[d],
                                 result |-> result])

\* A frame of events, Frame::InputLost, or an error.
read_frame(d) ==
    /\ task[d] = "reading"
    /\ \E result \in {"sending", "lost", "failed"} : report(d, result)
    /\ UNCHANGED <<activation_id, commands, local_keys>>

\* The send returns.
sent(d) ==
    /\ task[d] \in {"sending", "lost", "failed"}
    /\ ~waits(d)
    /\ task' = [task EXCEPT ![d] = CASE @ = "sending" -> "reading"
                                     [] @ = "lost"    -> "resetting"
                                     [] @ = "failed"  -> "ended"]
    /\ commands' = [commands EXCEPT ![d] = IF task[d] = "failed" THEN <<>> ELSE @]
    /\ local_keys' = [local_keys EXCEPT ![d] = IF task[d] = "failed" THEN {} ELSE @]
    /\ UNCHANGED <<activation_id, events>>

\* The command fails: its error is sent, and no further command is handled.  A
\* reset has dropped the old writer by then.
command_fails(d) ==
    /\ report(d, "failed")
    /\ commands' = [commands EXCEPT ![d] = Tail(@)]
    /\ local_keys' = [local_keys EXCEPT ![d] =
                         IF Head(commands[d]).kind = "reset" THEN {} ELSE @]
    /\ UNCHANGED activation_id

handle_device_command(d) ==
    /\ task[d] \in {"reading", "resetting"}
    /\ commands[d] # <<>>
    /\ \/ /\ commands' = [commands EXCEPT ![d] = Tail(@)]
          /\ local_keys' = [local_keys EXCEPT ![d] = written(@, Head(commands[d]))]
          /\ task' = [task EXCEPT ![d] = IF Head(commands[d]).kind = "reset"
                                         THEN "reading" ELSE @]
          /\ UNCHANGED <<activation_id, events>>
       \/ command_fails(d)

(* The task still handles commands, now or once its frame has been sent.   *)
handles_commands(d) == task[d] \in {"reading", "sending", "lost", "resetting"}

(* What the server does to a task. *)
spawn(d, id) ==
    /\ task' = [task EXCEPT ![d] = "reading"]
    /\ activation_id' = [activation_id EXCEPT ![d] = id]

abort(d) ==
    /\ task' = [task EXCEPT ![d] = "none"]
    /\ commands' = [commands EXCEPT ![d] = <<>>]
    /\ local_keys' = [local_keys EXCEPT ![d] = {}]
    /\ \/ ~waits(d) /\ UNCHANGED events
       \/ \E i \in DOMAIN events : waits_at(d, i) /\ events' = RemoveAt(events, i)

is_closed(d) == task[d] = "ended"
is_full(d)   == Len(commands[d]) >= COMMANDS
=============================================================================
