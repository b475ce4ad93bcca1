------------------------------- MODULE Server -------------------------------
(***************************************************************************)
(* The loop of rkvm-server/src/server.rs (run) with the tasks it serves.   *)
(* It waits in select! for a connection, an authenticated client, an event *)
(* of the device monitor or of a device task, and handles one to the end   *)
(* before it waits again.                                                  *)
(*                                                                         *)
(* A handler is a sequence of steps, because clients disconnect and tasks  *)
(* proceed between them: todo holds the steps that are still to be done,   *)
(* in order; those in one set are done in any order (they come from a      *)
(* HashMap, or concern different clients).  While a frame is processed the *)
(* routing actions it causes accumulate in todo, and its events in         *)
(* frame.pending; nothing is dispatched before the frame ends.             *)
(***************************************************************************)
EXTENDS Router, DeviceTask, ClientSession

CONSTANTS
    FRAME,          \* bound: key events in one frame
    ACTIVATIONS     \* bound: activations of devices

ASSUME BoundAssumption == FRAME \in Nat /\ ACTIVATIONS \in Nat

VARIABLES
    devices,        \* the slab of devices
    todo,           \* what the current handler has still to do
    frame,          \* the frame being processed, or NoFrame
    activations,    \* activation ids given out by the monitor
    released,       \* activations reported back to the monitor as released
    running         \* FALSE once run has returned an error

vars == <<router, tasks, sessions, devices, todo, frame, activations, released, running>>

NoFrame == [events |-> 0]
Waiting == todo = <<>> /\ frame = NoFrame

-----------------------------------------------------------------------------
(* The steps of handlers. *)

send(c, u)   == [op |-> "send", route |-> c, update |-> u]
local(u)     == [op |-> "local", route |-> 0, update |-> u]
emit(r, u)   == IF r = 0 THEN local(u) ELSE send(r, u)
step(op)     == [op |-> op]
about(op, d) == [op |-> op, device |-> d]

Clients        == available_routes \ {0}
broadcast(u)   == {send(c, u) : c \in Clients}
stabilize      == <<{step("stabilize")}>>
batch(steps)   == IF steps = {} THEN <<>> ELSE <<steps>>

(* The routing actions of reconcile_all, reconcile_device and flush_events. *)
handoff_actions ==
    batch({emit(r, SetKeyState(d, {})) :
              r \in available_routes \ {current'}, d \in devices})
    \o batch({emit(r, SetKeyState(d, handoff_keys(d)')) :
                 r \in available_routes \cap {current'}, d \in devices})

recovery_actions(d) ==
    <<{emit(r, SetKeyState(d, IF r = current THEN recovery_keys(d)' ELSE {})) :
          r \in available_routes}>>

\* others: there are events other than of keys (motion, wheels, ...) to flush.
flush_events(r, d, pending, others) ==
    IF pending = <<>> /\ ~others THEN <<>> ELSE <<{emit(r, Events(d, pending))}>>

\* MUTANT of destroy_device: the grab is released before the task is gone.
destroy_device_released_first(d) ==
    batch(broadcast(DestroyDevice(d)))
    \o <<{[op |-> "release", activation_id |-> activation_id[d]]}>>
    \o <<{about("abort", d)}>> \o <<{about("forget", d)}>> \o stabilize

(* destroy_device, and the release of what it returns. *)
destroy_device(d) ==
    batch(broadcast(DestroyDevice(d)))
    \o <<{about("abort", d)}>> \o <<{about("forget", d)}>> \o stabilize
    \o <<{[op |-> "release", activation_id |-> activation_id[d]]}>>

-----------------------------------------------------------------------------
Init ==
    /\ RouterInit
    /\ TaskInit
    /\ ClientInit
    /\ devices = {}
    /\ todo = <<>>
    /\ frame = NoFrame
    /\ activations = 0
    /\ released = {}
    /\ running = TRUE

-----------------------------------------------------------------------------
(* The arms of select!. *)

\* A connection is accepted and begins to authenticate.
Accept ==
    /\ Waiting
    /\ todo' = <<{step("sweep")}>> \o stabilize
    /\ UNCHANGED <<router, tasks, sessions, devices, frame, activations, released>>

Authenticated ==
    /\ Waiting
    /\ \E c \in Client : session[c] \in {"vacant", "closed"}
    /\ todo' = <<{step("sweep")}>> \o stabilize \o <<{step("insert")}>>
    /\ UNCHANGED <<router, tasks, sessions, devices, frame, activations, released>>

\* The monitor hands over a grabbed device.
Activated ==
    /\ Waiting
    /\ activations < ACTIVATIONS
    /\ activations' = activations + 1
    /\ \E d \in Device \ devices :
          todo' = batch(broadcast(CreateDevice(d))) \o <<{about("add", d)}>>
    /\ UNCHANGED <<router, tasks, sessions, devices, frame, released>>

\* The monitor reports that a device is gone; a stale report is ignored.
Removed ==
    /\ Waiting
    /\ \E d \in devices :
          /\ devices' = devices \ {d}
          /\ todo' = destroy_device(d)
    /\ UNCHANGED <<router, tasks, sessions, frame, activations, released>>

\* MUTANT of is_current_device_event: only the slot is looked at.
is_current_slot(e) == e.device \in devices

is_current_device_event(e) ==
    e.device \in devices /\ e.activation_id = activation_id[e.device]

Receive ==
    /\ Waiting
    /\ events # <<>>
    /\ events' = Tail(events)
    /\ LET e == Head(events)
           d == e.device
       IN  \/ /\ ~is_current_device_event(e)
              /\ UNCHANGED <<todo, frame, devices>>
           \/ /\ is_current_device_event(e)
              /\ \/ /\ e.result = "sending"
                    /\ frame' = [device |-> d, events |-> 0, pending |-> <<>>]
                    /\ UNCHANGED <<todo, devices>>
                 \/ /\ e.result = "lost"
                    /\ todo' = batch(broadcast(DestroyDevice(d)))
                                 \o batch(broadcast(CreateDevice(d)))
                                 \o <<{about("reset", d)}>>
                    /\ UNCHANGED <<frame, devices>>
                 \/ /\ e.result = "failed"
                    /\ devices' = devices \ {d}
                    /\ todo' = destroy_device(d)
                    /\ UNCHANGED frame
    /\ UNCHANGED <<router, task, activation_id, commands, local_keys, sessions,
                   activations, released>>

-----------------------------------------------------------------------------
(* Router::process_frame, one key event at a time, FRAME of them at most. *)

event(d, k) == IF Down(d, k) THEN press(k) ELSE release(k)

\* Router::process_frame keeps what was pending when it moves to a new route.
KeyPress(k) ==
    LET d == frame.device IN
    /\ frame # NoFrame
    /\ frame.events < FRAME
    /\ \/ /\ BlockedKey(d, k) \/ ActiveTriggerKey(d, k) \/ WithheldKey(d, k)
          /\ frame' = [frame EXCEPT !.events = @ + 1]
          /\ UNCHANGED todo
       \/ /\ ForwardedKey(d, k)
          /\ frame' = [frame EXCEPT !.events = @ + 1,
                                    !.pending = Append(@, event(d, k))]
          /\ UNCHANGED todo
       \/ /\ SwitchKey(d, k, available_routes)
          /\ frame' = [frame EXCEPT !.events = @ + 1, !.pending = <<>>]
          /\ \E others \in BOOLEAN :
                todo' = todo
                    \o flush_events(current, d,
                                    IF k \in withheld THEN frame.pending
                                    ELSE Append(frame.pending, press(k)), others)
                    \o handoff_actions
    /\ UNCHANGED <<tasks, sessions, devices, activations, released>>

\* MUTANT of FrameEnd: a route lost while the frame was sent is not noticed.
FrameEnd_without_stabilize ==
    /\ frame # NoFrame
    /\ frame' = NoFrame
    /\ \E others \in BOOLEAN :
          todo' = todo \o flush_events(current, frame.device, frame.pending, others)
    /\ UNCHANGED <<router, tasks, sessions, devices, activations, released>>

FrameEnd ==
    /\ frame # NoFrame
    /\ frame' = NoFrame
    /\ \E others \in BOOLEAN :
          todo' = todo \o flush_events(current, frame.device, frame.pending, others)
                       \o stabilize
    /\ UNCHANGED <<router, tasks, sessions, devices, activations, released>>

-----------------------------------------------------------------------------
(* One step of a handler.  rest is what is to be done after it. *)

Sweep(rest) ==
    /\ todo' = batch({[op |-> "remove", client |-> c] : c \in closed_clients}) \o rest
    /\ UNCHANGED <<router, tasks, sessions, devices>>

RemoveClient(c, rest) ==
    /\ remove_clients({c})
    /\ todo' = rest
    /\ UNCHANGED <<router, tasks, devices>>

Stabilize(rest) ==
    /\ \/ /\ current \in available_routes
          /\ todo' = rest
          /\ UNCHANGED router
       \/ /\ retain_routes(available_routes)
          /\ todo' = handoff_actions \o stabilize \o rest
    /\ UNCHANGED <<tasks, sessions, devices>>

\* MUTANT of Insert: the client is not told of the devices there are.
Insert_without_devices(rest) ==
    /\ \E c \in Client : insert_client(c)
    /\ todo' = stabilize \o rest
    /\ UNCHANGED <<router, tasks, devices>>

\* Authenticated clients learn of the devices there are.
Insert(rest) ==
    /\ \E c \in Client :
          /\ insert_client(c)
          /\ todo' = batch({send(c, CreateDevice(d)) : d \in devices})
                        \o stabilize \o rest
    /\ UNCHANGED <<router, tasks, devices>>

Send(c, u, rest) ==
    /\ try_send_update(c, u)
    /\ todo' = rest
    /\ UNCHANGED <<router, tasks, devices>>

\* MUTANT of Local: a full channel is ignored too.
Local_or_skip(u, rest) ==
    /\ commands' = IF u.device \in devices /\ ~is_closed(u.device) /\ ~is_full(u.device)
                   THEN [commands EXCEPT ![u.device] = Append(@, u)]
                   ELSE commands
    /\ todo' = rest
    /\ UNCHANGED <<router, task, activation_id, local_keys, events, sessions, devices>>

\* A closed channel is ignored: the task's error is on its way.
Local(u, rest) ==
    /\ u.device \in devices /\ ~is_closed(u.device) => ~is_full(u.device)
    /\ commands' = IF u.device \in devices /\ ~is_closed(u.device)
                   THEN [commands EXCEPT ![u.device] = Append(@, u)]
                   ELSE commands
    /\ todo' = rest
    /\ UNCHANGED <<router, task, activation_id, local_keys, events, sessions, devices>>

\* The server gives up when a device's task does not keep up.
Overflow(u) ==
    /\ u.device \in devices
    /\ ~is_closed(u.device)
    /\ is_full(u.device)
    /\ running' = FALSE
    /\ UNCHANGED <<router, tasks, sessions, devices, todo, frame, activations, released>>

\* The task is spawned, the device registered and what it holds restored.
Add(d, rest) ==
    /\ spawn(d, activations)
    /\ devices' = devices \cup {d}
    /\ \E pressed \in SUBSET Key : add_device(d, pressed)
    /\ todo' = recovery_actions(d) \o stabilize \o rest
    /\ UNCHANGED <<commands, local_keys, events, sessions>>

\* The send of Reset waits for room.  If the task has ended, so does the device.
ResetTask(d, rest) ==
    \/ /\ is_closed(d)
       /\ devices' = devices \ {d}
       /\ todo' = destroy_device(d) \o rest
       /\ UNCHANGED <<router, tasks, sessions>>
    \/ /\ ~is_closed(d)
       /\ ~is_full(d)
       /\ commands' = [commands EXCEPT ![d] = Append(@, Reset(d))]
       /\ \E pressed \in SUBSET Key : reset_device(d, pressed)
       /\ todo' = recovery_actions(d) \o stabilize \o rest
       /\ UNCHANGED <<task, activation_id, local_keys, events, sessions, devices>>

\* The task is aborted and awaited, which drops the grab and the local copy.
Abort(d, rest) ==
    /\ abort(d)
    /\ todo' = rest
    /\ UNCHANGED <<router, activation_id, sessions, devices>>

Forget(d, rest) ==
    /\ remove_device(d)
    /\ todo' = rest
    /\ UNCHANGED <<tasks, sessions, devices>>

Release(id, rest) ==
    /\ released' = released \cup {id}
    /\ todo' = rest
    /\ UNCHANGED <<router, tasks, sessions, devices>>

HandlerStep ==
    /\ frame = NoFrame
    /\ todo # <<>>
    /\ \E s \in Head(todo) :
          LET rest == batch(Head(todo) \ {s}) \o Tail(todo) IN
          \/ /\ \/ s.op = "sweep" /\ Sweep(rest)
                \/ s.op = "remove" /\ RemoveClient(s.client, rest)
                \/ s.op = "stabilize" /\ Stabilize(rest)
                \/ s.op = "insert" /\ Insert(rest)
                \/ s.op = "send" /\ Send(s.route, s.update, rest)
                \/ s.op = "local" /\ Local(s.update, rest)
                \/ s.op = "add" /\ Add(s.device, rest)
                \/ s.op = "reset" /\ ResetTask(s.device, rest)
                \/ s.op = "abort" /\ Abort(s.device, rest)
                \/ s.op = "forget" /\ Forget(s.device, rest)
             /\ UNCHANGED <<frame, activations, released, running>>
          \/ /\ s.op = "release"
             /\ Release(s.activation_id, rest)
             /\ UNCHANGED <<frame, activations, running>>
          \/ s.op = "local" /\ Overflow(s.update)

-----------------------------------------------------------------------------
ServerStep ==
    \/ Accept \/ Authenticated \/ Activated \/ Removed \/ Receive
    \/ \E k \in Key : KeyPress(k)
    \/ FrameEnd

TaskStep(d) == read_frame(d) \/ sent(d) \/ handle_device_command(d)

ClientStep(c) == run_once(c) \/ disconnect(c)

\* When run returns, the process exits and everything stops with it.
Stopped == ~running /\ UNCHANGED vars

Next ==
    \/ running /\ running' = running /\ ServerStep
    \/ running /\ HandlerStep
    \/ /\ running
       /\ \/ (\E d \in Device : TaskStep(d)) /\ UNCHANGED sessions
          \/ (\E c \in Client : ClientStep(c)) /\ UNCHANGED tasks
       /\ UNCHANGED <<router, devices, todo, frame, activations, released, running>>
    \/ Stopped

(* The server's own steps follow each other without waiting, and a send     *)
(* that has got its room returns.  select! picks its arms at random, so a    *)
(* message that can be received again and again is.  Nothing is assumed of   *)
(* devices, the network or clients.                                          *)
Proceeds ==
    /\ running /\ running' = running
    /\ FrameEnd

Others(d) ==
    /\ running
    /\ UNCHANGED <<router, sessions, devices, todo, frame, activations, released, running>>

Fairness ==
    /\ WF_vars(running /\ HandlerStep)
    /\ WF_vars(Proceeds)
    /\ SF_vars(running /\ running' = running /\ Receive)
    /\ \A d \in Device : /\ WF_vars(sent(d) /\ Others(d))
                         /\ SF_vars(handle_device_command(d) /\ Others(d))

Spec == Init /\ [][Next]_vars

FairSpec == Spec /\ Fairness

-----------------------------------------------------------------------------
(* The effective state of the outputs: what they will show once everything *)
(* sent to them and still to be sent by the current handler is carried out.*)

handled(d) == {about(op, d) : op \in {"reset", "abort", "forget"}}

Suspended == {d \in Device : \E i \in DOMAIN todo : todo[i] \cap handled(d) # {}}

Outlet == Client \cup {0}

\* What the copies hold once all that is in their queue or channel is carried out.
received ==
    [r \in Outlet |-> [d \in Device |->
        IF r = 0 THEN FoldLeft(written, local_keys[d], commands[d])
        ELSE LET copies == FoldLeft(carried_out, writers[r], queue[r])
             IN  IF d \in DOMAIN copies THEN copies[d] ELSE {}]]

updates(s, r, d) == s.op \in {"send", "local"} /\ s.route = r /\ s.update.device = d

\* What a batch adds to that; no two of its steps update the same copy.
dispatched(held, steps) ==
    [r \in Outlet |-> [d \in Device |->
        LET mine == {s \in steps : updates(s, r, d)}
        IN  IF mine = {} THEN held[r][d]
            ELSE written(held[r][d], (CHOOSE s \in mine : TRUE).update)]]

\* The key events for device d on route r that the frame has ready.
ready(r, d) == IF frame # NoFrame /\ frame.device = d /\ r = current THEN frame.pending ELSE <<>>

has_copies(r) == IF r = 0 THEN {d \in Device : handles_commands(d)}
                 ELSE {d \in Device : session[r] # "vacant"}

effective ==
    LET held == FoldLeft(dispatched, received, todo)
    IN  [r \in Outlet |-> [d \in Device |->
            IF d \in has_copies(r) THEN keys_after(held[r][d], ready(r, d)) ELSE {}]]

(* The loop, its tasks and its channels together do what RoutedOutputs      *)
(* says: the actions of the router reach every output whole and in order,   *)
(* whichever clients and tasks are lost on the way.                         *)
Outputs == INSTANCE RoutedOutputs WITH
    Route     <- Outlet,
    devices   <- devices \cup Suspended,
    live      <- {d \in Device : handles_commands(d)},
    suspended <- Suspended,
    routes    <- available_routes,
    out       <- effective

ImplementsRoutedOutputs == Outputs!Spec

-----------------------------------------------------------------------------
Step ==
    {"sweep", "stabilize", "insert", "send", "local", "remove", "add", "reset",
     "abort", "forget", "release"}

ServerTypeOK ==
    /\ task \in [Device -> TaskState]
    /\ activation_id \in [Device -> 0 .. ACTIVATIONS]
    /\ \A d \in Device : Len(commands[d]) <= COMMANDS /\ local_keys[d] \subseteq Key
    /\ Len(waiting) <= Cardinality(Device)
    /\ session \in [Client -> {"vacant", "open", "closed"}]
    /\ \A c \in Client : Len(queue[c]) <= QUEUE /\ DOMAIN writers[c] \subseteq Device
    /\ devices \subseteq Device
    /\ \A i \in DOMAIN todo : todo[i] # {} /\ \A s \in todo[i] : s.op \in Step
    /\ frame # NoFrame => frame.events <= FRAME /\ frame.device \in devices
    /\ activations \in 0 .. ACTIVATIONS
    /\ released \subseteq 1 .. ACTIVATIONS
    /\ running \in BOOLEAN

(* run_once of the client refuses no update that the server sends: no      *)
(* second copy of a device, no event for a device it has no copy of,       *)
(* whatever was reset, removed or added in the meantime.                   *)
NothingRefused ==
    \A c \in Client :
        session[c] = "open" /\ queue[c] # <<>> => accepts(writers[c], Head(queue[c]))

(* Whenever the server waits, every client in the slab has been sent        *)
(* exactly the devices there are.                                           *)
ClientsKnowDevices ==
    Waiting => \A c \in Clients :
        DOMAIN FoldLeft(carried_out, writers[c], queue[c]) = devices

(* Whenever the server waits, the input goes to an output that is there,    *)
(* and switching from it leads to one that is there.                        *)
InputHasRoute == Waiting => current \in available_routes

(* Only a task that has lost input is told to replace its local copy, and   *)
(* only once per loss: the Reset always answers the InputLost of the same   *)
(* activation.                                                              *)
ResetAnswersLoss ==
    \A d \in Device : \A i \in DOMAIN commands[d] :
        commands[d][i].kind = "reset" =>
            /\ task[d] \in {"lost", "resetting", "failed"}
            /\ \A j \in DOMAIN commands[d] : commands[d][j].kind = "reset" => j = i

(* The grab of a device is reported as released only when its task, which   *)
(* owns the grab, is gone, and when no client has or will be sent a copy    *)
(* of that activation (the comment in destroy_device).                      *)
ReleasedIsGone ==
    [][\A id \in released' \ released :
          /\ \A d \in Device : task[d] # "none" => activation_id[d] # id
          /\ \A c \in Clients :
                DOMAIN FoldLeft(carried_out, writers[c], queue[c]) = devices]_vars

(* Every handler comes to its end: the server waits for input again.        *)
HandlersEnd == todo # <<>> ~> (todo = <<>> \/ ~running)

(* A device that failed is released, so that the monitor can take it again  *)
(* ("Input device failed; other devices remain active", server.rs:343).     *)
FailedIsReleased ==
    \A d \in Device : task[d] = "failed" ~> (task[d] = "none" \/ ~running)
=============================================================================
