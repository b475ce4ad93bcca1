# rkvm in TLA+

rkvm shares keyboards and mice between machines. The server grabs the input
devices of one machine and sends what the user does to one *output* at a time:
the machine itself or a client. A key combination switches to the next output.

This directory specifies the parts of rkvm that hold state over time: which
output gets which key, how the server's loop, its device tasks and its clients
work together, how a device is read and written, how a connection lives and
ends, and how the monitor takes and gives back devices; and, of what holds no
state, what the configuration and the key tables make of the former. The TLC
runs check small instances; the proofs hold for every value of the constants.
Paths are relative to the repository; `server.rs` means
`rkvm-server/src/server.rs`, and so on.

## 1. The system

### Components

| Component | State it keeps | Operations | Modules |
|---|---|---|---|
| Router (`rkvm-server/src/routing.rs`) | current route, active binding, held and blocked keys of every device | `process_frame`, `add_device`, `reset_device`, `remove_device`, `retain_routes` | `Router`, `RoutedOutputs` |
| Server loop (`rkvm-server/src/server.rs`, `run`) | slabs of devices and clients, the router, activation ids | the arms of `select!`: connection, authenticated client, activated or removed device, event of a device | `Server` |
| Device task (`server.rs`, spawned in `run`; `reset_local_device`) | the grabbed device, its local copy, its command channel | read a frame, send it, carry out a command, replace the copy after a loss | `DeviceTask`, `Interceptor` |
| Interceptor (`rkvm-input/src/interceptor.rs`) | grabbed file, writer, two handles, read buffer, a write to be resumed | `claim`, `read`, `reset_writer`, drop | `Interceptor`, `Registry` (nodes and handles), `Capabilities` |
| Writer (`rkvm-input/src/writer.rs`) | `pressed_keys`, the cursor of a frame | `write_frame`, `set_key_state`, the builder | `Writer`, `Updates` (what they leave pressed), `Capabilities` |
| Client session on the server (`server.rs`, `authenticate`, `client`) | bounded queue of updates, interval, ping deadline | handshake, take an update and write it, ping, read a pong, end | `Session`, `ClientSession` (queue and end) |
| Client (`rkvm-client/src/client.rs`) | a writer for every device it was told of, its deadline | `run`: connect, handshake, loop, reconnect; `run_once`: create, destroy, events, key state, ping | `Session`, `ClientSession`, `Updates` |
| Authentication (`rkvm-net/src/auth.rs`, `version.rs`) | – | version, challenge, response | `Session` |
| Monitor (`rkvm-input/src/monitor.rs`) | a candidate for every device node | refresh of the inventory, reconcile, wake-up of retries, release | `Monitor` |
| Registry (`rkvm-input/src/registry.rs`) | nodes rkvm owns, the gate for creating them | `register`, dropping a handle, `lock` | `Registry` |
| Configuration (`rkvm-server/src/config.rs`, `main.rs`) | read once | bindings, device policy, their validation, `--list-devices` | `SwitchBindings`, `ConfiguredRouter`, `DevicePolicy`, `ConfiguredMonitor` |
| Key and axis tables (`rkvm-input/src/key.rs`, `key/`, `rel.rs`, `abs.rs`) | constants | `from_raw`, `to_raw` | `Capabilities`, `Input` (what kind of key a key is) |
| Encoding, TLS, certificates | nothing | – | – |

### Interactions

    kernel ──▶ Interceptor ──▶ device task ──events(1)──▶ server loop ──▶ Router
       ▲            │               ▲                        │   │           │
       │        Registry            └──────commands(32)──────┘   │  routing actions
       │            │                                            │
    Monitor ◀───────┘                                  queue(client_queue_size)
       │  ▲                                                      │
       │  └────────────releases(32)───────────────┐              ▼
       └───────────activated, removed(32)──────▶ server     client session ◀─▶ client

* Device tasks share one channel of capacity 1 to the server. The server sends
  commands to each task over a channel of capacity 32: with `try_send`, and with
  an awaited `send` for the one command `Reset`.
* A client's queue is filled with `try_send`; a client whose queue is full or
  closed is dropped in the middle of whatever the server does.
* Client and session exchange messages over one TLS stream; each read and each
  write has its timeout.
* Monitor and server exchange activations, removals and releases over two
  channels of capacity 32, both with an awaited `send`.
* Interceptors of running devices and the monitor share the registry.

### What is hard

* **Sequences of keys.** Which keys an output holds depends on the whole history
  of presses over several devices, switches, resets and lost routes.
* **Interleaving.** Between two steps of one handler of the server, clients
  disconnect, queues fill, tasks read further frames and fail.
* **Cancellation.** A task's `read_frame` is dropped at an await whenever a
  command arrives; a frame is written in parts.
* **Time.** The timeouts of client and server must fit each other, while
  messages, writes and answers take their time or never come.
* **Stale messages.** Events, removals and releases name an activation that may
  have ended while they were under way; slots of clients and devices are reused.
* **Waiting.** Two awaited sends in opposite directions can block each other.
* **Races with the kernel.** Nodes appear and vanish between a scan, a claim and
  the creation of a copy; the kernel drops events that are not read in time.

What makes each component correct:

* *Router*: an output the user left holds nothing; on the active output a key is
  down exactly when the user holds it and no gesture suppressed it; a gesture
  that nobody holds any more is forgotten; a suppressed key stays suppressed
  until it is released; a configured chord switches.
* *Server, tasks, clients*: what the router decides reaches every output whole
  and in order; clients are never sent what they refuse; handlers end; a device
  is released when, and only when, nothing of it is left.
* *Interceptor, writer*: no event is lost, doubled or split over frames; the
  writer knows what its node shows; what is forwarded can be shown.
* *Session*: who has the password gets in and nobody else; a connection that
  works is kept, one that is dead is noticed, and the client comes back.
* *Monitor, registry*: rkvm never takes its own copies; a group has one active
  device, the preferred one first; no activation is lost; devices come back.

`PROJECT.json` lists the hazards one by one, each at its line.

## 2. Modules

    Input ◀── Router ◀── RoutedOutputs ◀── RoutedOutputsProofs ◀──┐
                 ▲         ▲    ▲                                 │
                 │         │    └── ConfiguredRouter ◀── ConfiguredRouterProofs
                 │         │          │      ▲
                 │         │          │      └── MCRoutedOutputs
                 │         │          └──▶ SwitchBindings ──▶ Capabilities
                 │         └──(implements, INSTANCE)── Server ◀── MCServer, ServerProofs ◀── ServerRefinementProofs
                 └─────────────────────────────────────┘│             ┊
    Updates ◀── DeviceTask, ClientSession ◀─────────────┘             ┊
       ▲            ▲                                            FoldProofs
       │            └──(implements, INSTANCE)── Interceptor           ┊
       └── Writer ◀─────────────────────────────────┘ ▲               ┊
                                                      └── MCInterceptor, InterceptorProofs

    Session ◀── MCSession, SessionProofs
    Registry ◀── Monitor ◀── ConfiguredMonitor ──▶ DevicePolicy
                                 ▲
                                 └── MCMonitor, MonitorProofs

(An arrow leads to the module that is extended. `ServerProofs`,
`ServerRefinementProofs` and `InterceptorProofs` instantiate `FoldProofs` with the
operators they fold with.)

**`Input`** declares devices and keys and which keys are modifiers and buttons.

**`Router`** is the struct of routing.rs. `current`, `active_binding`,
`physical_keys` and `blocked_keys` are its fields (an absent map entry is the
empty set). `process_frame` handles one key event by the first of four cases that
applies, each an action here: `BlockedKey` (line 181), `ActiveTriggerKey` (204),
`SwitchKey` (217) and `OrdinaryEvent`, which is withheld or forwarded (230).
`add_device`, `reset_device`, `remove_device` and `retain_routes` are actions of
their own. Autorepeat leaves the sets as they are and is not an action.
`RouterAssumption` is what config.rs guarantees of bindings.

**`RoutedOutputs`** is the abstract specification: `out[r][d]` is what the copy
of device `d` on output `r` holds down once every routing action emitted so far
is carried out. Each operation of the router is applied to `out` at once
(`reconcile_all`, `reconcile_device`, `forward`); devices, tasks and routes come
and go as the server allows. `suspended` is the device that is being reset or
removed: its copies on clients are already gone.

**`Capabilities`** holds the tables between kernel codes and names as constants,
with what their rows have in common as assumptions (`TableAssumption`,
`AxisAssumption`): a code that is known stands for one name, whose code it is,
and lies in front of the kernel's bound. `rel_caps`, `abs_caps` and `key_caps`
are the iterators of caps.rs, `client_copy` is the device a client builds from
them, `is_known` says which events the interceptor forwards and `raw_code` under
which code the client writes them.

**`SwitchBindings`** leads from the chords of the configuration to the bindings
(`accepts` is the validation of main.rs, `build_switch_bindings` the conversion)
and back to the codes under which the kernel reports the keys. **`ConfiguredRouter`**
is `RoutedOutputs` with the bindings of a configuration.

**`Updates`** is what an update does to the keys that a copy holds (writer.rs).

**`DeviceTask`** is the spawned task. `events` is one FIFO: its first `EVENTS`
entries are in the channel, the senders of the others wait. A waiting task
handles no commands, since its send is in the arm of `select!` that read the
frame. When it is aborted while it waits, its message is never sent.

**`Writer`** writes a frame event by event: `pressed_keys` follows at the end,
`node_keys` is what the node shows meanwhile. **`Interceptor`** is one device
task with its `Interceptor` and its writer. The source's events pass a buffer of
the kernel, which drops everything when it overflows, and libevdev's queue;
known events gather in `events`, unknown ones (`raw`) are written to the copy at
once. `frame` is the local variable of `read_frame` and is lost when `select!`
drops it (`drop_read`), which can happen where read waits (`yields`). The raw
events are numbered, modulo `RAWS`, so that losing or doubling one shows. Kernel
and libevdev are modelled from how the code uses them.

**`ClientSession`** is a client's slot in the slab, its queue, and the client at
the other end. The session writes and the client reads in order, so that taking
an update and carrying it out is one step. A client that is dropped releases
what it holds when its connection ends and is not followed further.

**`Session`** is one client and the server's task for its connection, in time:
connecting, TLS, the handshake, then the client's loop with its deadline against
the server's loop with its four arms, in their `biased` order, and the task that
reads pongs. Timers hold the ticks that remain. `Tick` is possible when nothing
is `Urgent`: what can be done is done before time passes, except that a message
takes up to `LATENCY` and a write up to a stall. The connection may be cut or
broken at any moment. The client may connect anew before the server has noticed
the end of the last connection; the two share nothing, so one at a time is
modelled. The length of the client's backoff is left out.

**`Server`** composes `DeviceTask` and `ClientSession` with `Router`. A handler
is data: `todo` is a sequence of sets of steps. The sequence is the order of the
statements, a set is what goes to different clients (or comes out of a hash map)
and has no order. `HandlerStep` does one of them, so that tasks and clients move
in between. `frame` is the frame in progress: its events are handled one by one,
its routing actions gather in `todo` and are dispatched when it ends, as
`process_frame` returns them. `Overflow` is the one error that ends the process
here: a command channel that is full (line 522). Errors of the listener and the
monitor end the process as well; nothing follows them and they are left out.

**`Registry`** has the nodes that are present, the registered ones, and for every
interceptor where it is: on its way to the server, read by its task, in one of
the stages of `reset_writer`, or dropped with its handles still registered
(fields are dropped in order). Copies are numbered `Output`, a node or an
activation id is used again only when nobody knows it any more.

**`Monitor`** is `monitor.rs`: `Tick` (inotify and inventory interval),
`HandleRelease`, `Wake` (deadlines), then a scan node by node (`ScanNode`,
`ScanFails`, `Refresh`) or claims one by one (`Claim`, `ClaimFails`,
`ClaimRefused`). `Refresh` is one step since it looks at the snapshots of the
scan only; its messages stand in `mailbox`, and while more than `CHANNEL` stand
there the monitor waits in `send`. A candidate's rule stands for its group and
its place in it; what rules say of a node can change while it is there. Why a
claim fails is an errno of the source or of the copy (`ClaimError`), and
`disposition` is what reconcile makes of it. The server appears as far as the
monitor can tell: it reads messages, loses a device, destroys it and releases
it. `Server` has that side in full.

**`DevicePolicy`** leads from the configuration's whitelist or groups to the
rules of the monitor: `validate_device_policy`, `policy_rules` and `matches`
with its symbolic links; and to what `--list-devices` prints, which main.rs works
out by code of its own. Both orders, of the rules and of the printed devices, are
`in_order`: an element's place is the number of those in front of it.

**`ConfiguredMonitor`** puts the two together: `DerivedAssumption` says that the
rules given to `Monitor` are those of an accepted configuration, with every set of
rules that some movement of the links makes match a source. `MCMonitor` has the
configurations of the runs.

Constants are bounds or parameters of the program:

| Constant | Stands for |
|---|---|
| `Device`, `Client`, `Route` | slots of the slabs; route 0 is the server's machine |
| `Key`, `bindings`, `config`, `propagate_switch_keys`, `consume_switch_buttons` | the configuration |
| `NamedKey`, `to_raw`, `keyboard`, `button`, `into`, `rel_*`, `abs_*`, `*_MAX` | the tables |
| `QUEUE`, `COMMANDS`, `EVENTS`, `CHANNEL` | `client_queue_size`, 32, 1, 32 |
| `KERNEL`, `LIBEVDEV`, `SOCKET` | buffers of the kernel, libevdev and a connection |
| `PING_INTERVAL`, `READ_TIMEOUT`, `WRITE_TIMEOUT`, `TLS_TIMEOUT` | rkvm-net/src/lib.rs, in ticks |
| `Source`, `Output`, `group`, `delayed`, `ExactRules`, `SourceRules`, `CopyRules` | nodes and policy |
| `Policies`, `Infos`, `LinkStates` | the configurations, devices and links `PolicyIsListed` looks at |
| `UsedPolicy`, `UsedLinks`, `device_info` | those the rules of the run are derived from |
| `LATENCY`, `SERVER_STALL`, `CLIENT_STALL`, `RAWS`, `UserKey`, `ServerUpdate`, `FRAME`, `ACTIVATIONS`, `REMATCHES` | bounds of the model alone |

## 3. Runs

| Run | Instance | Question |
|---|---|---|
| `router` | 2 devices, 3 routes, 4 keys, a chord of a modifier and a mouse button, consumed and propagated | Do outputs hold what they should after any sequence of presses, resets and lost routes? |
| `router_stuck` | 1 device, 3 routes, 5 keys, a chord and a single-key binding | Is a key ever down that the user does not hold, and does a configured chord switch? |
| `server_lifecycle` | 2 devices, 1 client, no keys, 3 activations | Do clients and tasks agree with the server on what there is? |
| `server_implements` | 1 device, 2 clients, 1 key, fairness | Does `Server` implement `RoutedOutputs`, do handlers end, and is a failed device released? |
| `interceptor` | 1 device, 1 key of the user, 2 of the server, fairness | Does the input of a source come through whole, does the writer know its node, is the task what `DeviceTask` says? |
| `session` | 1 client, its connection, ticks of 125 ms, fairness | Do the timeouts fit each other, is a dead connection noticed, does the handshake decide? |
| `monitor` | 2 sources, 2 copies, a group of two rules and a group of one | Are claims exclusive, preferred first, never of rkvm's own nodes, never lost? |
| `monitor_progress` | 1 source, 2 copies, a group of three rules, one change of rule, fairness | Is an unplugged device given up and a plugged one taken again? Is the policy the one that is listed, also when a link moves? |
| `finding_*` | as small as shows it | Section 5 |

Why the bounds are enough to say something:

* *Router.* An operation concerns one device, the keys of one event and one
  binding; others matter only through the union of held keys. Two devices let a
  chord spread over both and one of them be reset or removed with the gesture in
  progress. Three routes give a switch that leaves, one that enters and one that
  is neither. The keys are one of each kind: modifier in the binding, trigger,
  modifier outside, ordinary key. Anyway the invariants of `router` are proved
  for every instance. The tables of names and codes have the one pair of names
  that share a code.
* *Server.* A client queue of 1 or 2 is full in the middle of a reset
  (`DestroyDevice` queued, `CreateDevice` not) and of a handoff. A command channel
  of 1 is full with a single command behind a blocked task. Three activations
  over two slots reuse a slot while an event of its earlier activation is under
  way. `server_implements` needs two clients, so that one is lost while the
  actions for the other are dispatched; it uses the single-key binding, because
  the router's own cases are covered by the runs above. The frame bound of one
  key event leaves every dispatch of a list of actions; frames with several events
  differ from several frames in what is pending at a switch only.
* *Interceptor.* The kernel's buffer holds one packet and overflows with the
  next; libevdev's queue is smaller than a packet, so that it holds part of a
  frame. A packet has a key alone, or a key after or before an unknown event.
  `RAWS` numbers suffice to tell the unknown events apart that can be under way
  at once. The server has a key state that presses a modifier with an ordinary
  key, one that releases all, and a frame.
* *Session.* The times are those of the code: an interval of 1 s and timeouts of
  500 ms, in ticks of an eighth of a second; all timers are multiples of it. A
  message takes up to 125 ms, a write of the server up to 250 ms and one of the
  client up to 125 ms. These bounds define what a connection that works is;
  `MCSession` assumes `TimesFit` of them, so that the run also evaluates what the
  proof of `NoSpuriousTimeout` asks. Two messages fill a direction, so that
  writes wait. Versions and passwords agree or not on both sides.
* *Monitor.* With two sources and two copies there are claims beside a copy that
  is being replaced, a fallback beside a preferred device in each of its states,
  and a rule that matches copies. `CHANNEL` is at least the number of devices.
  `PolicyIsListed` looks at all whitelists and groups of up to two entries over
  seven matchers (one the empty one, two of them links), six devices, and four
  states of the links; these have no part in the run's states, in which the
  devices held are compared with what is printed for the run's configuration. That
  is `monitor_progress`, where the link of the preferred rule moves while the
  device is held, and where the last rule of the group also matches and is never
  the one printed.

`CHECK_DEADLOCK FALSE` stands in `server_lifecycle` and the run that shows it
(with two devices the server really can stop, see section 5) and in
`interceptor`, where the task may end.

The runs with symmetry check safety properties only.

### Fairness

`Server!Fairness` assumes of the server's task that it goes on while it can
(`HandlerStep`, `FrameEnd`, the return of a send that has room) and that a
message which can be received again and again is received: tokio's `select!`
polls its arms in random order, and tokio's channels serve waiting senders in
order. Nothing is assumed of devices, clients or the network: they fail,
disconnect or do nothing, as they like.

`Interceptor!Fairness` is the same for one task, with the server as an
environment that comes back to its channels, which is what `HandlersEnd` shows of
it. `InputReported` needs it: input that comes in must not starve behind commands.

`Session!Fairness` lets both programs run and time pass. Only `SessionIsDecided`
has an assumption about the world, and it is in the property: from some time on,
connections work.

`Monitor!Fairness` likewise lets the monitor's loop and the server go on, gives
every arm of `select!` its turn, and lets a created writer be registered, so that
the gate (a fair tokio mutex) becomes free. One assumption is about the world: a
node that is inspected or claimed again and again is inspected or claimed with
success some time. Without it `PresentIsTaken` cannot hold, as a device may be
busy for ever.

### Properties

*Outputs* (`RoutedOutputs`): `InactiveOutputsReleased`, `OrdinaryKeysTracked`,
`SuppressedKeysSilent`, `ModifiersFollowRoute`, `ConsumedButtonsNeverShown`,
`NoStuckKeys`, `TriggerHidden`, the action property `HeldKeysStaySuppressed`, and
of the router alone `BlockedKeysAreHeld` and `ActiveBindingIsHeld`. Of the
configuration, `ChordSwitches`: whoever types a chord as it is written in the
file, on any devices and after any history, changes the route, unless a name of it
is `shadowed` (section 5).

*Server*: `NothingRefused` (a client never gets an update it must refuse),
`ClientsKnowDevices` (waiting, every client has been sent exactly the devices
there are), `ResetAnswersLoss` (a `Reset` reaches only the task that waits for
one), `ReleasedIsGone` (the release is the last that happens), `InputHasRoute`,
`HandlersEnd`, `FailedIsReleased`, and `ImplementsRoutedOutputs`.

*Interceptor*: `InputAccounted` (what was sent, with what is still to be read,
makes up the keys that are held), `RawPassedOnce` (an unknown event is written
once, in order, however often the read is dropped), `KeysMirrorNode`,
`NoAccidentalShortcut` (about the order of generated events), `InputReported`,
and `ImplementsDeviceTask`.

*Session*: `HandshakeDecides`, `NoSpuriousTimeout`, `OnePingUnderWay` (no pong is
taken for the answer to another ping), `CutIsNoticed`, `SessionIsDecided`.

*Monitor*: `OwnNodesNotTaken`, `OneActivePerGroup`, `ActiveIsAccounted`,
`PreferredFirst`, `RemovalAnswered`, `PresentIsTaken`, and of the configuration
`PolicyIsListed`: what --list-devices prints is what the monitor takes by, for
every configuration looked at, and what a device is held for in every state.

The operators marked `MUTANT of` are not part of any specification: each is one
definition as a plausible bug would have it, and stands beside the definition so
that a reader sees which bug the properties would find.

### Refinement

`Server` implements `RoutedOutputs` under this mapping. An output of the abstract
specification is the *effective* key state of a copy: what it holds now, then
every update in its channel or queue, then every update for it that the current
handler still has in `todo`, then, for the current route, what is pending in
`frame`. So an operation of the router takes effect on all outputs at the moment
it is computed, and sending, queueing, reading and writing are stutters, unless
they lose something. That is what the run is after: a client that is dropped in
the middle of a list of actions is `LoseRoute`, a task that fails with commands
in its channel is `FailDevice`, and `Reset` overtakes no command sent before it.

`Interceptor` implements `DeviceTask`, the task as `Server` knows it: reading
event by event, resuming writes and writing frames in parts are stutters, a
command counts as in its channel until it is carried out, and the keys of the copy
are those the writer takes to be down (`KeysMirrorNode` says that they are).

## 4. Proofs

`RoutedOutputsProofs` proves for every set of devices, keys, routes and
modifiers, and for every list of bindings:

| Theorem | Says |
|---|---|
| `TypeCorrect` | `TypeOK` is invariant |
| `Safety` | `SafetyInv`, the inductive invariant, is invariant |
| `InactiveReleased`, `OrdinaryTracked`, `SuppressedSilent`, `GestureHeld`, `ModifiersFollow`, `BlockedHeld`, `ConsumedSilent` | the invariants of the `router` run |
| `Suppression` | the action property `HeldKeysStaySuppressed` |
| `NothingStuck`, `TriggerUp`, `Convergence` | `NoStuckKeys`, `TriggerHidden` and `Converges`, given one device and propagated switch keys |

The assumptions are `RouterAssumption` (bindings are a sequence of records whose
trigger is one of their keys) and `RouteAssumption` (routes are numbers, 0 among
them), both evaluated by the runs.

*Argument.* No invariant is inductive by itself. `OrdinaryKeysTracked` is kept by a
switch only if the route that becomes current showed nothing before
(`InactiveOutputsReleased`), and by a release only if a blocked key was up
(`SuppressedKeysSilent`); that needs `BlockedKeysAreHeld`, and a device that is
added or a client that enters a used slot must start from nothing
(`AbsentHoldNothing`, the one conjunct of `SafetyInv` no run states by itself).
`ModifiersFollowRoute` follows because `AbsentHoldNothing` also says that a
modifier outside every binding is never blocked. There is one lemma for every
action, after lemmas on what the two kinds of reconciliation do to `out`
(`HandoffOutputs`, `RecoveryOutputs`). `NothingStuck` needs a second invariant,
`StuckInv`, which adds `NoStuckKeys` and `TriggerHidden`: the releases that are
swallowed are those of blocked keys, of the active trigger and of consumed
buttons, and no output shows any of these. Both of its assumptions are needed:
`Convergence` is what findings 1 and 2 of section 5 violate, one without each.

`ConfiguredRouterProofs` proves, for all tables, about every configuration:

| Theorem | Says |
|---|---|
| `AcceptedBindings` | what main.rs accepts gives bindings that satisfy `RouterAssumption` |
| `ChordsFire` | the keys of a chord, held on a device, complete the binding, unless a name of it is shadowed |
| `ChordsSwitch` | the action property `ChordSwitches` |

*Argument.* A step in which the last key of a chord goes down is a key event
(`PressIsKeyEvent`): a reset does not count, and no other operation presses
anything. By `SafetyInv` the key is not blocked, since it was not held, and not
the trigger of an active binding, since there is none. The binding of the chord
matches (`ChordMatches`), so a least one does (`LeastOf`, by well-founded
induction on the numbers), and that is the case `SwitchKey`, which moves to
another route because there is one.

It also proves of `Capabilities`, for all tables and every source, that the code of
an event that is forwarded is one that the client's device was made for
(`ForwardedIsShown`), with one exception (`ToolTypeIsDropped`, section 5). It
rests on `TableAssumption` and `AxisAssumption`, which the tables satisfy row by
row: the iterators of caps.rs stop in front of the kernel's bound, so that a known
code *at* the bound would be forwarded and not enabled.

`MonitorProofs` proves for every set of devices, nodes, copies and rules, and for
every order of preference:

| Theorem | Says |
|---|---|
| `Safety` | `IInv`, the inductive invariant, is invariant |
| `TypeCorrect` | `MonitorTypeOK` |
| `OwnCopiesLeftAlone` | `OwnNodesNotTaken` |
| `ActivationsAccounted` | `ActiveIsAccounted` |
| `OneOfAGroup` | `OneActivePerGroup` |
| `PreferredComeFirst` | the action property `PreferredFirst` |
| `ListNamesWhatIsTaken` | `PolicyIsListed`, for every accepted configuration, with groups or a whitelist |

The assumptions are `RegistryAssumption` (nodes are finite in number, and a device
of the user is none of rkvm's copies) and `PolicyAssumption` (a rule without a
group is alone in it); for the last theorem also `InfoAssumption` (devices have
different paths), `PoliciesAssumption` (the shape of a configuration),
`UsedAssumption` (main.rs has accepted it) and `DerivedAssumption`. The runs
evaluate all of them.

*Argument.* `OwnNodesNotTaken` rests on `RegistryInv`: a copy is registered, or
the reset that made it holds the gate at which a claim waits. `ActiveIsAccounted`
needs `MessageInv`: between the claim and the release, a device is known by a
message in one of two channels, by the server, or by a removal request, and each
such place determines in which of its states the interceptor is. `GroupInv` is
about the list of what reconcile has still to claim: `ActiveApart` says that no
rule in it belongs to the group of an active candidate, `PendingFirst` that
everything preferred to it is unsupported, rejected, or ahead of it in the list.
The first gives `OneActivePerGroup`, the second `PreferredFirst`; neither survives
a scan alone, since `is_active` is read when the list is made and candidates
change while it is worked off.

`ListNamesWhatIsTaken` has a part about configurations and one about runs. Sorting
a finite set keeps every element once (`InOrder`): the numbers of predecessors rise
along the order, so that they differ, and as many places as elements are all taken.
So the rules of the monitor are the candidates of the groups by group, then by
place (`RulesOfGroups`), and the least that matches is the first match of the first
group with one, which is how main.rs looks for it (`GroupMatchIsSelection`). In a run
`RuleInv` says that the rule of a candidate is the least of some set of rules that
matched its node at some time: only the scan gives a candidate a rule, although
claims, retries and releases replace the candidate (`RuleIsKeptOrSelected`).

`SessionProofs` proves for all lengths of delays, timeouts and stalls, the last
theorem for those that fit each other:

| Theorem | Says |
|---|---|
| `Safety` | `IInv`, the inductive invariant, is invariant |
| `OnlyAgreedRun` | `HandshakeDecides` |
| `PongsAreExpected` | `OnePingUnderWay` |
| `NobodyTimesOut` | `NoSpuriousTimeout`, if `TimesFit` |

*Argument.* `HandshakeInv` says that what is in a pipe tells the version and the
password of its sender and whether they agree; `HandshakeDecides` then follows from
the step at which each side reads its answer. `PingInv` relates the phases of both
sides and what lies in the two pipes: how far apart they can be, and that the
number of pings and pongs under way is one exactly while the server waits. Cuts and
timeouts discard a pipe together with the loop that wrote to it, which is why the
count is never wrong for a new connection.

*Time.* `TimesFit` says which times the theorem is about: `TLS_TIMEOUT` holds the
way of the three messages of its handshake; `READ_TIMEOUT` holds a ping, the write
of its answer and the way back; a write fits in `WRITE_TIMEOUT`; and what is written
as late as possible reaches the client before its deadline of `PING_INTERVAL` and
`READ_TIMEOUT`, both after an interval without updates and after the round trip of a
ping. This is tight: with the values of `session.cfg`, one tick
more for a message or for a write of either side breaks `TimesFit`, and TLC then
finds a connection that works and is given up.

`NoSpuriousTimeout` says only that no timer ends. `TimeInv` says, for every timer that
runs, how much of it is left at least, in terms of where the message that it waits
for is and how old that is: a timer loses a tick only when that message gains one, and
a message that is `LATENCY` old is read before the next tick. Before the loops this is a ladder of the
states of both sides and of the two pipes (`Greeting`, `Versions`, `Passwords`). In
the loops (`Running`), the client's interval is bounded by the age of the first
message to it, or, if there is none, by what is left of the server's interval, of its
write or of its wait for a pong (`Quiet`); the pong timeout by the ping, the client's
write or the pong (`Pinging`); a write that has no room by the first message in the
way, or by the client's own write (`Writing`). `Ended` and `Gone` are what is left when
the server, or both, have gone. From `TimeInv`, no timer is at its end while the
connection works (`NobodyIsLate`); each step keeps it, `Tick` by one lemma for each of
its parts.

`FoldProofs` proves, for any operator `op`, what `FoldLeft` does to an empty
sequence, to one that is longer by an element at either end, and to two one after
the other, and that it keeps what every application of `op` keeps (`FoldEmpty`,
`FoldAppend`, `FoldHead`, `FoldConcat`, `FoldKeeps`). The keys that a frame
leaves, the copies that a client's queue will leave and the number of the last
unknown event are such folds. The operator is a constant of the module, so that
the lemmas are instantiated and no operator is passed to a lemma; induction is
over a set of numbers (`Inductive`), from the library's theorem that `<` is
well-founded.

`ServerProofs` proves for every set of devices, clients, keys and bindings, and
for all capacities of queues and channels:

| Theorem | Says |
|---|---|
| `Safety` | `IInv`, the inductive invariant, is invariant |
| `TypeCorrect` | `ServerTypeOK`: types, and no queue above its capacity |
| `UpdatesAccepted` | `NothingRefused` |
| `ClientsAreTold` | `ClientsKnowDevices` |
| `OneResetPerLoss` | `ResetAnswersLoss` |
| `RouteIsThere` | `InputHasRoute` |
| `ReleasedLast` | the action property `ReleasedIsGone` |

The assumptions are `RouterAssumption`, `ClientAssumption` (clients are slots other
than route 0, their queue has room for one update), `ChannelAssumption` (channels
have a capacity, devices are slots of a slab and so finite in number) and
`BoundAssumption` (the two bounds of the model are numbers).

*Argument.* What a handler has still to do is in `todo`, so every conjunct speaks
of the state together with the steps that are pending. `OrderInv` says in which
order kinds of steps stand there: what destroys a copy before what creates it, both
before the device is added or reset, the abort of a task before the release. `KnownInv` says
what a client will have been told when its queue is empty (a fold of the updates
in it): that a device is in that set, or its `CreateDevice` is pending, exactly if
the server has the device; and that no update of the queue is refused by what
those in front of it leave. A client that is lost in the middle needs nothing,
since its queue goes with it. `DeviceInv` and `ActivationInv` say the same of
tasks: which steps name a device that is in the slab, that every activation has
one task, and that the one to be released is aborted before. `LossInv` follows a
loss from the task's report through the pending `Reset` to the one in the channel,
at most one of the three at a time; messages of an earlier activation of the slot
do not count, which is why the comparison of activation ids in the handler is
needed. `RouteInv` says that a handler that loses the current route, or can lose a
client, ends with a step that stabilizes the routes.

`ServerRefinementProofs` proves, under the same assumptions, the refinement of
section 3:

| Theorem | Says |
|---|---|
| `RoutedOutputsImplemented` | `ImplementsRoutedOutputs` |

*Argument.* What an output will show is two folds: over the queue or the channel of
the copy, then over `todo`. `RefInv` adds four facts to `IInv`. `EachOnce`: no two
steps of one batch update the same copy, so that the order in which the server takes
them makes no difference to what the copies will show (`DispatchPopped`). `Silent`:
nothing is pending for the copies on clients of a device that is being reset or
removed, nor for any copy of a device that is not there. `Forgotten`: when the abort
of a task is pending, so is the removal of its device. `FrameRouted`: keys of a frame
are read only while the current route is there. `RefInv` has no run of its own; it
is proved inductive together with the refinement (`NextImplements`).

Then there are two kinds of steps. Some move an update from `todo` to a queue, or
carry it out, and change no output: reading, sending and writing are stutters
(`TaskContinues`, `SendImplements`, `LocalImplements`). The others append batches to
`todo`, or lose a copy with what was on its way to it. For every list of actions there
is a lemma on what it makes of each copy (`HandoffMakes`, `RecoveryMakes`,
`FlushMakes`, `RenewalMakes`), and that is what `RoutedOutputs` does at once: a key of
a frame is `KeyEvent`, whether it is withheld, forwarded or switches; a device that is
activated is `AddDevice`; one that is reset, `Suspend` and then `ResetDevice`; one that
is removed, `Suspend` and then `RemoveDevice`; a client that enters is `GainRoute`, and
stabilizing the routes is `RetainRoutes`. A client that is lost in the middle of a handler is
`LoseRoute`, a task that fails or is aborted with commands in its channel
`FailDevice`.

`InterceptorProofs` proves for every finite set of keys, for all updates of the
server and for all capacities of the kernel's buffer, libevdev's queue and the
channels:

| Theorem | Says |
|---|---|
| `Safety` | `IInv`, the inductive invariant, is invariant |
| `NoInputLost` | `InputAccounted` |
| `RawsInOrder` | `RawPassedOnce` |
| `PressedIsDown` | `KeysMirrorNode` |
| `ShortcutsAreTyped` | the action property `NoAccidentalShortcut` |
| `TaskImplemented` | `ImplementsDeviceTask` |

The assumptions are `WriterAssumption` (keys are finite in number, so that they
can be listed) and `InterceptorAssumption` (capacities, the form of the updates,
and numbers enough to tell the unknown events apart that are under way), both
evaluated by the run.

*Argument.* `InputAccounted` is a fold over two buffers and the frame; a step
moves an event from one to the next (`Moved`, `KeysConcat`). It needs `FrameInv`:
`read_frame` holds part of a frame only while `events` has the rest, so that no
command is taken then and no dropped read loses it; and an unknown event waits only
while no whole frame does, so that events do not overtake each other. In
`RawPassedOnce` an event out of order would make the fold stick at `NoRaw`
(`RawsDisordered`), hence the next one is in order. `WriteInv` says that what is
down at the node is what `pressed_keys` and the written part of the frame make of
it. For `NoAccidentalShortcut`, `KeyStateEvents` gives the events that lead to a
key state as a list without an event missing, sorted by `rank` (ordinary keys up,
modifiers up, modifiers down, ordinary keys down), in whatever order `SetToSeq`
lists keys; `KeysSettled` says which keys are down after any part of it, and
`KeyStateOrder` follows from the two. `TaskImplemented` has one step for each
action: reading an event, passing one on, taking a command and writing a part of
one are stutters of `DeviceTask`; the end of a frame is `read_frame`, the end of a
command, or its failure, `handle_device_command`.

Every other property of the runs that hold is a theorem. Only model-checked:

* *Liveness* (`HandlersEnd`, `FailedIsReleased`, `InputReported`, `CutIsNoticed`,
  `SessionIsDecided`, `RemovalAnswered`, `PresentIsTaken`): it is out of reach of
  the provers, and so is what it would need of fairness.

## 5. What the code does not do

Four runs end in a violation, each of something the repository says:

1. `finding_unpropagated_recovery` (routing.rs:94). With
   `propagate-switch-keys = false`, a held modifier of a chord is restored on the
   active output when its device is added or reset, while its release is
   withheld: it stays down there.
2. `finding_two_device_reset` (routing.rs:119). A reset that completes a chord
   over two devices makes it active, but takes back only the keys of the device
   that is reset; the release of the trigger on the other is consumed.
3. `finding_reset_unblocks` (routing.rs:124). A reset forgets what a handoff
   suppressed and shows it to the active output; README.md:53 says that held keys
   "remain suppressed until released".
4. `finding_reset_deadlock` (server.rs:318). The server awaits room for `Reset` in
   the command channel of a task. If that task failed a command while it waited
   for the `Reset`, and the channel is full behind that command, the task awaits
   room in the events channel, which holds an event of another device. Only the
   server empties it: both wait for ever. `HandlersEnd` and `FailedIsReleased`
   hold with one device.

More observations have no run of their own:

* *Tool types do not reach clients* (caps.rs:89, interceptor.rs:236, writer.rs:29).
  An event `ABS_MT_TOOL_TYPE` is forwarded as `AbsEvent::MtToolType`, and a client
  writes it. The client's device is made from the axes that `AbsCaps` lists, and
  no `AbsAxis` stands for that code, so the device does not have it and the kernel
  drops the event. The local copy, made from the source itself, has it.
  `ToolTypeIsDropped` proves it of the tables.
* *`display-toggle` never fires* (keyboard.rs:984). `DisplayToggle` and
  `BrightnessToggle` have the code 0x1af; `from_raw` gives only the latter, while
  switch-keys.md lists `display-toggle` and config.rs accepts it in a chord.
  `shadowed` names are exempt from `ChordSwitches` and `ChordsFire`.
* A candidate that `claim` finds not to match (monitor.rs:788) is rejected, and a
  later scan that finds the same rule as before leaves it so. `PresentIsTaken`
  exempts it.
* With more devices than a channel holds (32), all unplugged at once, monitor and
  server can wait for each other in their two sends. The model reaches that state
  with `CHANNEL` smaller than the number of devices; the runs keep to as many.
* `--list-devices` runs in a process with a registry of its own and lists the
  copies of a running server as well.
* The client's `Error::Version` is made with its two versions exchanged
  (client.rs:112): only the text of the message is affected.
* With the times of the code the test `!waiting_for_pong` (server.rs:790) never
  matters: the pong times out before the next tick of the interval.

## 6. Not modelled

* *Message encoding* (message.rs): a length and a body on an ordered stream. A
  read that is dropped in the middle is never resumed, since its session ends
  with it.
* *TLS, certificates, parsing of configuration files, the client's options*: no
  state over time, or a library's. Of the handshake of TLS there is one message
  each way and its timeout.
* *The rows of the key tables*: constants, with assumptions on all of them.
* *Errors that end the process*: of the listener, of inotify, a fatal error of a
  claim.
* *Delays and backoffs*: a retry is due whenever the model likes, in `Monitor` and
  in the client's `run`. Hence grab delays are an order of events, not times.
* Motion and wheel events carry no state; `flush_events` knows only whether there
  are any. Autorepeat is read and dropped (`REPEAT` of `Interceptor`).
* *An error of the client's device* (`Error::Input`, client.rs:199): it ends `run`
  for good as a refused version or password does. It comes from an update, and
  `Session` has updates without their content; `HandshakeDecides` is about the
  handshake, where it cannot occur, and `SessionIsDecided` about clients whose
  devices work. `ClientSession` has the clients that vanish for it.
* *The end of a task before its server knows*: a task that fails drops its
  interceptor itself (server.rs:232), a moment before `destroy_device`; `DeviceFails`
  of `Monitor` has the two as one. The candidate is active in between, so that it is
  neither claimed nor forgotten, and what a scan then finds of the device it may also
  find after the release was sent.
* *Builds that differ*: `have_abs_profile` (rkvm-input/build.rs) leaves one axis out
  of the tables of a build. `Capabilities` gives server and client the same tables;
  a client without the axis would be made a device without it.
* Names, aliases of nodes and the text of diagnostics. Of two nodes that a rule
  gives by one path, the one the path leads to at the moment comes first
  (`reaches_exact_path`).

## 7. Plan

Modelled: `Router`, `RoutedOutputs`, `ConfiguredRouter`; `Server`
with `DeviceTask` and `ClientSession` and the refinement; `Interceptor` with
`Writer` and the refinement of `DeviceTask`; `Session`; `Registry`, `Monitor` and
`DevicePolicy` with `ConfiguredMonitor`; `Capabilities` and its proofs.

Proved: the safety of all of these, as section 4 says, and the refinements of
`DeviceTask` by `Interceptor` and of `RoutedOutputs` by `Server`.

Left: the rows of the key tables, if more than their common assumptions is asked of
them.
