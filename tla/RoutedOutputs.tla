---------------------------- MODULE RoutedOutputs ----------------------------
(***************************************************************************)
(* What the router promises about the outputs.  The routing actions an     *)
(* operation emits are applied at once: out[r][d] is the set of keys that  *)
(* the copy of device d on route r holds down after every action emitted   *)
(* so far.  A frame is its key events one after the other.                 *)
(*                                                                         *)
(* The server's loop (rkvm-server/src/server.rs) decides when devices and  *)
(* routes come and go; here they come and go in every order it allows.     *)
(* Before it resets or removes a device it replaces or destroys the copies *)
(* of it on the clients; from then to the end the device is suspended.     *)
(***************************************************************************)
EXTENDS Router

CONSTANT Route      \* 0 for the server's machine, client key + 1 for a client

ASSUME RouteAssumption == Route \subseteq Nat /\ 0 \in Route

VARIABLES
    devices,    \* registered devices
    live,       \* those of them whose task, and so whose local copy, exists
    suspended,  \* the device that is being reset or removed
    routes,     \* available_routes: 0 and the connected clients
    out         \* route -> device -> keys down

vars == <<router, devices, live, suspended, routes, out>>

\* Device d has a copy on route r; one that the router's actions describe.
Present(r, d) == r \in routes /\ (r = 0 => d \in live)
Wired(r, d) == Present(r, d) /\ d \notin suspended

TypeOK ==
    /\ current \in Route
    /\ active_binding \in DOMAIN bindings \cup {NoBinding}
    /\ physical_keys \in [Device -> SUBSET Key]
    /\ blocked_keys \in [Device -> SUBSET Key]
    /\ devices \subseteq Device
    /\ live \subseteq devices
    /\ suspended \subseteq devices
    /\ routes \subseteq Route /\ 0 \in routes
    /\ out \in [Route -> [Device -> SUBSET Key]]

Init ==
    /\ RouterInit
    /\ devices = {}
    /\ live = {}
    /\ suspended = {}
    /\ routes = {0}
    /\ out = [r \in Route |-> [d \in Device |-> {}]]

-----------------------------------------------------------------------------
(* The SetKeyState actions of reconcile_all and reconcile_device. *)

\* MUTANT of reconcile_all: the routes left behind are not released.
reconcile_all_but_others ==
    out' = [r \in Route |-> [d \in Device |->
               IF r = current' /\ Wired(r, d) THEN handoff_keys(d)' ELSE out[r][d]]]

reconcile_all ==
    out' = [r \in Route |-> [d \in Device |->
               IF r = current' /\ Wired(r, d) THEN handoff_keys(d)' ELSE {}]]

\* MUTANT of reconcile_device: only modifiers are restored.
reconcile_device_as_handoff(d) ==
    out' = [r \in Route |-> [out[r] EXCEPT
               ![d] = IF r = current /\ Wired(r, d)' THEN handoff_keys(d)' ELSE {}]]

reconcile_device(d) ==
    out' = [r \in Route |-> [out[r] EXCEPT
               ![d] = IF r = current /\ Wired(r, d)' THEN recovery_keys(d)' ELSE {}]]

\* The event itself, sent to the current route.
forward(d, k) ==
    out' = IF Wired(current, d)
           THEN [out EXCEPT ![current][d] =
                    IF Down(d, k) THEN @ \cup {k} ELSE @ \ {k}]
           ELSE out

-----------------------------------------------------------------------------
(* Key events reach the router only after stabilize_routes has run, and     *)
(* when no other handler is in progress.                                   *)
Settled == current \in routes /\ suspended = {}

SilentKey(d, k) ==
    /\ Settled
    /\ BlockedKey(d, k) \/ ActiveTriggerKey(d, k) \/ WithheldKey(d, k)
    /\ UNCHANGED <<devices, live, suspended, routes, out>>

Forward(d, k) ==
    /\ Settled
    /\ ForwardedKey(d, k)
    /\ forward(d, k)
    /\ UNCHANGED <<devices, live, suspended, routes>>

\* The propagated press of the trigger is undone by the reconciliation that
\* follows it in the same list of actions.
Switch(d, k) ==
    /\ Settled
    /\ SwitchKey(d, k, routes)
    /\ reconcile_all
    /\ UNCHANGED <<devices, live, suspended, routes>>

KeyEvent(d, k) == SilentKey(d, k) \/ Forward(d, k) \/ Switch(d, k)

AddDevice(d, pressed) ==
    /\ d \notin devices
    /\ suspended = {}
    /\ devices' = devices \cup {d}
    /\ live' = live \cup {d}
    /\ add_device(d, pressed)
    /\ UNCHANGED <<suspended, routes>>
    /\ reconcile_device(d)

\* DestroyDevice, to be followed by CreateDevice or not, goes to every client.
Suspend(d) ==
    /\ d \in devices
    /\ suspended = {}
    /\ suspended' = {d}
    /\ out' = [r \in Route |-> IF r = 0 THEN out[r] ELSE [out[r] EXCEPT ![d] = {}]]
    /\ UNCHANGED <<router, devices, live, routes>>

\* Input was lost: the local copy is replaced too and the held keys restored.
ResetDevice(d, pressed) ==
    /\ d \in suspended
    /\ suspended' = suspended \ {d}
    /\ reset_device(d, pressed)
    /\ UNCHANGED <<devices, live, routes>>
    /\ reconcile_device(d)

\* The device's task ends and drops its local copy, which releases its keys.
FailDevice(d) ==
    /\ d \in live
    /\ live' = live \ {d}
    /\ out' = [out EXCEPT ![0][d] = {}]
    /\ UNCHANGED <<router, devices, suspended, routes>>

\* MUTANT of RemoveDevice: the task, and with it the grab, is left running.
RemoveDevice_but_task(d) ==
    /\ d \in suspended
    /\ suspended' = suspended \ {d}
    /\ devices' = devices \ {d}
    /\ remove_device(d)
    /\ out' = [r \in Route |-> [out[r] EXCEPT ![d] = {}]]
    /\ UNCHANGED <<live, routes>>

\* The device's task is stopped and the router forgets the device.
RemoveDevice(d) ==
    /\ d \in suspended
    /\ suspended' = suspended \ {d}
    /\ devices' = devices \ {d}
    /\ live' = live \ {d}
    /\ remove_device(d)
    /\ out' = [r \in Route |-> [out[r] EXCEPT ![d] = {}]]
    /\ UNCHANGED routes

\* A client is dropped, at the latest when an update cannot be queued for it.
LoseRoute(r) ==
    /\ r \in routes \ {0}
    /\ routes' = routes \ {r}
    /\ out' = [out EXCEPT ![r] = [d \in Device |-> {}]]
    /\ UNCHANGED <<router, devices, live, suspended>>

RetainRoutes ==
    /\ suspended = {}
    /\ retain_routes(routes)
    /\ reconcile_all
    /\ UNCHANGED <<devices, live, suspended, routes>>

\* A client enters the slab, possibly in a slot used before: stabilize_routes
\* has run first.
GainRoute(r) ==
    /\ Settled
    /\ r \in Route \ routes
    /\ routes' = routes \cup {r}
    /\ UNCHANGED <<router, devices, live, suspended, out>>

Next ==
    \/ \E d \in devices, k \in Key : KeyEvent(d, k)
    \/ \E d \in Device, pressed \in SUBSET Key :
          AddDevice(d, pressed) \/ ResetDevice(d, pressed)
    \/ \E d \in Device : FailDevice(d) \/ Suspend(d) \/ RemoveDevice(d)
    \/ \E r \in Route : LoseRoute(r) \/ GainRoute(r)
    \/ RetainRoutes

Spec == Init /\ [][Next]_vars

-----------------------------------------------------------------------------
(* Every output but the active one is released: a switch, a lost route, a   *)
(* device added or reset never leaves a key down on a machine the user has *)
(* left (reconcile_all, reconcile_device).                                 *)
InactiveOutputsReleased ==
    \A r \in Route \ {current}, d \in Device : out[r][d] = {}

(* On the active output, a key outside every switch binding is down        *)
(* exactly when its device holds it and it is not blocked, whatever        *)
(* handoffs, resets and lost routes came before.                           *)
OrdinaryKeysTracked ==
    \A d \in Device : Wired(current, d) =>
        out[current][d] \ switch_keys =
            (physical_keys[d] \ blocked_keys[d]) \ switch_keys

(* A blocked key is up on every output, the active one included.           *)
SuppressedKeysSilent ==
    \A r \in Route, d \in Device : out[r][d] \cap blocked_keys[d] = {}

(* A held Ctrl, Shift, Alt or Meta that is in no binding follows the user  *)
(* from machine to machine: it is never lost and never suppressed.         *)
ModifiersFollowRoute ==
    \A d \in Device, k \in Modifier \ switch_keys :
        Wired(current, d) => (k \in out[current][d] <=> k \in physical_keys[d])

(* With consume_switch_buttons no machine ever sees a switch button, not   *)
(* even after a recovery that restores the keys that are held.             *)
ConsumedButtonsNeverShown ==
    \A r \in Route, d \in Device : out[r][d] \cap consumed_buttons = {}

(* What makes the invariants above inductive: a device that is not there    *)
(* holds nothing, an output that is not there shows nothing, and a          *)
(* modifier outside every binding is never blocked.                         *)
AbsentHoldNothing ==
    /\ \A d \in Device \ devices : physical_keys[d] = {}
    /\ \A r \in Route, d \in Device : ~Present(r, d) => out[r][d] = {}
    /\ \A d \in Device : blocked_keys[d] \cap Modifier \subseteq switch_keys

SafetyInv ==
    /\ TypeOK
    /\ BlockedKeysAreHeld
    /\ ActiveBindingIsHeld
    /\ AbsentHoldNothing
    /\ InactiveOutputsReleased
    /\ OrdinaryKeysTracked
    /\ SuppressedKeysSilent
    /\ ConsumedButtonsNeverShown

(* No output holds down a key that the user does not: every press that was *)
(* let through has its release let through, or is released by a handoff.   *)
NoStuckKeys == \A r \in Route, d \in Device : out[r][d] \subseteq physical_keys[d]

(* While a switch gesture is in progress its trigger is up everywhere.     *)
TriggerHidden ==
    \A r \in Route, d \in Device : out[r][d] \cap trigger(active_binding) = {}

(* The assertion that ends the test                                        *)
(* every_modifier_handoff_converges_to_empty_outputs (routing.rs:954):     *)
(* once no key is held, every output is released.                          *)
Converges ==
    (\A d \in Device : physical_keys[d] = {}) =>
        \A r \in Route, d \in Device : out[r][d] = {}

(* A key other than a modifier that a handoff suppressed stays suppressed  *)
(* while it is held, however often the route changes or is lost in the     *)
(* meantime.  A reset of its device is excepted.                           *)
HeldKeysStaySuppressed ==
    [][\/ \E d \in Device, pressed \in SUBSET Key : ResetDevice(d, pressed)
       \/ \A d \in Device : (blocked_keys[d] \cap physical_keys'[d]) \ Modifier
                                 \subseteq blocked_keys'[d]]_vars

(* README.md: "The trigger and other held keys remain suppressed until     *)
(* released", with no exception.                                           *)
SuppressedUntilReleased ==
    [][\A d \in Device : (blocked_keys[d] \cap physical_keys'[d]) \ Modifier
                               \subseteq blocked_keys'[d]]_vars
=============================================================================
