------------------------------- MODULE Router -------------------------------
(***************************************************************************)
(* The Router of rkvm-server/src/routing.rs: which output (route) receives *)
(* the input, which switch binding is active, which keys each source       *)
(* device physically holds and which of them are blocked, that is, kept    *)
(* from every output until they are released.                              *)
(*                                                                         *)
(* This module holds the state of the struct and one action per operation  *)
(* on it.  The actions constrain the router's own variables only; the      *)
(* modules that extend this one say what is done with the routing actions  *)
(* an operation emits.                                                     *)
(***************************************************************************)
EXTENDS Input, Naturals, Sequences

CONSTANTS
    bindings,               \* <<[keys, trigger], ...>>, as configured
    propagate_switch_keys,
    consume_switch_buttons

ASSUME RouterAssumption ==
    /\ bindings \in Seq([keys : SUBSET Key, trigger : Key])
    /\ \A b \in DOMAIN bindings : bindings[b].trigger \in bindings[b].keys
    /\ propagate_switch_keys \in BOOLEAN
    /\ consume_switch_buttons \in BOOLEAN

VARIABLES
    current,          \* the active route, 0 is the server's own machine
    active_binding,   \* index into bindings, or NoBinding
    physical_keys,    \* device -> keys it holds; {} where the map has no entry
    blocked_keys      \* device -> held keys that no output may see

router == <<current, active_binding, physical_keys, blocked_keys>>

NoBinding == 0

-----------------------------------------------------------------------------
(* Sets fixed by the configuration. *)

switch_keys  == UNION {bindings[b].keys : b \in DOMAIN bindings}
trigger_keys == {bindings[b].trigger : b \in DOMAIN bindings}

consumed_buttons ==
    IF consume_switch_buttons THEN switch_keys \cap Button ELSE {}

\* Switch keys that no output sees when propagation is off.
unpropagated == IF propagate_switch_keys THEN {} ELSE switch_keys

\* MUTANT of withheld: consume_switch_buttons is not looked at.
withheld_but_buttons == unpropagated

\* The keys whose events go to no output.
withheld == consumed_buttons \cup unpropagated

(* The trigger of a binding as a set, empty when there is no binding. *)
trigger(b) == IF b = NoBinding THEN {} ELSE {bindings[b].trigger}

-----------------------------------------------------------------------------
(* Helpers of the struct. *)

pressed_key_union == UNION {physical_keys[d] : d \in Device}

(* routes is sorted: the first route above the current one, else route 0. *)
next_route(r, routes, from) ==
    \/ r > from /\ \A s \in routes : s > from => r <= s
    \/ r = 0 /\ \A s \in routes : s <= from

\* MUTANTS of handoff_blocked: the trigger is not blocked, held modifiers are.
handoff_blocked_but_trigger(held, hidden) ==
    {k \in held : k \notin Modifier \/ k \in unpropagated}
handoff_blocked_and_modifiers(held, hidden) == held

\* Keys withheld by a handoff to or from a route, given the trigger to hide.
handoff_blocked(held, hidden) ==
    {k \in held : k \notin Modifier \/ k \in hidden \cup unpropagated}

\* desired_keys in mode Handoff: held modifiers are reasserted.
handoff_keys(d) ==
    (physical_keys[d] \cap Modifier) \ (consumed_buttons \cup blocked_keys[d])

\* MUTANT of recovery_keys: blocked keys are restored too.
recovery_keys_and_blocked(d) == physical_keys[d] \ consumed_buttons

\* desired_keys in mode Recovery: every held key is restored.
recovery_keys(d) ==
    physical_keys[d] \ (consumed_buttons \cup blocked_keys[d])

rearm_after_trigger_release(b, k) == IF k \in trigger(b) THEN NoBinding ELSE b

clear_inactive_binding(b, pressed) ==
    IF b # NoBinding /\ bindings[b].keys \cap pressed = {} THEN NoBinding ELSE b

\* Binding b is the first one of trigger k that the pressed keys complete.
matching_binding(b, k, pressed) ==
    /\ bindings[b].trigger = k
    /\ bindings[b].keys \subseteq pressed
    /\ \A c \in 1 .. b - 1 :
          ~(bindings[c].trigger = k /\ bindings[c].keys \subseteq pressed)

\* Binding b is the first one, whatever its trigger, that is fully pressed.
complete_binding(b, pressed) ==
    /\ bindings[b].keys \subseteq pressed
    /\ \A c \in 1 .. b - 1 : ~(bindings[c].keys \subseteq pressed)

-----------------------------------------------------------------------------
RouterInit ==
    /\ current = 0
    /\ active_binding = NoBinding
    /\ physical_keys = [d \in Device |-> {}]
    /\ blocked_keys = [d \in Device |-> {}]

(***************************************************************************)
(* One key event of process_frame.  The kernel reports a press only of a   *)
(* key that is up and a release only of one that is down, so the event of  *)
(* key k is a press exactly when the device does not hold k.               *)
(***************************************************************************)
Down(d, k) == k \notin physical_keys[d]

update_physical_key(d, k) ==
    physical_keys' = [physical_keys EXCEPT
                         ![d] = IF Down(d, k) THEN @ \cup {k} ELSE @ \ {k}]

\* MUTANT of BlockedKey: the release does not unblock the key.
BlockedKey_for_ever(d, k) ==
    /\ k \in blocked_keys[d]
    /\ update_physical_key(d, k)
    /\ active_binding' = clear_inactive_binding(
           IF Down(d, k) THEN active_binding
                         ELSE rearm_after_trigger_release(active_binding, k),
           pressed_key_union')
    /\ UNCHANGED <<current, blocked_keys>>

\* A blocked key stays silent; its release unblocks it and may rearm switching.
BlockedKey(d, k) ==
    /\ k \in blocked_keys[d]
    /\ update_physical_key(d, k)
    /\ blocked_keys' = [blocked_keys EXCEPT ![d] = IF Down(d, k) THEN @ ELSE @ \ {k}]
    /\ active_binding' = clear_inactive_binding(
           IF Down(d, k) THEN active_binding
                         ELSE rearm_after_trigger_release(active_binding, k),
           pressed_key_union')
    /\ UNCHANGED current

\* The trigger of the active binding, on a device where it is not blocked.
ActiveTriggerKey(d, k) ==
    /\ k \notin blocked_keys[d]
    /\ k \in trigger(active_binding)
    /\ update_physical_key(d, k)
    /\ active_binding' = clear_inactive_binding(
           IF Down(d, k) THEN active_binding
                         ELSE rearm_after_trigger_release(active_binding, k),
           pressed_key_union')
    /\ UNCHANGED <<current, blocked_keys>>

\* Key k completes some binding and no binding is active.
Switches(d, k) ==
    /\ Down(d, k)
    /\ active_binding = NoBinding
    /\ \E b \in DOMAIN bindings :
          matching_binding(b, k, pressed_key_union \cup {k})

\* The press of k completes binding b: block, and move on to the next route.
SwitchKey(d, k, routes) ==
    /\ k \notin blocked_keys[d]
    /\ Switches(d, k)
    /\ update_physical_key(d, k)
    /\ \E r \in routes : next_route(r, routes, current) /\ current' = r
    /\ \E b \in DOMAIN bindings :
          /\ matching_binding(b, k, pressed_key_union \cup {k})
          /\ active_binding' = b
          /\ blocked_keys' = [e \in Device |->
                                 handoff_blocked(physical_keys'[e], trigger(b))]

OrdinaryEvent(d, k) ==
    /\ k \notin blocked_keys[d]
    /\ k \notin trigger(active_binding)
    /\ ~Switches(d, k)
    /\ update_physical_key(d, k)
    /\ active_binding' = clear_inactive_binding(active_binding, pressed_key_union')
    /\ UNCHANGED <<current, blocked_keys>>

\* A consumed mouse button, or a switch key that must not be propagated.
WithheldKey(d, k) ==
    /\ k \in withheld
    /\ OrdinaryEvent(d, k)

\* Every other event goes to the current route.
ForwardedKey(d, k) ==
    /\ k \notin withheld
    /\ OrdinaryEvent(d, k)

-----------------------------------------------------------------------------
(* The other operations. *)

add_device(d, pressed) ==
    /\ physical_keys' = [physical_keys EXCEPT ![d] = pressed]
    /\ blocked_keys' = [blocked_keys EXCEPT
                           ![d] = pressed \cap (trigger_keys \cup consumed_buttons)]
    /\ UNCHANGED <<current, active_binding>>

\* MUTANT of reset_blocked: the trigger of the active binding is left out.
reset_blocked_but_trigger(pressed, b) ==
    (pressed \cap consumed_buttons)
        \cup (IF b = NoBinding THEN pressed \cap trigger_keys
                               ELSE handoff_blocked(pressed, {}))

\* What reset_device blocks on the device once b is the active binding.
reset_blocked(pressed, b) ==
    (pressed \cap consumed_buttons)
        \cup (IF b = NoBinding THEN pressed \cap trigger_keys
                               ELSE handoff_blocked(pressed, trigger(b)))

reset_device(d, pressed) ==
    /\ physical_keys' = [physical_keys EXCEPT ![d] = pressed]
    /\ \/ \E b \in DOMAIN bindings :
             /\ complete_binding(b, pressed_key_union')
             /\ active_binding' = b
       \/ /\ \A b \in DOMAIN bindings : ~(bindings[b].keys \subseteq pressed_key_union')
          /\ active_binding' = NoBinding
    /\ blocked_keys' = [blocked_keys EXCEPT ![d] = reset_blocked(pressed, active_binding')]
    /\ UNCHANGED current

\* MUTANT of remove_device: the gesture is not cleared.
remove_device_but_binding(d) ==
    /\ physical_keys' = [physical_keys EXCEPT ![d] = {}]
    /\ blocked_keys' = [blocked_keys EXCEPT ![d] = {}]
    /\ UNCHANGED <<current, active_binding>>

remove_device(d) ==
    /\ physical_keys' = [physical_keys EXCEPT ![d] = {}]
    /\ blocked_keys' = [blocked_keys EXCEPT ![d] = {}]
    /\ active_binding' = clear_inactive_binding(active_binding, pressed_key_union')
    /\ UNCHANGED current

\* MUTANTS of retain_routes: the route is kept, what was blocked is forgotten.
retain_routes_and_stay(routes) ==
    /\ current \notin routes
    /\ UNCHANGED router

retain_routes_and_unblock(routes) ==
    /\ current \notin routes
    /\ current' = 0
    /\ blocked_keys' = [d \in Device |-> {}]
    /\ UNCHANGED <<active_binding, physical_keys>>

\* The current route is gone: fall back to route 0.
retain_routes(routes) ==
    /\ current \notin routes
    /\ current' = 0
    /\ blocked_keys' = [d \in Device |->
                           handoff_blocked(physical_keys[d], trigger(active_binding))]
    /\ UNCHANGED <<active_binding, physical_keys>>

-----------------------------------------------------------------------------
(* blocked_keys never outlives the press: what is blocked is held, so a    *)
(* key's next press on the device is heard again (unblock_key).            *)
BlockedKeysAreHeld == \A d \in Device : blocked_keys[d] \subseteq physical_keys[d]

(* An active binding disables switching, so it must not outlive the        *)
(* gesture: some key of it is still held on some device.                   *)
ActiveBindingIsHeld ==
    active_binding # NoBinding =>
        bindings[active_binding].keys \cap pressed_key_union # {}
=============================================================================
