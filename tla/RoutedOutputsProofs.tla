------------------------ MODULE RoutedOutputsProofs ------------------------
(* Proofs about RoutedOutputs for every set of keys, bindings, devices and  *)
(* routes.                                                                  *)
EXTENDS RoutedOutputs, TLAPS

-----------------------------------------------------------------------------
(* An element of a sequence over S is in S. *)
LEMMA SequenceElements ==
    ASSUME NEW S, NEW s \in Seq(S)
    PROVE  \A i \in DOMAIN s : s[i] \in S
  OBVIOUS

(* The configured sets: everything that is hidden belongs to a binding. *)
LEMMA SwitchKeySets ==
    /\ switch_keys \subseteq Key
    /\ trigger_keys \subseteq switch_keys
    /\ consumed_buttons \subseteq switch_keys
    /\ unpropagated \subseteq switch_keys
    /\ withheld \subseteq switch_keys
    /\ NoBinding \notin DOMAIN bindings
    /\ \A b \in DOMAIN bindings \cup {NoBinding} : trigger(b) \subseteq switch_keys
<1>1. NoBinding \notin DOMAIN bindings
  BY RouterAssumption DEF NoBinding
<1>2. \A b \in DOMAIN bindings :
         /\ bindings[b].keys \subseteq Key
         /\ bindings[b].trigger \in bindings[b].keys
  <2>1. \A b \in DOMAIN bindings : bindings[b] \in [keys : SUBSET Key, trigger : Key]
    BY RouterAssumption, SequenceElements
  <2>2. QED
    BY <2>1, RouterAssumption
<1>3. /\ switch_keys \subseteq Key
      /\ trigger_keys \subseteq switch_keys
  BY <1>2 DEF switch_keys, trigger_keys
<1>4. /\ consumed_buttons \subseteq switch_keys
      /\ unpropagated \subseteq switch_keys
      /\ withheld \subseteq switch_keys
  BY DEF consumed_buttons, unpropagated, withheld
<1>5. \A b \in DOMAIN bindings \cup {NoBinding} : trigger(b) \subseteq switch_keys
  BY <1>1, <1>3 DEF trigger, trigger_keys
<1>6. QED
  BY <1>1, <1>3, <1>4, <1>5

(* What the helpers of the router return. *)
LEMMA HelperSets ==
    /\ \A held, hidden : handoff_blocked(held, hidden) \subseteq held
    /\ \A d \in Device : /\ handoff_keys(d) \subseteq recovery_keys(d)
                         /\ recovery_keys(d) \subseteq physical_keys[d]
    /\ \A pressed, b : reset_blocked(pressed, b) \subseteq pressed
    /\ \A b, pressed : clear_inactive_binding(b, pressed) \in {b, NoBinding}
    /\ \A b, k : rearm_after_trigger_release(b, k) \in {b, NoBinding}
  BY DEF handoff_blocked, handoff_keys, recovery_keys, reset_blocked,
         clear_inactive_binding, rearm_after_trigger_release

-----------------------------------------------------------------------------
(* A key event keeps the router's variables in their types, and only a     *)
(* switch moves to another route or starts a gesture.                      *)
LEMMA KeyEventType ==
    ASSUME TypeOK, NEW d \in devices, NEW k \in Key, KeyEvent(d, k)
    PROVE  TypeOK'
<1>1. /\ d \in Device
      /\ physical_keys' \in [Device -> SUBSET Key]
      /\ UNCHANGED <<devices, live, suspended, routes>>
  BY DEF KeyEvent, SilentKey, Forward, Switch, BlockedKey, ActiveTriggerKey,
         WithheldKey, ForwardedKey, OrdinaryEvent, SwitchKey,
         update_physical_key, TypeOK
<1>2. CASE SilentKey(d, k)
  <2>1. UNCHANGED <<current, out>>
    BY <1>2 DEF SilentKey, BlockedKey, ActiveTriggerKey, WithheldKey, OrdinaryEvent
  <2>2. active_binding' \in {active_binding, NoBinding}
    BY <1>2, HelperSets
       DEF SilentKey, BlockedKey, ActiveTriggerKey, WithheldKey, OrdinaryEvent
  <2>3. blocked_keys' \in [Device -> SUBSET Key]
    BY <1>2 DEF SilentKey, BlockedKey, ActiveTriggerKey, WithheldKey,
                OrdinaryEvent, TypeOK
  <2>4. QED
    BY <1>1, <2>1, <2>2, <2>3 DEF TypeOK
<1>3. CASE Forward(d, k)
  <2>1. UNCHANGED <<current, blocked_keys>>
    BY <1>3 DEF Forward, ForwardedKey, OrdinaryEvent
  <2>2. active_binding' \in {active_binding, NoBinding}
    BY <1>3, HelperSets DEF Forward, ForwardedKey, OrdinaryEvent
  <2>3. out' \in [Route -> [Device -> SUBSET Key]]
    BY <1>3 DEF Forward, forward, TypeOK
  <2>4. QED
    BY <1>1, <2>1, <2>2, <2>3 DEF TypeOK
<1>4. CASE Switch(d, k)
  <2>1. current' \in Route
    BY <1>4 DEF Switch, SwitchKey, TypeOK
  <2>2. active_binding' \in DOMAIN bindings
    BY <1>4 DEF Switch, SwitchKey
  <2>3. blocked_keys' \in [Device -> SUBSET Key]
    BY <1>1, <1>4, HelperSets DEF Switch, SwitchKey, TypeOK
  <2>4. out' \in [Route -> [Device -> SUBSET Key]]
    BY <1>1, <1>4 DEF Switch, reconcile_all, handoff_keys
  <2>5. QED
    BY <1>1, <2>1, <2>2, <2>3, <2>4 DEF TypeOK
<1>5. QED
  BY <1>2, <1>3, <1>4 DEF KeyEvent

(* The same for the devices' other operations. *)
LEMMA DeviceType ==
    ASSUME TypeOK, NEW d \in Device, NEW pressed \in SUBSET Key,
           \/ AddDevice(d, pressed)
           \/ ResetDevice(d, pressed)
           \/ FailDevice(d)
           \/ Suspend(d)
           \/ RemoveDevice(d)
    PROVE  TypeOK'
<1>1. CASE AddDevice(d, pressed)
  <2>1. out' \in [Route -> [Device -> SUBSET Key]]
    BY <1>1 DEF AddDevice, add_device, reconcile_device, recovery_keys, TypeOK
  <2>2. QED
    BY <1>1, <2>1 DEF AddDevice, add_device, TypeOK
<1>2. CASE ResetDevice(d, pressed)
  <2>1. /\ physical_keys' \in [Device -> SUBSET Key]
        /\ active_binding' \in DOMAIN bindings \cup {NoBinding}
    BY <1>2 DEF ResetDevice, reset_device, TypeOK
  <2>2. blocked_keys' \in [Device -> SUBSET Key]
    BY <1>2, HelperSets DEF ResetDevice, reset_device, TypeOK
  <2>3. out' \in [Route -> [Device -> SUBSET Key]]
    BY <1>2, <2>1 DEF ResetDevice, reconcile_device, recovery_keys, TypeOK
  <2>4. QED
    BY <1>2, <2>1, <2>2, <2>3 DEF ResetDevice, reset_device, TypeOK
<1>3. CASE FailDevice(d)
  BY <1>3, RouteAssumption DEF FailDevice, router, TypeOK
<1>4. CASE RemoveDevice(d)
  <2>1. active_binding' \in {active_binding, NoBinding}
    BY <1>4, HelperSets DEF RemoveDevice, remove_device
  <2>2. QED
    BY <1>4, <2>1 DEF RemoveDevice, remove_device, TypeOK
<1>5. CASE Suspend(d)
  BY <1>5 DEF Suspend, router, TypeOK
<1>6. QED
  BY <1>1, <1>2, <1>3, <1>4, <1>5

(* The same for the routes. *)
LEMMA RouteType ==
    ASSUME TypeOK,
           \/ \E r \in Route : LoseRoute(r) \/ GainRoute(r)
           \/ RetainRoutes
    PROVE  TypeOK'
<1>1. CASE \E r \in Route : LoseRoute(r) \/ GainRoute(r)
  BY <1>1 DEF LoseRoute, GainRoute, router, TypeOK
<1>2. CASE RetainRoutes
  <2>1. blocked_keys' \in [Device -> SUBSET Key]
    BY <1>2, HelperSets DEF RetainRoutes, retain_routes, TypeOK
  <2>2. out' \in [Route -> [Device -> SUBSET Key]]
    BY <1>2 DEF RetainRoutes, retain_routes, reconcile_all, handoff_keys, TypeOK
  <2>3. QED
    BY <1>2, <2>1, <2>2, RouteAssumption DEF RetainRoutes, retain_routes, TypeOK
<1>3. QED
  BY <1>1, <1>2

LEMMA TypeInit == Init => TypeOK
  BY RouteAssumption DEF Init, RouterInit, TypeOK

LEMMA TypeStep == TypeOK /\ [Next]_vars => TypeOK'
<1>1. ASSUME TypeOK, Next PROVE TypeOK'
  BY <1>1, KeyEventType, DeviceType, RouteType DEF Next
<1>2. ASSUME TypeOK, UNCHANGED vars PROVE TypeOK'
  BY <1>2 DEF TypeOK, vars, router
<1>3. QED
  BY <1>1, <1>2

(* Every variable keeps its type, whatever the devices and clients do. *)
THEOREM TypeCorrect == Spec => []TypeOK
  BY TypeInit, TypeStep, PTL DEF Spec

-----------------------------------------------------------------------------
(* The binding that clear_inactive_binding leaves active is still held. *)
LEMMA ClearInactive ==
    \A b, pressed :
        clear_inactive_binding(b, pressed) # NoBinding =>
            bindings[clear_inactive_binding(b, pressed)].keys \cap pressed # {}
  BY DEF clear_inactive_binding

(* The part of SafetyInv that the initial state has. *)
LEMMA SafetyInit == Init => SafetyInv
<1>1. ASSUME Init PROVE AbsentHoldNothing
  BY <1>1 DEF Init, RouterInit, AbsentHoldNothing
<1>2. ASSUME Init PROVE OrdinaryKeysTracked
  BY <1>2 DEF Init, RouterInit, OrdinaryKeysTracked, Wired, Present
<1>3. ASSUME Init PROVE /\ BlockedKeysAreHeld
                        /\ ActiveBindingIsHeld
                        /\ InactiveOutputsReleased
                        /\ SuppressedKeysSilent
                        /\ ConsumedButtonsNeverShown
  BY <1>3 DEF Init, RouterInit, BlockedKeysAreHeld, ActiveBindingIsHeld,
              InactiveOutputsReleased, SuppressedKeysSilent,
              ConsumedButtonsNeverShown
<1>4. QED
  BY <1>1, <1>2, <1>3, TypeInit DEF SafetyInv

(* A key event that goes to no output: the key is blocked, or is the        *)
(* trigger, or is withheld, so an ordinary unblocked key is not concerned.  *)
LEMMA SilentKeySafe ==
    ASSUME SafetyInv, NEW d \in devices, NEW k \in Key, SilentKey(d, k)
    PROVE  SafetyInv'
<1>1. /\ d \in Device
      /\ TypeOK
      /\ physical_keys' = [physical_keys EXCEPT
                              ![d] = IF Down(d, k) THEN @ \cup {k} ELSE @ \ {k}]
      /\ UNCHANGED <<current, devices, live, suspended, routes, out>>
  BY DEF SilentKey, BlockedKey, ActiveTriggerKey, WithheldKey, OrdinaryEvent,
         update_physical_key, SafetyInv, TypeOK
<1>2. \/ /\ k \in blocked_keys[d]
         /\ ~Down(d, k)
         /\ blocked_keys' = [blocked_keys EXCEPT ![d] = @ \ {k}]
      \/ /\ k \notin blocked_keys[d]
         /\ k \in switch_keys
         /\ blocked_keys' = blocked_keys
  <2>1. CASE BlockedKey(d, k)
    BY <1>1, <2>1 DEF BlockedKey, Down, SafetyInv, BlockedKeysAreHeld
  <2>2. CASE ActiveTriggerKey(d, k)
    BY <1>1, <2>2, SwitchKeySets DEF ActiveTriggerKey, TypeOK
  <2>3. CASE WithheldKey(d, k)
    BY <2>3, SwitchKeySets DEF WithheldKey, OrdinaryEvent
  <2>4. QED
    BY <2>1, <2>2, <2>3 DEF SilentKey
<1>3. TypeOK'
  BY <1>1, KeyEventType DEF KeyEvent
<1>4. BlockedKeysAreHeld'
  BY <1>1, <1>2 DEF SafetyInv, BlockedKeysAreHeld, TypeOK, Down
<1>5. ActiveBindingIsHeld'
  BY ClearInactive DEF SilentKey, BlockedKey, ActiveTriggerKey, WithheldKey,
                       OrdinaryEvent, ActiveBindingIsHeld
<1>6. AbsentHoldNothing'
  BY <1>1, <1>2 DEF SafetyInv, AbsentHoldNothing, TypeOK, Wired, Present
<1>7. InactiveOutputsReleased' /\ ConsumedButtonsNeverShown'
  BY <1>1 DEF SafetyInv, InactiveOutputsReleased, ConsumedButtonsNeverShown
<1>8. SuppressedKeysSilent'
  BY <1>1, <1>2 DEF SafetyInv, SuppressedKeysSilent, TypeOK
<1>9. OrdinaryKeysTracked'
  <2>1. ASSUME NEW e \in Device
        PROVE  (physical_keys'[e] \ blocked_keys'[e]) \ switch_keys
                   = (physical_keys[e] \ blocked_keys[e]) \ switch_keys
    BY <1>1, <1>2 DEF TypeOK
  <2>2. QED
    BY <1>1, <2>1 DEF SafetyInv, OrdinaryKeysTracked, Wired, Present
<1>10. QED
  BY <1>3, <1>4, <1>5, <1>6, <1>7, <1>8, <1>9 DEF SafetyInv

(* A key event that goes to the current route changes the output as it      *)
(* changes what the device holds.                                           *)
LEMMA ForwardSafe ==
    ASSUME SafetyInv, NEW d \in devices, NEW k \in Key, Forward(d, k)
    PROVE  SafetyInv'
<1>1. /\ d \in Device
      /\ TypeOK
      /\ physical_keys' = [physical_keys EXCEPT
                              ![d] = IF Down(d, k) THEN @ \cup {k} ELSE @ \ {k}]
      /\ k \notin blocked_keys[d]
      /\ k \notin withheld
      /\ forward(d, k)
      /\ UNCHANGED <<current, blocked_keys, devices, live, suspended, routes>>
  BY DEF Forward, ForwardedKey, OrdinaryEvent, update_physical_key, SafetyInv, TypeOK
<1>2. TypeOK'
  BY <1>1, KeyEventType DEF KeyEvent
<1>3. BlockedKeysAreHeld'
  BY <1>1 DEF SafetyInv, BlockedKeysAreHeld, TypeOK, Down
<1>4. ActiveBindingIsHeld'
  BY ClearInactive DEF Forward, ForwardedKey, OrdinaryEvent, ActiveBindingIsHeld
<1>5. AbsentHoldNothing'
  BY <1>1 DEF SafetyInv, AbsentHoldNothing, TypeOK, Wired, Present, forward
<1>6. InactiveOutputsReleased'
  BY <1>1 DEF SafetyInv, InactiveOutputsReleased, TypeOK, forward
<1>7. SuppressedKeysSilent'
  BY <1>1 DEF SafetyInv, SuppressedKeysSilent, TypeOK, forward
<1>8. ConsumedButtonsNeverShown'
  BY <1>1 DEF SafetyInv, ConsumedButtonsNeverShown, TypeOK, forward, withheld
<1>9. OrdinaryKeysTracked'
  <2>1. SUFFICES ASSUME NEW e \in Device, Wired(current, e)
                 PROVE  out'[current][e] \ switch_keys =
                            (physical_keys'[e] \ blocked_keys[e]) \ switch_keys
    BY <1>1 DEF OrdinaryKeysTracked, Wired, Present
  <2>2. out[current][e] \ switch_keys =
            (physical_keys[e] \ blocked_keys[e]) \ switch_keys
    BY <2>1 DEF SafetyInv, OrdinaryKeysTracked
  <2>3. CASE e = d
    BY <1>1, <2>1, <2>2, <2>3 DEF forward, TypeOK
  <2>4. CASE e # d
    BY <1>1, <2>1, <2>2, <2>4 DEF forward, TypeOK
  <2>5. QED
    BY <2>3, <2>4
<1>10. QED
  BY <1>2, <1>3, <1>4, <1>5, <1>6, <1>7, <1>8, <1>9 DEF SafetyInv

(* What reconcile_all leaves on the outputs, given that the handoff blocked *)
(* exactly the held keys that are hidden or not modifiers.                  *)
LEMMA HandoffOutputs ==
    ASSUME TypeOK', reconcile_all, UNCHANGED <<devices, live, suspended, routes>>,
           NEW hidden \in SUBSET switch_keys,
           blocked_keys' = [d \in Device |-> handoff_blocked(physical_keys'[d], hidden)]
    PROVE  /\ BlockedKeysAreHeld'
           /\ \A d \in Device : blocked_keys'[d] \cap Modifier \subseteq switch_keys
           /\ \A r \in Route, d \in Device : ~Present(r, d)' => out'[r][d] = {}
           /\ InactiveOutputsReleased'
           /\ OrdinaryKeysTracked'
           /\ SuppressedKeysSilent'
           /\ ConsumedButtonsNeverShown'
<1>1. \A r \in Route, d \in Device :
          out'[r][d] = IF r = current' /\ Wired(r, d)' THEN handoff_keys(d)' ELSE {}
  BY DEF reconcile_all, Wired, Present
<1>2. \A d \in Device :
          blocked_keys'[d] = handoff_blocked(physical_keys'[d], hidden)
  OBVIOUS
<1>3. BlockedKeysAreHeld'
  BY <1>2, HelperSets DEF BlockedKeysAreHeld
<1>4. \A d \in Device : blocked_keys'[d] \cap Modifier \subseteq switch_keys
  BY <1>2, SwitchKeySets DEF handoff_blocked
<1>5. \A r \in Route, d \in Device : ~Present(r, d)' => out'[r][d] = {}
  BY <1>1 DEF Wired
<1>6. InactiveOutputsReleased'
  BY <1>1 DEF InactiveOutputsReleased
<1>7. SuppressedKeysSilent' /\ ConsumedButtonsNeverShown'
  BY <1>1 DEF SuppressedKeysSilent, ConsumedButtonsNeverShown, handoff_keys
<1>8. OrdinaryKeysTracked'
  <2>1. SUFFICES ASSUME NEW d \in Device, Wired(current, d)'
                 PROVE  out'[current'][d] \ switch_keys =
                            (physical_keys'[d] \ blocked_keys'[d]) \ switch_keys
    BY DEF OrdinaryKeysTracked
  <2>2. out'[current'][d] = handoff_keys(d)'
    BY <1>1, <2>1 DEF TypeOK
  <2>3. \A k \in physical_keys'[d] \ switch_keys :
            k \in blocked_keys'[d] <=> k \notin Modifier
    BY <1>2, SwitchKeySets DEF handoff_blocked
  <2>4. QED
    BY <2>2, <2>3, SwitchKeySets DEF handoff_keys
<1>9. QED
  BY <1>3, <1>4, <1>5, <1>6, <1>7, <1>8

LEMMA SwitchSafe ==
    ASSUME SafetyInv, NEW d \in devices, NEW k \in Key, Switch(d, k)
    PROVE  SafetyInv'
<1>1. PICK b \in DOMAIN bindings :
          /\ bindings[b].trigger = k
          /\ active_binding' = b
          /\ blocked_keys' = [e \in Device |->
                                 handoff_blocked(physical_keys'[e], trigger(b))]
  BY DEF Switch, SwitchKey, matching_binding
<1>2. TypeOK /\ TypeOK' /\ d \in Device
  BY KeyEventType DEF KeyEvent, SafetyInv, TypeOK
<1>3. /\ physical_keys' = [physical_keys EXCEPT ![d] = @ \cup {k}]
      /\ reconcile_all
      /\ UNCHANGED <<devices, live, suspended, routes>>
  BY <1>2 DEF Switch, SwitchKey, Switches, update_physical_key, TypeOK
<1>4. trigger(b) \in SUBSET switch_keys
  BY SwitchKeySets
<1>5. ActiveBindingIsHeld'
  <2>1. k \in physical_keys'[d]
    BY <1>2, <1>3 DEF TypeOK
  <2>2. k \in bindings[b].keys
    BY <1>1, RouterAssumption
  <2>3. k \in pressed_key_union'
    BY <1>2, <2>1 DEF pressed_key_union
  <2>4. QED
    BY <1>1, <2>2, <2>3 DEF ActiveBindingIsHeld
<1>6. \A e \in Device \ devices' : physical_keys'[e] = {}
  BY <1>2, <1>3 DEF SafetyInv, AbsentHoldNothing, TypeOK
<1>7. QED
  BY <1>1, <1>2, <1>3, <1>4, <1>5, <1>6, HandoffOutputs
     DEF SafetyInv, AbsentHoldNothing

(* A lost current route: the gesture in progress stays hidden on route 0. *)
LEMMA RetainRoutesSafe ==
    ASSUME SafetyInv, RetainRoutes
    PROVE  SafetyInv'
<1>1. /\ blocked_keys' = [d \in Device |->
              handoff_blocked(physical_keys'[d], trigger(active_binding))]
      /\ reconcile_all
      /\ UNCHANGED <<active_binding, physical_keys, devices, live, suspended, routes>>
  BY DEF RetainRoutes, retain_routes
<1>2. trigger(active_binding) \in SUBSET switch_keys
  BY SwitchKeySets DEF SafetyInv, TypeOK
<1>3. TypeOK'
  BY RouteType DEF SafetyInv
<1>4. ActiveBindingIsHeld'
  BY <1>1 DEF SafetyInv, ActiveBindingIsHeld, pressed_key_union
<1>5. \A d \in Device \ devices' : physical_keys'[d] = {}
  BY <1>1 DEF SafetyInv, AbsentHoldNothing
<1>6. QED
  BY <1>1, <1>2, <1>3, <1>4, <1>5, HandoffOutputs DEF SafetyInv, AbsentHoldNothing

(* What reconcile_device leaves on the outputs of a device that was added   *)
(* or reset, given that only held keys and no free modifier are blocked.    *)
LEMMA RecoveryOutputs ==
    ASSUME SafetyInv, TypeOK', NEW d \in Device, reconcile_device(d),
           current' = current,
           routes' = routes,
           NEW pressed \in SUBSET Key, NEW blocked \in SUBSET pressed,
           blocked \cap Modifier \subseteq switch_keys,
           physical_keys' = [physical_keys EXCEPT ![d] = pressed],
           blocked_keys' = [blocked_keys EXCEPT ![d] = blocked],
           d \in live' \/ live' = live,
           live \subseteq live', live' \subseteq live \cup {d},
           suspended \subseteq suspended' \cup {d}, suspended' \subseteq suspended,
           devices \subseteq devices', d \in devices'
    PROVE  /\ BlockedKeysAreHeld'
           /\ AbsentHoldNothing'
           /\ InactiveOutputsReleased'
           /\ OrdinaryKeysTracked'
           /\ SuppressedKeysSilent'
           /\ ConsumedButtonsNeverShown'
<1>1. \A r \in Route :
          /\ \A e \in Device \ {d} : out'[r][e] = out[r][e]
          /\ out'[r][d] = IF r = current /\ Wired(r, d)' THEN recovery_keys(d)' ELSE {}
  BY DEF reconcile_device, SafetyInv, TypeOK
<1>2. /\ \A e \in Device \ {d} : /\ physical_keys'[e] = physical_keys[e]
                                 /\ blocked_keys'[e] = blocked_keys[e]
      /\ physical_keys'[d] = pressed
      /\ blocked_keys'[d] = blocked
  BY DEF SafetyInv, TypeOK
<1>3. recovery_keys(d)' = pressed \ (consumed_buttons \cup blocked)
  BY <1>2 DEF recovery_keys
<1>4. BlockedKeysAreHeld'
  BY <1>2 DEF SafetyInv, BlockedKeysAreHeld
<1>5. AbsentHoldNothing'
  <2>1. \A e \in Device \ devices' : physical_keys'[e] = {}
    BY <1>2 DEF SafetyInv, AbsentHoldNothing
  <2>2. \A r \in Route, e \in Device : ~Present(r, e)' => out'[r][e] = {}
    <3>1. \A r \in Route : ~Present(r, d)' => out'[r][d] = {}
      BY <1>1 DEF Wired
    <3>2. \A r \in Route, e \in Device \ {d} : ~Present(r, e)' => out'[r][e] = {}
      <4>1. SUFFICES ASSUME NEW r \in Route, NEW e \in Device \ {d}, ~Present(r, e)'
                     PROVE  out'[r][e] = {}
        OBVIOUS
      <4>2. ~Present(r, e)
        BY <4>1 DEF Present
      <4>3. QED
        BY <1>1, <4>2 DEF SafetyInv, AbsentHoldNothing
    <3>3. QED
      BY <3>1, <3>2
  <2>3. \A e \in Device : blocked_keys'[e] \cap Modifier \subseteq switch_keys
    BY <1>2 DEF SafetyInv, AbsentHoldNothing
  <2>4. QED
    BY <2>1, <2>2, <2>3 DEF AbsentHoldNothing
<1>6. InactiveOutputsReleased'
  BY <1>1 DEF SafetyInv, InactiveOutputsReleased
<1>7. SuppressedKeysSilent' /\ ConsumedButtonsNeverShown'
  BY <1>1, <1>2, <1>3 DEF SafetyInv, SuppressedKeysSilent, ConsumedButtonsNeverShown
<1>8. OrdinaryKeysTracked'
  <2>1. SUFFICES ASSUME NEW e \in Device, Wired(current, e)'
                 PROVE  out'[current][e] \ switch_keys =
                            (physical_keys'[e] \ blocked_keys'[e]) \ switch_keys
    BY DEF OrdinaryKeysTracked
  <2>2. CASE e = d
    BY <1>1, <1>2, <1>3, <2>1, <2>2, SwitchKeySets DEF SafetyInv, TypeOK
  <2>3. CASE e # d
    <3>1. Wired(current, e)
      BY <2>1, <2>3 DEF Wired, Present
    <3>2. QED
      BY <1>1, <1>2, <2>3, <3>1 DEF SafetyInv, TypeOK, OrdinaryKeysTracked
  <2>4. QED
    BY <2>2, <2>3
<1>9. QED
  BY <1>4, <1>5, <1>6, <1>7, <1>8

LEMMA AddDeviceSafe ==
    ASSUME SafetyInv, NEW d \in Device, NEW pressed \in SUBSET Key,
           AddDevice(d, pressed)
    PROVE  SafetyInv'
<1>1. TypeOK /\ TypeOK'
  BY DeviceType DEF SafetyInv
<1>2. (pressed \cap (trigger_keys \cup consumed_buttons)) \cap Modifier \subseteq switch_keys
  BY SwitchKeySets
<1>3. ActiveBindingIsHeld'
  <2>1. pressed_key_union \subseteq pressed_key_union'
    BY <1>1 DEF AddDevice, add_device, pressed_key_union, SafetyInv,
                AbsentHoldNothing, TypeOK
  <2>2. active_binding' = active_binding
    BY DEF AddDevice, add_device
  <2>3. QED
    BY <2>1, <2>2 DEF SafetyInv, ActiveBindingIsHeld
<1>4. /\ pressed \cap (trigger_keys \cup consumed_buttons) \in SUBSET pressed
      /\ reconcile_device(d)
      /\ UNCHANGED <<current, suspended, routes>>
      /\ physical_keys' = [physical_keys EXCEPT ![d] = pressed]
      /\ blocked_keys' = [blocked_keys EXCEPT
                             ![d] = pressed \cap (trigger_keys \cup consumed_buttons)]
      /\ live' = live \cup {d}
      /\ devices' = devices \cup {d}
  BY DEF AddDevice, add_device
<1>5. /\ BlockedKeysAreHeld'
      /\ AbsentHoldNothing'
      /\ InactiveOutputsReleased'
      /\ OrdinaryKeysTracked'
      /\ SuppressedKeysSilent'
      /\ ConsumedButtonsNeverShown'
  BY <1>1, <1>2, <1>4, RecoveryOutputs
<1>6. QED
  BY <1>1, <1>3, <1>5 DEF SafetyInv

LEMMA ResetDeviceSafe ==
    ASSUME SafetyInv, NEW d \in Device, NEW pressed \in SUBSET Key,
           ResetDevice(d, pressed)
    PROVE  SafetyInv'
<1>1. TypeOK /\ TypeOK'
  BY DeviceType DEF SafetyInv
<1>2. ActiveBindingIsHeld'
  BY RouterAssumption DEF ResetDevice, reset_device, complete_binding, ActiveBindingIsHeld
<1>3. reset_blocked(pressed, active_binding') \in SUBSET pressed
  BY HelperSets
<1>4. reset_blocked(pressed, active_binding') \cap Modifier \subseteq switch_keys
  BY <1>1, SwitchKeySets DEF reset_blocked, handoff_blocked, TypeOK
<1>5. /\ BlockedKeysAreHeld'
      /\ AbsentHoldNothing'
      /\ InactiveOutputsReleased'
      /\ OrdinaryKeysTracked'
      /\ SuppressedKeysSilent'
      /\ ConsumedButtonsNeverShown'
  <2>1. /\ reconcile_device(d)
        /\ UNCHANGED <<current, devices, live, routes>>
        /\ physical_keys' = [physical_keys EXCEPT ![d] = pressed]
        /\ blocked_keys' = [blocked_keys EXCEPT
                               ![d] = reset_blocked(pressed, active_binding')]
        /\ suspended' = suspended \ {d}
        /\ d \in devices
    BY <1>1 DEF ResetDevice, reset_device, TypeOK
  <2>2. QED
    BY <1>1, <1>3, <1>4, <2>1, RecoveryOutputs
<1>6. QED
  BY <1>1, <1>2, <1>5 DEF SafetyInv

(* A device whose task ended shows nothing, one that is removed holds nothing. *)
LEMMA FailDeviceSafe ==
    ASSUME SafetyInv, NEW d \in Device, FailDevice(d)
    PROVE  SafetyInv'
<1>1. /\ TypeOK /\ TypeOK'
      /\ live' = live \ {d}
      /\ out' = [out EXCEPT ![0][d] = {}]
      /\ UNCHANGED <<current, active_binding, physical_keys, blocked_keys, devices, suspended, routes>>
  BY DeviceType DEF FailDevice, SafetyInv, router
<1>2. BlockedKeysAreHeld' /\ ActiveBindingIsHeld'
  BY <1>1 DEF SafetyInv, BlockedKeysAreHeld, ActiveBindingIsHeld, pressed_key_union
<1>3. /\ AbsentHoldNothing'
      /\ InactiveOutputsReleased'
      /\ SuppressedKeysSilent'
      /\ ConsumedButtonsNeverShown'
  BY <1>1, RouteAssumption
     DEF SafetyInv, TypeOK, AbsentHoldNothing, Wired, Present, InactiveOutputsReleased,
         SuppressedKeysSilent, ConsumedButtonsNeverShown
<1>4. OrdinaryKeysTracked'
  BY <1>1, RouteAssumption DEF SafetyInv, TypeOK, OrdinaryKeysTracked, Wired, Present
<1>5. QED
  BY <1>1, <1>2, <1>3, <1>4 DEF SafetyInv

(* Suspending a device releases its copies on the clients. *)
LEMMA SuspendSafe ==
    ASSUME SafetyInv, NEW d \in Device, Suspend(d)
    PROVE  SafetyInv'
<1>1. /\ TypeOK /\ TypeOK'
      /\ suspended' = {d}
      /\ suspended = {}
      /\ UNCHANGED <<current, active_binding, physical_keys, blocked_keys, devices, live, routes>>
  BY DeviceType DEF Suspend, SafetyInv, router
<1>2. \A r \in Route :
          /\ \A e \in Device \ {d} : out'[r][e] = out[r][e]
          /\ out'[r][d] \in {out[r][d], {}}
  BY <1>1 DEF Suspend, TypeOK
<1>3. BlockedKeysAreHeld' /\ ActiveBindingIsHeld'
  BY <1>1 DEF SafetyInv, BlockedKeysAreHeld, ActiveBindingIsHeld, pressed_key_union
<1>4. \A r \in Route, e \in Device : out'[r][e] \subseteq out[r][e]
  <2>1. ASSUME NEW r \in Route, NEW e \in Device PROVE out'[r][e] \subseteq out[r][e]
    <3>1. CASE e = d
      BY <1>2, <3>1
    <3>2. CASE e # d
      BY <1>2, <3>2
    <3>3. QED
      BY <3>1, <3>2
  <2>2. QED
    BY <2>1
<1>5. AbsentHoldNothing'
  BY <1>1, <1>4 DEF SafetyInv, AbsentHoldNothing, Present
<1>6. /\ InactiveOutputsReleased'
      /\ SuppressedKeysSilent'
      /\ ConsumedButtonsNeverShown'
  BY <1>1, <1>4 DEF SafetyInv, InactiveOutputsReleased, SuppressedKeysSilent,
                    ConsumedButtonsNeverShown
<1>7. OrdinaryKeysTracked'
  <2>1. SUFFICES ASSUME NEW e \in Device, Wired(current, e)'
                 PROVE  out'[current][e] \ switch_keys =
                            (physical_keys'[e] \ blocked_keys'[e]) \ switch_keys
    BY <1>1 DEF OrdinaryKeysTracked, Wired, Present
  <2>2. Wired(current, e) /\ e # d
    BY <1>1, <2>1 DEF Wired, Present
  <2>3. QED
    BY <1>1, <1>2, <2>2 DEF SafetyInv, TypeOK, OrdinaryKeysTracked
<1>8. QED
  BY <1>1, <1>3, <1>5, <1>6, <1>7 DEF SafetyInv

LEMMA RemoveDeviceSafe ==
    ASSUME SafetyInv, NEW d \in Device, RemoveDevice(d)
    PROVE  SafetyInv'
<1>1. /\ TypeOK /\ TypeOK'
      /\ devices' = devices \ {d}
      /\ live' = live \ {d}
      /\ physical_keys' = [physical_keys EXCEPT ![d] = {}]
      /\ blocked_keys' = [blocked_keys EXCEPT ![d] = {}]
      /\ out' = [r \in Route |-> [out[r] EXCEPT ![d] = {}]]
      /\ suspended' = suspended \ {d}
      /\ UNCHANGED <<current, routes>>
  BY DeviceType DEF RemoveDevice, remove_device, SafetyInv
<1>2. BlockedKeysAreHeld'
  BY <1>1 DEF SafetyInv, TypeOK, BlockedKeysAreHeld
<1>3. ActiveBindingIsHeld'
  BY ClearInactive DEF RemoveDevice, remove_device, ActiveBindingIsHeld
<1>4. /\ AbsentHoldNothing'
      /\ InactiveOutputsReleased'
      /\ SuppressedKeysSilent'
      /\ ConsumedButtonsNeverShown'
  BY <1>1 DEF SafetyInv, TypeOK, AbsentHoldNothing, Wired, Present, InactiveOutputsReleased,
              SuppressedKeysSilent, ConsumedButtonsNeverShown
<1>5. OrdinaryKeysTracked'
  BY <1>1 DEF SafetyInv, TypeOK, OrdinaryKeysTracked, Wired, Present
<1>6. QED
  BY <1>1, <1>2, <1>3, <1>4, <1>5 DEF SafetyInv

(* A client leaves, or takes a slot that is not the current route. *)
LEMMA RouteSafe ==
    ASSUME SafetyInv, NEW r \in Route, LoseRoute(r) \/ GainRoute(r)
    PROVE  SafetyInv'
<1>1. /\ TypeOK /\ TypeOK'
      /\ UNCHANGED <<current, active_binding, physical_keys, blocked_keys, devices, live, suspended>>
  BY RouteType DEF LoseRoute, GainRoute, router, SafetyInv
<1>2. BlockedKeysAreHeld' /\ ActiveBindingIsHeld'
  BY <1>1 DEF SafetyInv, BlockedKeysAreHeld, ActiveBindingIsHeld, pressed_key_union
<1>3. CASE LoseRoute(r)
  BY <1>1, <1>2, <1>3
     DEF LoseRoute, SafetyInv, TypeOK, AbsentHoldNothing, Wired, Present,
         InactiveOutputsReleased, OrdinaryKeysTracked, SuppressedKeysSilent,
         ConsumedButtonsNeverShown
<1>4. CASE GainRoute(r)
  <2>1. UNCHANGED <<suspended, out>> /\ routes' = routes \cup {r} /\ current \in routes
    BY <1>4 DEF GainRoute, Settled
  <2>2. AbsentHoldNothing'
    BY <1>1, <2>1 DEF SafetyInv, AbsentHoldNothing, Present
  <2>3. OrdinaryKeysTracked'
    BY <1>1, <2>1 DEF SafetyInv, OrdinaryKeysTracked, Wired, Present
  <2>4. /\ InactiveOutputsReleased'
        /\ SuppressedKeysSilent'
        /\ ConsumedButtonsNeverShown'
    BY <1>1, <2>1 DEF SafetyInv, InactiveOutputsReleased, SuppressedKeysSilent,
                      ConsumedButtonsNeverShown
  <2>5. QED
    BY <1>1, <1>2, <2>2, <2>3, <2>4 DEF SafetyInv
<1>5. QED
  BY <1>3, <1>4

LEMMA SafetyStep == SafetyInv /\ [Next]_vars => SafetyInv'
<1>1. ASSUME SafetyInv, Next PROVE SafetyInv'
  BY <1>1, SilentKeySafe, ForwardSafe, SwitchSafe, AddDeviceSafe, ResetDeviceSafe,
     FailDeviceSafe, SuspendSafe, RemoveDeviceSafe, RouteSafe, RetainRoutesSafe
     DEF Next, KeyEvent
<1>2. ASSUME SafetyInv, UNCHANGED vars PROVE SafetyInv'
  BY <1>2
     DEF vars, router, SafetyInv, TypeOK, BlockedKeysAreHeld, ActiveBindingIsHeld,
         pressed_key_union, AbsentHoldNothing, Wired, Present, InactiveOutputsReleased,
         OrdinaryKeysTracked, SuppressedKeysSilent, ConsumedButtonsNeverShown
<1>3. QED
  BY <1>1, <1>2

(* SafetyInv is inductive, so each of its parts is an invariant. *)
THEOREM Safety == Spec => []SafetyInv
  BY SafetyInit, SafetyStep, PTL DEF Spec

(* A machine the user has left holds no key down. *)
THEOREM InactiveReleased == Spec => []InactiveOutputsReleased
<1>1. SafetyInv => InactiveOutputsReleased
  BY DEF SafetyInv
<1>2. QED
  BY <1>1, Safety, PTL

(* The active machine sees a key outside the bindings down exactly when it  *)
(* is held and not blocked.                                                 *)
THEOREM OrdinaryTracked == Spec => []OrdinaryKeysTracked
<1>1. SafetyInv => OrdinaryKeysTracked
  BY DEF SafetyInv
<1>2. QED
  BY <1>1, Safety, PTL

(* A key is blocked only while it is held, so that its next press counts.   *)
THEOREM BlockedHeld == Spec => []BlockedKeysAreHeld
<1>1. SafetyInv => BlockedKeysAreHeld
  BY DEF SafetyInv
<1>2. QED
  BY <1>1, Safety, PTL

(* No machine ever sees a mouse button that switches and is consumed.       *)
THEOREM ConsumedSilent == Spec => []ConsumedButtonsNeverShown
<1>1. SafetyInv => ConsumedButtonsNeverShown
  BY DEF SafetyInv
<1>2. QED
  BY <1>1, Safety, PTL

(* No machine sees a blocked key. *)
THEOREM SuppressedSilent == Spec => []SuppressedKeysSilent
<1>1. SafetyInv => SuppressedKeysSilent
  BY DEF SafetyInv
<1>2. QED
  BY <1>1, Safety, PTL

(* A gesture that disables switching is still held. *)
THEOREM GestureHeld == Spec => []ActiveBindingIsHeld
<1>1. SafetyInv => ActiveBindingIsHeld
  BY DEF SafetyInv
<1>2. QED
  BY <1>1, Safety, PTL

(* A modifier outside the bindings is never blocked, so what the active     *)
(* machine sees of it is what the user holds.                               *)
THEOREM ModifiersFollow == Spec => []ModifiersFollowRoute
<1>1. SafetyInv => ModifiersFollowRoute
  <2>1. SUFFICES ASSUME SafetyInv, NEW d \in Device, NEW k \in Modifier \ switch_keys,
                        Wired(current, d)
                 PROVE  k \in out[current][d] <=> k \in physical_keys[d]
    BY DEF ModifiersFollowRoute
  <2>2. k \notin blocked_keys[d]
    BY <2>1 DEF SafetyInv, AbsentHoldNothing
  <2>3. out[current][d] \ switch_keys = (physical_keys[d] \ blocked_keys[d]) \ switch_keys
    BY <2>1 DEF SafetyInv, OrdinaryKeysTracked
  <2>4. QED
    BY <2>2, <2>3
<1>2. QED
  BY <1>1, Safety, PTL

-----------------------------------------------------------------------------
(* Of a step of any kind: a blocked key that is no modifier and stays held  *)
(* stays blocked, unless its device is reset.                               *)
LEMMA SuppressionStep ==
    ASSUME SafetyInv, Next
    PROVE  \/ \E d \in Device, pressed \in SUBSET Key : ResetDevice(d, pressed)
           \/ \A d \in Device :
                 (blocked_keys[d] \cap physical_keys'[d]) \ Modifier \subseteq blocked_keys'[d]
<1> DEFINE Kept == \A d \in Device :
                 (blocked_keys[d] \cap physical_keys'[d]) \ Modifier \subseteq blocked_keys'[d]
<1>1. ASSUME NEW d \in devices, NEW k \in Key, SilentKey(d, k) PROVE Kept
  BY <1>1 DEF SilentKey, BlockedKey, ActiveTriggerKey, WithheldKey, OrdinaryEvent,
              update_physical_key, Down, SafetyInv, TypeOK, BlockedKeysAreHeld
<1>2. ASSUME NEW d \in devices, NEW k \in Key, Forward(d, k) PROVE Kept
  BY <1>2 DEF Forward, ForwardedKey, OrdinaryEvent
<1>3. ASSUME NEW d \in devices, NEW k \in Key, Switch(d, k) PROVE Kept
  <2>1. TypeOK'
    BY <1>3, KeyEventType DEF KeyEvent, SafetyInv
  <2>2. PICK b \in DOMAIN bindings :
            blocked_keys' = [e \in Device |-> handoff_blocked(physical_keys'[e], trigger(b))]
    BY <1>3 DEF Switch, SwitchKey
  <2>3. QED
    BY <2>1, <2>2 DEF handoff_blocked, TypeOK
<1>4. ASSUME NEW d \in Device, NEW pressed \in SUBSET Key, AddDevice(d, pressed) PROVE Kept
  <2>1. blocked_keys[d] = {}
    BY <1>4 DEF AddDevice, SafetyInv, AbsentHoldNothing, BlockedKeysAreHeld
  <2>2. QED
    BY <1>4, <2>1 DEF AddDevice, add_device, SafetyInv, TypeOK
<1>5. ASSUME NEW d \in Device, FailDevice(d) \/ Suspend(d) \/ RemoveDevice(d) PROVE Kept
  BY <1>5 DEF FailDevice, Suspend, RemoveDevice, remove_device, router, SafetyInv, TypeOK
<1>6. ASSUME NEW r \in Route, LoseRoute(r) \/ GainRoute(r) PROVE Kept
  BY <1>6 DEF LoseRoute, GainRoute, router
<1>7. CASE RetainRoutes
  BY <1>7 DEF RetainRoutes, retain_routes, handoff_blocked, SafetyInv, TypeOK
<1>8. QED
  BY <1>1, <1>2, <1>3, <1>4, <1>5, <1>6, <1>7 DEF Next, KeyEvent

(* Keys suppressed by a handoff stay suppressed while they are held. *)
THEOREM Suppression == Spec => HeldKeysStaySuppressed
<1>1. SafetyInv /\ [Next]_vars =>
         [\/ \E d \in Device, pressed \in SUBSET Key : ResetDevice(d, pressed)
          \/ \A d \in Device : (blocked_keys[d] \cap physical_keys'[d]) \ Modifier
                                   \subseteq blocked_keys'[d]]_vars
  BY SuppressionStep
<1>2. QED
  BY <1>1, Safety, PTL DEF Spec, HeldKeysStaySuppressed

-----------------------------------------------------------------------------
(* With one device and propagated switch keys no key sticks.  The releases  *)
(* that are swallowed are those of blocked keys, of the active trigger and  *)
(* of consumed buttons, and no output shows any of these.                   *)
StuckInv == SafetyInv /\ NoStuckKeys /\ TriggerHidden

LEMMA StuckInit == Init => StuckInv
  BY SafetyInit DEF Init, RouterInit, StuckInv, NoStuckKeys, TriggerHidden, trigger

LEMMA StuckKeyEvent ==
    ASSUME propagate_switch_keys = TRUE, \A d, e \in Device : d = e,
           StuckInv, NEW d \in devices, NEW k \in Key, KeyEvent(d, k)
    PROVE  NoStuckKeys' /\ TriggerHidden'
<1>1. /\ d \in Device
      /\ TypeOK /\ TypeOK'
      /\ physical_keys' = [physical_keys EXCEPT
                              ![d] = IF Down(d, k) THEN @ \cup {k} ELSE @ \ {k}]
  BY KeyEventType
     DEF KeyEvent, SilentKey, Forward, Switch, BlockedKey, ActiveTriggerKey,
         WithheldKey, ForwardedKey, OrdinaryEvent, SwitchKey,
         update_physical_key, StuckInv, SafetyInv, TypeOK
<1>2. CASE SilentKey(d, k)
  <2>1. \A r \in Route : k \notin out[r][d]
    BY <1>1, <1>2
       DEF SilentKey, BlockedKey, ActiveTriggerKey, WithheldKey, withheld, unpropagated,
           StuckInv, SafetyInv, SuppressedKeysSilent, ConsumedButtonsNeverShown, TriggerHidden
  <2>2. out' = out /\ active_binding' \in {active_binding, NoBinding}
    BY <1>2, HelperSets
       DEF SilentKey, BlockedKey, ActiveTriggerKey, WithheldKey, OrdinaryEvent
  <2>3. NoStuckKeys'
    BY <1>1, <2>1, <2>2 DEF StuckInv, NoStuckKeys, TypeOK
  <2>4. TriggerHidden'
    BY <2>2 DEF StuckInv, TriggerHidden, trigger
  <2>5. QED
    BY <2>3, <2>4
<1>3. CASE Forward(d, k)
  <2>1. /\ forward(d, k)
        /\ Settled
        /\ current' = current
        /\ k \notin trigger(active_binding)
        /\ active_binding' \in {active_binding, NoBinding}
    BY <1>3, HelperSets DEF Forward, ForwardedKey, OrdinaryEvent
  <2>2. NoStuckKeys'
    <3>1. CASE Wired(current, d)
      BY <1>1, <2>1, <3>1
         DEF forward, StuckInv, SafetyInv, TypeOK, NoStuckKeys, InactiveOutputsReleased
    <3>2. CASE ~Wired(current, d)
      <4>1. ~Present(current, d) /\ out' = out
        BY <2>1, <3>2 DEF Settled, Wired, forward
      <4>2. \A r \in Route : out[r][d] = {}
        BY <1>1, <4>1 DEF StuckInv, SafetyInv, InactiveOutputsReleased, AbsentHoldNothing
      <4>3. QED
        BY <1>1, <4>1, <4>2 DEF StuckInv, NoStuckKeys, TypeOK
    <3>3. QED
      BY <3>1, <3>2
  <2>3. TriggerHidden'
    BY <1>1, <2>1 DEF forward, StuckInv, TriggerHidden, TypeOK, trigger
  <2>4. QED
    BY <2>2, <2>3
<1>4. CASE Switch(d, k)
  <2>1. PICK b \in DOMAIN bindings :
            /\ active_binding' = b
            /\ blocked_keys' = [e \in Device |->
                                   handoff_blocked(physical_keys'[e], trigger(b))]
    BY <1>4 DEF Switch, SwitchKey
  <2>2. \A r \in Route, e \in Device : out'[r][e] \subseteq handoff_keys(e)'
    BY <1>4 DEF Switch, reconcile_all
  <2>3. QED
    BY <2>1, <2>2 DEF handoff_keys, handoff_blocked, NoStuckKeys, TriggerHidden
<1>5. QED
  BY <1>2, <1>3, <1>4 DEF KeyEvent

LEMMA StuckDevice ==
    ASSUME propagate_switch_keys = TRUE, \A d, e \in Device : d = e,
           StuckInv, NEW d \in Device, NEW pressed \in SUBSET Key,
           \/ AddDevice(d, pressed)
           \/ ResetDevice(d, pressed)
           \/ FailDevice(d)
           \/ Suspend(d)
           \/ RemoveDevice(d)
    PROVE  NoStuckKeys' /\ TriggerHidden'
<1>1. TypeOK /\ TypeOK' /\ Device = {d}
  BY DeviceType DEF StuckInv, SafetyInv
<1>2. CASE AddDevice(d, pressed) \/ ResetDevice(d, pressed)
  <2>1. \A r \in Route : out'[r][d] \subseteq recovery_keys(d)'
    BY <1>1, <1>2 DEF AddDevice, ResetDevice, reconcile_device, TypeOK
  <2>2. physical_keys'[d] \cap trigger(active_binding') \subseteq blocked_keys'[d]
    <3>1. CASE AddDevice(d, pressed)
      BY <1>1, <3>1 DEF AddDevice, add_device, trigger, trigger_keys, TypeOK
    <3>2. CASE ResetDevice(d, pressed)
      BY <1>1, <3>2 DEF ResetDevice, reset_device, reset_blocked, handoff_blocked,
                        trigger, TypeOK
    <3>3. QED
      BY <1>2, <3>1, <3>2
  <2>3. QED
    BY <1>1, <2>1, <2>2 DEF recovery_keys, NoStuckKeys, TriggerHidden
<1>3. CASE FailDevice(d)
  BY <1>1, <1>3, RouteAssumption
     DEF FailDevice, router, StuckInv, NoStuckKeys, TriggerHidden, TypeOK, trigger
<1>4. CASE RemoveDevice(d)
  BY <1>1, <1>4 DEF RemoveDevice, remove_device, NoStuckKeys, TriggerHidden, TypeOK
<1>5. CASE Suspend(d)
  <2>1. \A r \in Route : out'[r][d] \subseteq out[r][d]
    BY <1>1, <1>5 DEF Suspend, TypeOK
  <2>2. QED
    BY <1>1, <1>5, <2>1
       DEF Suspend, router, StuckInv, NoStuckKeys, TriggerHidden, trigger
<1>6. QED
  BY <1>2, <1>3, <1>4, <1>5

LEMMA StuckStep ==
    ASSUME propagate_switch_keys = TRUE, \A d, e \in Device : d = e
    PROVE  StuckInv /\ [Next]_vars => StuckInv'
<1>1. ASSUME StuckInv, NEW r \in Route, LoseRoute(r) \/ GainRoute(r)
      PROVE  NoStuckKeys' /\ TriggerHidden'
  <2>1. UNCHANGED <<physical_keys, active_binding>>
    BY <1>1 DEF LoseRoute, GainRoute, router
  <2>2. \A q \in Route, d \in Device : out'[q][d] \subseteq out[q][d]
    BY <1>1 DEF LoseRoute, GainRoute, StuckInv, SafetyInv, TypeOK
  <2>3. QED
    BY <1>1, <2>1, <2>2 DEF StuckInv, NoStuckKeys, TriggerHidden, trigger
<1>2. ASSUME StuckInv, RetainRoutes
      PROVE  NoStuckKeys' /\ TriggerHidden'
  BY <1>2 DEF RetainRoutes, retain_routes, reconcile_all, handoff_keys, handoff_blocked,
              NoStuckKeys, TriggerHidden, trigger
<1>3. ASSUME StuckInv, UNCHANGED vars
      PROVE  NoStuckKeys' /\ TriggerHidden'
  BY <1>3 DEF vars, router, StuckInv, NoStuckKeys, TriggerHidden, trigger
<1>4. ASSUME StuckInv, Next
      PROVE  NoStuckKeys' /\ TriggerHidden'
  <2>1. CASE \E d \in devices, k \in Key : KeyEvent(d, k)
    BY <1>4, <2>1, StuckKeyEvent
  <2>2. CASE \/ \E d \in Device, pressed \in SUBSET Key :
                   AddDevice(d, pressed) \/ ResetDevice(d, pressed)
             \/ \E d \in Device : FailDevice(d) \/ Suspend(d) \/ RemoveDevice(d)
    BY <1>4, <2>2, StuckDevice
  <2>3. QED
    BY <1>1, <1>2, <1>4, <2>1, <2>2 DEF Next
<1>5. QED
  BY <1>3, <1>4, SafetyStep DEF StuckInv

(* StuckInv is inductive under these assumptions. *)
LEMMA Stuck ==
    ASSUME propagate_switch_keys = TRUE, \A d, e \in Device : d = e
    PROVE  Spec => []StuckInv
<1>1. StuckInv /\ [Next]_vars => StuckInv'
  BY StuckStep
<1>2. QED
  BY <1>1, StuckInit, PTL DEF Spec

(* With one device and propagated switch keys, no machine ever holds down a *)
(* key that the user does not.                                              *)
THEOREM NothingStuck ==
    ASSUME propagate_switch_keys = TRUE, \A d, e \in Device : d = e
    PROVE  Spec => []NoStuckKeys
<1>1. StuckInv => NoStuckKeys
  BY DEF StuckInv
<1>2. QED
  BY <1>1, Stuck, PTL

(* Nor does one show the trigger of a gesture in progress.                  *)
THEOREM TriggerUp ==
    ASSUME propagate_switch_keys = TRUE, \A d, e \in Device : d = e
    PROVE  Spec => []TriggerHidden
<1>1. StuckInv => TriggerHidden
  BY DEF StuckInv
<1>2. QED
  BY <1>1, Stuck, PTL

(* So the test's assertion, that the outputs of a user who holds nothing    *)
(* are released, fails only where switch keys are not propagated or a       *)
(* second device takes part, as in the two runs that violate it.            *)
THEOREM Convergence ==
    ASSUME propagate_switch_keys = TRUE, \A d, e \in Device : d = e
    PROVE  Spec => []Converges
<1>1. NoStuckKeys => Converges
  BY DEF NoStuckKeys, Converges
<1>2. QED
  BY <1>1, NothingStuck, PTL
=============================================================================
