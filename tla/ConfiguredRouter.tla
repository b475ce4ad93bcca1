-------------------------- MODULE ConfiguredRouter --------------------------
(***************************************************************************)
(* The router with its outputs under the bindings that main.rs makes of a  *)
(* configuration.                                                          *)
(***************************************************************************)
EXTENDS RoutedOutputs, SwitchBindings

CONSTANT config

ASSUME ConfiguredAssumption ==
    /\ config \in Config
    /\ accepts(config)
    /\ bindings = build_switch_bindings(config)

\* What the events of the key with this name are taken for.
seen_as(name) == from_raw[code(name)]

last_name(chord) == chord[Len(chord)]

\* The step is an event of a device: its key k goes down.
Pressed(d, k) ==
    /\ devices' = devices /\ suspended' = suspended
    /\ k \notin physical_keys[d] /\ k \in physical_keys'[d]

\* All keys that the chord names are held when its last one goes down on d.
Typed(chord, d) ==
    /\ Pressed(d, seen_as(last_name(chord)))
    /\ \A name \in elements(chord) \ {last_name(chord)} :
          seen_as(name) \in pressed_key_union

(* Whoever types a chord of the configuration, held keys on any devices and *)
(* the last key last, is switched to another machine if there is one and no *)
(* gesture is in progress, whatever resets, lost routes and suppressed keys *)
(* came before; unless a name stands for a key that shares its code.        *)
ChordSwitches ==
    [][\A i \in DOMAIN chords(config), d \in Device :
          LET chord == chords(config)[i] IN
            /\ \A name \in elements(chord) : ~shadowed(name)
            /\ active_binding = NoBinding
            /\ routes # {0}
            /\ Typed(chord, d)
          => current' # current]_vars
=============================================================================
