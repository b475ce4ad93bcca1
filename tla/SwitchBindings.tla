--------------------------- MODULE SwitchBindings ---------------------------
(***************************************************************************)
(* From the configuration to the bindings of the router: the names of      *)
(* rkvm-server/src/config.rs, what main.rs makes of them, and the codes    *)
(* under which the kernel reports the keys.                                *)
(***************************************************************************)
EXTENDS Capabilities, Sequences

CONSTANTS
    Name,       \* SwitchKey, the names a configuration may use
    into        \* name -> key

ASSUME NameAssumption == into \in [Name -> NamedKey]

(* switch_keys is empty or holds the one legacy chord. *)
Config == [switch_keys : Seq(Seq(Name)), switch_bindings : Seq(Seq(Name))]

elements(s) == {s[i] : i \in DOMAIN s}

-----------------------------------------------------------------------------
(* main.rs *)

chords(config) == config.switch_keys \o config.switch_bindings

duplicates(chord) == \E i, j \in DOMAIN chord : i # j /\ chord[i] = chord[j]

is_valid(chord) == chord # <<>> /\ ~duplicates(chord)

\* MUTANT of trigger_of: the first key of a chord is its trigger.
trigger_of_first(chord) == into[chord[1]]

trigger_of(chord) == into[chord[Len(chord)]]

convert_switch_binding(chord) ==
    [keys |-> {into[name] : name \in elements(chord)}, trigger |-> trigger_of(chord)]

accepts(config) ==
    /\ chords(config) # <<>>
    /\ \A i \in DOMAIN chords(config) : is_valid(chords(config)[i])

build_switch_bindings(config) ==
    [i \in DOMAIN chords(config) |-> convert_switch_binding(chords(config)[i])]

-----------------------------------------------------------------------------
\* The code that the kernel reports when a key with this name goes up or down.
code(name) == to_raw[into[name]]

-----------------------------------------------------------------------------
(* Another key has the same code, and rkvm takes the code for that one. *)
shadowed(name) == from_raw[code(name)] # into[name]

(* The keys of a chord are held in the order in which the configuration     *)
(* names them, and the device is asked which are: a binding whose trigger   *)
(* is what the last one is taken for has all of its keys down.              *)
Fires(config, chord) ==
    LET codes == {code(name) : name \in elements(chord)}
        last  == from_raw[code(chord[Len(chord)])]
    IN  \E i \in DOMAIN chords(config) :
          LET binding == build_switch_bindings(config)[i] IN
            binding.trigger = last /\ binding.keys \subseteq pressed_keys(codes, codes)
=============================================================================
