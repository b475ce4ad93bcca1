---------------------------- MODULE Capabilities ----------------------------
(***************************************************************************)
(* Which events of a device reach the other machines: the tables between   *)
(* kernel codes and names (rkvm-input/src/key.rs and key/, rel.rs, abs.rs),*)
(* the capabilities that interceptor/caps.rs finds with them, the device   *)
(* that a client builds from those (writer.rs), and what an event of the   *)
(* source is written to it as.  Server and client have the same tables,    *)
(* as builds with the same kernel headers have (have_abs_profile).         *)
(***************************************************************************)
EXTENDS Integers

CONSTANTS
    NamedKey,           \* Key, every variant of the enum
    KEY_MAX,            \* the kernel's bound on key codes
    to_raw,             \* key -> code
    keyboard,           \* Keyboard::from_raw, for the codes that it knows
    button,             \* Button::from_raw, likewise
    REL_MAX, ABS_MAX,   \* the bounds on the codes of axes
    rel_to_raw, rel_from_raw,   \* the tables of RelAxis
    abs_to_raw, abs_from_raw,   \* those of AbsAxis; abs_to_raw may lack an axis
    ABS_MT_TOOL_TYPE,   \* a code that stands for no axis
    ToolType            \* the values it may have that rkvm knows

\* What is a key of a keyboard is never looked up among the buttons.
from_raw ==
    [c \in DOMAIN keyboard \cup DOMAIN button |->
        IF c \in DOMAIN keyboard THEN keyboard[c] ELSE button[c]]

(* What the tables have in common, read off them row by row: only keys of   *)
(* one code, like BrightnessToggle and DisplayToggle, are taken for one     *)
(* another.                                                                 *)
ASSUME TableAssumption ==
    /\ KEY_MAX \in Nat
    /\ to_raw \in [NamedKey -> Nat]
    /\ \A c \in DOMAIN from_raw :
          c \in Nat /\ c < KEY_MAX /\ from_raw[c] \in NamedKey /\ to_raw[from_raw[c]] = c
    /\ \A k \in NamedKey : to_raw[k] \in DOMAIN from_raw

ASSUME AxisAssumption ==
    /\ {REL_MAX, ABS_MAX} \subseteq Nat
    /\ \A c \in DOMAIN rel_from_raw :
          /\ c \in Nat /\ c < REL_MAX
          /\ rel_from_raw[c] \in DOMAIN rel_to_raw /\ rel_to_raw[rel_from_raw[c]] = c
    /\ \A c \in DOMAIN abs_from_raw :
          /\ c \in Nat /\ c < ABS_MAX
          /\ abs_from_raw[c] \in DOMAIN abs_to_raw /\ abs_to_raw[abs_from_raw[c]] = c
    /\ ABS_MT_TOOL_TYPE \notin DOMAIN abs_from_raw

-----------------------------------------------------------------------------
(* The iterators of caps.rs, over the codes that the source has. *)

caps(codes, max, from) == {from[c] : c \in {d \in codes : d < max /\ d \in DOMAIN from}}

rel_caps(codes) == caps(codes, REL_MAX, rel_from_raw)
abs_caps(codes) == caps(codes, ABS_MAX, abs_from_raw)
key_caps(codes) == caps(codes, KEY_MAX, from_raw)

\* The keys that are down, asked of the device when it is claimed or reset.
pressed_keys(codes, down) == {k \in key_caps(codes) : to_raw[k] \in down}

-----------------------------------------------------------------------------
(* WriterBuilder: the codes that the client's device is given. *)

enabled(names, to) == {to[n] : n \in names \cap DOMAIN to}

client_copy(source) ==
    [EV_REL |-> enabled(rel_caps(source.EV_REL), rel_to_raw),
     EV_ABS |-> enabled(abs_caps(source.EV_ABS), abs_to_raw),
     EV_KEY |-> enabled(key_caps(source.EV_KEY), to_raw)]

-----------------------------------------------------------------------------
(* An event of the source: those that read knows go to the server, and the  *)
(* code under which raw_event writes them again.                            *)

RawEvent == [type : {"EV_REL", "EV_ABS", "EV_KEY"}, code : Nat, value : Int]

IsToolType(e) == e.type = "EV_ABS" /\ e.code = ABS_MT_TOOL_TYPE

is_known(e) ==
    CASE IsToolType(e)     -> e.value \in ToolType
      [] e.type = "EV_REL" -> e.code \in DOMAIN rel_from_raw
      [] e.type = "EV_KEY" -> e.value \in {0, 1} /\ e.code \in DOMAIN from_raw
      [] OTHER             -> e.code \in DOMAIN abs_from_raw

raw_code(e) ==
    CASE IsToolType(e)     -> ABS_MT_TOOL_TYPE
      [] e.type = "EV_REL" -> rel_to_raw[rel_from_raw[e.code]]
      [] e.type = "EV_KEY" -> to_raw[from_raw[e.code]]
      [] OTHER             -> abs_to_raw[abs_from_raw[e.code]]
=============================================================================
