-------------------------- MODULE MCRoutedOutputs --------------------------
(* Values for the constants of ConfiguredRouter and what it extends.  The   *)
(* keyboard has the keys of the tests of routing.rs: the chord LeftMeta +   *)
(* Grave, the single-key binding RightCtrl, whose trigger is a modifier, and*)
(* an ordinary key.  Shift is a modifier in no binding.  The Back button of *)
(* the mouse switches together with LeftMeta.  The bindings are what main.rs*)
(* makes of configurations that say so.                                     *)
EXTENDS ConfiguredRouter, TLC

CONSTANTS meta, grave, rctrl, shift, a, back, brightness, display

AllModifiers == {meta, rctrl, shift}
AllButtons   == {back}
Modifiers    == AllModifiers \cap Key
Buttons      == AllButtons \cap Key

MC_into ==
    "left-meta" :> meta @@ "grave" :> grave @@ "right-ctrl" :> rctrl @@
    "b-back" :> back @@ "brightness-toggle" :> brightness @@
    "display-toggle" :> display

Names == DOMAIN MC_into

\* As in linux/input-event-codes.h, which gives two of the names one code.
MC_to_raw ==
    meta :> 125 @@ grave :> 41 @@ rctrl :> 97 @@ shift :> 42 @@ a :> 30 @@
    back :> 278 @@ brightness :> 431 @@ display :> 431

AllKeys == DOMAIN MC_to_raw

MC_keyboard ==
    125 :> meta @@ 41 :> grave @@ 97 :> rctrl @@ 42 :> shift @@ 30 :> a @@
    431 :> brightness
MC_button == 278 :> back

\* The codes of a few axes; the bounds and the tool type are the kernel's.
MC_rel      == 0 :> "x" @@ 8 :> "wheel" @@ 12 :> "h-wheel-hi-res"
MC_rel_raw  == "x" :> 0 @@ "wheel" :> 8 @@ "h-wheel-hi-res" :> 12
MC_abs      == 0 :> "x" @@ 53 :> "mt-position-x" @@ 61 :> "mt-tool-y"
MC_abs_raw  == "x" :> 0 @@ "mt-position-x" :> 53 @@ "mt-tool-y" :> 61

KeyboardConfig ==
    [switch_keys     |-> <<>>,
     switch_bindings |-> << <<"left-meta", "grave">>, <<"right-ctrl">> >>]
LegacyConfig == [switch_keys |-> << <<"left-meta", "grave">> >>, switch_bindings |-> <<>>]
MouseConfig  == [switch_keys |-> <<>>, switch_bindings |-> << <<"left-meta", "b-back">> >>]
KeyboardBindings == build_switch_bindings(KeyboardConfig)
ChordBindings    == build_switch_bindings(LegacyConfig)
MouseBindings    == build_switch_bindings(MouseConfig)

DeviceSymmetry == Permutations(Device)
=============================================================================
