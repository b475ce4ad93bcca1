------------------------------ MODULE MCServer ------------------------------
(* Values for the constants of Server: a chord of a modifier and a trigger, *)
(* or the trigger alone where the keys do not matter.                       *)
EXTENDS Server

CONSTANTS meta, grave

Modifiers == {meta} \cap Key
NoButtons == {}

ChordBinding  == <<[keys |-> {meta, grave}, trigger |-> grave]>>
SingleBinding == <<[keys |-> {grave}, trigger |-> grave]>>
NoBindings    == <<>>

DeviceSymmetry == Permutations(Device)
=============================================================================
