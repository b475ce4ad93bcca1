----------------------- MODULE ConfiguredRouterProofs -----------------------
(* What the tables let a client's copy of a device show, and what every      *)
(* accepted configuration gives the router and its user, for all tables of  *)
(* names and codes that satisfy the assumptions on them.                    *)
EXTENDS ConfiguredRouter, RoutedOutputsProofs, WellFoundedInduction

-----------------------------------------------------------------------------
(* Capabilities.                                                            *)

(* The codes of the source that the table knows are those that come out at  *)
(* the other end: the iterators of caps.rs stop in front of the bound, and  *)
(* no code is taken for a name that is another code's.                      *)
LEMMA CodesSurvive ==
    ASSUME NEW codes, NEW max, NEW from, NEW to,
           \A c \in DOMAIN from :
              c < max /\ from[c] \in DOMAIN to /\ to[from[c]] = c
    PROVE  enabled(caps(codes, max, from), to) = codes \cap DOMAIN from
  BY DEF enabled, caps

LEMMA CopiedCodes ==
    ASSUME NEW source
    PROVE  /\ client_copy(source).EV_REL = source.EV_REL \cap DOMAIN rel_from_raw
           /\ client_copy(source).EV_ABS = source.EV_ABS \cap DOMAIN abs_from_raw
           /\ client_copy(source).EV_KEY = source.EV_KEY \cap DOMAIN from_raw
<1>1. enabled(rel_caps(source.EV_REL), rel_to_raw) = source.EV_REL \cap DOMAIN rel_from_raw
  BY CodesSurvive, AxisAssumption DEF rel_caps
<1>2. enabled(abs_caps(source.EV_ABS), abs_to_raw) = source.EV_ABS \cap DOMAIN abs_from_raw
  BY CodesSurvive, AxisAssumption DEF abs_caps
<1>3. enabled(key_caps(source.EV_KEY), to_raw) = source.EV_KEY \cap DOMAIN from_raw
  <2>1. DOMAIN to_raw = NamedKey
    BY TableAssumption
  <2>2. \A c \in DOMAIN from_raw :
           c < KEY_MAX /\ from_raw[c] \in DOMAIN to_raw /\ to_raw[from_raw[c]] = c
    BY <2>1, TableAssumption
  <2>3. QED
    BY <2>2, CodesSurvive DEF key_caps
<1>4. QED
  BY <1>1, <1>2, <1>3 DEF client_copy

(* The kernel drops what a device is not made for, without an error.  An    *)
(* event that the interceptor forwards is one that the client's copy is     *)
(* made for, under the same code, unless it gives the type of a tool.       *)
THEOREM ForwardedIsShown ==
    ASSUME NEW source, NEW e \in RawEvent,
           e.code \in source[e.type], is_known(e), ~IsToolType(e)
    PROVE  raw_code(e) = e.code /\ e.code \in client_copy(source)[e.type]
<1>1. CASE e.type = "EV_REL"
  <2>1. e.code \in DOMAIN rel_from_raw /\ raw_code(e) = rel_to_raw[rel_from_raw[e.code]]
    BY <1>1 DEF is_known, raw_code
  <2>2. QED
    BY <1>1, <2>1, CopiedCodes, AxisAssumption
<1>2. CASE e.type = "EV_KEY"
  <2>1. e.code \in DOMAIN from_raw /\ raw_code(e) = to_raw[from_raw[e.code]]
    BY <1>2 DEF is_known, raw_code
  <2>2. QED
    BY <1>2, <2>1, CopiedCodes, TableAssumption
<1>3. CASE e.type = "EV_ABS"
  <2>1. e.code \in DOMAIN abs_from_raw /\ raw_code(e) = abs_to_raw[abs_from_raw[e.code]]
    BY <1>3 DEF is_known, raw_code
  <2>2. QED
    BY <1>3, <2>1, CopiedCodes, AxisAssumption
<1>4. QED
  BY <1>1, <1>2, <1>3 DEF RawEvent

(* The type of a tool is forwarded and written, but no copy is made for it: *)
(* no name of an axis stands for its code (AbsAxis::from_raw), so that      *)
(* AbsCaps does not list it.                                                *)
THEOREM ToolTypeIsDropped ==
    ASSUME NEW source, NEW e \in RawEvent, IsToolType(e)
    PROVE  raw_code(e) \notin client_copy(source)[e.type]
<1>1. e.type = "EV_ABS" /\ raw_code(e) = ABS_MT_TOOL_TYPE
  BY DEF IsToolType, raw_code
<1>2. QED
  BY <1>1, CopiedCodes, AxisAssumption

-----------------------------------------------------------------------------
(* Bindings.                                                                *)

(* A set of natural numbers has a least element: of several bindings that   *)
(* match one is the first.                                                  *)
LEMMA LeastOf ==
    ASSUME NEW T \in SUBSET Nat, T # {}
    PROVE  \E m \in T : \A n \in T : m <= n
<1> DEFINE R == OpToRel(<, Nat)
<1>1. IsWellFoundedOn(R, Nat)
  BY NatLessThanWellFounded
<1>2. \A x, y \in Nat : y < x => <<y, x>> \in R
  BY DEF OpToRel
<1> HIDE DEF R
<1>3. PICK m \in T : \A n \in T : ~ (<<n, m>> \in R)
  BY <1>1, WFMin
<1>4. ASSUME NEW n \in T PROVE m <= n
  <2>1. m \in Nat /\ n \in Nat
    OBVIOUS
  <2>2. ~ (n < m)
    BY <1>2, <1>3, <2>1
  <2> QED BY <2>1, <2>2
<1> QED BY <1>4

LEMMA ChordsType ==
    ASSUME NEW c \in Config, accepts(c),
           NEW i \in DOMAIN chords(c)
    PROVE  /\ chords(c)[i] \in Seq(Name)
           /\ Len(chords(c)[i]) \in DOMAIN chords(c)[i]
<1>1. chords(c) \in Seq(Seq(Name))
  BY DEF Config, chords
<1>2. chords(c)[i] \in Seq(Name)
  BY <1>1
<1>3. chords(c)[i] # <<>>
  BY DEF accepts, is_valid
<1> QED BY <1>2, <1>3

(* Main hands the router at least one binding, and every binding is one that *)
(* the router can take: its trigger is among its keys (RouterAssumption).    *)
THEOREM AcceptedBindings ==
    ASSUME NEW c \in Config, accepts(c)
    PROVE  LET bs == build_switch_bindings(c) IN
           /\ bs \in Seq([keys : SUBSET NamedKey, trigger : NamedKey])
           /\ bs # <<>>
           /\ \A i \in DOMAIN bs : bs[i].trigger \in bs[i].keys
<1> DEFINE bs       == build_switch_bindings(c)
           Binding  == [keys : SUBSET NamedKey, trigger : NamedKey]
<1>1. chords(c) \in Seq(Seq(Name)) /\ chords(c) # <<>>
  BY DEF Config, chords, accepts
<1>2. ASSUME NEW i \in DOMAIN chords(c)
      PROVE  /\ bs[i] \in Binding
             /\ bs[i].trigger \in bs[i].keys
  <2> DEFINE chord == chords(c)[i]
  <2>1. chord \in Seq(Name) /\ Len(chord) \in DOMAIN chord
    BY <1>2, ChordsType
  <2>2. bs[i] = [keys    |-> {into[name] : name \in elements(chord)},
                       trigger |-> into[chord[Len(chord)]]]
    BY <1>2 DEF build_switch_bindings, convert_switch_binding, trigger_of
  <2>3. elements(chord) \subseteq Name /\ chord[Len(chord)] \in elements(chord)
    BY <2>1 DEF elements
  <2> HIDE DEF chord, bs
  <2>4. \A name \in Name : into[name] \in NamedKey
    BY NameAssumption
  <2> QED BY <2>2, <2>3, <2>4
<1>3. DOMAIN bs = 1..Len(chords(c)) /\ Len(chords(c)) \in Nat \ {0}
  BY <1>1 DEF build_switch_bindings
<1>4. bs = [i \in 1..Len(chords(c)) |-> bs[i]]
  BY <1>1 DEF build_switch_bindings
<1> HIDE DEF bs
<1>5. DOMAIN chords(c) = 1..Len(chords(c))
  BY <1>1
<1>6. bs \in Seq(Binding)
  BY <1>2, <1>3, <1>4, <1>5
<1> QED BY <1>2, <1>3, <1>5, <1>6 DEF bs

(* No configuration that the server accepts has a chord that cannot be typed *)
(* while the device is claimed, except for names whose code rkvm takes for   *)
(* another key.                                                              *)
THEOREM ChordsFire ==
    ASSUME NEW c \in Config, accepts(c), NEW i \in DOMAIN chords(c),
           \A name \in elements(chords(c)[i]) : ~shadowed(name)
    PROVE  Fires(c, chords(c)[i])
<1> DEFINE chord   == chords(c)[i]
           codes   == {code(name) : name \in elements(chord)}
           binding == build_switch_bindings(c)[i]
<1>1. chord \in Seq(Name) /\ Len(chord) \in DOMAIN chord
  BY ChordsType
<1>2. elements(chord) \subseteq Name /\ chord[Len(chord)] \in elements(chord)
  BY <1>1 DEF elements
<1>3. /\ binding.keys = {into[name] : name \in elements(chord)}
      /\ binding.trigger = into[chord[Len(chord)]]
  BY DEF build_switch_bindings, convert_switch_binding, trigger_of
<1>4. \A name \in elements(chord) : from_raw[code(name)] = into[name]
  BY DEF shadowed
<1> HIDE DEF chord, binding
<1>5. binding.trigger = from_raw[code(chord[Len(chord)])]
  BY <1>2, <1>3, <1>4
<1>6. ASSUME NEW name \in elements(chord)
      PROVE  into[name] \in pressed_keys(codes, codes)
  <2>1. into[name] \in NamedKey
    BY <1>2, NameAssumption
  <2>2. code(name) \in DOMAIN from_raw /\ code(name) < KEY_MAX
    BY <2>1, TableAssumption DEF code
  <2>3. code(name) \in codes
    OBVIOUS
  <2>4. from_raw[code(name)] \in key_caps(codes)
    BY <2>2, <2>3 DEF key_caps, caps
  <2> QED BY <2>3, <2>4, <1>4 DEF pressed_keys, code
<1>7. binding.keys \subseteq pressed_keys(codes, codes)
  BY <1>3, <1>6
<1> QED BY <1>5, <1>7 DEF Fires, chord, binding
-----------------------------------------------------------------------------
(* When the last key of a chord goes down and all its keys are down then,   *)
(* the router finds a binding for it.                                       *)
LEMMA ChordMatches ==
    ASSUME NEW i \in DOMAIN bindings, NEW pressed, NEW k,
           bindings[i].trigger = k, bindings[i].keys \subseteq pressed
    PROVE  \E b \in DOMAIN bindings : matching_binding(b, k, pressed)
<1> DEFINE T == {b \in DOMAIN bindings :
                    bindings[b].trigger = k /\ bindings[b].keys \subseteq pressed}
<1>1. DOMAIN bindings \subseteq Nat /\ \A b \in DOMAIN bindings :
                                          1 .. b - 1 \subseteq DOMAIN bindings
  BY RouterAssumption
<1>2. PICK b \in T : \A c \in T : b <= c
  <2>1. T \in SUBSET Nat /\ i \in T
    BY <1>1
  <2> HIDE DEF T
  <2> QED BY <2>1, LeastOf
<1>3. \A c \in 1 .. b - 1 : c \in Nat /\ ~(b <= c)
  BY <1>1
<1>4. \A c \in 1 .. b - 1 : c \in DOMAIN bindings /\ c \notin T
  BY <1>1, <1>2, <1>3
<1> QED BY <1>2, <1>4 DEF matching_binding

(* A key goes down, outside AddDevice and ResetDevice, only by its event.   *)
LEMMA PressIsKeyEvent ==
    ASSUME TypeOK, [Next]_vars, NEW d \in Device, NEW k, Pressed(d, k)
    PROVE  d \in devices /\ k \in Key /\ KeyEvent(d, k) /\ Down(d, k)
<1>1. physical_keys' # physical_keys
  BY DEF Pressed
<1>2. ASSUME NEW e \in devices, NEW l \in Key, KeyEvent(e, l)
      PROVE  e = d /\ l = k /\ Down(d, k)
  <2>1. update_physical_key(e, l)
    BY <1>2 DEF KeyEvent, SilentKey, Forward, Switch, BlockedKey, ActiveTriggerKey,
                WithheldKey, ForwardedKey, OrdinaryEvent, SwitchKey
  <2>2. e \in Device
    BY DEF TypeOK
  <2> QED BY <2>1, <2>2 DEF update_physical_key, Pressed, Down, TypeOK
<1>3. ASSUME NEW e \in Device, NEW pressed \in SUBSET Key,
             AddDevice(e, pressed) \/ ResetDevice(e, pressed)
      PROVE  FALSE
  BY <1>3 DEF AddDevice, ResetDevice, Pressed, TypeOK
<1>4. ASSUME NEW e \in Device, FailDevice(e) \/ Suspend(e) \/ RemoveDevice(e)
      PROVE  FALSE
  BY <1>1, <1>4 DEF FailDevice, Suspend, RemoveDevice, Pressed, router, TypeOK
<1>5. ASSUME \/ \E r \in Route : LoseRoute(r) \/ GainRoute(r)
             \/ RetainRoutes
             \/ UNCHANGED vars
      PROVE  FALSE
  BY <1>1, <1>5 DEF LoseRoute, GainRoute, RetainRoutes, retain_routes, vars, router
<1> QED BY <1>2, <1>3, <1>4, <1>5 DEF Next

(* Whatever the configuration, whoever types one of its chords switches.    *)
THEOREM ChordsSwitch == Spec => ChordSwitches
<1> DEFINE chord(i) == chords(config)[i]
<1>1. ASSUME SafetyInv, [Next]_vars, NEW i \in DOMAIN chords(config), NEW d \in Device,
             \A name \in elements(chord(i)) : ~shadowed(name),
             active_binding = NoBinding, routes # {0}, Typed(chord(i), d)
      PROVE  current' # current
  <2> DEFINE k == seen_as(last_name(chord(i)))
  <2>1. TypeOK /\ BlockedKeysAreHeld
    BY <1>1 DEF SafetyInv
  <2>2. Pressed(d, k)
    BY <1>1 DEF Typed
  <2>3. KeyEvent(d, k) /\ Down(d, k) /\ k \notin blocked_keys[d]
    BY <1>1, <2>1, <2>2, PressIsKeyEvent DEF BlockedKeysAreHeld, Down
  <2>4. /\ i \in DOMAIN bindings
        /\ bindings[i].trigger = k
        /\ bindings[i].keys \subseteq pressed_key_union \cup {k}
    <3>1. \A name \in elements(chord(i)) : seen_as(name) = into[name]
      BY <1>1 DEF shadowed, seen_as
    <3>2. last_name(chord(i)) \in elements(chord(i))
      BY <1>1, ChordsType, ConfiguredAssumption DEF last_name, elements
    <3>3. /\ i \in DOMAIN bindings
          /\ bindings[i].keys = {into[name] : name \in elements(chord(i))}
          /\ bindings[i].trigger = into[last_name(chord(i))]
      BY <1>1, ConfiguredAssumption
         DEF build_switch_bindings, convert_switch_binding, trigger_of, last_name
    <3>4. \A name \in elements(chord(i)) : into[name] \in pressed_key_union \cup {k}
      BY <1>1, <3>1 DEF Typed
    <3> QED BY <3>1, <3>2, <3>3, <3>4
  <2>5. Switches(d, k)
    BY <1>1, <2>3, <2>4, ChordMatches DEF Switches
  <2>6. Switch(d, k)
    BY <1>1, <2>3, <2>5
       DEF KeyEvent, SilentKey, Forward, BlockedKey, ActiveTriggerKey, WithheldKey,
           ForwardedKey, OrdinaryEvent, trigger
  <2>7. PICK s \in routes : s # 0
    BY <1>1, <2>1 DEF TypeOK
  <2>8. PICK r \in routes : next_route(r, routes, current) /\ current' = r
    BY <2>6 DEF Switch, SwitchKey
  <2>9. current \in Nat /\ s \in Nat
    BY <2>1, RouteAssumption DEF TypeOK
  <2>10. r # current
    <3>1. CASE r > current
      BY <3>1, <2>9, <2>1, RouteAssumption DEF TypeOK
    <3>2. CASE r = 0 /\ \A q \in routes : q <= current
      BY <3>2, <2>7, <2>9
    <3> QED BY <2>8, <3>1, <3>2 DEF next_route
  <2> QED BY <2>8, <2>10
<1>2. SafetyInv /\ [Next]_vars =>
          [\A i \in DOMAIN chords(config), d \in Device :
              LET ch == chords(config)[i] IN
                /\ \A name \in elements(ch) : ~shadowed(name)
                /\ active_binding = NoBinding
                /\ routes # {0}
                /\ Typed(ch, d)
              => current' # current]_vars
  BY <1>1
<1> QED BY <1>2, Safety, PTL DEF Spec, ChordSwitches
=============================================================================
