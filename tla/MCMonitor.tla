----------------------------- MODULE MCMonitor ------------------------------
(* Values for the constants of ConfiguredMonitor.  Two groups: one prefers  *)
(* a device to a fallback, each by a link, with a grab delay for the        *)
(* fallback, and one takes any keyboard by its name, rkvm's own copies as   *)
(* well; or a single group, which prefers a device that a link leads to, and *)
(* whose last rule is never the first to match.                             *)
EXTENDS ConfiguredMonitor

PreferredLink == 101
FallbackLink  == 102

ByLink(link) == [path |-> link]
Keyboard     == [name |-> "kbd"]
candidate_of(matcher, delay) == [matcher |-> matcher, grab_delay_ms |-> delay]
at_once(matcher) == [matcher |-> matcher]

TwoGroups ==
    [device_groups |->
      << [name |-> "desk", candidates |-> << at_once(ByLink(PreferredLink)),
                                             candidate_of(ByLink(FallbackLink), 3) >>],
         [name |-> "any",  candidates |-> << at_once(Keyboard) >>] >>]

OneGroup ==
    [device_groups |->
      << [name |-> "desk", candidates |-> << at_once(ByLink(PreferredLink)),
                                             candidate_of(Keyboard, 3),
                                             at_once([product |-> 1]) >>] >>]

Desk  == [name |-> "kbd", virtual |-> FALSE, bustype |-> "BUS_USB", product |-> 1]
Mouse == [name |-> "mouse", virtual |-> FALSE, bustype |-> "BUS_USB", product |-> 2]

Desks == [n \in Node |-> from_evdev(n, IF n \in Source THEN Desk ELSE created_from(Desk))]

\* The links lead to their devices, to nothing, or both to one device.
only(from, to) == [l \in {from} |-> to]
FallbackMoves  ==
    {[l \in {PreferredLink, FallbackLink} |-> l - 100], only(PreferredLink, 1)}
PreferredMoves == {only(PreferredLink, 1), <<>>}

-----------------------------------------------------------------------------
TwoGroups_group == <<1, 1, 2>>
TwoGroups_rules == << {{1, 3}}, {{2, 3}, {3}} >>
OneGroup_group  == <<1, 1, 1>>
OneGroup_rules  == << {{1, 2, 3}, {2, 3}} >>

-----------------------------------------------------------------------------
(* What PolicyIsListed looks at besides: matchers of one or two fields, in  *)
(* whitelists and groups of at most two; a mouse and a device whose name is *)
(* no text, which no configuration can give.                                *)
Matchers ==
    {ByLink(PreferredLink), ByLink(1), Keyboard, [name |-> "kbd", origin |-> "physical"],
     [bustype |-> "BUS_VIRTUAL"],
     [product |-> 2], <<>>}

Groups ==
    {[name |-> name, candidates |-> cs] :
        name \in {"desk", "any", " "},
        cs \in {<<>>} \cup {<<candidate_of(m, 3)>> : m \in Matchers}
               \cup {<<at_once(m), candidate_of(w, 3)>> :
                        m \in Matchers, w \in {Keyboard, [product |-> 2]}}}

Whitelists == {<<>>} \cup {<<m>> : m \in Matchers} \cup {<<m, w>> : m, w \in Matchers}

SamplePolicies ==
    {<<>>, TwoGroups, OneGroup}
    \cup {[device_whitelist |-> w] : w \in Whitelists}
    \cup {[device_groups |-> <<>>]}
    \cup {[device_groups |-> <<g>>] : g \in Groups}
    \cup {[device_groups |-> <<g, h>>] : g, h \in Groups}
    \cup {[device_groups |-> <<g>>, device_whitelist |-> <<m>>] : g \in Groups, m \in Matchers}

SampleInfos ==
    {Desks[n] : n \in Node}
    \cup {from_evdev(3, Mouse), from_evdev(4, [Desk EXCEPT !.name = "not text"])}

SampleLinks == FallbackMoves \cup PreferredMoves
=============================================================================
