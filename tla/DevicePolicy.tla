---------------------------- MODULE DevicePolicy ----------------------------
(***************************************************************************)
(* From the configuration to the policy of the monitor: what main.rs       *)
(* accepts and what server.rs makes of it, the matching of                 *)
(* rkvm-server/src/config.rs, and what --list-devices prints of it.        *)
(*                                                                         *)
(* What a configuration or a matcher may leave out is left out of the      *)
(* domain of its record.  Paths are numbers, those of the device nodes and *)
(* others for symbolic links; links is what the latter lead to at a moment,*)
(* without those that lead nowhere.                                        *)
(***************************************************************************)
EXTENDS Naturals, FiniteSets, SequencesExt

CONSTANTS
    Policies,   \* bound: the configurations that are looked at
    Infos,      \* bound: the devices, each a DeviceInfo
    LinkStates, \* bound: what the links may lead to
    Blank       \* the names of groups that are blank when trimmed

\* One field stands for vendor, product and version.
Field == {"name", "origin", "bustype", "product"}

has(record, field) == field \in DOMAIN record

\* A candidate's table is its matcher and, if given, its delay.
DeviceCandidate(c) ==
    /\ {"matcher"} \subseteq DOMAIN c /\ DOMAIN c \subseteq {"matcher", "grab_delay_ms"}
    /\ DOMAIN c.matcher \subseteq Field \cup {"path"}

\* A Vec of any length.
IsList(s) == Len(s) \in Nat /\ DOMAIN s = 1 .. Len(s)

DeviceGroup(g) ==
    /\ DOMAIN g = {"name", "candidates"}
    /\ IsList(g.candidates)
    /\ \A i \in DOMAIN g.candidates : DeviceCandidate(g.candidates[i])

ASSUME InfoAssumption ==
    /\ IsFiniteSet(Infos)
    /\ \A info \in Infos : DOMAIN info = Field \cup {"path"} /\ info.path \in Nat
    /\ \A a, b \in Infos : a.path = b.path => a = b

ASSUME PoliciesAssumption ==
    \A config \in Policies :
        /\ DOMAIN config \subseteq {"device_whitelist", "device_groups"}
        /\ has(config, "device_groups") =>
              /\ IsList(config.device_groups)
              /\ \A i \in DOMAIN config.device_groups : DeviceGroup(config.device_groups[i])

-----------------------------------------------------------------------------
(* DeviceInfo, what is asked of a device node. *)

from_sysfs_path(virtual) == IF virtual THEN "virtual" ELSE "physical"

from_evdev(path, evdev) ==
    [path    |-> path,
     name    |-> evdev.name,
     origin  |-> from_sysfs_path(evdev.virtual),
     bustype |-> evdev.bustype,
     product |-> evdev.product]

\* A copy has the name and the numbers of its source, but another bus.
created_from(evdev) == [evdev EXCEPT !.virtual = TRUE, !.bustype = "BUS_VIRTUAL"]

-----------------------------------------------------------------------------
(* DeviceMatch. *)

is_empty(matcher) == DOMAIN matcher = {}

canonical(path, links) == IF path \in DOMAIN links THEN links[path] ELSE path

path_matches(configured, candidate, links) == canonical(configured, links) = candidate

matches(matcher, info, links) ==
    /\ ~is_empty(matcher)
    /\ has(matcher, "path") => path_matches(matcher.path, info.path, links)
    /\ \A f \in DOMAIN matcher \cap Field : matcher[f] = info[f]

-----------------------------------------------------------------------------
(* validate_device_policy *)

valid_group(g) ==
    /\ g.name \notin Blank
    /\ g.candidates # <<>>
    /\ \A i \in DOMAIN g.candidates : ~is_empty(g.candidates[i].matcher)

validate_device_policy(config) ==
    /\ ~(has(config, "device_whitelist") /\ has(config, "device_groups"))
    /\ has(config, "device_whitelist") =>
          \A i \in DOMAIN config.device_whitelist : ~is_empty(config.device_whitelist[i])
    /\ has(config, "device_groups") =>
          LET groups == config.device_groups IN
          /\ groups # <<>>
          /\ \A i \in DOMAIN groups : valid_group(groups[i])
          /\ \A i, j \in DOMAIN groups : i # j => groups[i].name # groups[j].name

-----------------------------------------------------------------------------
(* The monitor's policy: the candidates of all groups in their order, or a  *)
(* single filter, which has neither a group nor a delay.                    *)

\* The elements of a finite set, sorted.  before has the pairs <<s, t>> with s before t.
in_order(S, before) ==
    [i \in 1 .. Cardinality(S) |->
        CHOOSE s \in S : Cardinality({t \in S : <<t, s>> \in before}) = i - 1]

rule(group, candidate, delay) == [group |-> group, candidate |-> candidate, delay |-> delay]

NoSelection == rule(0, 0, 0)
Filter      == rule(0, 1, 0)

grab_delay(c) == IF has(c, "grab_delay_ms") THEN c.grab_delay_ms ELSE 0

group_policy(g, listed) == {rule(g, c, grab_delay(listed[c])) : c \in DOMAIN listed}

group_rules(groups) == UNION {group_policy(g, groups[g].candidates) : g \in DOMAIN groups}

comes_first(a, b) ==
    a.group < b.group \/ (a.group = b.group /\ a.candidate < b.candidate)

policy_rules(config) ==
    IF ~has(config, "device_groups") THEN <<Filter>>
    ELSE LET all == group_rules(config.device_groups)
         IN  in_order(all, {p \in all \X all : comes_first(p[1], p[2])})

in_whitelist(config, info, links) ==
    \E i \in DOMAIN config.device_whitelist : matches(config.device_whitelist[i], info, links)

filter(config, info, links) ==
    has(config, "device_whitelist") => in_whitelist(config, info, links)

matching_rules(config, info, links) ==
    {r \in DOMAIN policy_rules(config) :
        LET of == policy_rules(config)[r] IN
        IF of = Filter THEN filter(config, info, links)
        ELSE matches(config.device_groups[of.group].candidates[of.candidate].matcher,
                     info, links)}

\* Policy::selection, the first rule that matches.
policy_selection(config, info, links) ==
    LET rs == matching_rules(config, info, links) IN
    IF rs = {} THEN NoSelection ELSE policy_rules(config)[Min(rs)]

-----------------------------------------------------------------------------
(* print_devices *)

whitelisted(config, info, links) ==
    CASE ~has(config, "device_whitelist")  -> "disabled"
      [] in_whitelist(config, info, links) -> "yes"
      [] OTHER                             -> "no"

\* MUTANT of group_match: the group that is listed is the last that matches.
group_match_last(config, info, links) ==
    LET groups   == config.device_groups
        fits(g)  == {c \in DOMAIN groups[g].candidates :
                        matches(groups[g].candidates[c].matcher, info, links)}
        fitting  == {g \in DOMAIN groups : fits(g) # {}}
        first    == Max(fitting)
    IN  IF fitting = {} THEN NoSelection
        ELSE rule(first, Min(fits(first)),
                  grab_delay(groups[first].candidates[Min(fits(first))]))

group_match(config, info, links) ==
    LET groups   == config.device_groups
        fits(g)  == {c \in DOMAIN groups[g].candidates :
                        matches(groups[g].candidates[c].matcher, info, links)}
        fitting  == {g \in DOMAIN groups : fits(g) # {}}
        first    == Min(fitting)
    IN  IF fitting = {} THEN NoSelection
        ELSE rule(first, Min(fits(first)),
                  grab_delay(groups[first].candidates[Min(fits(first))]))

\* list_devices: the nodes that a scan finds, by their paths.
list_devices(found) == in_order(found, {p \in found \X found : p[1].path < p[2].path})

\* What is printed of the groups: that there are none, or what matches, if anything.
group_line(config, info, links) ==
    IF has(config, "device_groups")
    THEN [enabled |-> TRUE, match |-> group_match(config, info, links)]
    ELSE [enabled |-> FALSE, match |-> NoSelection]

print_devices(config, found, links) ==
    LET devices == list_devices(found) IN
    [i \in DOMAIN devices |->
        [path        |-> devices[i].path,
         whitelisted |-> whitelisted(config, devices[i], links),
         group       |-> group_line(config, devices[i], links)]]

-----------------------------------------------------------------------------
\* What the list says of a device that the monitor takes this way.
listed_as(row, info, selected) ==
    /\ row.path = info.path
    /\ IF row.group.enabled THEN row.group.match = selected
                            ELSE row.whitelisted # "no" <=> selected = Filter

is_listed(config, found, links) ==
    LET printed == print_devices(config, found, links) IN
    /\ \A i, j \in DOMAIN printed : i < j => printed[i].path < printed[j].path
    /\ \A info \in found : \E i \in DOMAIN printed :
          listed_as(printed[i], info, policy_selection(config, info, links))

every_list_agrees ==
    \A config \in Policies, links \in LinkStates :
        validate_device_policy(config) => is_listed(config, Infos, links)
=============================================================================
