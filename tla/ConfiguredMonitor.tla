------------------------- MODULE ConfiguredMonitor -------------------------
(***************************************************************************)
(* The monitor under a configuration that rkvm-server has accepted: the     *)
(* rules of Monitor are those that server.rs makes of the configuration,    *)
(* and a source is matched by its DeviceInfo, while links move.             *)
(***************************************************************************)
EXTENDS Monitor, DevicePolicy

CONSTANTS
    UsedPolicy,   \* the configuration
    UsedLinks,    \* what its links may lead to
    device_info   \* node -> its DeviceInfo

ASSUME UsedAssumption ==
    /\ UsedPolicy \in Policies
    /\ validate_device_policy(UsedPolicy)
    /\ UsedLinks \subseteq LinkStates
    /\ device_info \in [Node -> Infos]
    /\ \A n \in Node : device_info[n].path = n

(* The monitor's rules are those of the configuration. *)
ASSUME DerivedAssumption ==
    LET all == policy_rules(UsedPolicy) IN
    /\ group = [r \in DOMAIN all |-> all[r].group]
    /\ delayed = {r \in DOMAIN all : all[r].delay > 0}
    /\ ExactRules =
          {r \in DOMAIN all :
              /\ all[r] # Filter
              /\ LET of == UsedPolicy.device_groups[all[r].group] IN
                 has(of.candidates[all[r].candidate].matcher, "path")}
    /\ SourceRules =
          [n \in Source |-> {matching_rules(UsedPolicy, device_info[n], ls) : ls \in UsedLinks}]
    /\ \A n \in Output, ls \in UsedLinks :
          CopyRules = matching_rules(UsedPolicy, device_info[n], ls)

-----------------------------------------------------------------------------
\* The rules that --list-devices names for a device, whatever the links lead to.
listed_rules ==
    LET all            == policy_rules(UsedPolicy)
        printed(links) == print_devices(UsedPolicy, {device_info[n] : n \in Source}, links)
    IN  [n \in Source |->
            {r \in DOMAIN all :
                \E links \in UsedLinks : \E i \in DOMAIN printed(links) :
                    listed_as(printed(links)[i], device_info[n], all[r])}]

(* --list-devices under an accepted configuration prints every device once, *)
(* and says of it what the monitor does with it: which group and candidate  *)
(* it takes it for and after what delay, or, without groups, whether it     *)
(* takes it at all.  Whatever the monitor has grabbed, through claims and   *)
(* retries while links moved, it holds for a rule that could be printed.    *)
PolicyIsListed ==
    /\ every_list_agrees
    /\ \A n \in Source : is_active(n) => candidates[n].rule \in listed_rules[n]
=============================================================================
