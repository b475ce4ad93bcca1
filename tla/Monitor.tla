------------------------------ MODULE Monitor -------------------------------
(***************************************************************************)
(* The device monitor of rkvm-input/src/monitor.rs: it keeps a candidate   *)
(* for every device node, claims the ones its policy selects, retries the  *)
(* ones it cannot get, and tells the server of devices that it grabbed and *)
(* of devices that are gone.  The server, seen from here, destroys a       *)
(* device when it is told to or when the device fails, and then releases   *)
(* its activation.                                                         *)
(*                                                                         *)
(* Rules are numbered in the order in which the policy tries them, group   *)
(* by group; what a rule says of a node may change while the node is there *)
(* (a rule may name the node by a symbolic link).  Time is abstract: a     *)
(* retry is due whenever the model likes.                                  *)
(***************************************************************************)
EXTENDS Registry, SequencesExt

CONSTANTS
    group,        \* rule -> its group, Ungrouped for a plain filter
    delayed,      \* rules with a grab delay
    ExactRules,   \* rules that name a node by a path
    SourceRules,  \* source node -> the sets of rules that may match it
    CopyRules,    \* the rules that match a copy
    CHANNEL,      \* capacity of both channels, 32 in the source
    REMATCHES     \* bound: changes of what matches a node that is present

Rule      == DOMAIN group
Ungrouped == 0
NoRule    == 0

ASSUME PolicyAssumption ==
    /\ group \in Seq(Nat)
    /\ \A r, s \in Rule : r < s => group[r] <= group[s]
    /\ delayed \subseteq Rule
    /\ SourceRules \in [Source -> SUBSET SUBSET Rule]
    /\ ExactRules \cup CopyRules \subseteq Rule
    /\ CHANNEL \in Nat \ {0}
    /\ \A r \in Rule : group[r] = Ungrouped => Rule = {r}   \* a filter is one rule

VARIABLES
    matching,     \* source node -> the rules that match it
    rematches,
    candidates,   \* node -> [state, rule, activation_id, removal_sent]
    phase,        \* what the monitor does: idle, scan, reconcile
    pending,      \* the nodes it has still to do that for
    snapshots,    \* node -> what the scan found: absent, owned or candidate
    mailbox,      \* monitor to server; behind CHANNEL entries the sender waits
    releases,     \* server to monitor, likewise
    dying         \* the device the server is destroying, or NoDevice

inventory == <<candidates, phase, pending, snapshots>>
policy    == <<matching, rematches>>
vars == <<grabs, policy, inventory, mailbox, releases, dying>>

NoDevice == [activation_id |-> 0]

rules(n) == IF n \in Source THEN matching[n] ELSE CopyRules

-----------------------------------------------------------------------------
(* Candidates. *)

\* MUTANT of Retry: a device that failed is not tried again.
Retry_but_blocked == {"deferred", "waiting"}

(* The states with a deadline, retry_at. *)
Retry == {"deferred", "waiting", "blocked"}

CandidateState == Retry \cup {"ready", "unsupported", "active", "rejected"}

selection(n) == IF rules(n) = {} THEN NoRule ELSE Min(rules(n))

candidate(state, rule) ==
    [state |-> state, rule |-> rule, activation_id |-> 0, removal_sent |-> FALSE]

new_candidate(n) ==
    LET rule == selection(n) IN
    candidate(CASE rule = NoRule     -> "rejected"
                [] rule \in delayed  -> "deferred"
                [] OTHER             -> "ready", rule)

update_policy(n) ==
    IF selection(n) = candidates[n].rule THEN candidates[n] ELSE new_candidate(n)

is_active(n) == n \in DOMAIN candidates /\ candidates[n].state = "active"

put(n, c) == [m \in DOMAIN candidates \cup {n} |-> IF m = n THEN c ELSE candidates[m]]
forget(n) == [m \in DOMAIN candidates \ {n} |-> candidates[m]]

retry(n, state) == put(n, candidate(state, candidates[n].rule))

-----------------------------------------------------------------------------
(* claim_order: of every group without an active candidate, the first of   *)
(* those with the best rule that are not out of the question, if it is     *)
(* ready.                                                                  *)

\* MUTANT of suppresses_lower_rules: a busy device keeps no fallback back.
suppresses_unless_waiting(c) == c.state \notin {"unsupported", "rejected", "waiting"}

suppresses_lower_rules(c) == c.state \notin {"unsupported", "rejected"}

members(cs, g) == {n \in DOMAIN cs : cs[n].rule # NoRule /\ group[cs[n].rule] = g}

exact_path(rule) == rule \in ExactRules

reaches_exact_path(n, rule) == exact_path(rule) /\ rule \in rules(n)

\* A candidate that a rule was given for a link that now leads elsewhere comes last.
first_of_rule(matched, rule) ==
    LET exact == {n \in matched : reaches_exact_path(n, rule)}
    IN  Min(IF exact = {} THEN matched ELSE exact)

\* MUTANT of first_of_group: an active candidate does not keep others back.
first_of_group_beside_active(cs, g) ==
    LET eligible == {n \in members(cs, g) : suppresses_lower_rules(cs[n])
                                            /\ cs[n].state # "active"}
        best     == Min({cs[n].rule : n \in eligible})
    IN  IF eligible = {} THEN {}
        ELSE {first_of_rule({n \in eligible : cs[n].rule = best}, best)}

first_of_group(cs, g) ==
    LET eligible == {n \in members(cs, g) : suppresses_lower_rules(cs[n])}
        best     == Min({cs[n].rule : n \in eligible})
    IN  IF eligible = {} \/ \E n \in eligible : cs[n].state = "active" THEN {}
        ELSE {first_of_rule({n \in eligible : cs[n].rule = best}, best)}

\* MUTANT of claim_order: the grab delay and retries are not waited for.
claim_order_at_once(cs) ==
    members(cs, Ungrouped) \cup UNION {first_of_group(cs, group[r]) : r \in Rule}

claim_order(cs) ==
    {n \in members(cs, Ungrouped)
           \cup UNION {first_of_group(cs, group[r]) : r \in Rule} :
       cs[n].state = "ready"}

-----------------------------------------------------------------------------
Init ==
    /\ RegistryInit
    /\ matching = [n \in Source |-> {}]
    /\ rematches = 0
    /\ candidates = <<>>
    /\ phase = "idle"
    /\ pending = {}
    /\ snapshots = [n \in Node |-> "absent"]
    /\ mailbox = <<>>
    /\ releases = <<>>
    /\ dying = NoDevice

(* What the monitor still knows a node by, and the ids that are in use. *)
known == DOMAIN candidates \cup {n \in Node : snapshots[n] # "absent"}

ids(messages) == {messages[i].activation_id : i \in DOMAIN messages}

used == DOMAIN interceptor \cup ids(mailbox) \cup ids(releases)
        \cup {candidates[n].activation_id : n \in DOMAIN candidates}
        \cup {dying.activation_id}

(* The counter gives out ids that nobody knows; only that matters of them. *)
next_activation_id == Min((1 .. Cardinality(used) + 1) \ used)

-----------------------------------------------------------------------------
(* The monitor's loop.  While a send waits for room nothing else happens. *)

sent == Len(mailbox) <= CHANNEL

reconcile_with(cs) ==
    /\ pending' = claim_order(cs)
    /\ phase' = IF claim_order(cs) = {} THEN "idle" ELSE "reconcile"

start_scan == phase' = "scan" /\ pending' = Node

(* An inotify event, or the inventory interval: the inventory is refreshed. *)
Tick ==
    /\ phase = "idle"
    /\ sent
    /\ start_scan
    /\ UNCHANGED <<grabs, policy, candidates, snapshots, mailbox, releases, dying>>

ReleaseCause == {"disconnected", "failed"}

after_release(cause) == IF cause = "failed" THEN "blocked" ELSE "ready"

HandleRelease ==
    /\ phase = "idle"
    /\ sent
    /\ releases # <<>>
    /\ releases' = Tail(releases)
    /\ LET release == Head(releases)
           held == {n \in DOMAIN candidates :
                       is_active(n) /\ candidates[n].activation_id = release.activation_id}
       IN  candidates' = [n \in DOMAIN candidates |->
                             IF n \in held
                             THEN candidate(after_release(release.cause), candidates[n].rule)
                             ELSE candidates[n]]
    /\ start_scan
    /\ UNCHANGED <<grabs, policy, snapshots, mailbox, dying>>

\* Deadlines that have passed make their candidates ready.
Wake(n) ==
    /\ phase = "idle"
    /\ sent
    /\ n \in DOMAIN candidates /\ candidates[n].state \in Retry
    /\ \E expired \in SUBSET {m \in DOMAIN candidates : candidates[m].state \in Retry} :
          /\ n \in expired
          /\ candidates' = [m \in DOMAIN candidates |->
                               IF m \in expired THEN candidate("ready", candidates[m].rule)
                               ELSE candidates[m]]
          /\ reconcile_with(candidates')
    /\ UNCHANGED <<grabs, policy, snapshots, mailbox, releases, dying>>

-----------------------------------------------------------------------------
(* refresh_inventory: a scan of one node after the other, while nodes come  *)
(* and go; then the candidates follow what was found.  That looks at the    *)
(* snapshots only, so that it is one step; its messages wait in mailbox.    *)

Snapshot == {"absent", "owned", "candidate"}

listed == pending \cap present

finding(n) == IF n \in entries THEN "owned" ELSE "candidate"

scanned(n, snapshot) ==
    /\ phase = "scan"
    /\ listed # {}
    /\ n = Min(listed)
    /\ snapshots' = [snapshots EXCEPT ![n] = snapshot]
    /\ pending' = {m \in pending : m > n}
    /\ UNCHANGED <<grabs, policy, candidates, phase, mailbox, releases, dying>>

ScanNode(n) == scanned(n, finding(n))

\* A node that cannot be inspected is left to a later scan.
ScanFails(n) == finding(n) = "candidate" /\ scanned(n, "absent")

\* MUTANT of kept: a device that is gone is forgotten at once.
kept_if_there(n) == snapshots[n] # "absent"

(* The nodes whose candidates stay. *)
kept(n) == is_active(n) \/ snapshots[n] = "candidate"

\* request_removal: the device is gone, or its rule matches no more.
removal_due(n) ==
    /\ is_active(n)
    /\ ~candidates[n].removal_sent
    /\ \/ snapshots[n] = "absent"
       \/ snapshots[n] = "candidate" /\ candidates[n].rule \notin rules(n)

removal(n) == [event |-> "remove", activation_id |-> candidates[n].activation_id]

refreshed(n) ==
    IF is_active(n)
    THEN [candidates[n] EXCEPT !.removal_sent = @ \/ removal_due(n)]
    ELSE IF n \in DOMAIN candidates THEN update_policy(n) ELSE new_candidate(n)

Refresh ==
    /\ phase = "scan"
    /\ listed = {}
    /\ candidates' = [n \in {m \in Node : kept(m)} |-> refreshed(n)]
    /\ \E removals \in SetToSeqs({removal(n) : n \in {m \in Node : removal_due(m)}}) :
          mailbox' = mailbox \o removals
    /\ snapshots' = [n \in Node |-> "absent"]
    /\ reconcile_with(candidates')
    /\ UNCHANGED <<grabs, policy, releases, dying>>

-----------------------------------------------------------------------------
(* reconcile claims what claim_order selects, one after the other. *)

claimed_next(n) ==
    /\ pending' = pending \ {n}
    /\ phase' = IF pending' = {} THEN "idle" ELSE "reconcile"

activated(id) == [event |-> "activated", activation_id |-> id]

\* The node is gone, another one or rkvm's own; or its rule matches no more.
ClaimRefused(n) ==
    /\ phase = "reconcile"
    /\ sent
    /\ n \in pending
    /\ gate_free
    /\ \/ n \notin present \ entries /\ candidates' = forget(n)
       \/ /\ n \in present \ entries
          /\ candidates[n].rule \notin rules(n)
          /\ candidates' = retry(n, "rejected")
    /\ claimed_next(n)
    /\ UNCHANGED <<grabs, policy, snapshots, mailbox, releases, dying>>

(* Why a claim fails: what the source's node or the copy answers, and what   *)
(* reconcile does then with the candidate, to forget it or to change its     *)
(* state.  An interrupted claim has been made twice.                         *)
Errno ==
    {"ENOENT", "ENODEV", "EIO", "EINTR", "EBUSY", "EACCES", "EPERM", "EINVAL", "ENOTTY"}

source_error(errno) ==
    CASE errno \in {"ENOENT", "ENODEV"} -> "gone"
      [] errno = "EINTR"                -> "interrupted"
      [] errno \in {"EACCES", "EPERM"}  -> "permission"
      [] errno \in {"EINVAL", "ENOTTY"} -> "unsupported"
      [] OTHER                          -> "other"

grab_error(errno) == IF errno = "EBUSY" THEN "busy" ELSE source_error(errno)

output_error(errno) ==
    CASE errno \in {"ENOENT", "ENODEV", "EIO"} -> "gone"
      [] errno = "EINTR"                       -> "interrupted"
      [] OTHER                                 -> "other"

\* A switch is not a device for rkvm.
claim_errors ==
    {"unsupported"} \cup UNION {{source_error(e), grab_error(e), output_error(e)} : e \in Errno}

disposition(err) ==
    CASE err \in {"busy", "interrupted"}  -> "waiting"
      [] err \in {"permission", "other"}  -> "blocked"
      [] err = "unsupported"              -> "unsupported"

ClaimFails(n) ==
    /\ phase = "reconcile"
    /\ sent
    /\ n \in pending
    /\ gate_free
    /\ n \in present \ entries
    /\ \E err \in claim_errors :
          candidates' = IF err = "gone" THEN forget(n) ELSE retry(n, disposition(err))
    /\ claimed_next(n)
    /\ UNCHANGED <<grabs, policy, snapshots, mailbox, releases, dying>>

Claim(n) ==
    /\ phase = "reconcile"
    /\ sent
    /\ n \in pending
    /\ candidates[n].rule \in rules(n)
    /\ claim(n, next_activation_id, known)
    /\ candidates' = put(n, [candidate("active", candidates[n].rule)
                             EXCEPT !.activation_id = next_activation_id])
    /\ mailbox' = Append(mailbox, activated(next_activation_id))
    /\ claimed_next(n)
    /\ UNCHANGED <<policy, snapshots, releases, dying>>

-----------------------------------------------------------------------------
(* The server: it handles one message to the end before it takes another.  *)

waiting == dying = NoDevice /\ Len(releases) <= CHANNEL

destroy_device(id, cause) ==
    /\ drop_writer(id)
    /\ dying' = [activation_id |-> id, cause |-> cause]

ReadMessage ==
    /\ waiting
    /\ mailbox # <<>>
    /\ mailbox' = Tail(mailbox)
    /\ LET id == Head(mailbox).activation_id IN
       \/ /\ Head(mailbox).event = "activated"
          /\ move(id, "running")
          /\ UNCHANGED <<present, entries, dying>>
       \/ /\ Head(mailbox).event = "remove"
          /\ id \in DOMAIN interceptor
          /\ destroy_device(id, "disconnected")
       \/ /\ Head(mailbox).event = "remove"
          /\ id \notin DOMAIN interceptor
          /\ UNCHANGED <<grabs, dying>>
    /\ UNCHANGED <<policy, inventory, releases>>

\* The task of a device has ended and reports an error.  That it drops the
\* interceptor before the server reads of it is merged with destroy_device: a
\* candidate that is active is neither claimed nor forgotten in between.
DeviceFails(id) ==
    /\ waiting
    /\ interceptor[id].at # "sent"
    /\ \E cause \in ReleaseCause : destroy_device(id, cause)
    /\ UNCHANGED <<policy, inventory, mailbox, releases>>

\* MUTANT of Release: a device whose node is gone is not released.
Release_unless_gone ==
    /\ dying # NoDevice
    /\ drop_handles(dying.activation_id)
    /\ releases' = IF dying.cause = "disconnected" THEN releases ELSE Append(releases, dying)
    /\ dying' = NoDevice
    /\ UNCHANGED <<policy, inventory, mailbox>>

Release ==
    /\ dying # NoDevice
    /\ drop_handles(dying.activation_id)
    /\ releases' = Append(releases, dying)
    /\ dying' = NoDevice
    /\ UNCHANGED <<policy, inventory, mailbox>>

\* The task of a device replaces the local copy.
reset_writer(id) ==
    /\ \/ take_writer(id)
       \/ take_writer_handle(id)
       \/ create_writer(id, known)
       \/ register_writer(id)
    /\ UNCHANGED <<policy, inventory, mailbox, releases, dying>>

-----------------------------------------------------------------------------
(* Devices are plugged in and out. *)

Appear(n) ==
    /\ n \notin present \cup entries \cup known
    /\ present' = present \cup {n}
    /\ \E rs \in SourceRules[n] : matching' = [matching EXCEPT ![n] = rs]
    /\ UNCHANGED <<entries, interceptor, rematches, inventory, mailbox, releases, dying>>

Vanish(n) ==
    /\ n \in present
    /\ present' = present \ {n}
    /\ UNCHANGED <<entries, interceptor, policy, inventory, mailbox, releases, dying>>

Rematch(n) ==
    /\ n \in present
    /\ rematches < REMATCHES
    /\ rematches' = rematches + 1
    /\ \E rs \in SourceRules[n] \ {matching[n]} : matching' = [matching EXCEPT ![n] = rs]
    /\ UNCHANGED <<grabs, inventory, mailbox, releases, dying>>

-----------------------------------------------------------------------------
MonitorStep ==
    \/ Tick \/ HandleRelease \/ Refresh
    \/ \E n \in Node : \/ Wake(n) \/ ScanNode(n) \/ ScanFails(n)
                       \/ ClaimRefused(n) \/ ClaimFails(n) \/ Claim(n)

ServerStep ==
    \/ ReadMessage \/ Release
    \/ \E id \in DOMAIN interceptor : DeviceFails(id) \/ reset_writer(id)

Next ==
    \/ MonitorStep
    \/ ServerStep
    \/ \E n \in Source : Appear(n) \/ Vanish(n) \/ Rematch(n)

(* The monitor and the server go on while they can.  The monitor's select!  *)
(* is random: a release, a deadline and the interval each get their turn,   *)
(* and so does a message to the server.  A writer that was created is       *)
(* registered.  What is inspected or claimed again and again succeeds some  *)
(* time; devices come, go and fail as they like.                            *)
Fairness ==
    /\ WF_vars(Refresh \/ \E n \in Node : ScanNode(n) \/ ScanFails(n))
    /\ SF_vars(\E n \in Node : ClaimRefused(n) \/ ClaimFails(n) \/ Claim(n))
    /\ SF_vars(Tick) /\ SF_vars(HandleRelease)
    /\ SF_vars(ReadMessage) /\ WF_vars(Release)
    /\ WF_vars(\E id \in DOMAIN interceptor :
                   interceptor[id].at = "created" /\ reset_writer(id))
    /\ \A n \in Source : SF_vars(Wake(n)) /\ SF_vars(ScanNode(n)) /\ SF_vars(Claim(n))

Spec == Init /\ [][Next]_vars /\ Fairness

-----------------------------------------------------------------------------
MonitorTypeOK ==
    /\ RegistryTypeOK
    /\ \A n \in Source : matching[n] \in SourceRules[n] \cup {{}}
    /\ DOMAIN candidates \subseteq Node
    /\ \A n \in DOMAIN candidates :
          /\ candidates[n].state \in CandidateState
          /\ candidates[n].rule \in Rule \cup {NoRule}
          /\ candidates[n].rule = NoRule => candidates[n].state = "rejected"
    /\ phase \in {"idle", "scan", "reconcile"}
    /\ pending \subseteq Node
    /\ phase = "reconcile" =>
          \A n \in pending : n \in DOMAIN candidates /\ candidates[n].state = "ready"
    /\ snapshots \in [Node -> Snapshot]
    /\ \A n \in DOMAIN candidates : candidates[n].removal_sent => is_active(n)
    /\ Len(releases) <= CHANNEL + 1

rule_of(id) == candidates[interceptor[id].node].rule

(* "At most one candidate in a group is active" (README.md:93): no two       *)
(* interceptors of a group live at once, wherever they are on their way     *)
(* between monitor and server.                                              *)
OneActivePerGroup ==
    \A i, j \in DOMAIN interceptor :
        i # j => group[rule_of(i)] = Ungrouped \/ group[rule_of(i)] # group[rule_of(j)]

(* An activation is never lost: every interceptor belongs to an active      *)
(* candidate, and every active candidate has its interceptor or, exclusively,*)
(* the release of it on the way.  Otherwise the device would stay grabbed    *)
(* and unread, or ungrabbed and never claimed again.                        *)
ActiveIsAccounted ==
    /\ \A id \in DOMAIN interceptor :
          /\ is_active(interceptor[id].node)
          /\ candidates[interceptor[id].node].activation_id = id
    /\ \A n \in DOMAIN candidates :
          is_active(n) =>
              (candidates[n].activation_id \in DOMAIN interceptor)
              # (candidates[n].activation_id \in ids(releases))

(* A candidate becomes active only when no preferred one of its group is    *)
(* there that is busy, deferred or blocked ("a present preferred candidate  *)
(* that is busy or deferred suppresses lower candidates", README.md:95).    *)
PreferredFirst ==
    [][\A n \in DOMAIN candidates :
          ~is_active(n) /\ is_active(n)' =>
              \A m \in members(candidates, group[candidates[n].rule]) :
                  candidates[m].rule < candidates[n].rule =>
                      candidates[m].state \in {"unsupported", "rejected"}]_vars

(* An active device that is unplugged is taken off the server and its       *)
(* candidate leaves the active state, so that its group is free again.      *)
RemovalAnswered ==
    \A n \in Source : is_active(n) /\ n \notin present ~> ~is_active(n)

\* Nothing else that could be claimed belongs to n's group.
Alone(n) ==
    /\ n \in present
    /\ rules(n) # {}
    /\ \A m \in present \ (entries \cup {n}) :
          \A r \in rules(m) : group[r] # group[selection(n)]

(* A device that stays plugged in and has no competitor in its group is     *)
(* taken again and again, however often it is busy or fails; unless a claim *)
(* came across it while its rule did not match, or found it unsupported.    *)
PresentIsTaken ==
    \A n \in Source :
        <>[]Alone(n) =>
            \/ []<>is_active(n)
            \/ <>[](n \in DOMAIN candidates
                    /\ candidates[n].state \in {"rejected", "unsupported"})
=============================================================================
