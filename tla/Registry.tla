------------------------------ MODULE Registry ------------------------------
(***************************************************************************)
(* The device nodes rkvm owns: rkvm-input/src/registry.rs with the steps   *)
(* of Interceptor (rkvm-input/src/interceptor.rs) that change the registry *)
(* or create and remove nodes: claim, reset_writer, and dropping it.       *)
(*                                                                         *)
(* An interceptor grabs a source node and creates an output node, a copy   *)
(* of the source that any policy for the source may match as well.  Both   *)
(* are registered, so that the monitor does not take the copy for a device *)
(* of the user.  Claims run in the monitor's task, resets in the tasks of  *)
(* the devices; the gate keeps a claim away from a copy that exists but is *)
(* not registered yet.                                                     *)
(***************************************************************************)
EXTENDS Naturals, FiniteSets, FiniteSetsExt

CONSTANTS
    Source,   \* device nodes of the user's devices, numbered by path
    Output    \* nodes of the copies

Node   == Source \cup Output
NoNode == 0

ASSUME RegistryAssumption ==
    /\ Node \subseteq Nat \ {NoNode}
    /\ IsFiniteSet(Node)
    /\ Source \cap Output = {}

VARIABLES
    present,      \* the nodes there are
    entries,      \* the registered ones
    interceptor   \* activation id -> [node, writer, at] of the living ones

grabs == <<present, entries, interceptor>>

(* Where an interceptor is: in the monitor's message to the server; read by *)
(* its task; in reset_writer with the old node removed ("taken"), then      *)
(* unregistered ("queued" for the gate), then with a new node that is not   *)
(* registered ("created", under the gate); "dropped" with its file closed   *)
(* and its copy removed, but its handles still registered.                  *)
Place == {"sent", "running", "taken", "queued", "created", "dropped"}

RegistryInit ==
    /\ present = {}
    /\ entries = {}
    /\ interceptor = <<>>

(* Only a reset holds the gate over more than one step. *)
gate_free == \A id \in DOMAIN interceptor : interceptor[id].at # "created"

(* A device node is never numbered like one that somebody still knows; the  *)
(* set of Outputs bounds how many there are.                                *)
fresh(known)      == Output \ (present \cup entries \cup known)
new_output(known) == Min(fresh(known))

move(id, place) == interceptor' = [interceptor EXCEPT ![id].at = place]

-----------------------------------------------------------------------------
(* Interceptor::claim.  One that fails leaves nothing behind. *)

\* MUTANT of claimable: the gate is not locked.
claimable_without_gate(n) == n \in present \ entries

claimable(n) == gate_free /\ n \in present \ entries

claim(n, id, known) ==
    LET writer == new_output(known) IN
    /\ claimable(n)
    /\ fresh(known) # {}
    /\ present' = present \cup {writer}
    /\ entries' = entries \cup {n, writer}
    /\ interceptor' = [i \in DOMAIN interceptor \cup {id} |->
                          IF i = id THEN [node |-> n, writer |-> writer, at |-> "sent"]
                          ELSE interceptor[i]]

-----------------------------------------------------------------------------
(* reset_writer: the old writer goes, then its handle; the new one is      *)
(* created and registered under the gate.                                  *)

take_writer(id) ==
    /\ interceptor[id].at = "running"
    /\ present' = present \ {interceptor[id].writer}
    /\ move(id, "taken")
    /\ UNCHANGED entries

take_writer_handle(id) ==
    /\ interceptor[id].at = "taken"
    /\ entries' = entries \ {interceptor[id].writer}
    /\ interceptor' = [interceptor EXCEPT ![id].writer = NoNode, ![id].at = "queued"]
    /\ UNCHANGED present

create_writer(id, known) ==
    LET writer == new_output(known) IN
    /\ interceptor[id].at = "queued"
    /\ gate_free
    /\ fresh(known) # {}
    /\ present' = present \cup {writer}
    /\ interceptor' = [interceptor EXCEPT ![id].writer = writer, ![id].at = "created"]
    /\ UNCHANGED entries

register_writer(id) ==
    /\ interceptor[id].at = "created"
    /\ entries' = entries \cup {interceptor[id].writer}
    /\ move(id, "running")
    /\ UNCHANGED present

-----------------------------------------------------------------------------
(* Dropping an interceptor, wherever its task is: the fields go in their    *)
(* order, the file and the writer before the handles.                       *)

drop_writer(id) ==
    /\ present' = present \ {interceptor[id].writer}
    /\ interceptor' = [interceptor EXCEPT ![id].at = "dropped",
                          ![id].writer = IF @ \in entries THEN @ ELSE NoNode]
    /\ UNCHANGED entries

drop_handles(id) ==
    /\ interceptor[id].at = "dropped"
    /\ entries' = entries \ {interceptor[id].node, interceptor[id].writer}
    /\ interceptor' = [i \in DOMAIN interceptor \ {id} |-> interceptor[i]]
    /\ UNCHANGED present

-----------------------------------------------------------------------------
RegistryTypeOK ==
    /\ present \subseteq Node
    /\ entries \subseteq Node
    /\ \A id \in DOMAIN interceptor :
          interceptor[id] \in [node : Node, writer : Output \cup {NoNode}, at : Place]

(* No interceptor reads a copy that rkvm itself made: the input would come *)
(* round in circles.  Whatever is claimed while writers are replaced.      *)
OwnNodesNotTaken ==
    \A id \in DOMAIN interceptor : interceptor[id].node \notin Output
=============================================================================
