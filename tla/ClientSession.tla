--------------------------- MODULE ClientSession ---------------------------
(***************************************************************************)
(* The server's slab of clients (rkvm-server/src/server.rs) and what each  *)
(* client does with the updates it is sent (rkvm-client/src/client.rs,     *)
(* run_once).  A session takes an update from its bounded queue and writes *)
(* it to the connection; the client carries it out.  The connection keeps  *)
(* the order, so the two are one step here.                                *)
(*                                                                         *)
(* A client that the server drops still gets what is queued for it before  *)
(* its session ends; it then destroys its copies of the devices.  Nothing  *)
(* the server does depends on it any more, and it is no longer modelled.   *)
(***************************************************************************)
EXTENDS Updates, Naturals, TLC

CONSTANTS
    Client,     \* the routes of clients: slab key + 1
    QUEUE       \* client_queue_size

ASSUME ClientAssumption == Client \subseteq Nat \ {0} /\ QUEUE \in Nat \ {0}

VARIABLES
    session,    \* client -> vacant slot, open, or closed but still in its slot
    queue,      \* client -> updates sent and not yet carried out
    writers     \* client -> device -> pressed_keys of the client's copy

sessions == <<session, queue, writers>>

none == [d \in {} |-> {}]

ClientInit ==
    /\ session = [c \in Client |-> "vacant"]
    /\ queue = [c \in Client |-> <<>>]
    /\ writers = [c \in Client |-> none]

available_routes == {0} \cup {c \in Client : session[c] # "vacant"}

(* run_once refuses a second copy of a device, and an update of a device it *)
(* has no copy of, as invalid data.                                         *)
accepts(copies, u) == (u.kind = "create") = (u.device \notin DOMAIN copies)

carried_out(copies, u) ==
    CASE u.kind = "create"  -> [d \in DOMAIN copies \cup {u.device} |->
                                  IF d = u.device THEN {} ELSE copies[d]]
      [] u.kind = "destroy" -> Restrict(copies, DOMAIN copies \ {u.device})
      [] OTHER              -> [copies EXCEPT ![u.device] = written(@, u)]

run_once(c) ==
    /\ session[c] = "open"
    /\ queue[c] # <<>>
    /\ IF accepts(writers[c], Head(queue[c]))
       THEN /\ queue' = [queue EXCEPT ![c] = Tail(@)]
            /\ writers' = [writers EXCEPT ![c] = carried_out(@, Head(queue[c]))]
            /\ UNCHANGED session
       ELSE /\ session' = [session EXCEPT ![c] = "closed"]
            /\ UNCHANGED <<queue, writers>>

\* The connection fails, times out or is closed: the session drops its receiver.
disconnect(c) ==
    /\ session[c] = "open"
    /\ session' = [session EXCEPT ![c] = "closed"]
    /\ UNCHANGED <<queue, writers>>

(* What the server does to its slab. *)
remove_clients(gone) ==
    /\ session' = [c \in Client |-> IF c \in gone THEN "vacant" ELSE session[c]]
    /\ queue' = [c \in Client |-> IF c \in gone THEN <<>> ELSE queue[c]]
    /\ writers' = [c \in Client |-> IF c \in gone THEN none ELSE writers[c]]

closed_clients == {c \in Client : session[c] = "closed"}

\* MUTANTS of try_send_update: a client whose queue is full misses the update,
\* the queue has no limit.
try_send_update_or_skip(c, u) ==
    IF session[c] = "closed" THEN remove_clients({c})
    ELSE /\ queue' = IF session[c] = "vacant" \/ Len(queue[c]) >= QUEUE
                     THEN queue ELSE [queue EXCEPT ![c] = Append(@, u)]
         /\ UNCHANGED <<session, writers>>

try_send_update_unbounded(c, u) ==
    IF session[c] = "open"
    THEN /\ queue' = [queue EXCEPT ![c] = Append(@, u)]
         /\ UNCHANGED <<session, writers>>
    ELSE remove_clients({c})

\* A client that cannot take an update is dropped; a vacant slot takes nothing.
try_send_update(c, u) ==
    IF session[c] = "open" /\ Len(queue[c]) < QUEUE
    THEN /\ queue' = [queue EXCEPT ![c] = Append(@, u)]
         /\ UNCHANGED <<session, writers>>
    ELSE remove_clients({c})

(* An authenticated client takes a vacant slot; it may be gone already. *)
insert_client(c) ==
    /\ session[c] = "vacant"
    /\ \E state \in {"open", "closed"} : session' = [session EXCEPT ![c] = state]
    /\ UNCHANGED <<queue, writers>>
=============================================================================
