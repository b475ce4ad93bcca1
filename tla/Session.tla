------------------------------ MODULE Session ------------------------------
(***************************************************************************)
(* A client and the server's task for its connection, in time: run and     *)
(* run_once of rkvm-client/src/client.rs against authenticate and client   *)
(* of rkvm-server/src/server.rs.  They agree on a version, the client      *)
(* proves that it knows the password, and then the server sends updates,   *)
(* with pings where it has none to send.                                   *)
(*                                                                         *)
(* Time passes in ticks.  Timers hold the ticks that remain.  Both hosts   *)
(* keep up: what can be done is done before the next tick, except that a   *)
(* message takes up to LATENCY ticks and a write up to a stall on a        *)
(* connection that works.  A connection may be cut (nothing arrives any    *)
(* more, and nobody is told) or broken (both sides get an error).  The     *)
(* handshake fits the empty buffers of a new connection, so writing it     *)
(* does not wait.                                                          *)
(*                                                                         *)
(* The client may connect anew before the server has noticed that the last *)
(* connection is dead.  The two connections share nothing, and one at a    *)
(* time is modelled.                                                       *)
(***************************************************************************)
EXTENDS Naturals, SequencesExt

CONSTANTS
    PING_INTERVAL, READ_TIMEOUT, WRITE_TIMEOUT, TLS_TIMEOUT,   \* in ticks
    LATENCY,        \* longest way of a message
    SERVER_STALL,   \* longest write of the server
    CLIENT_STALL,   \* longest write of the client
    SOCKET,         \* messages that fit in the buffers of a connection
    QUEUE           \* client_queue_size

ASSUME SessionAssumption ==
    /\ {PING_INTERVAL, READ_TIMEOUT, WRITE_TIMEOUT, TLS_TIMEOUT, SOCKET, QUEUE}
          \subseteq Nat \ {0}
    /\ {LATENCY, SERVER_STALL, CLIENT_STALL} \subseteq Nat

VARIABLES
    client,             \* what the client is doing
    client_timer,       \* until its read or write times out
    client_interval,    \* until it gives up on a silent server
    server,             \* what the server's task is doing, "none" if there is none
    server_timer,       \* until its read or write times out
    server_interval,    \* until the next ping
    waiting_for_pong,
    pong_timeout,
    pong_channel,       \* from the task that reads pongs
    queue,              \* updates in the channel from the server's loop
    dropped,            \* the server's loop has dropped the sender of that channel
    to_client,          \* the connection, one sequence of messages per direction
    to_server,
    net,                \* the state of the connection
    timed_out,          \* one of the two gave up the connection for lack of time
    version,            \* side -> its version
    password            \* side -> its password

client_vars == <<client, client_timer, client_interval>>
pong_vars   == <<waiting_for_pong, pong_timeout, pong_channel>>
server_vars == <<server, server_timer, server_interval, pong_vars, queue, dropped>>
connection  == <<to_client, to_server, net>>
config      == <<version, password>>
vars        == <<client_vars, server_vars, connection, timed_out, config>>

Side == {"client", "server"}

(* Every read of the handshake has a timer of its own. *)
ClientHandshake == {"tls", "read_version", "read_challenge", "read_status"}
ServerHandshake == {"tls", "read_version", "read_response"}
ClientRuns      == client \in {"select", "pong"}
ServerRuns      == server \in {"select", "update", "ping"}
ClientConnected == client \in ClientHandshake \/ ClientRuns

Init ==
    /\ client = "connecting" /\ client_timer = 0 /\ client_interval = 0
    /\ server = "none" /\ server_timer = 0 /\ server_interval = 0
    /\ waiting_for_pong = FALSE /\ pong_timeout = 0 /\ pong_channel = <<>>
    /\ queue = 0 /\ dropped = FALSE
    /\ to_client = <<>> /\ to_server = <<>> /\ net = "up"
    /\ timed_out = FALSE
    /\ version \in [Side -> {6, 7}]
    /\ password \in [Side -> {1, 2}]

-----------------------------------------------------------------------------
(* The connection. *)

message(msg, value) == [msg |-> msg, value |-> value, age |-> 0]
signal(msg)         == message(msg, 0)

\* The next message in a direction; it may be anywhere until it is LATENCY old.
arrives(pipe, msg) == net = "up" /\ pipe # <<>> /\ Head(pipe).msg = msg
must_arrive(pipe)  == net = "up" /\ pipe # <<>> /\ Head(pipe).age = LATENCY
has_room(pipe)     == Len(pipe) < SOCKET

\* A side drops its end of the stream: the other reads what was sent, then its end.
ClientCloses(at) ==
    /\ client' = at
    /\ client_timer' = 0 /\ client_interval' = 0
    /\ to_server' = Append(to_server, signal("eof"))

ServerCloses(last_messages) ==
    /\ server' = "none"
    /\ server_timer' = 0 /\ server_interval' = 0
    /\ waiting_for_pong' = FALSE /\ pong_timeout' = 0 /\ pong_channel' = <<>>
    /\ queue' = 0 /\ dropped' = FALSE
    /\ to_client' = to_client \o last_messages \o <<signal("eof")>>

-----------------------------------------------------------------------------
(* The client: run, and run_once up to its loop. *)

\* MUTANT of matches: anybody is let in.
matches_anybody(theirs, ours) == TRUE

\* Version::CURRENT is compared, and AuthResponse::verify compares two HMACs of
\* one challenge under the two passwords.
matches(theirs, ours) == theirs = ours

Connect ==
    /\ client = "connecting"
    /\ client' = "tls" /\ client_timer' = TLS_TIMEOUT
    /\ server' = "tls" /\ server_timer' = TLS_TIMEOUT
    /\ to_client' = <<>> /\ to_server' = <<signal("hello")>> /\ net' = "up"
    /\ timed_out' = FALSE
    /\ UNCHANGED <<client_interval, server_interval, pong_vars, queue, dropped, config>>

ConnectFails ==
    /\ client = "connecting"
    /\ client' = "sleeping"
    /\ net' = "broken"
    /\ UNCHANGED <<client_timer, client_interval, server_vars, to_client, to_server,
                   timed_out, config>>

\* After the backoff; how long that is does not matter here.
Wakes ==
    /\ client = "sleeping"
    /\ server = "none"
    /\ client' = "connecting"
    /\ UNCHANGED <<client_timer, client_interval, server_vars, connection, timed_out, config>>

\* MUTANT of deadline: the time that the answer to a ping may take is forgotten.
deadline_of_ping == PING_INTERVAL

deadline == PING_INTERVAL + READ_TIMEOUT

\* The client takes the next message, answers it and reads on.
ClientReads(msg, answers, at) ==
    /\ arrives(to_client, msg)
    /\ to_client' = Tail(to_client)
    /\ to_server' = to_server \o answers
    /\ client' = at
    /\ client_timer' = IF at \in ClientHandshake THEN READ_TIMEOUT ELSE 0
    /\ client_interval' = IF at = "select" THEN deadline ELSE 0
    /\ UNCHANGED <<server_vars, net, timed_out, config>>

\* A permanent error: run returns.
ClientStops(msg) ==
    /\ arrives(to_client, msg)
    /\ to_client' = Tail(to_client)
    /\ ClientCloses("stopped")
    /\ UNCHANGED <<server_vars, net, timed_out, config>>

ClientHandshakes ==
    \/ /\ client = "tls"
       /\ ClientReads("hello", <<signal("finished"), message("version", version["client"])>>,
                      "read_version")
    \/ /\ client = "read_version" /\ to_client # <<>>
       /\ LET theirs == Head(to_client).value IN
          \/ matches(theirs, version["client"]) /\ ClientReads("version", <<>>, "read_challenge")
          \/ ~matches(theirs, version["client"]) /\ ClientStops("version")
    \/ /\ client = "read_challenge"
       /\ ClientReads("challenge", <<message("response", password["client"])>>, "read_status")
    \/ /\ client = "read_status"
       /\ ClientReads("passed", <<>>, "select") \/ ClientStops("failed")

\* The loop of run_once.  Its select! takes either, if an update arrives as the
\* interval ends.
ClientLoops ==
    \/ /\ client = "select"
       /\ \E msg \in {"update", "ping"} :
             /\ arrives(to_client, msg)
             /\ to_client' = Tail(to_client)
             /\ client_interval' = deadline
             /\ IF msg = "ping" THEN client' = "pong" /\ client_timer' = WRITE_TIMEOUT
                ELSE UNCHANGED <<client, client_timer>>
             /\ UNCHANGED to_server
    \/ /\ client = "pong"
       /\ has_room(to_server)
       /\ to_server' = Append(to_server, signal("pong"))
       /\ client' = "select" /\ client_timer' = 0
       /\ UNCHANGED <<client_interval, to_client>>

ClientLoop == ClientLoops /\ UNCHANGED <<server_vars, net, timed_out, config>>

\* Error::Network of any kind: run sleeps and tries again.
ClientTimeout ==
    /\ \/ client \in ClientHandshake \cup {"pong"} /\ client_timer = 0
       \/ client = "select" /\ client_interval = 0
    /\ ClientCloses("sleeping")
    /\ timed_out' = TRUE
    /\ UNCHANGED <<server_vars, to_client, net, config>>

ClientFails ==
    /\ \/ ClientConnected /\ net = "broken"
       \/ client \in ClientHandshake \cup {"select"} /\ arrives(to_client, "eof")
    /\ ClientCloses("sleeping")
    /\ UNCHANGED <<server_vars, to_client, net, timed_out, config>>

ClientStep ==
    \/ Connect \/ ConnectFails \/ Wakes
    \/ ClientHandshakes \/ ClientLoop \/ ClientTimeout \/ ClientFails

-----------------------------------------------------------------------------
(* The server: authenticate. *)

ServerReads(msg, answers, at) ==
    /\ arrives(to_server, msg)
    /\ to_server' = Tail(to_server)
    /\ to_client' = to_client \o answers
    /\ server' = at
    /\ server_timer' = IF at = "tls" THEN server_timer
                       ELSE IF at \in ServerHandshake THEN READ_TIMEOUT ELSE 0
    /\ server_interval' = IF at = "select" THEN PING_INTERVAL ELSE 0
    /\ UNCHANGED <<client_vars, pong_vars, queue, dropped, net, timed_out, config>>

\* MUTANT of ServerRefuses: the client is not told.
ServerRefuses_silently(msg, answers) ==
    /\ arrives(to_server, msg)
    /\ to_server' = Tail(to_server)
    /\ ServerCloses(<<>>)
    /\ UNCHANGED <<client_vars, net, timed_out, config>>

ServerRefuses(msg, answers) ==
    /\ arrives(to_server, msg)
    /\ to_server' = Tail(to_server)
    /\ ServerCloses(answers)
    /\ UNCHANGED <<client_vars, net, timed_out, config>>

ServerHandshakes ==
    \/ /\ server = "tls"
       /\ \/ ServerReads("hello", <<signal("hello")>>, "tls")
          \/ ServerReads("finished", <<message("version", version["server"])>>, "read_version")
    \/ /\ server = "read_version" /\ to_server # <<>>
       /\ LET theirs == Head(to_server).value IN
          \/ /\ matches(theirs, version["server"])
             /\ ServerReads("version", <<signal("challenge")>>, "read_response")
          \/ /\ ~matches(theirs, version["server"])
             /\ ServerRefuses("version", <<>>)
    \/ /\ server = "read_response" /\ to_server # <<>>
       /\ LET theirs == Head(to_server).value IN
          \/ /\ matches(theirs, password["server"])
             /\ ServerReads("response", <<signal("passed")>>, "select")
          \/ /\ ~matches(theirs, password["server"])
             /\ ServerRefuses("response", <<signal("failed")>>)

-----------------------------------------------------------------------------
(* The server: client.  Pongs are read by a task of their own; the loop     *)
(* looks at its four arms in their order.                                   *)

ReadPong ==
    /\ ServerRuns
    /\ pong_channel = <<>>
    /\ \E msg \in {"pong", "eof"} :
          /\ arrives(to_server, msg)
          /\ pong_channel' = <<msg>>
    /\ to_server' = Tail(to_server)
    /\ UNCHANGED <<client_vars, server, server_timer, server_interval, waiting_for_pong,
                   pong_timeout, queue, dropped, to_client, net, timed_out, config>>

PongReceived == pong_channel # <<>>

PongIsLate     == ~PongReceived /\ waiting_for_pong /\ pong_timeout = 0
UpdateIsReady  == ~PongReceived /\ ~PongIsLate /\ queue > 0
SenderIsGone   == ~PongReceived /\ ~PongIsLate /\ queue = 0 /\ dropped

PingIsDue ==
    ~PongReceived /\ queue = 0 /\ ~dropped /\ server_interval = 0 /\ ~waiting_for_pong

\* MUTANT of Answered: the next ping is not armed again.
Answered_for_once == pong_channel' = <<>> /\ UNCHANGED waiting_for_pong

Answered == pong_channel' = <<>> /\ waiting_for_pong' = FALSE

ReceivePong ==
    /\ server = "select"
    /\ PongReceived
    /\ \/ /\ Head(pong_channel) = "pong"
          /\ Answered
          /\ UNCHANGED <<server, server_timer, server_interval, pong_timeout, queue,
                         dropped, to_client>>
       \/ /\ Head(pong_channel) = "eof"
          /\ ServerCloses(<<>>)
    /\ UNCHANGED <<client_vars, to_server, net, timed_out, config>>

TakeUpdate ==
    /\ server = "select"
    /\ UpdateIsReady
    /\ queue' = queue - 1
    /\ server' = "update" /\ server_timer' = WRITE_TIMEOUT
    /\ UNCHANGED <<client_vars, server_interval, pong_vars, dropped, connection, timed_out,
                   config>>

TakePing ==
    /\ server = "select"
    /\ PingIsDue
    /\ server_interval' = PING_INTERVAL
    /\ server' = "ping" /\ server_timer' = WRITE_TIMEOUT
    /\ UNCHANGED <<client_vars, pong_vars, queue, dropped, connection, timed_out, config>>

\* A host without a client takes anything, until its answer is read.
CanWrite == has_room(to_client) \/ (~ClientConnected /\ net = "up")

\* The write of an update or a ping ends.
Written ==
    /\ server \in {"update", "ping"}
    /\ CanWrite
    /\ to_client' = IF has_room(to_client) THEN Append(to_client, signal(server))
                    ELSE to_client
    /\ IF server = "update"
       THEN /\ server_interval' = PING_INTERVAL
            /\ UNCHANGED pong_vars
       ELSE /\ waiting_for_pong' = TRUE
            /\ pong_timeout' = READ_TIMEOUT
            /\ UNCHANGED <<server_interval, pong_channel>>
    /\ server' = "select" /\ server_timer' = 0
    /\ UNCHANGED <<client_vars, queue, dropped, to_server, net, timed_out, config>>

\* MUTANT of ServerLate: a pong may take its time.
ServerLate_but_for_pongs ==
    server \in ServerHandshake \cup {"update", "ping"} /\ server_timer = 0

ServerLate ==
    \/ server \in ServerHandshake \cup {"update", "ping"} /\ server_timer = 0
    \/ server = "select" /\ PongIsLate

ServerTimeout ==
    /\ ServerLate
    /\ ServerCloses(<<>>)
    /\ timed_out' = TRUE
    /\ UNCHANGED <<client_vars, to_server, net, config>>

ServerFails ==
    /\ \/ server # "none" /\ net = "broken"
       \/ server \in ServerHandshake /\ arrives(to_server, "eof")
       \/ server = "select" /\ SenderIsGone
    /\ ServerCloses(<<>>)
    /\ UNCHANGED <<client_vars, to_server, net, timed_out, config>>

ServerStep ==
    \/ ServerHandshakes \/ ReadPong \/ ReceivePong \/ TakeUpdate \/ TakePing \/ Written
    \/ ServerTimeout \/ ServerFails

-----------------------------------------------------------------------------
(* The server's loop sends updates and may drop the client at any time. *)

TrySend ==
    /\ ServerRuns /\ ~dropped
    /\ queue < QUEUE
    /\ queue' = queue + 1
    /\ UNCHANGED <<client_vars, server, server_timer, server_interval, pong_vars, dropped,
                   connection, timed_out, config>>

Drop ==
    /\ ServerRuns
    /\ dropped' = TRUE
    /\ UNCHANGED <<client_vars, server, server_timer, server_interval, pong_vars, queue,
                   connection, timed_out, config>>

Disturb ==
    /\ net = "up"
    /\ net' \in {"cut", "broken"}
    /\ UNCHANGED <<client_vars, server_vars, to_client, to_server, timed_out, config>>

(* What is not left for the next tick. *)
Urgent ==
    \/ net = "broken" /\ (ClientConnected \/ server # "none")
    \/ client \in ClientHandshake \cup {"select"} /\ must_arrive(to_client)
    \/ client \in ClientHandshake \cup {"pong"} /\ client_timer = 0
    \/ client = "select" /\ client_interval = 0
    \/ client = "pong" /\ has_room(to_server) /\ client_timer + CLIENT_STALL <= WRITE_TIMEOUT
    \/ server \in ServerHandshake /\ must_arrive(to_server)
    \/ ServerRuns /\ ~PongReceived /\ must_arrive(to_server)
    \/ server \in {"update", "ping"} /\ CanWrite
          /\ server_timer + SERVER_STALL <= WRITE_TIMEOUT
    \/ server = "select" /\ (PongReceived \/ UpdateIsReady \/ SenderIsGone \/ PingIsDue)
    \/ ServerLate

passed(timer) == IF timer = 0 THEN 0 ELSE timer - 1

aged(pipe) ==
    [i \in DOMAIN pipe |->
        [pipe[i] EXCEPT !.age = IF net = "up" /\ @ < LATENCY THEN @ + 1 ELSE @]]

Tick ==
    /\ ~Urgent
    /\ client_timer' = passed(client_timer)
    /\ client_interval' = passed(client_interval)
    /\ server_timer' = passed(server_timer)
    /\ server_interval' = passed(server_interval)
    /\ pong_timeout' = passed(pong_timeout)
    /\ to_client' = aged(to_client)
    /\ to_server' = aged(to_server)
    /\ UNCHANGED <<client, server, waiting_for_pong, pong_channel, queue, dropped, net,
                   timed_out, config>>

Next == ClientStep \/ ServerStep \/ TrySend \/ Drop \/ Disturb \/ Tick

(* Both programs run and time passes; nothing is assumed of the network or  *)
(* of the server's loop.                                                    *)
Fairness == WF_vars(ClientStep) /\ WF_vars(ServerStep) /\ WF_vars(Tick)

Spec == Init /\ [][Next]_vars /\ Fairness
-----------------------------------------------------------------------------
Agreed ==
    /\ version["client"] = version["server"]
    /\ password["client"] = password["server"]

(* Neither side enters its loop unless both have the same version and the   *)
(* same password; the handshake makes the client give up for good only if   *)
(* they have not, whatever is lost, late or broken during it.               *)
HandshakeDecides ==
    /\ ClientRuns \/ ServerRuns => Agreed
    /\ client = "stopped" => ~Agreed

(* A connection that works is not given up for lack of time: the intervals  *)
(* and timeouts of the two sides fit each other, also when an answer comes  *)
(* while the server is busy with a slow write.                              *)
NoSpuriousTimeout == timed_out => net # "up"

(* What is asked of the times for that.  A write takes up to a stall or,    *)
(* for want of room, until the other side reads on.  TLS_TIMEOUT holds the  *)
(* way of three messages; READ_TIMEOUT holds a ping, the write of its       *)
(* answer and the way back; a message that is written as late as possible   *)
(* arrives before the client's deadline, after an interval without updates  *)
(* and after the round trip of a ping.                                      *)
TimesFit ==
    /\ 3 * LATENCY < TLS_TIMEOUT
    /\ 2 * LATENCY + CLIENT_STALL < READ_TIMEOUT
    /\ \A write \in {SERVER_STALL, CLIENT_STALL, LATENCY} :
          /\ write < WRITE_TIMEOUT
          /\ write + LATENCY < READ_TIMEOUT
          /\ 2 * LATENCY + CLIENT_STALL + write + LATENCY < PING_INTERVAL + READ_TIMEOUT

count(pipe, msg) == Cardinality({i \in DOMAIN pipe : pipe[i].msg = msg})

pings_and_pongs ==
    count(to_client, "ping") + count(to_server, "pong")
    + (IF client = "pong" THEN 1 ELSE 0)
    + (IF pong_channel = <<"pong">> THEN 1 ELSE 0)

(* While both run, exactly one ping or answer is under way if the server    *)
(* waits for a pong, and none if it does not: no pong answers another ping  *)
(* than the last, and the server never meets an unexpected one.             *)
OnePingUnderWay ==
    ServerRuns /\ ClientRuns =>
        pings_and_pongs = (IF waiting_for_pong THEN 1 ELSE 0)

(* When the connection is cut, both sides notice and give it up, the server *)
(* also while it keeps sending updates, which put off its pings.            *)
CutIsNoticed == net = "cut" ~> ~ClientConnected /\ server = "none"

(* Once connections work, a client that agrees with the server gets into    *)
(* its loop, again after every end of a session, and one that does not      *)
(* agree stops.                                                             *)
SessionIsDecided ==
    <>[](net = "up") => IF Agreed THEN []<>ClientRuns ELSE <>(client = "stopped")
=============================================================================
