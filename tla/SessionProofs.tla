---------------------------- MODULE SessionProofs ----------------------------
(* Proofs about Session for all times, latencies, buffers and queues, and   *)
(* whatever happens to the connection; NobodyTimesOut for all times that    *)
(* fit each other.                                                          *)
EXTENDS Session, FiniteSetTheorems, TLAPS

-----------------------------------------------------------------------------
(* Types. *)

Kind ==
    {"hello", "finished", "version", "challenge", "response", "passed", "failed",
     "update", "ping", "pong", "eof"}

Message == [msg : Kind, value : Nat, age : Nat]

ClientState == {"connecting", "sleeping", "stopped"} \cup ClientHandshake \cup {"select", "pong"}
ServerState == {"none"} \cup ServerHandshake \cup {"select", "update", "ping"}

TypeInv ==
    /\ client \in ClientState
    /\ server \in ServerState
    /\ waiting_for_pong \in BOOLEAN
    /\ pong_channel \in {<<>>, <<"pong">>, <<"eof">>}
    /\ to_client \in Seq(Message)
    /\ to_server \in Seq(Message)
    /\ version \in [Side -> Nat]
    /\ password \in [Side -> Nat]

(* What the messages on their way say of the two sides, and what the server *)
(* has learned already.                                                     *)
SaysOfClient(m) ==
    /\ m.msg = "version"  => m.value = version["client"]
    /\ m.msg = "response" => m.value = password["client"]

SaysOfServer(m) ==
    /\ m.msg = "version" => m.value = version["server"]
    /\ m.msg = "passed"  => Agreed
    /\ m.msg = "failed"  => ~Agreed

HandshakeInv ==
    /\ \A i \in DOMAIN to_server : SaysOfClient(to_server[i])
    /\ \A i \in DOMAIN to_client : SaysOfServer(to_client[i])
    /\ server = "read_response" => version["client"] = version["server"]

(* How far the two sides can be apart: the server does not run before the   *)
(* client's last step of the handshake, nor the client before the server's; *)
(* and the pings, from then on.                                             *)
ClientExpects == client \in {"read_status", "select", "pong"}

PingInv ==
    /\ client = "connecting" => server = "none"
    /\ client \in {"tls", "read_version", "read_challenge"} =>
          ~ServerRuns /\ count(to_server, "response") = 0
    /\ server \in ServerHandshake =>
          /\ ~ClientRuns
          /\ count(to_client, "passed") = 0
          /\ count(to_client, "ping") = 0
          /\ count(to_server, "pong") = 0
    /\ ~ServerRuns => ~waiting_for_pong /\ pong_channel = <<>>
    /\ server = "ping" => ~waiting_for_pong
    /\ ServerRuns /\ ClientExpects =>
          pings_and_pongs = (IF waiting_for_pong THEN 1 ELSE 0)

IInv == TypeInv /\ HandshakeInv /\ HandshakeDecides /\ PingInv

-----------------------------------------------------------------------------
(* Pipes. *)

one_if(b) == IF b THEN 1 ELSE 0

LEMMA CountType ==
    ASSUME NEW p \in Seq(Message), NEW k
    PROVE  /\ count(p, k) \in Nat
           /\ IsFiniteSet({i \in DOMAIN p : p[i].msg = k})
           /\ \A i \in DOMAIN p : p[i].msg = k => count(p, k) > 0
<1> DEFINE S == {i \in DOMAIN p : p[i].msg = k}
<1>1. IsFiniteSet(1 .. Len(p)) /\ S \subseteq 1 .. Len(p)
  BY FS_Interval
<1>2. IsFiniteSet(S)
  BY <1>1, FS_Subset
<1>3. Cardinality(S) \in Nat /\ (Cardinality(S) = 0 <=> S = {})
  BY <1>2, FS_CardinalityType, FS_EmptySet
<1>4. count(p, k) = Cardinality(S)
  BY DEF count
<1>5. \A i \in DOMAIN p : p[i].msg = k => i \in S
  OBVIOUS
<1> HIDE DEF S
<1>6. \A i \in DOMAIN p : p[i].msg = k => count(p, k) > 0
  BY <1>3, <1>4, <1>5
<1>7. count(p, k) \in Nat
  BY <1>3, <1>4
<1> QED BY <1>2, <1>6, <1>7 DEF S

\* A message that is sent comes last.
LEMMA CountAppend ==
    ASSUME NEW p \in Seq(Message), NEW m \in Message
    PROVE  /\ p \o <<m>> = Append(p, m)
           /\ Append(p, m) \in Seq(Message)
           /\ \A i \in DOMAIN Append(p, m) :
                 (i \in DOMAIN p /\ Append(p, m)[i] = p[i]) \/ Append(p, m)[i] = m
           /\ \A k : count(Append(p, m), k) = count(p, k) + one_if(m.msg = k)
<1>1. /\ p \o <<m>> = Append(p, m)
      /\ Append(p, m) \in Seq(Message)
      /\ DOMAIN p = 1 .. Len(p) /\ Len(p) \in Nat
      /\ DOMAIN Append(p, m) = 1 .. Len(p) + 1
      /\ \A i \in DOMAIN p : Append(p, m)[i] = p[i]
      /\ Append(p, m)[Len(p) + 1] = m
  OBVIOUS
<1>2. ASSUME NEW k PROVE count(Append(p, m), k) = count(p, k) + one_if(m.msg = k)
  <2> DEFINE S == {i \in DOMAIN p : p[i].msg = k}
             T == {i \in DOMAIN Append(p, m) : Append(p, m)[i].msg = k}
  <2>1. T = IF m.msg = k THEN S \cup {Len(p) + 1} ELSE S
    BY <1>1
  <2>2. IsFiniteSet(S) /\ count(p, k) \in Nat
    BY CountType
  <2>3. /\ Len(p) + 1 \notin S
        /\ count(p, k) = Cardinality(S)
        /\ count(Append(p, m), k) = Cardinality(T)
    BY <1>1 DEF count
  <2> HIDE DEF S, T
  <2>4. Cardinality(S \cup {Len(p) + 1}) = Cardinality(S) + 1
    BY <2>2, <2>3, FS_AddElement
  <2> QED BY <2>1, <2>2, <2>3, <2>4 DEF one_if
<1>3. \A i \in DOMAIN Append(p, m) :
         (i \in DOMAIN p /\ Append(p, m)[i] = p[i]) \/ Append(p, m)[i] = m
  BY <1>1
<1> QED BY <1>1, <1>2, <1>3

\* The message that is read is the first.
LEMMA CountTail ==
    ASSUME NEW p \in Seq(Message), p # <<>>
    PROVE  /\ Tail(p) \in Seq(Message)
           /\ Head(p) \in Message /\ 1 \in DOMAIN p /\ Head(p) = p[1]
           /\ \A i \in DOMAIN Tail(p) : i + 1 \in DOMAIN p /\ Tail(p)[i] = p[i + 1]
           /\ \A k : count(p, k) = count(Tail(p), k) + one_if(Head(p).msg = k)
<1>1. /\ Tail(p) \in Seq(Message)
      /\ Head(p) \in Message /\ 1 \in DOMAIN p /\ Head(p) = p[1]
      /\ DOMAIN p = 1 .. Len(p) /\ Len(p) \in Nat \ {0}
      /\ DOMAIN Tail(p) = 1 .. Len(p) - 1
      /\ \A i \in DOMAIN Tail(p) : i + 1 \in DOMAIN p /\ Tail(p)[i] = p[i + 1]
  OBVIOUS
<1>2. ASSUME NEW k PROVE count(p, k) = count(Tail(p), k) + one_if(Head(p).msg = k)
  <2> DEFINE S == {i \in DOMAIN p : p[i].msg = k}
             T == {i \in DOMAIN Tail(p) : Tail(p)[i].msg = k}
             f == [i \in T |-> i + 1]
  <2>1. S \ {1} = {i \in 2 .. Len(p) : p[i].msg = k}
    BY <1>1
  <2>2. f \in Bijection(T, S \ {1})
    <3>1. \A i \in T : f[i] \in S \ {1}
      BY <1>1
    <3>2. \A i, j \in T : f[i] = f[j] => i = j
      BY <1>1
    <3>3. \A j \in S \ {1} : j - 1 \in T /\ f[j - 1] = j
      BY <1>1, <2>1
    <3> QED BY <3>1, <3>2, <3>3 DEF Bijection, Injection, IsInjective, Surjection
  <2>3. IsFiniteSet(S) /\ IsFiniteSet(T) /\ count(p, k) \in Nat /\ count(Tail(p), k) \in Nat
    BY <1>1, CountType
  <2>4. /\ 1 \in S <=> Head(p).msg = k
        /\ count(p, k) = Cardinality(S)
        /\ count(Tail(p), k) = Cardinality(T)
    BY <1>1 DEF count
  <2> HIDE DEF S, T, f
  <2>5. Cardinality(S \ {1}) = Cardinality(T)
    <3>1. ExistsBijection(T, S \ {1})
      BY <2>2 DEF ExistsBijection
    <3> QED BY <2>3, <3>1, FS_Bijection
  <2>6. Cardinality(S \ {1}) = IF 1 \in S THEN Cardinality(S) - 1 ELSE Cardinality(S)
    BY <2>3, FS_RemoveElement
  <2> QED BY <2>3, <2>4, <2>5, <2>6 DEF one_if
<1> QED BY <1>1, <1>2

\* Time only ages the messages.
LEMMA Aged ==
    ASSUME NEW p \in Seq(Message), LATENCY \in Nat
    PROVE  /\ aged(p) \in Seq(Message)
           /\ DOMAIN aged(p) = DOMAIN p
           /\ \A i \in DOMAIN p :
                 aged(p)[i].msg = p[i].msg /\ aged(p)[i].value = p[i].value
           /\ \A k : count(aged(p), k) = count(p, k)
<1>1. DOMAIN aged(p) = DOMAIN p /\ DOMAIN p = 1 .. Len(p) /\ Len(p) \in Nat
  BY DEF aged
<1>2. ASSUME NEW i \in DOMAIN p
      PROVE  /\ aged(p)[i].msg = p[i].msg /\ aged(p)[i].value = p[i].value
             /\ aged(p)[i] \in Message
  <2>1. p[i] \in Message
    OBVIOUS
  <2> QED BY <2>1 DEF aged, Message
<1>3. aged(p) \in Seq(Message)
  <2>1. aged(p) = [i \in 1 .. Len(p) |-> aged(p)[i]]
    BY <1>1 DEF aged
  <2> QED BY <1>1, <1>2, <2>1
<1>4. ASSUME NEW k PROVE count(aged(p), k) = count(p, k)
  <2>1. {i \in DOMAIN aged(p) : aged(p)[i].msg = k} = {i \in DOMAIN p : p[i].msg = k}
    BY <1>1, <1>2
  <2> QED BY <2>1 DEF count
<1> QED BY <1>1, <1>2, <1>3, <1>4


LEMMA NoMessages == <<>> \in Seq(Message) /\ \A k : count(<<>>, k) = 0
<1>1. \A k : {i \in DOMAIN <<>> : <<>>[i].msg = k} = {}
  OBVIOUS
<1> QED BY <1>1, FS_EmptySet DEF count

LEMMA Messages ==
    /\ \A k \in Kind : /\ signal(k) \in Message
                       /\ signal(k).msg = k
                       /\ \A v \in Nat : message(k, v) \in Message
    /\ \A k, v : message(k, v).msg = k /\ message(k, v).value = v
  BY DEF message, signal, Message

-----------------------------------------------------------------------------
(* What a read or a write leaves of the invariant. *)

LEMMA ServerTakes ==
    ASSUME IInv, NEW k, arrives(to_server, k), to_server' = Tail(to_server),
           UNCHANGED config
    PROVE  /\ to_server' \in Seq(Message)
           /\ \A i \in DOMAIN to_server' : SaysOfClient(to_server[i])'
           /\ Head(to_server).msg = k /\ SaysOfClient(Head(to_server))
           /\ \A m : /\ count(to_server, m) \in Nat /\ count(to_server', m) \in Nat
                     /\ count(to_server, m) = count(to_server', m) + one_if(k = m)
<1>1. to_server \in Seq(Message) /\ to_server # <<>> /\ Head(to_server).msg = k
      /\ UNCHANGED <<version, password>>
  BY DEF arrives, config, IInv, TypeInv
<1>2. /\ to_server' \in Seq(Message)
      /\ \A i \in DOMAIN to_server' : SaysOfClient(to_server'[i])
      /\ SaysOfClient(Head(to_server))
      /\ \A m : count(to_server, m) = count(to_server', m) + one_if(k = m)
  BY <1>1, CountTail DEF IInv, HandshakeInv
<1>3. \A m : count(to_server, m) \in Nat /\ count(to_server', m) \in Nat
  BY <1>1, <1>2, CountType
<1> QED BY <1>1, <1>2, <1>3 DEF SaysOfClient

LEMMA ClientTakes ==
    ASSUME IInv, NEW k, arrives(to_client, k), to_client' = Tail(to_client),
           UNCHANGED config
    PROVE  /\ to_client' \in Seq(Message)
           /\ \A i \in DOMAIN to_client' : SaysOfServer(to_client[i])'
           /\ Head(to_client).msg = k /\ SaysOfServer(Head(to_client))
           /\ \A m : /\ count(to_client, m) \in Nat /\ count(to_client', m) \in Nat
                     /\ count(to_client, m) = count(to_client', m) + one_if(k = m)
<1>1. to_client \in Seq(Message) /\ to_client # <<>> /\ Head(to_client).msg = k
      /\ UNCHANGED <<version, password>>
  BY DEF arrives, config, IInv, TypeInv
<1>2. /\ to_client' \in Seq(Message)
      /\ \A i \in DOMAIN to_client' : SaysOfServer(to_client'[i])
      /\ SaysOfServer(Head(to_client))
      /\ \A m : count(to_client, m) = count(to_client', m) + one_if(k = m)
  BY <1>1, CountTail DEF IInv, HandshakeInv
<1>3. \A m : count(to_client, m) \in Nat /\ count(to_client', m) \in Nat
  BY <1>1, <1>2, CountType
<1> QED BY <1>1, <1>2, <1>3 DEF SaysOfServer, Agreed

LEMMA ClientSends ==
    ASSUME IInv, NEW m \in Message, SaysOfClient(m), UNCHANGED config,
           to_server' \in {Append(to_server, m), to_server \o <<m>>}
    PROVE  /\ to_server' \in Seq(Message)
           /\ \A i \in DOMAIN to_server' : SaysOfClient(to_server[i])'
           /\ \A k : /\ count(to_server, k) \in Nat
                     /\ count(to_server', k) = count(to_server, k) + one_if(m.msg = k)
<1>1. to_server \in Seq(Message) /\ UNCHANGED <<version, password>>
  BY DEF config, IInv, TypeInv
<1>2. to_server' = Append(to_server, m)
  BY <1>1, CountAppend
<1>3. /\ to_server' \in Seq(Message)
      /\ \A i \in DOMAIN to_server' : SaysOfClient(to_server'[i])
      /\ \A k : count(to_server', k) = count(to_server, k) + one_if(m.msg = k)
  BY <1>1, <1>2, CountAppend DEF IInv, HandshakeInv
<1>4. \A k : count(to_server, k) \in Nat
  BY <1>1, CountType
<1> QED BY <1>1, <1>3, <1>4 DEF SaysOfClient

LEMMA ServerSends ==
    ASSUME IInv, NEW m \in Message, SaysOfServer(m), UNCHANGED config,
           to_client' \in {Append(to_client, m), to_client \o <<m>>}
    PROVE  /\ to_client' \in Seq(Message)
           /\ \A i \in DOMAIN to_client' : SaysOfServer(to_client[i])'
           /\ \A k : /\ count(to_client, k) \in Nat
                     /\ count(to_client', k) = count(to_client, k) + one_if(m.msg = k)
<1>1. to_client \in Seq(Message) /\ UNCHANGED <<version, password>>
  BY DEF config, IInv, TypeInv
<1>2. to_client' = Append(to_client, m)
  BY <1>1, CountAppend
<1>3. /\ to_client' \in Seq(Message)
      /\ \A i \in DOMAIN to_client' : SaysOfServer(to_client'[i])
      /\ \A k : count(to_client', k) = count(to_client, k) + one_if(m.msg = k)
  BY <1>1, <1>2, CountAppend DEF IInv, HandshakeInv
<1>4. \A k : count(to_client, k) \in Nat
  BY <1>1, CountType
<1> QED BY <1>1, <1>3, <1>4 DEF SaysOfServer, Agreed

\* The client leaves, for good only if the two sides do not agree.
LEMMA ClientLeaves ==
    ASSUME IInv, NEW at \in {"sleeping", "stopped"}, ClientCloses(at),
           at = "stopped" => ~Agreed,
           UNCHANGED <<server, waiting_for_pong, pong_channel, config>>,
           to_client' \in Seq(Message),
           \A i \in DOMAIN to_client' : SaysOfServer(to_client[i])',
           \A m : /\ count(to_client, m) \in Nat /\ count(to_client', m) \in Nat
                  /\ count(to_client', m) <= count(to_client, m)
    PROVE  IInv'
<1>1. client' = at /\ to_server' = Append(to_server, signal("eof"))
      /\ UNCHANGED <<version, password>>
  BY DEF ClientCloses, config
<1>2. signal("eof") \in Message /\ signal("eof").msg = "eof" /\ SaysOfClient(signal("eof"))
  BY Messages DEF Kind, SaysOfClient
<1>3. /\ to_server' \in Seq(Message)
      /\ \A i \in DOMAIN to_server' : SaysOfClient(to_server[i])'
      /\ \A k : /\ count(to_server, k) \in Nat
                /\ count(to_server', k) = count(to_server, k) + one_if("eof" = k)
  BY <1>1, <1>2, ClientSends
<1>4. TypeInv' /\ HandshakeInv'
  BY <1>1, <1>3 DEF IInv, TypeInv, HandshakeInv, ClientState
<1>5. HandshakeDecides'
  BY <1>1 DEF IInv, HandshakeDecides, ClientRuns, ServerRuns, Agreed
<1>6. PingInv'
  <2>1. count(to_client', "passed") <= count(to_client, "passed")
        /\ count(to_client', "passed") \in Nat /\ count(to_client, "passed") \in Nat
        /\ count(to_client', "ping") <= count(to_client, "ping")
        /\ count(to_client', "ping") \in Nat /\ count(to_client, "ping") \in Nat
        /\ count(to_server', "pong") = count(to_server, "pong")
    BY <1>3 DEF one_if
  <2> QED BY <1>1, <2>1 DEF IInv, PingInv, ClientRuns, ServerRuns, ClientExpects
<1> QED BY <1>4, <1>5, <1>6 DEF IInv

\* The server's task ends, whatever it says last.
LEMMA ServerLeaves ==
    ASSUME IInv, NEW answers \in {<<>>, <<signal("failed")>>}, ServerCloses(answers),
           answers # <<>> => ~Agreed,
           UNCHANGED <<client, config>>,
           to_server' \in Seq(Message),
           \A i \in DOMAIN to_server' : SaysOfClient(to_server[i])',
           \A m : /\ count(to_server, m) \in Nat /\ count(to_server', m) \in Nat
                  /\ count(to_server', m) <= count(to_server, m)
    PROVE  IInv'
<1>1. /\ server' = "none" /\ waiting_for_pong' = FALSE /\ pong_channel' = <<>>
      /\ to_client' = to_client \o answers \o <<signal("eof")>>
      /\ UNCHANGED <<version, password>> /\ Agreed' = Agreed
  BY DEF ServerCloses, config, Agreed
<1>2. /\ signal("eof") \in Message /\ SaysOfServer(signal("eof"))
      /\ signal("failed") \in Message /\ (~Agreed => SaysOfServer(signal("failed")))
  BY Messages DEF Kind, SaysOfServer
<1>3. /\ to_client \in Seq(Message)
      /\ \A i \in DOMAIN to_client : SaysOfServer(to_client[i])
  BY DEF IInv, TypeInv, HandshakeInv
<1>4. /\ to_client \o answers \in Seq(Message)
      /\ \A i \in DOMAIN (to_client \o answers) : SaysOfServer((to_client \o answers)[i])
  <2>1. CASE answers = <<>>
    <3>1. to_client \o answers = to_client
      BY <1>3, <2>1
    <3> QED BY <1>3, <3>1
  <2>2. CASE answers = <<signal("failed")>>
    <3>1. to_client \o answers = Append(to_client, signal("failed")) /\ answers # <<>>
      BY <1>2, <1>3, <2>2, CountAppend
    <3> QED BY <1>2, <1>3, <3>1, CountAppend
  <2> QED BY <2>1, <2>2
<1>5. /\ to_client' \in Seq(Message)
      /\ \A i \in DOMAIN to_client' : SaysOfServer(to_client'[i])
  BY <1>1, <1>2, <1>4, CountAppend
<1>6. TypeInv' /\ HandshakeInv'
  BY <1>1, <1>5 DEF IInv, TypeInv, HandshakeInv, ServerState, SaysOfServer
<1>7. HandshakeDecides'
  BY <1>1 DEF IInv, HandshakeDecides, ClientRuns, ServerRuns
<1>8. PingInv'
  <2>1. count(to_server', "response") <= count(to_server, "response")
        /\ count(to_server', "response") \in Nat /\ count(to_server, "response") \in Nat
    OBVIOUS
  <2> QED BY <1>1, <2>1 DEF IInv, PingInv, ServerRuns, ServerHandshake
<1> QED BY <1>6, <1>7, <1>8 DEF IInv


\* What neither side's place in the protocol nor the messages depend on.
LEMMA Elsewhere ==
    ASSUME IInv, UNCHANGED <<waiting_for_pong, pong_channel, config>>,
           \/ UNCHANGED <<client, server>>
           \/ client' = "sleeping" /\ server' = server
           \/ client' = "connecting" /\ server = "none" /\ server' = server
           \/ client' = client /\ server = "select" /\ server' = "update"
           \/ client' = client /\ server = "select" /\ server' = "ping" /\ ~waiting_for_pong,
           to_client' \in Seq(Message), to_server' \in Seq(Message),
           \A i \in DOMAIN to_client' : SaysOfServer(to_client[i])',
           \A i \in DOMAIN to_server' : SaysOfClient(to_server[i])',
           \A k : count(to_client', k) = count(to_client, k)
                  /\ count(to_server', k) = count(to_server, k)
    PROVE  IInv'
<1>1. TypeInv' /\ HandshakeInv'
  BY DEF config, IInv, TypeInv, HandshakeInv, ClientState, ServerState
<1>2. HandshakeDecides'
  BY DEF config, IInv, HandshakeDecides, ClientRuns, ServerRuns, Agreed
<1>3. PingInv'
  BY DEF IInv, PingInv, ClientRuns, ServerRuns, ClientExpects, pings_and_pongs,
     ServerHandshake
<1> QED BY <1>1, <1>2, <1>3 DEF IInv

LEMMA SamePipes ==
    ASSUME IInv, UNCHANGED <<to_client, to_server, config>>
    PROVE  /\ to_client' \in Seq(Message) /\ to_server' \in Seq(Message)
           /\ \A i \in DOMAIN to_client' : SaysOfServer(to_client[i])'
           /\ \A i \in DOMAIN to_server' : SaysOfClient(to_server[i])'
  BY DEF IInv, TypeInv, HandshakeInv, SaysOfServer, SaysOfClient, config, Agreed

LEMMA QuietSteps ==
    ASSUME IInv,
           ConnectFails \/ Wakes \/ TakeUpdate \/ TakePing \/ TrySend \/ Drop \/ Disturb
    PROVE  IInv'
<1> USE DEF client_vars, server_vars, pong_vars, connection
<1>1. UNCHANGED <<waiting_for_pong, pong_channel, to_client, to_server, config>>
  BY DEF ConnectFails, Wakes, TakeUpdate, TakePing, TrySend, Drop, Disturb
<1>2. \/ UNCHANGED <<client, server>>
      \/ client' = "sleeping" /\ server' = server
      \/ client' = "connecting" /\ server = "none" /\ server' = server
      \/ client' = client /\ server = "select" /\ server' = "update"
      \/ client' = client /\ server = "select" /\ server' = "ping" /\ ~waiting_for_pong
  BY DEF ConnectFails, Wakes, TakeUpdate, TakePing, PingIsDue, TrySend, Drop, Disturb
<1> QED BY <1>1, <1>2, SamePipes, Elsewhere

LEMMA TickStep ==
    ASSUME IInv, Tick
    PROVE  IInv'
<1>1. /\ UNCHANGED <<waiting_for_pong, pong_channel, client, server, config>>
      /\ to_client' = aged(to_client) /\ to_server' = aged(to_server)
  BY DEF Tick
<1>2. to_client \in Seq(Message) /\ to_server \in Seq(Message)
  BY DEF IInv, TypeInv
<1>3. /\ to_client' \in Seq(Message) /\ to_server' \in Seq(Message)
      /\ DOMAIN to_client' = DOMAIN to_client /\ DOMAIN to_server' = DOMAIN to_server
      /\ \A i \in DOMAIN to_client : to_client'[i].msg = to_client[i].msg
                                     /\ to_client'[i].value = to_client[i].value
      /\ \A i \in DOMAIN to_server : to_server'[i].msg = to_server[i].msg
                                     /\ to_server'[i].value = to_server[i].value
      /\ \A k : count(to_client', k) = count(to_client, k)
                /\ count(to_server', k) = count(to_server, k)
  BY <1>1, <1>2, Aged, SessionAssumption
<1>4. /\ \A i \in DOMAIN to_client' : SaysOfServer(to_client[i])'
      /\ \A i \in DOMAIN to_server' : SaysOfClient(to_server[i])'
  BY <1>1, <1>3 DEF config, IInv, HandshakeInv, SaysOfServer, SaysOfClient, Agreed
<1> QED BY <1>1, <1>3, <1>4, Elsewhere

LEMMA ConnectStep ==
    ASSUME IInv, Connect
    PROVE  IInv'
<1>1. /\ client = "connecting" /\ client' = "tls" /\ server' = "tls"
      /\ to_client' = <<>> /\ to_server' = <<signal("hello")>>
      /\ UNCHANGED <<waiting_for_pong, pong_channel, version, password>>
  BY DEF Connect, pong_vars, config
<1>2. /\ to_client' \in Seq(Message) /\ to_server' \in Seq(Message)
      /\ \A k : count(to_client', k) = 0 /\ count(to_server', k) = one_if("hello" = k)
  <2>1. signal("hello") \in Message /\ signal("hello").msg = "hello"
    BY Messages DEF Kind
  <2>2. to_server' = Append(<<>>, signal("hello")) /\ <<>> \in Seq(Message)
    BY <1>1, NoMessages
  <2>3. \A k : count(to_server', k) = count(<<>>, k) + one_if("hello" = k)
    <3> DEFINE e == <<>>
               m == signal("hello")
    <3>1. e \in Seq(Message) /\ m \in Message /\ m.msg = "hello" /\ to_server' = Append(e, m)
      BY <2>1, <2>2
    <3> HIDE DEF e, m
    <3>2. \A k : count(to_server', k) = count(e, k) + one_if("hello" = k)
      BY <3>1, CountAppend
    <3> QED BY <3>2 DEF e
  <2>4. to_server' \in Seq(Message)
    BY <2>1, <2>2, CountAppend
  <2>5. ASSUME NEW k PROVE count(to_client', k) = 0 /\ count(to_server', k) = one_if("hello" = k)
    <3>1. count(<<>>, k) = 0
      BY NoMessages
    <3>2. count(to_server', k) = 0 + one_if("hello" = k)
      BY <2>3, <3>1
    <3> QED BY <1>1, <3>1, <3>2, NoMessages DEF one_if
  <2> QED BY <1>1, <2>2, <2>4, <2>5
<1>3. TypeInv'
  BY <1>1, <1>2 DEF IInv, TypeInv, ClientState, ClientHandshake, ServerState, ServerHandshake
<1>4. HandshakeInv'
  BY <1>1, Messages DEF HandshakeInv, SaysOfClient, Kind
<1>5. HandshakeDecides'
  BY <1>1 DEF HandshakeDecides, ClientRuns, ServerRuns
<1>6. PingInv'
  <2>1. ~waiting_for_pong /\ pong_channel = <<>>
    BY <1>1 DEF IInv, PingInv, ServerRuns
  <2> QED BY <1>1, <1>2, <2>1 DEF PingInv, ClientRuns, ServerRuns, one_if
<1> QED BY <1>3, <1>4, <1>5, <1>6 DEF IInv

LEMMA ClientTimeoutStep ==
    ASSUME IInv, ClientTimeout \/ ClientFails
    PROVE  IInv'
<1>1. /\ ClientCloses("sleeping")
      /\ UNCHANGED <<server, waiting_for_pong, pong_channel, config, to_client>>
  BY DEF ClientTimeout, ClientFails, server_vars, pong_vars
<1>2. to_client' \in Seq(Message) /\ \A i \in DOMAIN to_client' : SaysOfServer(to_client[i])'
  BY <1>1 DEF IInv, TypeInv, HandshakeInv, SaysOfServer, config, Agreed
<1>3. \A m : /\ count(to_client, m) \in Nat /\ count(to_client', m) \in Nat
             /\ count(to_client', m) <= count(to_client, m)
  <2>1. \A m : count(to_client, m) \in Nat /\ count(to_client', m) = count(to_client, m)
    BY <1>1, CountType DEF IInv, TypeInv
  <2> QED BY <2>1
<1> QED BY <1>1, <1>2, <1>3, ClientLeaves

LEMMA ServerTimeoutStep ==
    ASSUME IInv, ServerTimeout \/ ServerFails
    PROVE  IInv'
<1>1. ServerCloses(<<>>) /\ UNCHANGED <<client, config, to_server>>
  BY DEF ServerTimeout, ServerFails, client_vars
<1>2. to_server' \in Seq(Message) /\ \A i \in DOMAIN to_server' : SaysOfClient(to_server[i])'
  BY <1>1 DEF IInv, TypeInv, HandshakeInv, SaysOfClient, config
<1>3. \A m : /\ count(to_server, m) \in Nat /\ count(to_server', m) \in Nat
             /\ count(to_server', m) <= count(to_server, m)
  <2>1. \A m : count(to_server, m) \in Nat /\ count(to_server', m) = count(to_server, m)
    BY <1>1, CountType DEF IInv, TypeInv
  <2> QED BY <2>1
<1> QED BY <1>1, <1>2, <1>3, ServerLeaves


-----------------------------------------------------------------------------
(* The client's steps. *)

LEMMA ClientHandshakeStep ==
    ASSUME IInv, ClientHandshakes
    PROVE  IInv'
<1> USE DEF server_vars, pong_vars
<1>0. version["client"] \in Nat /\ password["client"] \in Nat
  BY DEF IInv, TypeInv, Side
<1>1. ASSUME NEW at, client = "tls", at = "read_version",
             ClientReads("hello", <<signal("finished"), message("version", version["client"])>>, at)
      PROVE  IInv'
  <2> DEFINE first  == signal("finished")
             second == message("version", version["client"])
             p      == Append(to_server, first)
  <2>1. /\ arrives(to_client, "hello") /\ to_client' = Tail(to_client)
        /\ to_server' = to_server \o <<first, second>>
        /\ client' = "read_version"
        /\ UNCHANGED <<server, waiting_for_pong, pong_channel, config>>
    BY <1>1 DEF ClientReads
  <2>2. /\ first \in Message /\ second \in Message
        /\ first.msg = "finished" /\ second.msg = "version"
        /\ SaysOfClient(first) /\ SaysOfClient(second)
    BY <1>0, Messages DEF Kind, SaysOfClient
  <2>3. to_server \in Seq(Message)
    BY DEF IInv, TypeInv
  <2>4. to_server' = Append(p, second)
    BY <2>1, <2>2, <2>3
  <2>5. /\ p \in Seq(Message) /\ to_server' \in Seq(Message)
        /\ \A i \in DOMAIN p : SaysOfClient(p[i])
        /\ \A k : count(p, k) = count(to_server, k) + one_if("finished" = k)
    <3> HIDE DEF first
    <3> QED BY <2>2, <2>3, <2>4, CountAppend DEF IInv, HandshakeInv
  <2>6. /\ \A i \in DOMAIN to_server' : SaysOfClient(to_server'[i])
        /\ \A k : count(to_server', k) = count(p, k) + one_if("version" = k)
    <3> HIDE DEF p, second
    <3> QED BY <2>2, <2>4, <2>5, CountAppend
  <2>7. /\ to_client' \in Seq(Message)
        /\ \A i \in DOMAIN to_client' : SaysOfServer(to_client[i])'
        /\ \A m : /\ count(to_client, m) \in Nat /\ count(to_client', m) \in Nat
                  /\ count(to_client, m) = count(to_client', m) + one_if("hello" = m)
    BY <2>1, ClientTakes
  <2>8. TypeInv' /\ HandshakeInv'
    BY <2>1, <2>5, <2>6, <2>7 DEF config, IInv, TypeInv, HandshakeInv, ClientState,
       ClientHandshake, SaysOfClient
  <2>9. HandshakeDecides'
    BY <1>1, <2>1 DEF IInv, HandshakeDecides, ClientRuns, ServerRuns, config, Agreed
  <2>10. PingInv'
    <3>1. /\ count(to_server, "response") \in Nat /\ count(to_server, "pong") \in Nat
      BY <2>3, CountType
    <3>2. /\ count(to_server', "response") = count(to_server, "response")
          /\ count(to_server', "pong") = count(to_server, "pong")
          /\ count(to_client', "passed") = count(to_client, "passed")
          /\ count(to_client', "ping") = count(to_client, "ping")
      <4>1. \A k \in {"response", "pong"} :
               /\ count(to_server', k) = count(p, k) + 0
               /\ count(p, k) = count(to_server, k) + 0
        BY <2>5, <2>6 DEF one_if
      <4>2. \A k \in {"passed", "ping"} :
               /\ count(to_client', k) \in Nat
               /\ count(to_client, k) = count(to_client', k) + 0
        BY <2>7 DEF one_if
      <4> HIDE DEF p
      <4> QED BY <3>1, <4>1, <4>2
    <3> QED BY <1>1, <2>1, <3>2 DEF IInv, PingInv, ClientRuns, ServerRuns, ClientExpects
  <2> QED BY <2>8, <2>9, <2>10 DEF IInv
\* The other reads are answered with one message at most.
<1>2. ASSUME NEW k, NEW at,
             <<client, k, at>> \in {<<"read_version", "version", "read_challenge">>,
                                    <<"read_status", "passed", "select">>},
             ClientReads(k, <<>>, at)
      PROVE  IInv'
  <2>1. /\ arrives(to_client, k) /\ to_client' = Tail(to_client)
        /\ to_server' = to_server
        /\ client' = at
        /\ UNCHANGED <<server, waiting_for_pong, pong_channel, config>>
    BY <1>2 DEF ClientReads, IInv, TypeInv
  <2>2. /\ to_client' \in Seq(Message)
        /\ \A i \in DOMAIN to_client' : SaysOfServer(to_client[i])'
        /\ Head(to_client).msg = k /\ SaysOfServer(Head(to_client))
        /\ \A m : /\ count(to_client, m) \in Nat /\ count(to_client', m) \in Nat
                  /\ count(to_client, m) = count(to_client', m) + one_if(k = m)
    BY <2>1, ClientTakes
  <2>3. TypeInv' /\ HandshakeInv'
    BY <1>2, <2>1, <2>2 DEF config, IInv, TypeInv, HandshakeInv, ClientState,
       ClientHandshake, SaysOfClient
  <2>4. HandshakeDecides'
    BY <1>2, <2>1, <2>2 DEF IInv, HandshakeDecides, ClientRuns, ServerRuns, config, Agreed,
       SaysOfServer
  <2>5. PingInv'
    <3>1. count(to_client', "ping") = count(to_client, "ping")
      BY <1>2, <2>2 DEF one_if
    <3>2. count(to_client, "passed") = count(to_client', "passed") + one_if(k = "passed")
          /\ count(to_client', "passed") \in Nat
      BY <2>2
    <3>3. server \in ServerHandshake => k # "passed" /\ count(to_client', "passed") = 0
      BY <1>2, <3>2 DEF IInv, PingInv, one_if
    <3> QED BY <1>2, <2>1, <3>1, <3>3 DEF IInv, PingInv, ClientRuns, ServerRuns,
         ClientExpects, pings_and_pongs
  <2> QED BY <2>3, <2>4, <2>5 DEF IInv
<1>3. ASSUME client = "read_challenge",
             ClientReads("challenge", <<message("response", password["client"])>>, "read_status")
      PROVE  IInv'
  <2> DEFINE answer == message("response", password["client"])
  <2>1. /\ arrives(to_client, "challenge") /\ to_client' = Tail(to_client)
        /\ to_server' = to_server \o <<answer>>
        /\ client' = "read_status"
        /\ UNCHANGED <<server, waiting_for_pong, pong_channel, config>>
    BY <1>3 DEF ClientReads
  <2>2. answer \in Message /\ answer.msg = "response" /\ SaysOfClient(answer)
    BY <1>0, Messages DEF Kind, SaysOfClient
  <2> HIDE DEF answer
  <2>3. /\ to_server' \in Seq(Message)
        /\ \A i \in DOMAIN to_server' : SaysOfClient(to_server[i])'
        /\ \A k : /\ count(to_server, k) \in Nat
                  /\ count(to_server', k) = count(to_server, k) + one_if("response" = k)
    BY <2>1, <2>2, ClientSends
  <2>4. /\ to_client' \in Seq(Message)
        /\ \A i \in DOMAIN to_client' : SaysOfServer(to_client[i])'
        /\ \A m : /\ count(to_client, m) \in Nat /\ count(to_client', m) \in Nat
                  /\ count(to_client, m) = count(to_client', m) + one_if("challenge" = m)
    BY <2>1, ClientTakes
  <2>5. TypeInv' /\ HandshakeInv'
    BY <2>1, <2>3, <2>4 DEF config, IInv, TypeInv, HandshakeInv, ClientState, ClientHandshake
  <2>6. HandshakeDecides'
    BY <1>3, <2>1 DEF IInv, HandshakeDecides, ClientRuns, ServerRuns, config, Agreed
  <2>7. PingInv'
    <3>1. /\ count(to_server', "pong") = count(to_server, "pong")
          /\ count(to_client', "passed") = count(to_client, "passed")
          /\ count(to_client', "ping") = count(to_client, "ping")
      BY <2>3, <2>4 DEF one_if
    <3> QED BY <1>3, <2>1, <3>1 DEF IInv, PingInv, ClientRuns, ServerRuns, ClientExpects
  <2> QED BY <2>5, <2>6, <2>7 DEF IInv
<1>4. ASSUME NEW k \in {"version", "failed"}, ClientStops(k),
             k = "version" => ~matches(Head(to_client).value, version["client"])
      PROVE  IInv'
  <2>1. /\ arrives(to_client, k) /\ to_client' = Tail(to_client)
        /\ ClientCloses("stopped")
        /\ UNCHANGED <<server, waiting_for_pong, pong_channel, config>>
    BY <1>4 DEF ClientStops
  <2>2. /\ to_client' \in Seq(Message)
        /\ \A i \in DOMAIN to_client' : SaysOfServer(to_client[i])'
        /\ Head(to_client).msg = k /\ SaysOfServer(Head(to_client))
        /\ \A m : /\ count(to_client, m) \in Nat /\ count(to_client', m) \in Nat
                  /\ count(to_client, m) = count(to_client', m) + one_if(k = m)
    BY <2>1, ClientTakes
  <2>3. ~Agreed
    BY <1>4, <2>2 DEF SaysOfServer, Agreed, matches
  <2>4. \A m : count(to_client', m) <= count(to_client, m)
    BY <2>2 DEF one_if
  <2> QED BY <2>1, <2>2, <2>3, <2>4, ClientLeaves
<1> QED BY <1>1, <1>2, <1>3, <1>4 DEF ClientHandshakes


LEMMA Counts ==
    ASSUME IInv
    PROVE  \A k : count(to_client, k) \in Nat /\ count(to_server, k) \in Nat
  BY CountType DEF IInv, TypeInv

LEMMA ClientLoopStep ==
    ASSUME IInv, ClientLoop
    PROVE  IInv'
<1> USE DEF server_vars, pong_vars
<1>1. UNCHANGED <<server, waiting_for_pong, pong_channel, config>>
  BY DEF ClientLoop
<1>2. ASSUME NEW k \in {"update", "ping"}, client = "select", arrives(to_client, k),
             to_client' = Tail(to_client),
             IF k = "ping" THEN client' = "pong" ELSE UNCHANGED client,
             UNCHANGED to_server
      PROVE  IInv'
  <2>1. /\ to_client' \in Seq(Message)
        /\ \A i \in DOMAIN to_client' : SaysOfServer(to_client[i])'
        /\ \A m : /\ count(to_client, m) \in Nat /\ count(to_client', m) \in Nat
                  /\ count(to_client, m) = count(to_client', m) + one_if(k = m)
    BY <1>1, <1>2, ClientTakes
  <2>2. TypeInv' /\ HandshakeInv'
    BY <1>1, <1>2, <2>1 DEF config, IInv, TypeInv, HandshakeInv, ClientState, SaysOfClient
  <2>3. HandshakeDecides'
    BY <1>1, <1>2 DEF IInv, HandshakeDecides, ClientRuns, ServerRuns, config, Agreed
  <2>4. PingInv'
    <3>1. count(to_client, "ping") = count(to_client', "ping") + one_if(k = "ping")
          /\ count(to_client', "ping") \in Nat /\ count(to_server, "pong") \in Nat
      BY <2>1, Counts
    <3> QED BY <1>1, <1>2, <3>1 DEF IInv, PingInv, ClientRuns, ServerRuns, ClientExpects,
         pings_and_pongs, one_if
  <2> QED BY <2>2, <2>3, <2>4 DEF IInv
<1>3. ASSUME client = "pong", client' = "select", UNCHANGED to_client,
             to_server' = Append(to_server, signal("pong"))
      PROVE  IInv'
  <2>1. /\ signal("pong") \in Message /\ signal("pong").msg = "pong"
        /\ SaysOfClient(signal("pong"))
    BY Messages DEF Kind, SaysOfClient
  <2>2. /\ to_server' \in Seq(Message)
        /\ \A i \in DOMAIN to_server' : SaysOfClient(to_server[i])'
        /\ \A k : /\ count(to_server, k) \in Nat
                  /\ count(to_server', k) = count(to_server, k) + one_if("pong" = k)
    <3> DEFINE m == signal("pong")
    <3>1. m \in Message /\ m.msg = "pong" /\ SaysOfClient(m) /\ to_server' = Append(to_server, m)
      BY <1>3, <2>1
    <3> HIDE DEF m
    <3>2. to_server' \in {Append(to_server, m), to_server \o <<m>>}
      BY <3>1
    <3>3. UNCHANGED config
      BY <1>1
    <3>4. m \in Message /\ m.msg = "pong" /\ SaysOfClient(m)
      BY <3>1
    <3>5. /\ to_server' \in Seq(Message)
          /\ \A i \in DOMAIN to_server' : SaysOfClient(to_server[i])'
          /\ \A k : /\ count(to_server, k) \in Nat
                    /\ count(to_server', k) = count(to_server, k) + one_if(m.msg = k)
      BY <3>2, <3>3, <3>4, ClientSends
    <3> QED BY <3>4, <3>5
  <2>3. TypeInv' /\ HandshakeInv'
    BY <1>1, <1>3, <2>2 DEF config, IInv, TypeInv, HandshakeInv, ClientState, SaysOfServer,
       Agreed
  <2>4. HandshakeDecides'
    BY <1>1, <1>3 DEF IInv, HandshakeDecides, ClientRuns, ServerRuns, config, Agreed
  <2>5. PingInv'
    <3>1. count(to_server', "pong") = count(to_server, "pong") + 1
          /\ count(to_server, "pong") \in Nat /\ count(to_client, "ping") \in Nat
      BY <2>2, Counts DEF one_if
    <3> QED BY <1>1, <1>3, <3>1 DEF IInv, PingInv, ClientRuns, ServerRuns, ClientExpects,
         pings_and_pongs
  <2> QED BY <2>3, <2>4, <2>5 DEF IInv
<1> QED BY <1>2, <1>3 DEF ClientLoop, ClientLoops

-----------------------------------------------------------------------------
(* The server's steps. *)

LEMMA ServerReadsStep ==
    ASSUME IInv, NEW k \in Kind, NEW answer \in Kind, NEW at, NEW value \in Nat,
           <<server, k, answer, at>> \in
               {<<"tls", "hello", "hello", "tls">>,
                <<"tls", "finished", "version", "read_version">>,
                <<"read_version", "version", "challenge", "read_response">>,
                <<"read_response", "response", "passed", "select">>},
           ServerReads(k, <<message(answer, value)>>, at),
           k = "finished" => value = version["server"],
           k = "version"  => matches(Head(to_server).value, version["server"]),
           k = "response" => matches(Head(to_server).value, password["server"])
    PROVE  IInv'
<1>1. /\ arrives(to_server, k) /\ to_server' = Tail(to_server)
      /\ to_client' = to_client \o <<message(answer, value)>>
      /\ server' = at
      /\ UNCHANGED <<client, waiting_for_pong, pong_channel, config>>
  BY DEF ServerReads, client_vars, pong_vars
<1>2. /\ to_server' \in Seq(Message)
      /\ \A i \in DOMAIN to_server' : SaysOfClient(to_server[i])'
      /\ Head(to_server).msg = k /\ SaysOfClient(Head(to_server))
      /\ \A m : /\ count(to_server, m) \in Nat /\ count(to_server', m) \in Nat
                /\ count(to_server, m) = count(to_server', m) + one_if(k = m)
  BY <1>1, ServerTakes
<1>3. k = "version" => version["client"] = version["server"]
  BY <1>2 DEF SaysOfClient, matches
<1>4. k = "response" => Agreed
  BY <1>2 DEF SaysOfClient, matches, Agreed, IInv, HandshakeInv
<1>5. message(answer, value) \in Message /\ message(answer, value).msg = answer
      /\ SaysOfServer(message(answer, value))
  BY <1>4, Messages DEF SaysOfServer, message, Message
<1>6. /\ to_client' \in Seq(Message)
      /\ \A i \in DOMAIN to_client' : SaysOfServer(to_client[i])'
      /\ \A m : /\ count(to_client, m) \in Nat
                /\ count(to_client', m) = count(to_client, m) + one_if(answer = m)
  BY <1>1, <1>5, ServerSends
<1>7. TypeInv' /\ HandshakeInv'
  BY <1>1, <1>2, <1>3, <1>6 DEF config, IInv, TypeInv, HandshakeInv, ServerState,
     ServerHandshake
<1>8. HandshakeDecides'
  BY <1>1, <1>4 DEF IInv, HandshakeDecides, ClientRuns, ServerRuns, config, Agreed
<1>9. PingInv'
  <2>1. server \in ServerHandshake
    BY DEF ServerHandshake
  <2>2. /\ ~ClientRuns
        /\ count(to_client, "passed") = 0 /\ count(to_client, "ping") = 0
        /\ count(to_server, "pong") = 0
        /\ ~waiting_for_pong /\ pong_channel = <<>>
    BY <2>1 DEF IInv, PingInv, ServerRuns
  <2>3. /\ count(to_client', "ping") = 0 /\ count(to_server', "pong") = 0
        /\ k # "response" => count(to_client', "passed") = 0
    BY <1>2, <1>6, <2>2 DEF one_if
  <2>4. count(to_server', "response") \in Nat
        /\ count(to_server, "response") = IF k = "response" THEN count(to_server', "response") + 1
                                          ELSE count(to_server', "response")
    BY <1>2 DEF one_if
  <2>5. client \in {"tls", "read_version", "read_challenge"} =>
           k # "response" /\ count(to_server', "response") = 0
    BY <2>4 DEF IInv, PingInv
  <2> QED BY <1>1, <2>1, <2>2, <2>3, <2>5 DEF IInv, PingInv, ClientRuns, ServerRuns,
       ClientExpects, pings_and_pongs, ServerHandshake
<1> QED BY <1>7, <1>8, <1>9 DEF IInv

LEMMA ServerRefusesStep ==
    ASSUME IInv, NEW k, NEW answers \in {<<>>, <<signal("failed")>>},
           ServerRefuses(k, answers),
           answers # <<>> => ~matches(Head(to_server).value, password["server"])
                             /\ k = "response"
    PROVE  IInv'
<1>1. /\ arrives(to_server, k) /\ to_server' = Tail(to_server)
      /\ ServerCloses(answers)
      /\ UNCHANGED <<client, config>>
  BY DEF ServerRefuses, client_vars
<1>2. /\ to_server' \in Seq(Message)
      /\ \A i \in DOMAIN to_server' : SaysOfClient(to_server[i])'
      /\ Head(to_server).msg = k /\ SaysOfClient(Head(to_server))
      /\ \A m : /\ count(to_server, m) \in Nat /\ count(to_server', m) \in Nat
                /\ count(to_server, m) = count(to_server', m) + one_if(k = m)
  BY <1>1, ServerTakes
<1>3. answers # <<>> => ~Agreed
  BY <1>2 DEF SaysOfClient, Agreed, matches
<1>4. \A m : count(to_server', m) <= count(to_server, m)
  BY <1>2 DEF one_if
<1> QED BY <1>1, <1>2, <1>3, <1>4, ServerLeaves

LEMMA ServerHandshakeStep ==
    ASSUME IInv, ServerHandshakes
    PROVE  IInv'
<1>1. version["server"] \in Nat
  BY DEF IInv, TypeInv, Side
<1>2. \A k : signal(k) = message(k, 0)
  BY DEF signal
<1>3. CASE server = "tls"
  BY <1>1, <1>2, <1>3, ServerReadsStep DEF ServerHandshakes, Kind
<1>4. CASE server = "read_version"
  BY <1>2, <1>4, ServerReadsStep, ServerRefusesStep DEF ServerHandshakes, Kind
<1>5. CASE server = "read_response"
  BY <1>2, <1>5, ServerReadsStep, ServerRefusesStep DEF ServerHandshakes, Kind
<1> QED BY <1>3, <1>4, <1>5 DEF ServerHandshakes


LEMMA ReadPongStep ==
    ASSUME IInv, ReadPong
    PROVE  IInv'
<1>1. PICK k \in {"pong", "eof"} : arrives(to_server, k) /\ pong_channel' = <<k>>
  BY DEF ReadPong
<1>2. /\ ServerRuns /\ pong_channel = <<>>
      /\ to_server' = Tail(to_server)
      /\ UNCHANGED <<client, server, waiting_for_pong, to_client, config>>
  BY DEF ReadPong, client_vars
<1>3. /\ to_server' \in Seq(Message)
      /\ \A i \in DOMAIN to_server' : SaysOfClient(to_server[i])'
      /\ \A m : /\ count(to_server, m) \in Nat /\ count(to_server', m) \in Nat
                /\ count(to_server, m) = count(to_server', m) + one_if(k = m)
  BY <1>1, <1>2, ServerTakes
<1>4. TypeInv' /\ HandshakeInv'
  BY <1>1, <1>2, <1>3 DEF config, IInv, TypeInv, HandshakeInv, SaysOfServer, Agreed
<1>5. HandshakeDecides'
  BY <1>2 DEF IInv, HandshakeDecides, ClientRuns, ServerRuns, config, Agreed
<1>6. PingInv'
  <2>1. count(to_server', "pong") \in Nat /\ count(to_client, "ping") \in Nat
        /\ count(to_server, "pong") = IF k = "pong" THEN count(to_server', "pong") + 1
                                      ELSE count(to_server', "pong")
    BY <1>3, Counts DEF one_if
  <2>2. /\ pong_channel # <<"pong">>
        /\ pong_channel' = <<"pong">> <=> k = "pong"
    BY <1>1, <1>2
  <2>3. server \notin ServerHandshake
        /\ client \notin {"tls", "read_version", "read_challenge"}
    BY <1>2 DEF ServerRuns, ServerHandshake, IInv, PingInv
  <2> QED BY <1>2, <2>1, <2>2, <2>3 DEF IInv, PingInv, ClientRuns, ServerRuns, ClientExpects,
       pings_and_pongs
<1> QED BY <1>4, <1>5, <1>6 DEF IInv

LEMMA ReceivePongStep ==
    ASSUME IInv, ReceivePong
    PROVE  IInv'
<1>1. /\ server = "select" /\ pong_channel # <<>>
      /\ UNCHANGED <<client, to_server, config>>
  BY DEF ReceivePong, PongReceived, client_vars
<1>2. to_server' \in Seq(Message) /\ \A i \in DOMAIN to_server' : SaysOfClient(to_server[i])'
  BY <1>1 DEF IInv, TypeInv, HandshakeInv, SaysOfClient, config
<1>3. CASE ServerCloses(<<>>)
  <2>1. \A m : count(to_server, m) \in Nat /\ count(to_server', m) = count(to_server, m)
    BY <1>1, Counts
  <2>2. \A m : /\ count(to_server, m) \in Nat /\ count(to_server', m) \in Nat
               /\ count(to_server', m) <= count(to_server, m)
    BY <2>1
  <2> QED BY <1>1, <1>2, <1>3, <2>2, ServerLeaves
<1>4. CASE /\ Head(pong_channel) = "pong"
           /\ Answered
           /\ UNCHANGED <<server, to_client>>
  <2>1. pong_channel = <<"pong">> /\ pong_channel' = <<>> /\ waiting_for_pong' = FALSE
    BY <1>1, <1>4 DEF Answered, IInv, TypeInv
  <2>2. TypeInv' /\ HandshakeInv'
    BY <1>1, <1>2, <1>4, <2>1 DEF config, IInv, TypeInv, HandshakeInv, SaysOfServer, Agreed
  <2>3. HandshakeDecides'
    BY <1>1, <1>4 DEF IInv, HandshakeDecides, ClientRuns, ServerRuns, config, Agreed
  <2>4. PingInv'
    <3>1. count(to_client, "ping") \in Nat /\ count(to_server, "pong") \in Nat
      BY Counts
    <3>2. ~(<<>> = <<"pong">>)
      OBVIOUS
    <3>3. waiting_for_pong \in BOOLEAN
      BY DEF IInv, TypeInv
    <3>4. ClientExpects => /\ count(to_client, "ping") = 0 /\ count(to_server, "pong") = 0
                           /\ client # "pong"
      BY <1>1, <2>1, <3>1, <3>3 DEF IInv, PingInv, ServerRuns, pings_and_pongs
    <3> QED BY <1>1, <1>4, <2>1, <3>2, <3>4 DEF IInv, PingInv, ClientRuns, ServerRuns,
         ClientExpects, pings_and_pongs, ServerHandshake
  <2> QED BY <2>2, <2>3, <2>4 DEF IInv
<1> QED BY <1>3, <1>4 DEF ReceivePong

LEMMA WrittenStep ==
    ASSUME IInv, Written
    PROVE  IInv'
<1>1. /\ server \in {"update", "ping"} /\ server' = "select"
      /\ CanWrite
      /\ to_client' = IF has_room(to_client) THEN Append(to_client, signal(server))
                      ELSE to_client
      /\ waiting_for_pong' = IF server = "update" THEN waiting_for_pong ELSE TRUE
      /\ UNCHANGED <<client, pong_channel, to_server, config>>
  BY DEF Written, client_vars, pong_vars
<1> DEFINE m == signal(server)
<1>2. m \in Message /\ m.msg = server /\ SaysOfServer(m)
  BY <1>1, Messages DEF Kind, SaysOfServer
<1> HIDE DEF m
<1>3. /\ to_client' \in Seq(Message)
      /\ \A i \in DOMAIN to_client' : SaysOfServer(to_client[i])'
  <2>1. CASE has_room(to_client)
    <3>1. to_client' = Append(to_client, m)
      BY <1>1, <2>1 DEF m
    <3> QED BY <1>1, <1>2, <3>1, ServerSends
  <2>2. CASE ~has_room(to_client)
    BY <1>1, <2>2 DEF IInv, TypeInv, HandshakeInv, SaysOfServer, config, Agreed
  <2> QED BY <2>1, <2>2
<1>4. TypeInv' /\ HandshakeInv'
  BY <1>1, <1>3 DEF config, IInv, TypeInv, HandshakeInv, ServerState, SaysOfClient
<1>5. HandshakeDecides'
  BY <1>1 DEF IInv, HandshakeDecides, ClientRuns, ServerRuns, config, Agreed
<1>6. PingInv'
  <2>1. ASSUME ClientExpects
        PROVE  pings_and_pongs' = IF waiting_for_pong' THEN 1 ELSE 0
    <3>1. ClientConnected
      BY <2>1 DEF ClientExpects, ClientConnected, ClientHandshake, ClientRuns
    <3>2. to_client' = Append(to_client, m)
      BY <1>1, <3>1 DEF CanWrite, m
    <3>3. \A k : /\ count(to_client, k) \in Nat
                 /\ count(to_client', k) = count(to_client, k) + one_if(server = k)
      BY <1>1, <1>2, <3>2, ServerSends
    <3>4. /\ count(to_client', "ping") = IF server = "ping" THEN count(to_client, "ping") + 1
                                         ELSE count(to_client, "ping")
          /\ count(to_client, "ping") \in Nat /\ count(to_server, "pong") \in Nat
      <4>1. count(to_client', "ping") = count(to_client, "ping") + one_if(server = "ping")
        BY <3>3
      <4>2. count(to_client, "ping") \in Nat /\ count(to_server, "pong") \in Nat
        BY Counts
      <4> QED BY <4>1, <4>2 DEF one_if
    <3>5. server = "ping" => ~waiting_for_pong
      BY DEF IInv, PingInv
    <3>6. pings_and_pongs = IF waiting_for_pong THEN 1 ELSE 0
      BY <1>1, <2>1 DEF IInv, PingInv, ServerRuns
    <3>7. pings_and_pongs' = IF server = "ping" THEN pings_and_pongs + 1 ELSE pings_and_pongs
      <4>1. client' = client /\ pong_channel' = pong_channel /\ to_server' = to_server
        BY <1>1
      <4>2. CASE server = "ping"
        BY <3>4, <4>1, <4>2 DEF pings_and_pongs
      <4>3. CASE server # "ping"
        BY <3>4, <4>1, <4>3 DEF pings_and_pongs
      <4> QED BY <4>2, <4>3
    <3> QED BY <1>1, <3>5, <3>6, <3>7
  <2> QED BY <1>1, <2>1 DEF IInv, PingInv, ClientRuns, ServerRuns, ClientExpects,
       ServerHandshake
<1> QED BY <1>4, <1>5, <1>6 DEF IInv

-----------------------------------------------------------------------------
(* The invariant. *)

LEMMA InitInvariant == Init => IInv
<1> SUFFICES ASSUME Init PROVE IInv
  OBVIOUS
<1>1. TypeInv
  <2>1. version \in [Side -> Nat] /\ password \in [Side -> Nat]
    BY DEF Init
  <2>2. to_client \in Seq(Message) /\ to_server \in Seq(Message)
    BY DEF Init
  <2> QED BY <2>1, <2>2 DEF Init, TypeInv, ClientState, ServerState
<1>2. HandshakeInv /\ HandshakeDecides
  BY DEF Init, HandshakeInv, HandshakeDecides, ClientRuns, ServerRuns
<1>3. PingInv
  BY DEF Init, PingInv, ClientRuns, ServerRuns, ServerHandshake
<1> QED BY <1>1, <1>2, <1>3 DEF IInv

LEMMA StepInvariant == IInv /\ [Next]_vars => IInv'
<1> SUFFICES ASSUME IInv, [Next]_vars PROVE IInv'
  OBVIOUS
<1>1. CASE ClientStep
  BY <1>1, ConnectStep, QuietSteps, ClientHandshakeStep, ClientLoopStep, ClientTimeoutStep
     DEF ClientStep
<1>2. CASE ServerStep
  BY <1>2, ServerHandshakeStep, ReadPongStep, ReceivePongStep, QuietSteps, WrittenStep,
     ServerTimeoutStep DEF ServerStep
<1>3. CASE TrySend \/ Drop \/ Disturb
  BY <1>3, QuietSteps
<1>4. CASE Tick
  BY <1>4, TickStep
<1>5. CASE UNCHANGED vars
  BY <1>5, SamePipes, Elsewhere DEF vars, client_vars, server_vars, pong_vars, connection
<1> QED BY <1>1, <1>2, <1>3, <1>4, <1>5 DEF Next

(* What is known of the handshake and of pings in every reachable state,    *)
(* from which the theorems below follow.                                    *)
THEOREM Safety == Spec => []IInv
<1>1. Init => IInv
  BY InitInvariant
<1>2. IInv /\ [Next]_vars => IInv'
  BY StepInvariant
<1> QED BY <1>1, <1>2, PTL DEF Spec

(* Whatever is lost, late or broken, neither side enters its loop unless    *)
(* both have one version and one password, and the client gives up for good *)
(* only if they have not (authenticate in server.rs, run_once in client.rs).*)
THEOREM OnlyAgreedRun == Spec => []HandshakeDecides
<1>1. IInv => HandshakeDecides
  BY DEF IInv
<1> QED BY <1>1, Safety, PTL

(* No pong is ever unexpected: while both loops run, one ping or its answer *)
(* is under way if the server waits for a pong, and none if it does not     *)
(* (client in server.rs, run_once in client.rs).                            *)
THEOREM PongsAreExpected == Spec => []OnePingUnderWay
<1>1. IInv => OnePingUnderWay
  BY DEF IInv, PingInv, OnePingUnderWay, ClientRuns, ClientExpects
<1> QED BY <1>1, Safety, PTL

-----------------------------------------------------------------------------
(* Time.  What follows says how much every timer has left at least, by the  *)
(* way that the message it waits for still has to go.                       *)

larger(a, b) == IF a >= b THEN a ELSE b

(* The longest that a write of the server takes, which may have to wait for *)
(* room, and the longest that the server has nothing to say.                *)
WriteTime == larger(larger(SERVER_STALL, CLIENT_STALL), LATENCY)
Silence   == larger(PING_INTERVAL, 2 * LATENCY + CLIENT_STALL)

Timers ==
    /\ client_timer \in Nat /\ client_interval \in Nat
    /\ server_timer \in Nat /\ server_interval \in Nat
    /\ pong_timeout \in Nat /\ queue \in Nat
    /\ server_interval <= PING_INTERVAL
    /\ pong_timeout <= READ_TIMEOUT
    /\ client = "pong" => client_timer <= WRITE_TIMEOUT
    /\ server \in {"update", "ping"} => server_timer <= WRITE_TIMEOUT

\* Messages arrive in the order they were sent in.
Ages(pipe) ==
    \A i \in DOMAIN pipe :
        /\ pipe[i].age <= LATENCY
        /\ \A j \in DOMAIN pipe : i < j => pipe[j].age <= pipe[i].age

holds_one(pipe, msg)        == Len(pipe) = 1 /\ pipe[1].msg = msg
holds_two(pipe, msg, next)  == Len(pipe) = 2 /\ pipe[1].msg = msg /\ pipe[2].msg = next
holds_only(pipe, kinds)     == \A i \in DOMAIN pipe : pipe[i].msg \in kinds

sides(client_state, server_state) == client = client_state /\ server = server_state

(* The handshake is a ladder: each state follows from the one before it.    *)
Greeting ==
    \/ /\ sides("tls", "tls")
       /\ to_client = <<>> /\ holds_one(to_server, "hello")
       /\ client_timer + to_server[1].age >= TLS_TIMEOUT
       /\ server_timer + to_server[1].age >= TLS_TIMEOUT
    \/ /\ sides("tls", "tls")
       /\ holds_one(to_client, "hello") /\ to_server = <<>>
       /\ client_timer + LATENCY + to_client[1].age >= TLS_TIMEOUT
       /\ server_timer + LATENCY + to_client[1].age >= TLS_TIMEOUT
    \/ /\ sides("read_version", "tls")
       /\ to_client = <<>> /\ holds_two(to_server, "finished", "version")
       /\ client_timer + to_server[1].age >= READ_TIMEOUT
       /\ server_timer + 2 * LATENCY + to_server[1].age >= TLS_TIMEOUT

\* The versions may differ; then one side stops, and the other reads its end.
Versions ==
    \/ /\ sides("read_version", "read_version")
       /\ holds_one(to_client, "version") /\ holds_one(to_server, "version")
       /\ client_timer + LATENCY + to_client[1].age >= READ_TIMEOUT
       /\ server_timer + to_server[1].age >= READ_TIMEOUT
    \/ /\ sides("read_version", "read_response")
       /\ holds_two(to_client, "version", "challenge") /\ to_server = <<>>
       /\ client_timer + LATENCY + to_client[1].age >= READ_TIMEOUT
       /\ server_timer + to_client[2].age >= READ_TIMEOUT
    \/ /\ sides("read_challenge", "read_version")
       /\ to_client = <<>> /\ holds_one(to_server, "version")
       /\ client_timer + to_server[1].age >= READ_TIMEOUT
       /\ server_timer + to_server[1].age >= READ_TIMEOUT
    \/ /\ sides("stopped", "read_version")
       /\ to_server # <<>> /\ to_server[1].msg = "version"
       /\ version["client"] # version["server"]
       /\ server_timer + to_server[1].age >= READ_TIMEOUT

Passwords ==
    \/ /\ sides("read_challenge", "read_response")
       /\ holds_one(to_client, "challenge") /\ to_server = <<>>
       /\ client_timer + LATENCY + to_client[1].age >= READ_TIMEOUT
       /\ server_timer + to_client[1].age >= READ_TIMEOUT
    \/ /\ sides("read_status", "read_response")
       /\ to_client = <<>> /\ holds_one(to_server, "response")
       /\ client_timer + to_server[1].age >= READ_TIMEOUT
       /\ server_timer + LATENCY + to_server[1].age >= READ_TIMEOUT

\* The client waits for the server's answer or is in its loop.
Listening ==
    /\ ClientExpects
    /\ client = "read_status" =>
          to_client # <<>> /\ client_timer + LATENCY + to_client[1].age >= READ_TIMEOUT
    /\ client = "pong" =>
          /\ client_timer + CLIENT_STALL >= WRITE_TIMEOUT
          /\ client_interval + WRITE_TIMEOUT >= deadline + client_timer
    /\ ClientRuns /\ to_client # <<>> =>
          client_interval + Silence + WriteTime + to_client[1].age >= deadline

\* A write of the server, which waits for the client to read if the buffers are full.
Writing ==
    server \in {"update", "ping"} =>
        /\ server_timer + WriteTime >= WRITE_TIMEOUT
        /\ ~has_room(to_client) =>
              /\ to_client[1].age < LATENCY =>
                    server_timer + to_client[1].age >= WRITE_TIMEOUT
              /\ client = "pong" => server_timer >= client_timer

AwaitsPong == waiting_for_pong /\ ~PongReceived

\* A ping, its answer being written, or its answer.
Pinging ==
    AwaitsPong =>
        /\ \A i \in DOMAIN to_client :
              to_client[i].msg = "ping" => pong_timeout + to_client[i].age >= READ_TIMEOUT
        /\ client = "pong" =>
              pong_timeout + LATENCY + WRITE_TIMEOUT >= READ_TIMEOUT + client_timer
        /\ to_server # <<>> =>
              pong_timeout + LATENCY + CLIENT_STALL + to_server[1].age >= READ_TIMEOUT

\* The client has read all that was sent: how long ago the last of it was, at most.
Quiet ==
    ClientRuns /\ to_client = <<>> =>
        /\ AwaitsPong => client_interval + READ_TIMEOUT >= deadline + pong_timeout
        /\ server = "select" =>
              \/ client_interval + PING_INTERVAL >= deadline + server_interval
              \/ /\ server_interval = 0
                 /\ client_interval + 2 * LATENCY + CLIENT_STALL >= deadline
        /\ server \in {"update", "ping"} =>
              client_interval + Silence + WRITE_TIMEOUT >= deadline + server_timer

Running ==
    /\ ServerRuns /\ Listening
    /\ Len(to_client) <= SOCKET /\ holds_only(to_client, {"passed", "update", "ping"})
    /\ holds_only(to_server, {"pong"})
    /\ pong_channel \in {<<>>, <<"pong">>}
    /\ Writing /\ Pinging /\ Quiet

\* The server has left, and the client has yet to read the end.
Ended ==
    /\ server = "none"
    /\ count(to_client, "eof") > 0
    /\ \/ /\ client \in {"read_version", "read_challenge"}
          /\ holds_only(to_client, {"version", "eof"})
          /\ client_timer + LATENCY + to_client[1].age >= READ_TIMEOUT
       \/ /\ Listening
          /\ Len(to_server) + count(to_client, "ping") + one_if(client = "pong") <= 1

Gone == server = "none" /\ ~ClientConnected

InTime ==
    /\ Ages(to_client) /\ Ages(to_server)
    /\ Greeting \/ Versions \/ Passwords \/ Running \/ Ended \/ Gone

TimeInv == Timers /\ NoSpuriousTimeout /\ (net = "up" => InTime)

-----------------------------------------------------------------------------
(* Times and pipes. *)

Bounds ==
    /\ PING_INTERVAL \in Nat /\ READ_TIMEOUT \in Nat /\ WRITE_TIMEOUT \in Nat
    /\ TLS_TIMEOUT \in Nat /\ SOCKET \in Nat /\ SOCKET > 0
    /\ LATENCY \in Nat /\ SERVER_STALL \in Nat /\ CLIENT_STALL \in Nat
    /\ WriteTime \in Nat /\ Silence \in Nat /\ deadline \in Nat
    /\ deadline = PING_INTERVAL + READ_TIMEOUT
    /\ LATENCY <= WriteTime /\ SERVER_STALL <= WriteTime /\ CLIENT_STALL <= WriteTime
    /\ PING_INTERVAL <= Silence /\ 2 * LATENCY + CLIENT_STALL <= Silence
    /\ 3 * LATENCY < TLS_TIMEOUT
    /\ 2 * LATENCY + CLIENT_STALL < READ_TIMEOUT
    /\ WriteTime < WRITE_TIMEOUT /\ CLIENT_STALL < WRITE_TIMEOUT
    /\ Silence + WriteTime + LATENCY < deadline

LEMMA TimeBounds == TimesFit => Bounds
<1> SUFFICES ASSUME TimesFit PROVE Bounds
  OBVIOUS
<1>1. /\ WriteTime \in {SERVER_STALL, CLIENT_STALL, LATENCY}
      /\ LATENCY <= WriteTime /\ SERVER_STALL <= WriteTime /\ CLIENT_STALL <= WriteTime
  BY SessionAssumption DEF WriteTime, larger
<1>2. /\ Silence \in {PING_INTERVAL, 2 * LATENCY + CLIENT_STALL}
      /\ PING_INTERVAL <= Silence /\ 2 * LATENCY + CLIENT_STALL <= Silence
  BY SessionAssumption DEF Silence, larger
<1>3. /\ WriteTime < WRITE_TIMEOUT /\ WriteTime + LATENCY < READ_TIMEOUT
      /\ 2 * LATENCY + CLIENT_STALL + WriteTime + LATENCY < PING_INTERVAL + READ_TIMEOUT
      /\ CLIENT_STALL < WRITE_TIMEOUT
      /\ 3 * LATENCY < TLS_TIMEOUT
      /\ 2 * LATENCY + CLIENT_STALL < READ_TIMEOUT
  BY <1>1, Zenon DEF TimesFit
<1>4. deadline = PING_INTERVAL + READ_TIMEOUT
  BY DEF deadline
<1>5. Silence + WriteTime + LATENCY < deadline
  BY <1>1, <1>2, <1>3, <1>4, SessionAssumption
<1> QED BY <1>1, <1>2, <1>3, <1>4, <1>5, SessionAssumption DEF Bounds

LEMMA First ==
    ASSUME NEW p \in Seq(Message)
    PROVE  /\ Len(p) \in Nat /\ DOMAIN p = 1 .. Len(p)
           /\ p = <<>> <=> Len(p) = 0
           /\ p # <<>> => /\ 1 \in DOMAIN p /\ Head(p) = p[1]
                          /\ p[1].msg \in Kind /\ p[1].age \in Nat
           /\ \A i \in DOMAIN p : p[i] \in Message /\ p[i].age \in Nat
<1>1. /\ Len(p) \in Nat /\ DOMAIN p = 1 .. Len(p)
      /\ p = <<>> <=> Len(p) = 0
      /\ p # <<>> => 1 \in DOMAIN p /\ Head(p) = p[1]
      /\ \A i \in DOMAIN p : p[i] \in Message
  OBVIOUS
<1>2. \A i \in DOMAIN p : p[i].msg \in Kind /\ p[i].age \in Nat
  BY <1>1 DEF Message
<1> QED BY <1>1, <1>2

LEMMA ReadInTime ==
    ASSUME NEW p \in Seq(Message), p # <<>>, Ages(p), LATENCY \in Nat
    PROVE  /\ Tail(p) \in Seq(Message) /\ Ages(Tail(p))
           /\ Len(Tail(p)) = Len(p) - 1
           /\ Tail(p) = <<>> <=> Len(p) = 1
           /\ Len(p) > 1 => /\ Tail(p)[1] = p[2] /\ 2 \in DOMAIN p
                            /\ p[2].age \in Nat /\ p[2].age <= p[1].age
           /\ \A i \in DOMAIN Tail(p) : i + 1 \in DOMAIN p /\ Tail(p)[i] = p[i + 1]
           /\ \A kinds : holds_only(p, kinds) => holds_only(Tail(p), kinds)
<1>1. /\ Tail(p) \in Seq(Message)
      /\ Len(p) \in Nat \ {0} /\ DOMAIN p = 1 .. Len(p)
      /\ Len(Tail(p)) = Len(p) - 1 /\ DOMAIN Tail(p) = 1 .. Len(p) - 1
      /\ \A i \in DOMAIN Tail(p) : i + 1 \in DOMAIN p /\ Tail(p)[i] = p[i + 1]
  OBVIOUS
<1>6. Tail(p) = <<>> <=> Len(p) = 1
  <2>1. Tail(p) = <<>> <=> Len(Tail(p)) = 0
    BY <1>1, First
  <2> QED BY <1>1, <2>1
<1>5. \A i \in DOMAIN p : p[i].age \in Nat
  BY First
<1>2. Ages(Tail(p))
  BY <1>1 DEF Ages
<1>3. Len(p) > 1 => /\ Tail(p)[1] = p[2] /\ 2 \in DOMAIN p
                    /\ p[2].age \in Nat /\ p[2].age <= p[1].age
  BY <1>1, <1>5 DEF Ages
<1>4. \A kinds : holds_only(p, kinds) => holds_only(Tail(p), kinds)
  BY <1>1 DEF holds_only
<1> QED BY <1>1, <1>2, <1>3, <1>4, <1>6

LEMMA SentInTime ==
    ASSUME NEW p \in Seq(Message), NEW m \in Message, m.age = 0, Ages(p), LATENCY \in Nat
    PROVE  /\ p \o <<m>> = Append(p, m)
           /\ Append(p, m) \in Seq(Message) /\ Ages(Append(p, m))
           /\ Len(Append(p, m)) = Len(p) + 1 /\ Append(p, m) # <<>>
           /\ \A i \in DOMAIN p : Append(p, m)[i] = p[i]
           /\ Append(p, m)[Len(p) + 1] = m
           /\ \A i \in DOMAIN Append(p, m) :
                 (i \in DOMAIN p /\ Append(p, m)[i] = p[i]) \/ Append(p, m)[i] = m
           /\ \A kinds : holds_only(p, kinds) /\ m.msg \in kinds => holds_only(Append(p, m), kinds)
<1>1. /\ p \o <<m>> = Append(p, m)
      /\ Append(p, m) \in Seq(Message)
      /\ DOMAIN p = 1 .. Len(p) /\ Len(p) \in Nat
      /\ Len(Append(p, m)) = Len(p) + 1
      /\ DOMAIN Append(p, m) = 1 .. Len(p) + 1
      /\ \A i \in DOMAIN p : Append(p, m)[i] = p[i]
      /\ Append(p, m)[Len(p) + 1] = m
  OBVIOUS
<1>6. \A i \in DOMAIN p : p[i].age \in Nat
  BY First
<1>2. Append(p, m) # <<>>
  BY <1>1
<1>3. \A i \in DOMAIN Append(p, m) :
         (i \in DOMAIN p /\ Append(p, m)[i] = p[i]) \/ (i = Len(p) + 1 /\ Append(p, m)[i] = m)
  BY <1>1
<1>4. Ages(Append(p, m))
  BY <1>1, <1>3, <1>6 DEF Ages
<1>5. \A kinds : holds_only(p, kinds) /\ m.msg \in kinds => holds_only(Append(p, m), kinds)
  BY <1>3 DEF holds_only
<1> QED BY <1>1, <1>2, <1>3, <1>4, <1>5

LEMMA AgedInTime ==
    ASSUME NEW p \in Seq(Message), Ages(p), LATENCY \in Nat, net = "up"
    PROVE  /\ aged(p) \in Seq(Message) /\ Ages(aged(p))
           /\ DOMAIN aged(p) = DOMAIN p /\ Len(aged(p)) = Len(p)
           /\ aged(p) = <<>> <=> p = <<>>
           /\ \A i \in DOMAIN p :
                 /\ aged(p)[i].msg = p[i].msg /\ p[i].age \in Nat /\ aged(p)[i].age \in Nat
                 /\ p[i].age < LATENCY => aged(p)[i].age = p[i].age + 1
                 /\ p[i].age >= LATENCY => aged(p)[i].age = p[i].age /\ p[i].age = LATENCY
           /\ \A kinds : holds_only(aged(p), kinds) <=> holds_only(p, kinds)
<1>1. /\ aged(p) \in Seq(Message) /\ DOMAIN aged(p) = DOMAIN p
      /\ \A i \in DOMAIN p : aged(p)[i].msg = p[i].msg
  BY Aged
<1>2. Len(aged(p)) = Len(p) /\ (aged(p) = <<>> <=> p = <<>>)
  BY <1>1, First
<1>3. ASSUME NEW i \in DOMAIN p
      PROVE  /\ p[i].age \in Nat /\ aged(p)[i].age \in Nat
             /\ p[i].age < LATENCY => aged(p)[i].age = p[i].age + 1
             /\ p[i].age >= LATENCY => aged(p)[i].age = p[i].age /\ p[i].age = LATENCY
  <2>1. p[i] \in Message /\ p[i].age <= LATENCY
    BY DEF Ages
  <2>2. aged(p)[i] = [p[i] EXCEPT !.age = IF @ < LATENCY THEN @ + 1 ELSE @]
    BY DEF aged
  <2> QED BY <2>1, <2>2 DEF Message
<1>4. Ages(aged(p))
  <2> SUFFICES ASSUME NEW i \in DOMAIN p
               PROVE  /\ aged(p)[i].age <= LATENCY
                      /\ \A j \in DOMAIN p : i < j => aged(p)[j].age <= aged(p)[i].age
    BY <1>1 DEF Ages
  <2>1. aged(p)[i].age <= LATENCY
    BY <1>3
  <2>2. ASSUME NEW j \in DOMAIN p, i < j PROVE aged(p)[j].age <= aged(p)[i].age
    <3>1. p[j].age <= p[i].age
      BY <2>2 DEF Ages
    <3>2. PICK a \in Nat, b \in Nat : a = p[i].age /\ b = p[j].age
      BY <1>3
    <3>3. /\ aged(p)[i].age = IF a < LATENCY THEN a + 1 ELSE a
          /\ aged(p)[j].age = IF b < LATENCY THEN b + 1 ELSE b
      BY <1>3, <3>2
    <3>4. (IF b < LATENCY THEN b + 1 ELSE b) <= (IF a < LATENCY THEN a + 1 ELSE a)
      BY <3>1, <3>2
    <3> QED BY <3>3, <3>4
  <2> QED BY <2>1, <2>2
<1>5. \A kinds : holds_only(aged(p), kinds) <=> holds_only(p, kinds)
  BY <1>1 DEF holds_only
<1> QED BY <1>1, <1>2, <1>3, <1>4, <1>5

\* What the steps below need of the times and of the state.
Facts ==
    /\ Bounds
    /\ LATENCY \in Nat
    /\ to_client \in Seq(Message) /\ to_server \in Seq(Message)
    /\ Ages(to_client) /\ Ages(to_server)
    /\ Len(to_client) \in Nat /\ Len(to_server) \in Nat
    /\ to_client = <<>> <=> Len(to_client) = 0
    /\ to_server = <<>> <=> Len(to_server) = 0
    /\ to_client # <<>> => /\ Head(to_client) = to_client[1] /\ 1 \in DOMAIN to_client
                           /\ to_client[1].age \in Nat /\ to_client[1].age <= LATENCY
    /\ to_server # <<>> => /\ Head(to_server) = to_server[1] /\ 1 \in DOMAIN to_server
                           /\ to_server[1].age \in Nat /\ to_server[1].age <= LATENCY
    /\ Len(to_client) = 2 => /\ 2 \in DOMAIN to_client
                             /\ to_client[2].age \in Nat
                             /\ to_client[2].age <= to_client[1].age
    /\ client_timer \in Nat /\ client_interval \in Nat /\ server_timer \in Nat
    /\ server_interval \in Nat /\ pong_timeout \in Nat
    /\ Timers /\ InTime

LEMMA Known ==
    ASSUME IInv, TimeInv, TimesFit, net = "up"
    PROVE  Facts
<1>1. /\ to_client \in Seq(Message) /\ to_server \in Seq(Message)
      /\ Ages(to_client) /\ Ages(to_server) /\ InTime
      /\ LATENCY \in Nat
  BY SessionAssumption DEF IInv, TypeInv, TimeInv, InTime
<1>2. /\ client_timer \in Nat /\ client_interval \in Nat /\ server_timer \in Nat
      /\ server_interval \in Nat /\ pong_timeout \in Nat
  BY DEF TimeInv, Timers
<1>3. /\ Len(to_client) \in Nat
      /\ to_client = <<>> <=> Len(to_client) = 0
      /\ to_client # <<>> => /\ Head(to_client) = to_client[1] /\ 1 \in DOMAIN to_client
                             /\ to_client[1].age \in Nat /\ to_client[1].age <= LATENCY
  BY <1>1, First DEF Ages
<1>4. /\ Len(to_server) \in Nat
      /\ to_server = <<>> <=> Len(to_server) = 0
      /\ to_server # <<>> => /\ Head(to_server) = to_server[1] /\ 1 \in DOMAIN to_server
                             /\ to_server[1].age \in Nat /\ to_server[1].age <= LATENCY
  BY <1>1, First DEF Ages
<1>5. Len(to_client) = 2 => /\ 2 \in DOMAIN to_client
                            /\ to_client[2].age \in Nat
                            /\ to_client[2].age <= to_client[1].age
  <2> SUFFICES ASSUME Len(to_client) = 2
               PROVE  /\ 2 \in DOMAIN to_client /\ to_client[2].age \in Nat
                      /\ to_client[2].age <= to_client[1].age
    OBVIOUS
  <2>1. 1 \in DOMAIN to_client /\ 2 \in DOMAIN to_client
    BY <1>1, First
  <2> QED BY <1>1, <2>1, First DEF Ages
<1>6. Bounds /\ Timers
  BY TimeBounds DEF TimeInv
<1> QED BY <1>1, <1>2, <1>3, <1>4, <1>5, <1>6 DEF Facts

LEMMA CountSome ==
    ASSUME NEW p \in Seq(Message), NEW k
    PROVE  /\ count(p, k) > 0 => p # <<>> /\ \E i \in DOMAIN p : p[i].msg = k
           /\ holds_only(p, {k}) => count(p, k) = Len(p)
<1>1. count(p, k) > 0 => \E i \in DOMAIN p : p[i].msg = k
  <2> SUFFICES ASSUME ~ \E i \in DOMAIN p : p[i].msg = k PROVE ~(count(p, k) > 0)
    OBVIOUS
  <2>1. {i \in DOMAIN p : p[i].msg = k} = {}
    OBVIOUS
  <2>2. count(p, k) = 0
    BY <2>1, FS_EmptySet DEF count
  <2> QED BY <2>2
<1>3. count(p, k) > 0 => p # <<>>
  BY <1>1
<1>2. ASSUME holds_only(p, {k}) PROVE count(p, k) = Len(p)
  <2>1. {i \in DOMAIN p : p[i].msg = k} = 1 .. Len(p) /\ Len(p) \in Nat
    BY <1>2 DEF holds_only
  <2>2. PICK n \in Nat : n = Len(p)
    BY <2>1
  <2>3. Cardinality(1 .. n) = IF 1 > n THEN 0 ELSE n - 1 + 1
    BY FS_Interval
  <2>4. Cardinality(1 .. n) = n
    BY <2>3
  <2> QED BY <2>1, <2>2, <2>4 DEF count
<1> QED BY <1>1, <1>2, <1>3

\* Where the ping is, or its answer.
LEMMA WhereThePingIs ==
    ASSUME IInv, Running
    PROVE  /\ waiting_for_pong \in BOOLEAN
           /\ client = "pong" => /\ AwaitsPong /\ to_server = <<>>
                                 /\ count(to_client, "ping") = 0
           /\ to_server # <<>> => AwaitsPong /\ Len(to_server) = 1 /\ client # "pong"
           /\ AwaitsPong => \/ client = "pong" \/ to_server # <<>>
                            \/ \E i \in DOMAIN to_client : to_client[i].msg = "ping"
           /\ \A i \in DOMAIN to_client : to_client[i].msg = "ping" =>
                 AwaitsPong /\ to_server = <<>> /\ client # "pong"
           /\ Len(to_server) + count(to_client, "ping") + one_if(client = "pong") <= 1
<1>1. /\ to_client \in Seq(Message) /\ to_server \in Seq(Message)
      /\ waiting_for_pong \in BOOLEAN
      /\ pong_channel \in {<<>>, <<"pong">>}
      /\ pings_and_pongs = (IF waiting_for_pong THEN 1 ELSE 0)
      /\ count(to_server, "pong") = Len(to_server)
  BY CountSome DEF IInv, TypeInv, PingInv, Running, Listening
<1>2. /\ count(to_client, "ping") \in Nat /\ Len(to_server) \in Nat
      /\ to_server = <<>> <=> Len(to_server) = 0
      /\ \A i \in DOMAIN to_client : to_client[i].msg = "ping" => count(to_client, "ping") > 0
      /\ count(to_client, "ping") > 0 => \E i \in DOMAIN to_client : to_client[i].msg = "ping"
  BY <1>1, First, CountType, CountSome
<1>3. PongReceived <=> pong_channel = <<"pong">>
  <2>1. <<"pong">> # <<>>
    OBVIOUS
  <2> QED BY <1>1, <2>1, Zenon DEF PongReceived
<1>4. count(to_client, "ping") + Len(to_server) + one_if(client = "pong")
      = IF AwaitsPong THEN 1 ELSE 0
  <2>1. AwaitsPong <=> waiting_for_pong /\ pong_channel # <<"pong">>
    BY <1>3 DEF AwaitsPong
  <2>2. pings_and_pongs = count(to_client, "ping") + Len(to_server)
                          + one_if(client = "pong") + one_if(pong_channel = <<"pong">>)
    BY <1>1 DEF pings_and_pongs, one_if
  <2> QED BY <1>1, <1>2, <2>1, <2>2 DEF one_if
<1>5. /\ client = "pong" => AwaitsPong /\ Len(to_server) = 0 /\ count(to_client, "ping") = 0
      /\ Len(to_server) # 0 => AwaitsPong /\ Len(to_server) = 1 /\ client # "pong"
      /\ count(to_client, "ping") > 0 =>
            AwaitsPong /\ Len(to_server) = 0 /\ client # "pong"
      /\ AwaitsPong =>
            client = "pong" \/ Len(to_server) # 0 \/ count(to_client, "ping") > 0
      /\ Len(to_server) + count(to_client, "ping") + one_if(client = "pong") <= 1
  <2> DEFINE n == count(to_client, "ping")
             l == Len(to_server)
  <2>1. n \in Nat /\ l \in Nat /\ n + l + one_if(client = "pong") = IF AwaitsPong THEN 1 ELSE 0
    BY <1>2, <1>4
  <2> HIDE DEF n, l
  <2>2. /\ client = "pong" => AwaitsPong /\ l = 0 /\ n = 0
        /\ l # 0 => AwaitsPong /\ l = 1 /\ client # "pong"
        /\ n > 0 => AwaitsPong /\ l = 0 /\ client # "pong"
        /\ AwaitsPong => client = "pong" \/ l # 0 \/ n > 0
        /\ l + n + one_if(client = "pong") <= 1
    BY <2>1 DEF one_if
  <2> QED BY <2>2 DEF n, l
<1> QED BY <1>1, <1>2, <1>5

LEMMA PongHasTime ==
    ASSUME IInv, TimeInv, TimesFit, net = "up", Running, AwaitsPong
    PROVE  pong_timeout + 2 * LATENCY + CLIENT_STALL >= READ_TIMEOUT
<1>0. Facts
  BY Known
<1>1. /\ LATENCY \in Nat /\ CLIENT_STALL \in Nat /\ READ_TIMEOUT \in Nat
      /\ WRITE_TIMEOUT \in Nat /\ pong_timeout \in Nat /\ client_timer \in Nat
  BY <1>0 DEF Facts, Bounds
<1>2. CASE client = "pong"
  <2>1. /\ pong_timeout + LATENCY + WRITE_TIMEOUT >= READ_TIMEOUT + client_timer
        /\ client_timer + CLIENT_STALL >= WRITE_TIMEOUT
    BY <1>2 DEF Running, Pinging, Listening
  <2> QED BY <1>1, <2>1
<1>3. CASE to_server # <<>>
  <2>1. /\ pong_timeout + LATENCY + CLIENT_STALL + to_server[1].age >= READ_TIMEOUT
        /\ to_server[1].age \in Nat /\ to_server[1].age <= LATENCY
    BY <1>0, <1>3 DEF Facts, Running, Pinging
  <2> QED BY <1>1, <2>1
<1>4. ASSUME NEW i \in DOMAIN to_client, to_client[i].msg = "ping"
      PROVE  pong_timeout + 2 * LATENCY + CLIENT_STALL >= READ_TIMEOUT
  <2>1. pong_timeout + to_client[i].age >= READ_TIMEOUT
    BY <1>4 DEF Running, Pinging
  <2>2. to_client[i].age \in Nat /\ to_client[i].age <= LATENCY
    BY <1>0, First DEF Facts, Ages
  <2>3. PICK age \in Nat : age <= LATENCY /\ pong_timeout + age >= READ_TIMEOUT
    BY <2>1, <2>2
  <2> QED BY <1>1, <2>3
<1> QED BY <1>2, <1>3, <1>4, WhereThePingIs

\* On a connection that works, nobody runs out of time.
LEMMA NobodyIsLate ==
    ASSUME IInv, TimeInv, TimesFit, net = "up"
    PROVE  ~ServerLate /\ ~ClientTimeout
<1>0. Facts
  BY Known
<1> USE <1>0 DEF Facts, Bounds
<1> USE DEF sides, holds_one, holds_two, ClientHandshake, ServerHandshake
<1>1. CASE Greeting \/ Versions \/ Passwords
  <2>1. server_timer > 0 /\ (client \in ClientHandshake => client_timer > 0)
    <3>1. CASE Greeting
      BY <3>1 DEF Greeting
    <3>2. CASE Versions
      BY <3>2 DEF Versions
    <3>3. CASE Passwords
      BY <3>3 DEF Passwords
    <3> QED BY <1>1, <3>1, <3>2, <3>3
  <2> QED BY <1>1, <2>1 DEF Greeting, Versions, Passwords, ServerLate, ClientTimeout
<1>2. ASSUME Listening, ClientRuns /\ to_client = <<>> => client_interval > 0
      PROVE  ~ClientTimeout
  <2>1. client = "read_status" => client_timer > 0
    BY <1>2 DEF Listening
  <2>2. client = "pong" => client_timer > 0
    BY <1>2 DEF Listening
  <2>3. ClientRuns => client_interval > 0
    BY <1>2 DEF Listening
  <2> QED BY <1>2, <2>1, <2>2, <2>3 DEF Listening, ClientExpects, ClientRuns, ClientTimeout
<1>3. CASE Running
  <2>1. ~ServerLate
    BY <1>3, PongHasTime DEF ServerLate, Running, ServerRuns, Writing, PongIsLate, AwaitsPong
  <2>2. ASSUME ClientRuns, to_client = <<>>
        PROVE  client_interval > 0
    BY <1>3, <2>2 DEF Running, Quiet, ServerRuns, Writing
  <2> QED BY <1>2, <1>3, <2>1, <2>2 DEF Running
<1>4. CASE Ended
  <2>1. to_client # <<>>
    BY <1>4, CountSome DEF Ended
  <2>2. ~ServerLate
    BY <1>4 DEF Ended, ServerLate
  <2>3. CASE Listening
    <3>1. ClientRuns /\ to_client = <<>> => client_interval > 0
      BY <2>1
    <3> QED BY <1>2, <2>2, <2>3, <3>1
  <2>4. CASE client \in {"read_version", "read_challenge"}
                /\ client_timer + LATENCY + to_client[1].age >= READ_TIMEOUT
    <3>1. client_timer > 0
      BY <2>1, <2>4
    <3> QED BY <2>2, <2>4, <3>1 DEF ClientTimeout
  <2> QED BY <1>4, <2>2, <2>3, <2>4 DEF Ended
<1>5. CASE Gone
  BY <1>5 DEF Gone, ServerLate, ClientTimeout, ClientConnected, ClientRuns
<1> QED BY <1>1, <1>3, <1>4, <1>5 DEF InTime
-----------------------------------------------------------------------------
(* What the steps make of the ladder.                                       *)

\* q is what p becomes when its first message is read.
Taken(p, q) ==
    /\ q \in Seq(Message) /\ Ages(q)
    /\ Len(q) = Len(p) - 1 /\ (q = <<>> <=> Len(p) = 1)
    /\ Len(p) > 1 => q[1] = p[2] /\ p[2].age \in Nat /\ p[2].age <= p[1].age
    /\ \A i \in DOMAIN q : i + 1 \in DOMAIN p /\ q[i] = p[i + 1]
    /\ \A kinds : holds_only(p, kinds) => holds_only(q, kinds)
    /\ \A k : /\ count(q, k) \in Nat
             /\ count(p, k) = count(q, k) + one_if(p[1].msg = k)

\* q is what p becomes when a message is sent.
Sent(p, q, k) ==
    /\ q \in Seq(Message) /\ Ages(q)
    /\ Len(q) = Len(p) + 1 /\ q # <<>>
    /\ q[Len(p) + 1].msg = k /\ q[Len(p) + 1].age = 0
    /\ p # <<>> => q[1] = p[1]
    /\ p = <<>> => q[1].msg = k /\ q[1].age = 0
    /\ \A i \in DOMAIN q : (i \in DOMAIN p /\ q[i] = p[i]) \/ (q[i].msg = k /\ q[i].age = 0)
    /\ \A kinds : holds_only(p, kinds) /\ k \in kinds => holds_only(q, kinds)
    /\ \A m : /\ count(p, m) \in Nat
             /\ count(q, m) = count(p, m) + one_if(k = m)

LEMMA Takes ==
    ASSUME NEW p \in Seq(Message), p # <<>>, Ages(p), LATENCY \in Nat
    PROVE  Taken(p, Tail(p))
<1>1. \A k : /\ count(Tail(p), k) \in Nat
            /\ count(p, k) = count(Tail(p), k) + one_if(p[1].msg = k)
  <2>1. Tail(p) \in Seq(Message) /\ Head(p) = p[1]
        /\ \A k : count(p, k) = count(Tail(p), k) + one_if(Head(p).msg = k)
    BY CountTail
  <2> DEFINE q == Tail(p)
  <2>2. q \in Seq(Message)
    BY <2>1
  <2> HIDE DEF q
  <2>3. \A k : count(q, k) \in Nat
    BY <2>2, CountType
  <2> QED BY <2>1, <2>3 DEF q
<1>2. /\ Tail(p) \in Seq(Message) /\ Ages(Tail(p))
      /\ Len(Tail(p)) = Len(p) - 1 /\ (Tail(p) = <<>> <=> Len(p) = 1)
      /\ Len(p) > 1 => Tail(p)[1] = p[2] /\ p[2].age \in Nat /\ p[2].age <= p[1].age
      /\ \A i \in DOMAIN Tail(p) : i + 1 \in DOMAIN p /\ Tail(p)[i] = p[i + 1]
      /\ \A kinds : holds_only(p, kinds) => holds_only(Tail(p), kinds)
  BY ReadInTime
<1> QED BY <1>1, <1>2 DEF Taken

LEMMA Sends ==
    ASSUME NEW p \in Seq(Message), Ages(p), LATENCY \in Nat, NEW k \in Kind, NEW v \in Nat
    PROVE  /\ p \o <<message(k, v)>> = Append(p, message(k, v))
           /\ Sent(p, Append(p, message(k, v)), k)
<1> DEFINE m == message(k, v)
<1>1. m \in Message /\ m.msg = k /\ m.age = 0
  BY DEF message, Message
<1> HIDE DEF m
<1> DEFINE q == Append(p, m)
<1>2. /\ p \o <<m>> = q
      /\ q \in Seq(Message) /\ Ages(q)
      /\ Len(q) = Len(p) + 1 /\ q # <<>>
      /\ \A i \in DOMAIN p : q[i] = p[i]
      /\ q[Len(p) + 1] = m
      /\ \A i \in DOMAIN q : (i \in DOMAIN p /\ q[i] = p[i]) \/ q[i] = m
      /\ \A kinds : holds_only(p, kinds) /\ m.msg \in kinds => holds_only(q, kinds)
  BY <1>1, SentInTime
<1>3. \A x : count(p, x) \in Nat /\ count(q, x) = count(p, x) + one_if(k = x)
  <2>1. \A x : count(q, x) = count(p, x) + one_if(k = x)
    BY <1>1, CountAppend
  <2>2. \A x : count(p, x) \in Nat
    BY CountType
  <2> QED BY <2>1, <2>2
<1> HIDE DEF q
<1>4. p # <<>> => q[1] = p[1]
  BY <1>2, First
<1>5. p = <<>> => q[1] = m
  <2>1. p = <<>> => Len(p) = 0
    BY First
  <2> QED BY <1>2, <2>1
<1>6. Sent(p, q, k)
  BY <1>1, <1>2, <1>3, <1>4, <1>5 DEF Sent
<1> QED BY <1>2, <1>6 DEF m, q

LEMMA Signals == \A k : signal(k) = message(k, 0)
  BY DEF signal

LEMMA ServerReadsInTime ==
    ASSUME IInv, TimeInv, TimesFit, net = "up",
           NEW k, NEW answer \in Kind, NEW value \in Nat, NEW next,
           ServerReads(k, <<message(answer, value)>>, next)
    PROVE  /\ Facts
           /\ to_server # <<>> /\ to_server[1].msg = k
           /\ Taken(to_server, to_server') /\ Sent(to_client, to_client', answer)
           /\ client' = client /\ client_timer' = client_timer
           /\ client_interval' = client_interval
           /\ server' = next
           /\ waiting_for_pong' = waiting_for_pong /\ pong_channel' = pong_channel
           /\ version' = version
<1>1. Facts
  BY Known
<1>2. /\ to_server # <<>> /\ Head(to_server).msg = k
      /\ to_server' = Tail(to_server) /\ to_client' = to_client \o <<message(answer, value)>>
      /\ client' = client /\ client_timer' = client_timer
      /\ client_interval' = client_interval
      /\ server' = next
      /\ waiting_for_pong' = waiting_for_pong /\ pong_channel' = pong_channel
      /\ version' = version
  BY DEF ServerReads, arrives, client_vars, pong_vars, config
<1>3. Taken(to_server, to_server')
  BY <1>1, <1>2, Takes DEF Facts
<1>4. Sent(to_client, to_client', answer)
  BY <1>1, <1>2, Sends DEF Facts
<1> QED BY <1>1, <1>2, <1>3, <1>4 DEF Facts
\* q is what p becomes when the server closes its end.
Closed(p, q) ==
    /\ q \in Seq(Message) /\ Ages(q) /\ q # <<>>
    /\ count(q, "eof") > 0
    /\ count(p, "ping") \in Nat /\ count(q, "ping") = count(p, "ping")
    /\ p # <<>> => q[1] = p[1]
    /\ p = <<>> => q[1].age = 0

LEMMA Closes ==
    ASSUME NEW p \in Seq(Message), Ages(p), LATENCY \in Nat
    PROVE  /\ Sent(p, p \o <<>> \o <<signal("eof")>>, "eof")
           /\ Closed(p, p \o <<>> \o <<signal("eof")>>)
           /\ Closed(p, p \o <<signal("failed")>> \o <<signal("eof")>>)
<1>1. ASSUME NEW r \in Seq(Message), Ages(r)
      PROVE  /\ Sent(r, r \o <<signal("eof")>>, "eof")
             /\ Closed(r, r \o <<signal("eof")>>)
  <2> DEFINE q == r \o <<signal("eof")>>
  <2>1. Sent(r, q, "eof")
    <3>1. q = Append(r, message("eof", 0)) /\ Sent(r, Append(r, message("eof", 0)), "eof")
      BY <1>1, Sends, Signals DEF Kind
    <3> QED BY <3>1
  <2> HIDE DEF q
  <2>2. count(r, "eof") \in Nat /\ count(q, "eof") = count(r, "eof") + 1
    BY <2>1 DEF Sent, one_if
  <2>3. count(r, "ping") \in Nat /\ count(q, "ping") = count(r, "ping")
    <3>1. count(r, "ping") \in Nat /\ count(q, "ping") = count(r, "ping") + one_if("eof" = "ping")
      BY <2>1 DEF Sent
    <3> QED BY <3>1 DEF one_if
  <2>4. Closed(r, q)
    BY <2>1, <2>2, <2>3 DEF Sent, Closed
  <2> QED BY <2>1, <2>4 DEF q
<1>2. p \o <<>> = p
  OBVIOUS
<1>3. /\ Sent(p, p \o <<>> \o <<signal("eof")>>, "eof")
      /\ Closed(p, p \o <<>> \o <<signal("eof")>>)
  <2> DEFINE e == p \o <<>>
  <2>1. e = p
    BY <1>2
  <2> HIDE DEF e
  <2>2. Sent(p, e \o <<signal("eof")>>, "eof") /\ Closed(p, e \o <<signal("eof")>>)
    BY <1>1, <2>1
  <2> QED BY <2>2 DEF e
<1>4. Closed(p, p \o <<signal("failed")>> \o <<signal("eof")>>)
  <2> DEFINE r == p \o <<signal("failed")>>
             q == r \o <<signal("eof")>>
  <2>1. Sent(p, r, "failed")
    <3>1. /\ p \o <<message("failed", 0)>> = Append(p, message("failed", 0))
          /\ Sent(p, Append(p, message("failed", 0)), "failed")
      BY Sends DEF Kind
    <3>2. signal("failed") = message("failed", 0)
      BY Signals
    <3> QED BY <3>1, <3>2
  <2> HIDE DEF r
  <2>2. Closed(r, q)
    BY <1>1, <2>1 DEF Sent
  <2> HIDE DEF q
  <2>3. count(p, "ping") \in Nat /\ count(r, "ping") = count(p, "ping")
    <3>1. count(p, "ping") \in Nat /\ count(r, "ping") = count(p, "ping") + one_if("failed" = "ping")
      BY <2>1 DEF Sent
    <3> QED BY <3>1 DEF one_if
  <2>4. Closed(p, q)
    BY <2>1, <2>2, <2>3 DEF Sent, Closed
  <2> QED BY <2>4 DEF q, r
<1> QED BY <1>3, <1>4

LEMMA ServerClosesInTime ==
    ASSUME Facts, NEW answers \in {<<>>, <<signal("failed")>>}, ServerCloses(answers)
    PROVE  /\ server' = "none"
           /\ Closed(to_client, to_client')
           /\ answers = <<>> => Sent(to_client, to_client', "eof")
<1>1. server' = "none" /\ to_client' = to_client \o answers \o <<signal("eof")>>
  BY DEF ServerCloses
<1> QED BY <1>1, Closes DEF Facts

\* The two steps of the server's TLS handshake.
LEMMA ServerGreets ==
    ASSUME IInv, TimeInv, TimesFit, net = "up", server = "tls",
           \/ ServerReads("hello", <<signal("hello")>>, "tls")
           \/ ServerReads("finished", <<message("version", version["server"])>>, "read_version")
    PROVE  InTime'
<1> USE DEF sides, holds_one, holds_two
<1>1. CASE ServerReads("hello", <<signal("hello")>>, "tls")
  <2>1. /\ Facts
        /\ to_server # <<>> /\ to_server[1].msg = "hello"
        /\ Taken(to_server, to_server') /\ Sent(to_client, to_client', "hello")
        /\ client' = client /\ client_timer' = client_timer
        /\ server' = "tls"
    BY <1>1, ServerReadsInTime, Signals DEF Kind
  <2>2. server_timer' = server_timer
    BY <1>1 DEF ServerReads
  <2>3. /\ client = "tls" /\ to_client = <<>> /\ holds_one(to_server, "hello")
        /\ client_timer + to_server[1].age >= TLS_TIMEOUT
        /\ server_timer + to_server[1].age >= TLS_TIMEOUT
    BY <2>1 DEF Facts, InTime, Greeting, Versions, Passwords, Running, ServerRuns, Ended, Gone
  <2>4. Greeting'
    BY <2>1, <2>2, <2>3 DEF Facts, Bounds, Greeting, Taken, Sent
  <2> QED BY <2>1, <2>4 DEF InTime, Taken, Sent
<1>2. CASE ServerReads("finished", <<message("version", version["server"])>>, "read_version")
  <2>1. /\ Facts
        /\ to_server # <<>> /\ to_server[1].msg = "finished"
        /\ Taken(to_server, to_server') /\ Sent(to_client, to_client', "version")
        /\ client' = client /\ client_timer' = client_timer
        /\ server' = "read_version"
    BY <1>2, ServerReadsInTime DEF Kind, IInv, TypeInv, Side
  <2>2. server_timer' = READ_TIMEOUT
    BY <1>2 DEF ServerReads, ServerHandshake
  <2>3. /\ client = "read_version" /\ to_client = <<>>
        /\ holds_two(to_server, "finished", "version")
        /\ client_timer + to_server[1].age >= READ_TIMEOUT
    BY <2>1 DEF Facts, InTime, Greeting, Versions, Passwords, Running, ServerRuns, Ended, Gone
  <2>4. Versions'
    BY <2>1, <2>2, <2>3 DEF Facts, Bounds, Versions, Taken, Sent
  <2> QED BY <2>1, <2>4 DEF InTime, Taken, Sent
<1> QED BY <1>1, <1>2
LEMMA ServerRefusesInTime ==
    ASSUME IInv, TimeInv, TimesFit, net = "up",
           NEW k, NEW answers \in {<<>>, <<signal("failed")>>}, ServerRefuses(k, answers)
    PROVE  /\ Facts
           /\ to_server # <<>> /\ to_server[1].msg = k
           /\ Taken(to_server, to_server') /\ Closed(to_client, to_client')
           /\ answers = <<>> => Sent(to_client, to_client', "eof")
           /\ client' = client /\ client_timer' = client_timer
           /\ client_interval' = client_interval
           /\ server' = "none" /\ version' = version
<1>1. Facts
  BY Known
<1>2. /\ to_server # <<>> /\ Head(to_server).msg = k
      /\ to_server' = Tail(to_server)
      /\ client' = client /\ client_timer' = client_timer
      /\ client_interval' = client_interval
      /\ version' = version
      /\ ServerCloses(answers)
  BY DEF ServerRefuses, arrives, client_vars, config
<1>3. Taken(to_server, to_server')
  BY <1>1, <1>2, Takes DEF Facts
<1>4. /\ server' = "none" /\ Closed(to_client, to_client')
      /\ answers = <<>> => Sent(to_client, to_client', "eof")
  BY <1>1, <1>2, ServerClosesInTime
<1> QED BY <1>1, <1>2, <1>3, <1>4 DEF Facts

LEMMA ServerLearnsVersion ==
    ASSUME IInv, TimeInv, TimesFit, net = "up", server = "read_version",
           to_server # <<>>,
           \/ /\ matches(Head(to_server).value, version["server"])
              /\ ServerReads("version", <<signal("challenge")>>, "read_response")
           \/ /\ ~matches(Head(to_server).value, version["server"])
              /\ ServerRefuses("version", <<>>)
    PROVE  InTime'
<1> USE DEF sides, holds_one, holds_two
<1>1. CASE /\ matches(Head(to_server).value, version["server"])
           /\ ServerReads("version", <<signal("challenge")>>, "read_response")
  <2>1. /\ Facts
        /\ to_server # <<>> /\ to_server[1].msg = "version"
        /\ Taken(to_server, to_server') /\ Sent(to_client, to_client', "challenge")
        /\ client' = client /\ client_timer' = client_timer
        /\ server' = "read_response"
    BY <1>1, ServerReadsInTime, Signals DEF Kind
  <2>2. server_timer' = READ_TIMEOUT
    BY <1>1 DEF ServerReads, ServerHandshake
  <2>3. version["client"] = version["server"]
    BY <1>1, <2>1 DEF Facts, IInv, HandshakeInv, SaysOfClient, matches
  <2>4. Versions
    BY <2>1 DEF Facts, InTime, Greeting, Versions, Passwords, Running, ServerRuns, Ended, Gone
  <2>5. CASE client = "read_version"
    <3>1. /\ holds_one(to_client, "version") /\ holds_one(to_server, "version")
          /\ client_timer + LATENCY + to_client[1].age >= READ_TIMEOUT
      BY <2>4, <2>5 DEF Versions
    <3>2. to_client # <<>> /\ to_client'[1] = to_client[1]
          /\ holds_two(to_client', "version", "challenge") /\ to_client'[2].age = 0
      BY <2>1, <3>1 DEF Facts, Sent
    <3>3. to_server' = <<>>
      BY <2>1, <3>1 DEF Taken
    <3>4. Versions'
      BY <2>1, <2>2, <2>5, <3>1, <3>2, <3>3 DEF Facts, Bounds, Versions
    <3> QED BY <2>1, <3>4 DEF InTime, Taken, Sent
  <2>6. CASE client = "read_challenge"
    <3>1. /\ to_client = <<>> /\ holds_one(to_server, "version")
          /\ client_timer + to_server[1].age >= READ_TIMEOUT
      BY <2>4, <2>6 DEF Versions
    <3>2. /\ holds_one(to_client', "challenge") /\ to_client'[1].age = 0
          /\ to_server' = <<>>
      BY <2>1, <3>1 DEF Facts, Sent, Taken
    <3>3. /\ client_timer' + LATENCY + to_client'[1].age >= READ_TIMEOUT
          /\ server_timer' + to_client'[1].age >= READ_TIMEOUT
      <4>1. /\ LATENCY \in Nat /\ READ_TIMEOUT \in Nat /\ client_timer \in Nat
            /\ to_server[1].age \in Nat /\ to_server[1].age <= LATENCY
            /\ client_timer + to_server[1].age >= READ_TIMEOUT
        BY <2>1, <3>1 DEF Facts, Bounds
      <4>2. client_timer + LATENCY + 0 >= READ_TIMEOUT /\ READ_TIMEOUT + 0 >= READ_TIMEOUT
        BY <4>1
      <4> QED BY <2>1, <2>2, <3>2, <4>2
    <3>4. Passwords'
      BY <2>1, <2>6, <3>2, <3>3 DEF Passwords
    <3> QED BY <2>1, <3>4 DEF InTime, Taken, Sent
  <2> QED BY <2>3, <2>4, <2>5, <2>6 DEF Versions
<1>2. CASE /\ ~matches(Head(to_server).value, version["server"])
           /\ ServerRefuses("version", <<>>)
  <2>1. /\ Facts
        /\ Taken(to_server, to_server') /\ Closed(to_client, to_client')
        /\ Sent(to_client, to_client', "eof")
        /\ client' = client /\ client_timer' = client_timer
        /\ server' = "none"
    BY <1>2, ServerRefusesInTime
  <2>2. Versions
    BY <2>1 DEF Facts, InTime, Greeting, Versions, Passwords, Running, ServerRuns, Ended, Gone
  <2>3. CASE client = "read_version"
    <3>1. /\ holds_one(to_client, "version")
          /\ client_timer + LATENCY + to_client[1].age >= READ_TIMEOUT
      BY <2>1, <2>2, <2>3 DEF Versions, Facts
    <3>2. /\ to_client # <<>> /\ holds_only(to_client, {"version", "eof"})
      BY <2>1, <3>1, First DEF Facts, holds_only
    <3>3. holds_only(to_client', {"version", "eof"}) /\ to_client'[1] = to_client[1]
      BY <2>1, <3>2 DEF Sent
    <3>4. Ended'
      BY <2>1, <2>3, <3>1, <3>3 DEF Closed, Ended
    <3> QED BY <2>1, <3>4 DEF InTime, Taken, Sent
  <2>4. CASE client = "read_challenge"
    <3>1. /\ to_client = <<>> /\ to_server # <<>>
          /\ client_timer + to_server[1].age >= READ_TIMEOUT
      BY <2>1, <2>2, <2>4 DEF Versions
    <3>2. holds_only(to_client, {"version", "eof"})
      BY <3>1 DEF holds_only
    <3>3. holds_only(to_client', {"version", "eof"}) /\ to_client'[1].age = 0
      BY <2>1, <3>1, <3>2 DEF Sent
    <3>4. Ended'
      BY <2>1, <2>4, <3>1, <3>3 DEF Facts, Bounds, Closed, Ended
    <3> QED BY <2>1, <3>4 DEF InTime, Taken, Sent
  <2>5. CASE client = "stopped"
    <3>1. Gone'
      BY <2>1, <2>5 DEF Gone, ClientConnected, ClientHandshake, ClientRuns
    <3> QED BY <2>1, <3>1 DEF InTime, Taken, Sent
  <2> QED BY <2>2, <2>3, <2>4, <2>5 DEF Versions
<1> QED BY <1>1, <1>2

LEMMA ServerLearnsPassword ==
    ASSUME IInv, TimeInv, TimesFit, net = "up", server = "read_response",
           to_server # <<>>,
           \/ ServerReads("response", <<signal("passed")>>, "select")
           \/ ServerRefuses("response", <<signal("failed")>>)
    PROVE  InTime'
<1> USE DEF sides, holds_one, holds_two
<1>0. Facts
  BY Known
<1>1. /\ client = "read_status" /\ to_client = <<>> /\ holds_one(to_server, "response")
      /\ client_timer + to_server[1].age >= READ_TIMEOUT
      /\ to_server[1].age \in Nat /\ to_server[1].age <= LATENCY
  BY <1>0 DEF Facts, InTime, Greeting, Versions, Passwords, Running, ServerRuns, Ended, Gone
<1>2. CASE ServerReads("response", <<signal("passed")>>, "select")
  <2>1. /\ Taken(to_server, to_server') /\ Sent(to_client, to_client', "passed")
        /\ client' = client /\ client_timer' = client_timer
        /\ server' = "select"
        /\ waiting_for_pong' = waiting_for_pong /\ pong_channel' = pong_channel
    BY <1>2, ServerReadsInTime, Signals DEF Kind
  <2>2. ~waiting_for_pong /\ pong_channel = <<>>
    BY DEF IInv, PingInv, ServerRuns
  <2>3. /\ to_server' = <<>> /\ holds_one(to_client', "passed") /\ to_client'[1].age = 0
        /\ to_client' # <<>>
    BY <1>0, <1>1, <2>1 DEF Facts, Taken, Sent
  <2>4. /\ holds_only(to_client', {"passed", "update", "ping"})
        /\ holds_only(to_server', {"pong"})
    BY <2>1, <2>3, First DEF Sent, holds_only
  <2>5. Listening'
    BY <1>0, <1>1, <2>1, <2>3 DEF Facts, Bounds, Listening, ClientExpects, ClientRuns
  <2>6. Writing' /\ Pinging' /\ Quiet'
    BY <1>1, <2>1, <2>2 DEF Writing, Pinging, AwaitsPong, Quiet, ClientRuns
  <2>7. Running'
    BY <1>0, <2>1, <2>2, <2>3, <2>4, <2>5, <2>6 DEF Facts, Bounds, Running, ServerRuns
  <2> QED BY <2>1, <2>7 DEF InTime, Taken, Sent
<1>3. CASE ServerRefuses("response", <<signal("failed")>>)
  <2>1. /\ Taken(to_server, to_server') /\ Closed(to_client, to_client')
        /\ client' = client /\ client_timer' = client_timer
        /\ server' = "none"
    BY <1>3, ServerRefusesInTime
  <2>2. count(to_client, "ping") = 0
    BY DEF IInv, PingInv, ServerHandshake
  <2>3. /\ Len(to_server') = 0 /\ count(to_client', "ping") = 0
        /\ to_client' # <<>> /\ to_client'[1].age = 0 /\ count(to_client', "eof") > 0
    BY <1>1, <2>1, <2>2 DEF Taken, Closed
  <2>4. Listening'
    BY <1>0, <1>1, <2>1, <2>3 DEF Facts, Bounds, Listening, ClientExpects, ClientRuns
  <2>5. Ended'
    BY <1>1, <2>1, <2>3, <2>4 DEF Ended, one_if
  <2> QED BY <2>1, <2>5 DEF InTime, Taken, Closed
<1> QED BY <1>2, <1>3
\* What the server's side of a session is made of.
ServerStays ==
    /\ server' = server /\ server_timer' = server_timer /\ server_interval' = server_interval
    /\ waiting_for_pong' = waiting_for_pong /\ pong_timeout' = pong_timeout
    /\ pong_channel' = pong_channel

LEMMA ClientReadsInTime ==
    ASSUME IInv, TimeInv, TimesFit, net = "up",
           NEW k, arrives(to_client, k), to_client' = Tail(to_client)
    PROVE  /\ Facts
           /\ to_client # <<>> /\ to_client[1].msg = k
           /\ Taken(to_client, to_client')
<1>1. Facts
  BY Known
<1> QED BY <1>1, Takes DEF Facts, arrives

LEMMA ClientGreets ==
    ASSUME IInv, TimeInv, TimesFit, net = "up", client = "tls",
           NEW value \in Nat, NEW next, next = "read_version",
           ClientReads("hello", <<signal("finished"), message("version", value)>>, next)
    PROVE  InTime'
<1> USE DEF sides, holds_one, holds_two
<1>1. /\ arrives(to_client, "hello") /\ to_client' = Tail(to_client)
      /\ to_server' = to_server \o <<signal("finished"), message("version", value)>>
      /\ client' = "read_version" /\ client_timer' = READ_TIMEOUT
      /\ server' = server /\ server_timer' = server_timer
  BY DEF ClientReads, server_vars, ClientHandshake
<1>2. /\ Facts
      /\ to_client # <<>> /\ to_client[1].msg = "hello"
      /\ Taken(to_client, to_client')
  BY <1>1, ClientReadsInTime
<1>3. /\ server = "tls" /\ holds_one(to_client, "hello") /\ to_server = <<>>
      /\ server_timer + LATENCY + to_client[1].age >= TLS_TIMEOUT
  BY <1>2 DEF Facts, InTime, Greeting, Versions, Passwords, Running, Listening, ClientExpects,
     Ended, Gone, ClientConnected, ClientHandshake
<1>4. to_client' = <<>>
  BY <1>2, <1>3 DEF Taken
<1>5. /\ to_server' \in Seq(Message) /\ Ages(to_server')
      /\ holds_two(to_server', "finished", "version")
      /\ to_server'[1].age = 0
  <2> DEFINE m == signal("finished")
             n == message("version", value)
  <2>1. /\ m \in Message /\ m.msg = "finished" /\ m.age = 0
        /\ n \in Message /\ n.msg = "version" /\ n.age = 0
    BY DEF signal, message, Message, Kind
  <2> HIDE DEF m, n
  <2>2. to_server' = <<m, n>>
    <3>1. to_server' = <<>> \o <<m, n>>
      BY <1>1, <1>3 DEF m, n
    <3> QED BY <2>1, <3>1
  <2>3. <<m, n>> \in Seq(Message) /\ Len(<<m, n>>) = 2 /\ DOMAIN <<m, n>> = 1 .. 2
        /\ <<m, n>>[1] = m /\ <<m, n>>[2] = n
    BY <2>1
  <2>4. Ages(<<m, n>>)
    <3>1. \A i \in DOMAIN <<m, n>> : <<m, n>>[i].age = 0
      BY <2>1, <2>3
    <3>2. LATENCY \in Nat
      BY SessionAssumption
    <3> HIDE DEF Ages
    <3> DEFINE q == <<m, n>>
    <3>3. \A i \in DOMAIN q : q[i].age = 0
      BY <3>1
    <3> HIDE DEF q
    <3>4. Ages(q)
      BY <3>2, <3>3 DEF Ages
    <3> QED BY <3>4 DEF q
  <2> QED BY <2>1, <2>2, <2>3, <2>4
<1>6. Greeting'
  BY <1>1, <1>2, <1>3, <1>4, <1>5 DEF Facts, Bounds, Greeting
<1> QED BY <1>2, <1>5, <1>6 DEF InTime, Taken

\* In its loop, or on the way to it, the client starts its interval anew with
\* every message.
LEMMA ReadsInLoop ==
    ASSUME IInv, TimeInv, TimesFit, net = "up",
           client \in {"read_status", "select"},
           client' \in {"select", "pong"},
           client' = "pong" => client_timer' = WRITE_TIMEOUT /\ to_client[1].msg = "ping",
           client_interval' = deadline,
           to_client # <<>>, to_client[1].msg # "eof",
           Taken(to_client, to_client'), to_server' = to_server, ServerStays
    PROVE  InTime'
<1>0. Facts
  BY Known
<1> USE DEF sides, holds_one, holds_two
<1>1. Running \/ (Ended /\ Listening)
  BY <1>0 DEF Facts, InTime, Greeting, Versions, Passwords, Running, Ended, Gone,
     ClientConnected, ClientHandshake, ClientRuns
<1>2. Listening'
  <2>1. to_client' # <<>> => to_client'[1].age \in Nat
    BY First DEF Taken
  <2>2. to_client' # <<>> =>
           client_interval' + Silence + WriteTime + to_client'[1].age >= deadline
    <3>1. deadline \in Nat /\ Silence \in Nat /\ WriteTime \in Nat
      BY <1>0 DEF Facts, Bounds
    <3> QED BY <2>1, <3>1
  <2>3. client' = "pong" => /\ client_timer' + CLIENT_STALL >= WRITE_TIMEOUT
                            /\ client_interval' + WRITE_TIMEOUT >= deadline + client_timer'
    BY <1>0 DEF Facts, Bounds
  <2> QED BY <2>2, <2>3 DEF Listening, ClientExpects
<1>3. CASE Running
  <2>1. /\ Len(to_client') < SOCKET
        /\ holds_only(to_client', {"passed", "update", "ping"})
        /\ holds_only(to_server', {"pong"})
    BY <1>0, <1>3 DEF Facts, Bounds, Running, Taken
  <2>2. Writing'
    BY <1>3, <2>1 DEF Running, Writing, has_room, ServerStays
  <2>3. AwaitsPong' = AwaitsPong
    BY DEF AwaitsPong, PongReceived, ServerStays
  <2>4. Pinging'
    <3> SUFFICES ASSUME AwaitsPong PROVE Pinging'
      BY <2>3 DEF Pinging
    <3>1. /\ \A i \in DOMAIN to_client :
                to_client[i].msg = "ping" => pong_timeout + to_client[i].age >= READ_TIMEOUT
          /\ to_server # <<>> =>
                pong_timeout + LATENCY + CLIENT_STALL + to_server[1].age >= READ_TIMEOUT
      BY <1>3 DEF Running, Pinging
    <3>2. \A i \in DOMAIN to_client' :
             to_client'[i].msg = "ping" => pong_timeout' + to_client'[i].age >= READ_TIMEOUT
      BY <3>1 DEF Taken, ServerStays
    <3>3. client' = "pong" =>
             pong_timeout' + LATENCY + WRITE_TIMEOUT >= READ_TIMEOUT + client_timer'
      BY <1>0, <3>1 DEF Facts, Bounds, ServerStays
    <3> QED BY <3>1, <3>2, <3>3 DEF Pinging, ServerStays
  <2>5. Quiet'
    <3>1. /\ pong_timeout <= READ_TIMEOUT /\ server_interval <= PING_INTERVAL
          /\ server \in {"update", "ping"} => server_timer <= WRITE_TIMEOUT
      BY <1>0 DEF Facts, Timers
    <3> QED BY <1>0, <3>1 DEF Facts, Bounds, Quiet, ServerStays
  <2>6. Running'
    BY <1>0, <1>2, <1>3, <2>1, <2>2, <2>4, <2>5 DEF Facts, Bounds, Running, ServerRuns, ServerStays,
       Taken
  <2> QED BY <1>0, <2>6 DEF Facts, InTime, Taken
<1>4. CASE Ended /\ Listening
  <2>1. /\ count(to_client', "eof") \in Nat /\ count(to_client', "ping") \in Nat
        /\ count(to_client, "eof") = count(to_client', "eof") + one_if(to_client[1].msg = "eof")
        /\ count(to_client, "ping") = count(to_client', "ping") + one_if(to_client[1].msg = "ping")
    BY DEF Taken
  <2>2. count(to_client', "eof") > 0
    BY <1>4, <2>1 DEF Ended, one_if
  <2>3. Len(to_server') + count(to_client', "ping") + one_if(client' = "pong") <= 1
    <3>1. Len(to_server) + count(to_client, "ping") + one_if(client = "pong") <= 1
      BY <1>4 DEF Ended
    <3> QED BY <1>0, <2>1, <3>1 DEF Facts, one_if
  <2>4. Ended'
    BY <1>2, <1>4, <2>2, <2>3 DEF Ended, ServerStays
  <2> QED BY <1>0, <2>4 DEF Facts, InTime, Taken
<1> QED BY <1>1, <1>3, <1>4
\* The client leaves for good while the server still reads its version, or after the server.
LEMMA ClosesToServer ==
    ASSUME Facts, NEW next, ClientCloses(next)
    PROVE  client' = next /\ Sent(to_server, to_server', "eof")
<1>1. client' = next /\ to_server' = Append(to_server, signal("eof"))
  BY DEF ClientCloses
<1> QED BY <1>1, Sends, Signals DEF Facts, Kind

LEMMA ClientLearnsVersion ==
    ASSUME IInv, TimeInv, TimesFit, net = "up", client = "read_version", to_client # <<>>,
           NEW next, next = "read_challenge",
           \/ /\ matches(Head(to_client).value, version["client"])
              /\ ClientReads("version", <<>>, next)
           \/ /\ ~matches(Head(to_client).value, version["client"])
              /\ ClientStops("version")
    PROVE  InTime'
<1> USE DEF sides, holds_one, holds_two
<1>1. /\ Facts
      /\ to_client[1].msg = "version"
      /\ Taken(to_client, to_client')
      /\ server' = server /\ server_timer' = server_timer /\ version' = version
  <2>1. /\ arrives(to_client, "version") /\ to_client' = Tail(to_client)
        /\ server' = server /\ server_timer' = server_timer /\ version' = version
    BY DEF ClientReads, ClientStops, server_vars, config
  <2> QED BY <2>1, ClientReadsInTime
<1>2. Versions \/ Ended
  BY <1>1 DEF Facts, InTime, Greeting, Versions, Passwords, Running, Listening, ClientExpects,
     Ended, Gone, ClientConnected, ClientHandshake
<1>3. CASE /\ matches(Head(to_client).value, version["client"])
           /\ ClientReads("version", <<>>, next)
  <2>1. to_server' = to_server /\ client' = "read_challenge" /\ client_timer' = READ_TIMEOUT
    <3>1. to_server' = to_server \o <<>> /\ to_server \in Seq(Message)
      BY <1>1, <1>3 DEF ClientReads, Facts
    <3> QED BY <1>3, <3>1 DEF ClientReads, ClientHandshake
  <2>2. CASE Versions /\ server = "read_version"
    <3>1. /\ holds_one(to_client, "version") /\ holds_one(to_server, "version")
          /\ server_timer + to_server[1].age >= READ_TIMEOUT
      BY <2>2 DEF Versions
    <3>2. to_client' = <<>>
      BY <1>1, <3>1 DEF Taken
    <3>3. client_timer' + to_server[1].age >= READ_TIMEOUT
      BY <1>1, <2>1, <3>1 DEF Facts, Bounds
    <3>4. Versions'
      BY <1>1, <2>1, <2>2, <3>1, <3>2, <3>3 DEF Versions
    <3> QED BY <1>1, <2>1, <3>4 DEF Facts, InTime, Taken
  <2>3. CASE Versions /\ server = "read_response"
    <3>1. /\ holds_two(to_client, "version", "challenge") /\ to_server = <<>>
          /\ server_timer + to_client[2].age >= READ_TIMEOUT
      BY <2>3 DEF Versions
    <3>2. holds_one(to_client', "challenge") /\ to_client'[1] = to_client[2]
          /\ to_client[2].age \in Nat
      BY <1>1, <3>1 DEF Taken
    <3>3. client_timer' + LATENCY + to_client'[1].age >= READ_TIMEOUT
      BY <1>1, <2>1, <3>2 DEF Facts, Bounds
    <3>4. Passwords'
      BY <1>1, <2>1, <2>3, <3>1, <3>2, <3>3 DEF Passwords
    <3> QED BY <1>1, <2>1, <3>4 DEF Facts, InTime, Taken
  <2>4. CASE Ended
    <3>1. /\ holds_only(to_client', {"version", "eof"}) /\ server = "none"
          /\ count(to_client, "eof") > 0
      BY <1>1, <2>4 DEF Ended, Taken, Listening, ClientExpects
    <3>2. /\ count(to_client', "eof") \in Nat
          /\ count(to_client, "eof") = count(to_client', "eof") + one_if("version" = "eof")
      BY <1>1 DEF Taken
    <3>3. count(to_client', "eof") > 0 /\ to_client' # <<>>
      <4>1. count(to_client', "eof") > 0
        BY <3>1, <3>2 DEF one_if
      <4>2. to_client' \in Seq(Message)
        BY <1>1 DEF Taken
      <4> QED BY <4>1, <4>2, CountSome
    <3>4. to_client'[1].age \in Nat
      BY <1>1, <3>3, First DEF Taken
    <3>5. client_timer' + LATENCY + to_client'[1].age >= READ_TIMEOUT
      BY <1>1, <2>1, <3>4 DEF Facts, Bounds
    <3>6. Ended'
      BY <1>1, <2>1, <3>1, <3>3, <3>5 DEF Ended
    <3> QED BY <1>1, <2>1, <3>6 DEF Facts, InTime, Taken
  <2> QED BY <1>2, <2>2, <2>3, <2>4 DEF Versions
<1>4. CASE /\ ~matches(Head(to_client).value, version["client"])
           /\ ClientStops("version")
  <2>1. client' = "stopped" /\ Sent(to_server, to_server', "eof")
    BY <1>1, <1>4, ClosesToServer DEF ClientStops
  <2>2. version["client"] # version["server"]
    BY <1>1, <1>4 DEF Facts, IInv, HandshakeInv, SaysOfServer, matches
  <2>3. CASE Versions
    <3>1. /\ server = "read_version" /\ holds_one(to_server, "version")
          /\ server_timer + to_server[1].age >= READ_TIMEOUT
      BY <1>1, <2>2, <2>3 DEF Versions, IInv, HandshakeInv
    <3>2. to_server # <<>> /\ to_server' # <<>> /\ to_server'[1] = to_server[1]
      BY <1>1, <2>1, <3>1 DEF Facts, Sent
    <3>3. Versions'
      BY <1>1, <2>1, <2>2, <3>1, <3>2 DEF Versions
    <3> QED BY <1>1, <2>1, <3>3 DEF InTime, Taken, Sent
  <2>4. CASE Ended
    <3>1. Gone'
      BY <1>1, <2>1, <2>4 DEF Ended, Gone, ClientConnected, ClientHandshake, ClientRuns
    <3> QED BY <1>1, <2>1, <3>1 DEF InTime, Taken, Sent
  <2> QED BY <1>2, <2>3, <2>4
<1> QED BY <1>3, <1>4

LEMMA ClientAnswersChallenge ==
    ASSUME IInv, TimeInv, TimesFit, net = "up", client = "read_challenge",
           NEW value \in Nat, NEW next, next = "read_status",
           ClientReads("challenge", <<message("response", value)>>, next)
    PROVE  InTime'
<1> USE DEF sides, holds_one, holds_two
<1>1. /\ arrives(to_client, "challenge") /\ to_client' = Tail(to_client)
      /\ to_server' = to_server \o <<message("response", value)>>
      /\ client' = "read_status" /\ client_timer' = READ_TIMEOUT
      /\ server' = server /\ server_timer' = server_timer
  BY DEF ClientReads, server_vars, ClientHandshake
<1>2. /\ Facts
      /\ to_client # <<>> /\ to_client[1].msg = "challenge"
      /\ Taken(to_client, to_client')
  BY <1>1, ClientReadsInTime
<1>3. Sent(to_server, to_server', "response")
  <2>1. to_server \in Seq(Message) /\ Ages(to_server) /\ LATENCY \in Nat
    BY <1>2 DEF Facts
  <2>2. /\ to_server \o <<message("response", value)>>
           = Append(to_server, message("response", value))
        /\ Sent(to_server, Append(to_server, message("response", value)), "response")
    BY <2>1, Sends DEF Kind
  <2> QED BY <1>1, <2>2
<1>4. /\ server = "read_response" /\ holds_one(to_client, "challenge") /\ to_server = <<>>
      /\ server_timer + to_client[1].age >= READ_TIMEOUT
  BY <1>2 DEF Facts, InTime, Greeting, Versions, Passwords, Running, Listening, ClientExpects,
     Ended, Gone, ClientConnected, ClientHandshake, holds_only
<1>5. to_client' = <<>> /\ holds_one(to_server', "response") /\ to_server'[1].age = 0
  BY <1>2, <1>3, <1>4 DEF Facts, Taken, Sent
<1>6. /\ client_timer' + to_server'[1].age >= READ_TIMEOUT
      /\ server_timer' + LATENCY + to_server'[1].age >= READ_TIMEOUT
  BY <1>1, <1>2, <1>4, <1>5 DEF Facts, Bounds
<1>7. Passwords'
  BY <1>1, <1>4, <1>5, <1>6 DEF Passwords
<1> QED BY <1>2, <1>3, <1>7 DEF InTime, Taken, Sent

LEMMA ClientLearnsStatus ==
    ASSUME IInv, TimeInv, TimesFit, net = "up", client = "read_status",
           NEW next, next = "select",
           ClientReads("passed", <<>>, next) \/ ClientStops("failed")
    PROVE  InTime'
<1> USE DEF sides, holds_one, holds_two
<1>1. CASE ClientReads("passed", <<>>, next)
  <2>1. /\ arrives(to_client, "passed") /\ to_client' = Tail(to_client)
        /\ to_server' = to_server \o <<>>
        /\ client' = "select" /\ client_interval' = deadline
        /\ ServerStays
    BY <1>1 DEF ClientReads, server_vars, pong_vars, ServerStays
  <2>2. /\ Facts /\ to_client # <<>> /\ to_client[1].msg = "passed"
        /\ Taken(to_client, to_client')
    BY <2>1, ClientReadsInTime
  <2>3. to_server' = to_server
    BY <2>1, <2>2 DEF Facts
  <2> QED BY <2>1, <2>2, <2>3, ReadsInLoop
<1>2. CASE ClientStops("failed")
  <2>1. /\ arrives(to_client, "failed") /\ to_client' = Tail(to_client)
        /\ ClientCloses("stopped")
        /\ server' = server
    BY <1>2 DEF ClientStops, server_vars
  <2>2. /\ Facts /\ to_client # <<>> /\ to_client[1].msg = "failed"
        /\ Taken(to_client, to_client')
    BY <2>1, ClientReadsInTime
  <2>3. client' = "stopped" /\ Sent(to_server, to_server', "eof")
    BY <2>1, <2>2, ClosesToServer
  <2>4. server = "none"
    BY <2>2 DEF Facts, InTime, Greeting, Versions, Passwords, Running, Ended, Gone, holds_only
  <2>5. Gone'
    BY <2>1, <2>3, <2>4 DEF Gone, ClientConnected, ClientHandshake, ClientRuns
  <2> QED BY <2>2, <2>3, <2>5 DEF InTime, Taken, Sent
<1> QED BY <1>1, <1>2

LEMMA ClientReadsEnd ==
    ASSUME IInv, TimeInv, TimesFit, net = "up", ClientFails
    PROVE  InTime'
<1> USE DEF sides, holds_one, holds_two
<1>1. /\ client \in ClientHandshake \cup {"select"} /\ arrives(to_client, "eof")
      /\ ClientCloses("sleeping")
      /\ to_client' = to_client /\ server' = server
  BY DEF ClientFails, server_vars
<1>2. Facts
  BY Known
<1>3. client' = "sleeping" /\ Sent(to_server, to_server', "eof")
  BY <1>1, <1>2, ClosesToServer
<1>4. server = "none"
  BY <1>1, <1>2 DEF Facts, arrives, InTime, Greeting, Versions, Passwords, Running, Ended, Gone,
     holds_only, ClientHandshake
<1>5. Gone'
  BY <1>1, <1>3, <1>4 DEF Gone, ClientConnected, ClientHandshake, ClientRuns
<1> QED BY <1>1, <1>2, <1>3, <1>5 DEF Facts, InTime, Sent

LEMMA ClientLoopInTime ==
    ASSUME IInv, TimeInv, TimesFit, net = "up", ClientLoop
    PROVE  InTime'
<1>1. ServerStays
  BY DEF ClientLoop, server_vars, pong_vars, ServerStays
<1>2. ASSUME client = "select",
             NEW msg \in {"update", "ping"},
             arrives(to_client, msg), to_client' = Tail(to_client),
             client_interval' = deadline,
             IF msg = "ping" THEN client' = "pong" /\ client_timer' = WRITE_TIMEOUT
             ELSE UNCHANGED <<client, client_timer>>,
             UNCHANGED to_server
      PROVE  InTime'
  <2>1. /\ Facts /\ to_client # <<>> /\ to_client[1].msg = msg
        /\ Taken(to_client, to_client')
    BY <1>2, ClientReadsInTime
  <2>2. /\ client' \in {"select", "pong"}
        /\ client' = "pong" => client_timer' = WRITE_TIMEOUT /\ to_client[1].msg = "ping"
    BY <1>2, <2>1
  <2> QED BY <1>1, <1>2, <2>1, <2>2, ReadsInLoop
<1>3. CASE /\ client = "pong"
           /\ has_room(to_server)
           /\ to_server' = Append(to_server, signal("pong"))
           /\ client' = "select" /\ client_timer' = 0
           /\ UNCHANGED <<client_interval, to_client>>
  <2>1. Facts
    BY Known
  <2>2. Sent(to_server, to_server', "pong")
    BY <1>3, <2>1, Sends, Signals DEF Facts, Kind
  <2>3. Running \/ (Ended /\ Listening)
    BY <1>3, <2>1 DEF Facts, InTime, Greeting, Versions, Passwords, Running, Ended, Gone,
       ClientConnected, ClientHandshake, ClientRuns, sides
  <2>4. Listening'
    BY <1>3, <2>3 DEF Running, Listening, ClientExpects, ClientRuns
  <2>5. CASE Running
    <3>1. to_server = <<>> /\ to_server'[1].age = 0
      BY <1>3, <2>2, <2>5, WhereThePingIs DEF Sent
    <3>2. AwaitsPong' = AwaitsPong
      BY <1>1 DEF AwaitsPong, PongReceived, ServerStays
    <3>3. Writing'
      BY <1>1, <1>3, <2>5 DEF Running, Writing, has_room, ServerStays
    <3>4. Pinging'
      <4> SUFFICES ASSUME AwaitsPong PROVE Pinging'
        BY <3>2 DEF Pinging
      <4>1. /\ \A i \in DOMAIN to_client :
                  to_client[i].msg = "ping" => pong_timeout + to_client[i].age >= READ_TIMEOUT
            /\ pong_timeout + LATENCY + WRITE_TIMEOUT >= READ_TIMEOUT + client_timer
            /\ client_timer + CLIENT_STALL >= WRITE_TIMEOUT
        BY <1>3, <2>5 DEF Running, Pinging, Listening
      <4>2. pong_timeout + LATENCY + CLIENT_STALL + to_server'[1].age >= READ_TIMEOUT
        BY <2>1, <3>1, <4>1 DEF Facts, Bounds
      <4> QED BY <1>1, <1>3, <4>1, <4>2 DEF Pinging, ServerStays
    <3>5. Quiet'
      BY <1>1, <1>3, <2>5, <3>2 DEF Running, Quiet, ClientRuns, ServerStays
    <3>6. holds_only(to_server', {"pong"})
      BY <2>2, <2>5 DEF Running, Sent
    <3>7. Running'
      BY <1>1, <1>3, <2>4, <2>5, <3>3, <3>4, <3>5, <3>6 DEF Running, ServerRuns, ServerStays
    <3> QED BY <1>3, <2>1, <2>2, <3>7 DEF Facts, InTime, Sent
  <2>6. CASE Ended /\ Listening
    <3>1. Len(to_server') + count(to_client, "ping") + one_if(client' = "pong") <= 1
      <4>1. /\ Len(to_server) + count(to_client, "ping") + one_if(client = "pong") <= 1
            /\ count(to_client, "ping") \in Nat
            /\ Len(to_server') = Len(to_server) + 1
        <5>1. count(to_client, "ping") \in Nat
          BY <2>1, CountType DEF Facts
        <5>2. Len(to_server') = Len(to_server) + 1
          BY <2>2 DEF Sent
        <5> QED BY <1>3, <2>6, <5>1, <5>2 DEF Ended
      <4> QED BY <1>3, <2>1, <4>1 DEF Facts, one_if
    <3>2. Ended'
      BY <1>1, <1>3, <2>4, <2>6, <3>1 DEF Ended, ServerStays
    <3> QED BY <1>3, <2>1, <2>2, <3>2 DEF Facts, InTime, Sent
  <2> QED BY <2>3, <2>5, <2>6
<1> QED BY <1>2, <1>3 DEF ClientLoop, ClientLoops
LEMMA ReadPongInTime ==
    ASSUME IInv, TimeInv, TimesFit, net = "up", ReadPong
    PROVE  InTime'
<1>1. PICK msg \in {"pong", "eof"} : arrives(to_server, msg) /\ pong_channel' = <<msg>>
  BY DEF ReadPong
<1>2. /\ ServerRuns /\ to_server' = Tail(to_server)
      /\ client' = client /\ client_timer' = client_timer
      /\ client_interval' = client_interval
      /\ server' = server /\ server_timer' = server_timer /\ server_interval' = server_interval
      /\ waiting_for_pong' = waiting_for_pong /\ pong_timeout' = pong_timeout
      /\ to_client' = to_client
  BY DEF ReadPong, client_vars
<1>3. Facts
  BY Known
<1>4. to_server # <<>> /\ to_server[1].msg = msg /\ Taken(to_server, to_server')
  BY <1>1, <1>2, <1>3, Takes DEF Facts, arrives
<1>5. Running
  BY <1>2, <1>3 DEF Facts, InTime, Greeting, Versions, Passwords, Ended, Gone, ServerRuns, sides
<1>6. msg = "pong"
  BY <1>3, <1>4, <1>5 DEF Facts, Running, holds_only
<1>7. ~AwaitsPong'
  <2>1. <<"pong">> # <<>>
    OBVIOUS
  <2> QED BY <1>1, <1>6, <2>1 DEF AwaitsPong, PongReceived
<1>8. Listening' /\ Writing' /\ Pinging' /\ Quiet'
  BY <1>2, <1>5, <1>7 DEF Running, Listening, ClientExpects, ClientRuns, Writing, has_room,
     Pinging, Quiet
<1>9. Running'
  BY <1>1, <1>2, <1>4, <1>5, <1>6, <1>8 DEF Running, ServerRuns, Taken
<1> QED BY <1>2, <1>3, <1>4, <1>9 DEF Facts, InTime, Taken

LEMMA ReceivePongInTime ==
    ASSUME IInv, TimeInv, TimesFit, net = "up", ReceivePong
    PROVE  InTime'
<1>1. /\ server = "select" /\ pong_channel # <<>>
      /\ client' = client /\ client_timer' = client_timer
      /\ client_interval' = client_interval /\ to_server' = to_server
  BY DEF ReceivePong, client_vars, PongReceived
<1>2. Facts
  BY Known
<1>3. Running
  BY <1>1, <1>2 DEF Facts, InTime, Greeting, Versions, Passwords, Ended, Gone, sides
<1>4. Head(pong_channel) # "eof"
  BY <1>1, <1>3 DEF Running
<1>5. /\ server' = server /\ server_timer' = server_timer /\ server_interval' = server_interval
      /\ pong_timeout' = pong_timeout /\ to_client' = to_client
      /\ pong_channel' = <<>> /\ waiting_for_pong' = FALSE
  BY <1>4 DEF ReceivePong, Answered
<1>6. Listening' /\ Writing' /\ Pinging' /\ Quiet'
  BY <1>1, <1>3, <1>5 DEF Running, Listening, ClientExpects, ClientRuns, Writing, has_room,
     Pinging, Quiet, AwaitsPong
<1>7. Running'
  BY <1>1, <1>3, <1>5, <1>6 DEF Running, ServerRuns
<1> QED BY <1>1, <1>2, <1>5, <1>7 DEF Facts, InTime

LEMMA TakeInTime ==
    ASSUME IInv, TimeInv, TimesFit, net = "up", TakeUpdate \/ TakePing
    PROVE  InTime'
<1>1. /\ server = "select" /\ server' \in {"update", "ping"} /\ server_timer' = WRITE_TIMEOUT
      /\ client' = client /\ client_timer' = client_timer
      /\ client_interval' = client_interval
      /\ to_client' = to_client /\ to_server' = to_server
      /\ waiting_for_pong' = waiting_for_pong /\ pong_timeout' = pong_timeout
      /\ pong_channel' = pong_channel
  BY DEF TakeUpdate, TakePing, client_vars, pong_vars, connection
<1>2. Facts
  BY Known
<1>3. Running
  BY <1>1, <1>2 DEF Facts, InTime, Greeting, Versions, Passwords, Ended, Gone, sides
<1>4. AwaitsPong' = AwaitsPong
  BY <1>1 DEF AwaitsPong, PongReceived
<1>5. Listening' /\ Pinging'
  BY <1>1, <1>3, <1>4 DEF Running, Listening, ClientExpects, ClientRuns, Pinging
<1>6. Writing'
  <2>1. ~has_room(to_client) => to_client # <<>>
    BY <1>2 DEF Facts, Bounds, has_room
  <2>2. client = "pong" => client_timer <= WRITE_TIMEOUT
    BY <1>2 DEF Facts, Timers
  <2>3. server_timer' + WriteTime >= WRITE_TIMEOUT
    BY <1>1, <1>2 DEF Facts, Bounds
  <2>4. ~has_room(to_client) => server_timer' + to_client[1].age >= WRITE_TIMEOUT
    BY <1>1, <1>2, <2>1 DEF Facts, Bounds
  <2> QED BY <1>1, <2>2, <2>3, <2>4 DEF Writing, has_room
<1>7. Quiet'
  <2> SUFFICES ASSUME ClientRuns, to_client = <<>> PROVE Quiet'
    BY <1>1 DEF Quiet, ClientRuns
  <2>1. /\ AwaitsPong => client_interval + READ_TIMEOUT >= deadline + pong_timeout
        /\ \/ client_interval + PING_INTERVAL >= deadline + server_interval
           \/ client_interval + 2 * LATENCY + CLIENT_STALL >= deadline
    BY <1>1, <1>3 DEF Running, Quiet
  <2>2. client_interval' + Silence + WRITE_TIMEOUT >= deadline + server_timer'
    BY <1>1, <1>2, <2>1 DEF Facts, Bounds
  <2> QED BY <1>1, <1>4, <2>1, <2>2 DEF Quiet
<1>8. Running'
  BY <1>1, <1>3, <1>5, <1>6, <1>7 DEF Running, ServerRuns
<1> QED BY <1>1, <1>2, <1>8 DEF Facts, InTime

LEMMA WrittenInTime ==
    ASSUME IInv, TimeInv, TimesFit, net = "up", Written
    PROVE  InTime'
<1>1. /\ server \in {"update", "ping"} /\ CanWrite
      /\ to_client' = IF has_room(to_client) THEN Append(to_client, signal(server))
                      ELSE to_client
      /\ client' = client /\ client_timer' = client_timer
      /\ client_interval' = client_interval
      /\ to_server' = to_server /\ pong_channel' = pong_channel
      /\ server' = "select"
      /\ server = "update" => waiting_for_pong' = waiting_for_pong /\ pong_timeout' = pong_timeout
      /\ server = "ping" => waiting_for_pong' = TRUE /\ pong_timeout' = READ_TIMEOUT
  BY DEF Written, client_vars, pong_vars
<1>2. Facts
  BY Known
<1>3. Running
  BY <1>1, <1>2 DEF Facts, InTime, Greeting, Versions, Passwords, Ended, Gone, sides
<1>4. has_room(to_client) /\ to_client' = Append(to_client, signal(server))
  BY <1>1, <1>3 DEF CanWrite, Running, Listening, ClientExpects, ClientConnected,
     ClientHandshake, ClientRuns
<1>5. Sent(to_client, to_client', server)
  <2>1. server \in Kind
    BY <1>1 DEF Kind
  <2> QED BY <1>2, <1>4, <2>1, Sends, Signals DEF Facts
<1>6. Listening'
  <2>1. CASE to_client # <<>>
    <3>1. to_client' # <<>> /\ to_client'[1] = to_client[1]
      BY <1>5, <2>1 DEF Sent
    <3> QED BY <1>1, <1>3, <2>1, <3>1 DEF Running, Listening, ClientExpects, ClientRuns
  <2>2. CASE to_client = <<>>
    <3>1. to_client' # <<>> /\ to_client'[1].age = 0
      BY <1>5, <2>2 DEF Sent
    <3>2. ClientRuns => /\ client_interval + Silence + WRITE_TIMEOUT >= deadline + server_timer
                        /\ server_timer + WriteTime >= WRITE_TIMEOUT
      BY <1>1, <1>3, <2>2 DEF Running, Quiet, Writing
    <3>3. ClientRuns => client_interval' + Silence + WriteTime + to_client'[1].age >= deadline
      <4>1. /\ client_interval \in Nat /\ server_timer \in Nat
            /\ Silence \in Nat /\ WriteTime \in Nat /\ WRITE_TIMEOUT \in Nat /\ deadline \in Nat
        BY <1>2 DEF Facts, Bounds
      <4> QED BY <1>1, <3>1, <3>2, <4>1
    <3> QED BY <1>1, <1>3, <2>2, <3>3 DEF Running, Listening, ClientExpects, ClientRuns
  <2> QED BY <2>1, <2>2
<1>7. Writing' /\ Quiet'
  BY <1>1, <1>5 DEF Writing, Quiet, Sent
<1>8. Pinging'
  <2>1. CASE server = "update"
    <3>1. AwaitsPong' = AwaitsPong
      BY <1>1, <2>1 DEF AwaitsPong, PongReceived
    <3>2. \A i \in DOMAIN to_client' : to_client'[i].msg = "ping" =>
             i \in DOMAIN to_client /\ to_client'[i] = to_client[i]
      BY <1>5, <2>1 DEF Sent
    <3> QED BY <1>1, <1>3, <2>1, <3>1, <3>2 DEF Running, Pinging
  <2>2. CASE server = "ping"
    <3>1. ~AwaitsPong
      BY <2>2 DEF IInv, PingInv, AwaitsPong
    <3>2. /\ client # "pong" /\ to_server = <<>>
          /\ \A i \in DOMAIN to_client : to_client[i].msg # "ping"
      BY <1>3, <3>1, WhereThePingIs
    <3>3. \A i \in DOMAIN to_client' : to_client'[i].msg = "ping" => to_client'[i].age = 0
      BY <1>5, <3>2 DEF Sent
    <3> QED BY <1>1, <1>2, <2>2, <3>2, <3>3 DEF Facts, Bounds, Pinging
  <2> QED BY <1>1, <2>1, <2>2
<1>9. /\ Len(to_client') <= SOCKET
      /\ holds_only(to_client', {"passed", "update", "ping"})
  BY <1>1, <1>2, <1>3, <1>4, <1>5 DEF Facts, Bounds, Running, Sent, has_room
<1>10. Running'
  BY <1>1, <1>3, <1>6, <1>7, <1>8, <1>9 DEF Running, ServerRuns
<1> QED BY <1>1, <1>2, <1>5, <1>10 DEF Facts, InTime, Sent

LEMMA ServerLeavesInTime ==
    ASSUME IInv, TimeInv, TimesFit, net = "up", ServerFails
    PROVE  InTime'
<1>1. /\ \/ server \in ServerHandshake /\ arrives(to_server, "eof")
         \/ server = "select" /\ SenderIsGone
      /\ ServerCloses(<<>>)
      /\ client' = client /\ client_timer' = client_timer
      /\ client_interval' = client_interval /\ to_server' = to_server
  BY DEF ServerFails, client_vars
<1>2. Facts
  BY Known
<1>3. server' = "none" /\ Closed(to_client, to_client')
  BY <1>1, <1>2, ServerClosesInTime
<1>4. Running /\ server = "select"
  BY <1>1, <1>2 DEF Facts, arrives, InTime, Greeting, Versions, Passwords, Running, ServerRuns,
     Ended, Gone, ServerHandshake, sides, holds_one, holds_two
<1>5. Listening'
  <2>1. CASE to_client # <<>>
    <3>1. to_client' # <<>> /\ to_client'[1] = to_client[1]
      BY <1>3, <2>1 DEF Closed
    <3> QED BY <1>1, <1>4, <2>1, <3>1 DEF Running, Listening, ClientExpects, ClientRuns
  <2>2. CASE to_client = <<>>
    <3>1. to_client' # <<>> /\ to_client'[1].age = 0
      BY <1>3, <2>2 DEF Closed
    <3>2. ClientRuns => \/ client_interval + PING_INTERVAL >= deadline + server_interval
                        \/ client_interval + 2 * LATENCY + CLIENT_STALL >= deadline
      BY <1>4, <2>2 DEF Running, Quiet
    <3>3. ClientRuns => client_interval' + Silence + WriteTime + to_client'[1].age >= deadline
      BY <1>1, <1>2, <3>1, <3>2 DEF Facts, Bounds
    <3> QED BY <1>1, <1>4, <2>2, <3>3 DEF Running, Listening, ClientExpects, ClientRuns
  <2> QED BY <2>1, <2>2
<1>6. Len(to_server') + count(to_client', "ping") + one_if(client' = "pong") <= 1
  BY <1>1, <1>3, <1>4, WhereThePingIs DEF Closed
<1>7. Ended'
  BY <1>3, <1>5, <1>6 DEF Ended, Closed
<1> QED BY <1>1, <1>2, <1>3, <1>7 DEF Facts, InTime, Closed

LEMMA SameInTime ==
    ASSUME InTime, ServerStays,
           client' = client, client_timer' = client_timer, client_interval' = client_interval,
           to_client' = to_client, to_server' = to_server, version' = version
    PROVE  InTime'
<1>1. /\ Greeting => Greeting'
      /\ Versions => Versions'
      /\ Passwords => Passwords'
  BY DEF Greeting, Versions, Passwords, sides, ServerStays
<1>2. /\ Listening => Listening'
      /\ Writing => Writing'
  BY DEF Listening, ClientExpects, ClientRuns, Writing, has_room, ServerStays
<1>3. AwaitsPong' = AwaitsPong
  BY DEF AwaitsPong, PongReceived, ServerStays
<1>4. /\ Pinging => Pinging'
      /\ Quiet => Quiet'
  BY <1>3 DEF Pinging, Quiet, ClientRuns, ServerStays
<1>5. Running => Running'
  BY <1>2, <1>4 DEF Running, ServerRuns, ServerStays
<1>6. Ended => Ended'
  BY <1>2 DEF Ended, ServerStays
<1>7. Gone => Gone'
  BY DEF Gone, ClientConnected, ClientRuns, ServerStays
<1> QED BY <1>1, <1>5, <1>6, <1>7 DEF InTime

LEMMA ConnectInTime ==
    ASSUME TimesFit, Connect
    PROVE  InTime'
<1> DEFINE m == message("hello", 0)
           e == <<>>
<1>1. /\ client' = "tls" /\ client_timer' = TLS_TIMEOUT
      /\ server' = "tls" /\ server_timer' = TLS_TIMEOUT
      /\ to_client' = e /\ to_server' = Append(e, m)
  BY Signals DEF Connect
<1>2. e \in Seq(Message) /\ Ages(e) /\ e = <<>> /\ LATENCY \in Nat /\ "hello" \in Kind /\ 0 \in Nat
  BY SessionAssumption DEF Ages, Kind
<1> HIDE DEF e
<1>3. Sent(e, Append(e, m), "hello")
  BY <1>2, Sends
<1> HIDE DEF m
<1>4. Ages(to_client') /\ Ages(to_server') /\ Len(to_server') = 1
      /\ to_server'[1].msg = "hello" /\ to_server'[1].age = 0
  <2>1. Len(e) = 0
    BY <1>2
  <2> QED BY <1>1, <1>2, <1>3, <2>1 DEF Sent
<1>5. Bounds
  BY TimeBounds
<1>6. Greeting'
  BY <1>1, <1>2, <1>4, <1>5 DEF Bounds, Greeting, sides, holds_one
<1> QED BY <1>4, <1>6 DEF InTime
-----------------------------------------------------------------------------
(* Time passes.                                                             *)

\* q is what p becomes in a tick.
Older(p, q) ==
    /\ q \in Seq(Message) /\ Ages(q)
    /\ DOMAIN q = DOMAIN p /\ Len(q) = Len(p)
    /\ q = <<>> <=> p = <<>>
    /\ \A i \in DOMAIN p :
          /\ q[i].msg = p[i].msg /\ p[i].age \in Nat /\ q[i].age \in Nat
          /\ q[i].age <= LATENCY /\ p[i].age <= LATENCY
          /\ p[i].age < LATENCY => q[i].age = p[i].age + 1
          /\ p[i].age = LATENCY => q[i].age = LATENCY
    /\ \A kinds : holds_only(p, kinds) => holds_only(q, kinds)
    /\ \A k : count(q, k) = count(p, k)

\* What is known of a tick that leaves timers and pipes with these values: the
\* two sides stay as they are, and nothing was due.
Ticks(ct, ci, st, si, pt, tc, ts) ==
    /\ Facts
    /\ client_timer' = ct /\ client_interval' = ci
    /\ server_timer' = st /\ server_interval' = si /\ pong_timeout' = pt
    /\ to_client' = tc /\ to_server' = ts
    /\ client' = client /\ server' = server /\ waiting_for_pong' = waiting_for_pong
    /\ pong_channel' = pong_channel /\ version' = version
    /\ Older(to_client, tc) /\ Older(to_server, ts)
    /\ ct + 1 >= client_timer /\ (client_timer > 0 => ct + 1 = client_timer)
    /\ ci + 1 >= client_interval
    /\ st + 1 >= server_timer /\ (server_timer > 0 => st + 1 = server_timer)
    /\ server_timer >= client_timer => st >= ct
    /\ server_interval > 0 => si + 1 = server_interval
    /\ server_interval = 0 => si = 0
    /\ pt + 1 >= pong_timeout /\ (pong_timeout > 0 => pt + 1 = pong_timeout)
    /\ to_client # <<>> /\ client \in ClientHandshake \cup {"select"} =>
          to_client[1].age < LATENCY
    /\ client \in ClientHandshake \cup {"pong"} => client_timer > 0
    /\ client = "pong" /\ has_room(to_server) =>
          client_timer + CLIENT_STALL > WRITE_TIMEOUT
    /\ to_server # <<>> =>
          /\ server \in ServerHandshake => to_server[1].age < LATENCY
          /\ ServerRuns /\ ~PongReceived => to_server[1].age < LATENCY
    /\ server \in {"update", "ping"} =>
          /\ server_timer > 0
          /\ has_room(to_client) => server_timer + SERVER_STALL > WRITE_TIMEOUT
    /\ server = "select" /\ server_interval = 0 => AwaitsPong

LEMMA GetsOlder ==
    ASSUME NEW p \in Seq(Message), Ages(p), LATENCY \in Nat, net = "up"
    PROVE  Older(p, aged(p))
<1>1. /\ aged(p) \in Seq(Message) /\ Ages(aged(p))
      /\ DOMAIN aged(p) = DOMAIN p /\ Len(aged(p)) = Len(p)
      /\ aged(p) = <<>> <=> p = <<>>
      /\ \A i \in DOMAIN p :
            /\ aged(p)[i].msg = p[i].msg /\ p[i].age \in Nat /\ aged(p)[i].age \in Nat
            /\ p[i].age < LATENCY => aged(p)[i].age = p[i].age + 1
            /\ p[i].age >= LATENCY => aged(p)[i].age = p[i].age /\ p[i].age = LATENCY
      /\ \A kinds : holds_only(aged(p), kinds) <=> holds_only(p, kinds)
  BY AgedInTime
<1>2. \A k : count(aged(p), k) = count(p, k)
  BY Aged
<1> DEFINE q == aged(p)
<1> HIDE DEF q
<1>3. \A i \in DOMAIN p : q[i].age <= LATENCY /\ p[i].age <= LATENCY
  BY <1>1 DEF Ages, q
<1>4. \A i \in DOMAIN p : p[i].age = LATENCY => q[i].age = LATENCY
  BY <1>1 DEF q
<1>5. Older(p, q)
  BY <1>1, <1>2, <1>3, <1>4 DEF Older, q
<1> QED BY <1>5 DEF q

LEMMA TickIsATick ==
    ASSUME IInv, TimeInv, TimesFit, net = "up", Tick
    PROVE  \E ct, ci, st, si, pt \in Nat, tc, ts \in Seq(Message) :
               Ticks(ct, ci, st, si, pt, tc, ts)
<1>0. Facts
  BY Known
<1>3. /\ client_timer \in Nat /\ client_interval \in Nat /\ server_timer \in Nat
      /\ server_interval \in Nat /\ pong_timeout \in Nat /\ queue \in Nat
  BY <1>0 DEF Facts, Timers
<1> DEFINE ct == passed(client_timer)
           ci == passed(client_interval)
           st == passed(server_timer)
           si == passed(server_interval)
           pt == passed(pong_timeout)
           tc == aged(to_client)
           ts == aged(to_server)
<1>1. Older(to_client, tc) /\ Older(to_server, ts)
  BY <1>0, GetsOlder DEF Facts
<1>2. /\ client_timer' = ct /\ client_interval' = ci
      /\ server_timer' = st /\ server_interval' = si /\ pong_timeout' = pt
      /\ to_client' = tc /\ to_server' = ts
      /\ client' = client /\ server' = server /\ waiting_for_pong' = waiting_for_pong
      /\ pong_channel' = pong_channel /\ version' = version
      /\ ~Urgent
  BY DEF Tick, config
<1>4. /\ ct \in Nat /\ ci \in Nat /\ st \in Nat /\ si \in Nat /\ pt \in Nat
      /\ tc \in Seq(Message) /\ ts \in Seq(Message)
      /\ ct + 1 >= client_timer /\ (client_timer > 0 => ct + 1 = client_timer)
      /\ ci + 1 >= client_interval
      /\ st + 1 >= server_timer /\ (server_timer > 0 => st + 1 = server_timer)
      /\ server_timer >= client_timer => st >= ct
      /\ server_interval > 0 => si + 1 = server_interval
      /\ server_interval = 0 => si = 0
      /\ pt + 1 >= pong_timeout /\ (pong_timeout > 0 => pt + 1 = pong_timeout)
  BY <1>1, <1>3 DEF passed, Older
<1> HIDE DEF ct, ci, st, si, pt, tc, ts
<1>5. to_client # <<>> /\ client \in ClientHandshake \cup {"select"} =>
         to_client[1].age < LATENCY
  BY <1>0, <1>2 DEF Facts, Urgent, must_arrive
<1>6. client \in ClientHandshake \cup {"pong"} => client_timer > 0
  BY <1>2, <1>3 DEF Urgent
<1>7. client = "pong" /\ has_room(to_server) =>
         client_timer + CLIENT_STALL > WRITE_TIMEOUT
  BY <1>0, <1>2 DEF Facts, Bounds, Urgent
<1>8. to_server # <<>> =>
         /\ server \in ServerHandshake => to_server[1].age < LATENCY
         /\ ServerRuns /\ ~PongReceived => to_server[1].age < LATENCY
  BY <1>0, <1>2 DEF Facts, Urgent, must_arrive
<1>9. server \in {"update", "ping"} =>
         /\ server_timer > 0
         /\ has_room(to_client) => server_timer + SERVER_STALL > WRITE_TIMEOUT
  <2>1. server \in {"update", "ping"} => server_timer > 0
    BY <1>2, <1>3 DEF Urgent, ServerLate
  <2>2. server \in {"update", "ping"} /\ has_room(to_client) =>
           server_timer + SERVER_STALL > WRITE_TIMEOUT
    BY <1>0, <1>2 DEF Facts, Bounds, Urgent, CanWrite
  <2> QED BY <2>1, <2>2
<1>10. server = "select" /\ server_interval = 0 => AwaitsPong
  BY <1>2, <1>3 DEF Urgent, UpdateIsReady, SenderIsGone, PingIsDue, PongIsLate, ServerLate,
     AwaitsPong
<1>11. Ticks(ct, ci, st, si, pt, tc, ts)
  BY <1>0, <1>1, <1>2, <1>4, <1>5, <1>6, <1>7, <1>8, <1>9, <1>10 DEF Ticks
<1> QED BY <1>4, <1>11

LEMMA OneOlder ==
    ASSUME NEW p \in Seq(Message), NEW q, Older(p, q), NEW k, holds_one(p, k),
           p[1].age < LATENCY, LATENCY \in Nat
    PROVE  /\ holds_one(q, k)
           /\ p[1].age \in Nat /\ q[1].age \in Nat /\ q[1].age = p[1].age + 1
<1>1. 1 \in DOMAIN p
  BY First DEF holds_one
<1> QED BY <1>1 DEF Older, holds_one

LEMMA TwoOlder ==
    ASSUME NEW p \in Seq(Message), NEW q, Older(p, q), NEW k, NEW n, holds_two(p, k, n),
           p[1].age < LATENCY, LATENCY \in Nat, Ages(p)
    PROVE  /\ holds_two(q, k, n)
           /\ p[1].age \in Nat /\ q[1].age \in Nat /\ q[1].age = p[1].age + 1
           /\ p[2].age \in Nat /\ q[2].age \in Nat /\ q[2].age = p[2].age + 1
<1>1. 1 \in DOMAIN p /\ 2 \in DOMAIN p
  BY First DEF holds_two
<1>2. p[1].age \in Nat /\ p[2].age \in Nat /\ p[2].age <= p[1].age
  BY <1>1, First DEF Ages
<1> QED BY <1>1, <1>2 DEF Older, holds_two

LEMMA LadderTicks ==
    ASSUME NEW ct \in Nat, NEW ci \in Nat, NEW st \in Nat, NEW si \in Nat, NEW pt \in Nat,
           NEW tc, NEW ts,
           Ticks(ct, ci, st, si, pt, tc, ts)
    PROVE  /\ Greeting => Greeting'
           /\ Versions => Versions'
           /\ Passwords => Passwords'
<1>1. /\ client' = client /\ server' = server /\ version' = version
      /\ client_timer' = ct /\ server_timer' = st /\ to_client' = tc /\ to_server' = ts
  BY DEF Ticks
<1>2. /\ LATENCY \in Nat /\ READ_TIMEOUT \in Nat /\ TLS_TIMEOUT \in Nat
      /\ client_timer \in Nat /\ server_timer \in Nat
      /\ ct + 1 >= client_timer /\ st + 1 >= server_timer
      /\ 2 * LATENCY \in Nat
  <2>1. /\ LATENCY \in Nat /\ READ_TIMEOUT \in Nat /\ TLS_TIMEOUT \in Nat
        /\ client_timer \in Nat /\ server_timer \in Nat
        /\ ct + 1 >= client_timer /\ st + 1 >= server_timer
    BY DEF Ticks, Facts, Bounds
  <2> QED BY <2>1
<1>3. /\ to_client \in Seq(Message) /\ to_server \in Seq(Message)
      /\ Ages(to_client) /\ Ages(to_server)
      /\ Older(to_client, tc) /\ Older(to_server, ts)
      /\ to_client = <<>> => tc = <<>>
      /\ to_server = <<>> => ts = <<>>
      /\ to_client # <<>> /\ client \in ClientHandshake => to_client[1].age < LATENCY
      /\ to_server # <<>> /\ server \in ServerHandshake => to_server[1].age < LATENCY
  BY DEF Ticks, Facts, Older
<1>4. /\ \A k : holds_one(to_client, k) => to_client # <<>>
      /\ \A k : holds_one(to_server, k) => to_server # <<>>
      /\ \A k, n : holds_two(to_client, k, n) => to_client # <<>>
      /\ \A k, n : holds_two(to_server, k, n) => to_server # <<>>
  <2>1. (to_client = <<>> => Len(to_client) = 0) /\ (to_server = <<>> => Len(to_server) = 0)
    OBVIOUS
  <2> QED BY <2>1 DEF holds_one, holds_two
<1>5. ASSUME NEW k, holds_one(to_client, k), client \in ClientHandshake
      PROVE  /\ holds_one(tc, k)
             /\ to_client[1].age \in Nat /\ tc[1].age \in Nat
             /\ tc[1].age = to_client[1].age + 1
  BY <1>2, <1>3, <1>4, <1>5, OneOlder
<1>6. ASSUME NEW k, holds_one(to_server, k), server \in ServerHandshake
      PROVE  /\ holds_one(ts, k)
             /\ to_server[1].age \in Nat /\ ts[1].age \in Nat
             /\ ts[1].age = to_server[1].age + 1
  BY <1>2, <1>3, <1>4, <1>6, OneOlder
<1>7. Greeting => Greeting'
  <2>1. ASSUME sides("tls", "tls"),
               to_client = <<>>, holds_one(to_server, "hello"),
               client_timer + to_server[1].age >= TLS_TIMEOUT,
               server_timer + to_server[1].age >= TLS_TIMEOUT
        PROVE  Greeting'
    <3>1. /\ holds_one(ts, "hello") /\ tc = <<>>
          /\ to_server[1].age \in Nat /\ ts[1].age \in Nat
          /\ ts[1].age = to_server[1].age + 1
      BY <1>3, <1>6, <2>1 DEF sides, ServerHandshake
    <3>2. ct + ts[1].age >= TLS_TIMEOUT /\ st + ts[1].age >= TLS_TIMEOUT
      <4>1. /\ client_timer + to_server[1].age >= TLS_TIMEOUT
            /\ server_timer + to_server[1].age >= TLS_TIMEOUT
            /\ to_server[1].age \in Nat /\ ts[1].age \in Nat
            /\ ts[1].age = to_server[1].age + 1
        BY <2>1, <3>1
      <4> QED BY <1>2, <4>1
    <3> QED BY <1>1, <2>1, <3>1, <3>2 DEF Greeting, sides
  <2>2. ASSUME sides("tls", "tls"),
               holds_one(to_client, "hello"), to_server = <<>>,
               client_timer + LATENCY + to_client[1].age >= TLS_TIMEOUT,
               server_timer + LATENCY + to_client[1].age >= TLS_TIMEOUT
        PROVE  Greeting'
    <3>1. /\ holds_one(tc, "hello") /\ ts = <<>>
          /\ to_client[1].age \in Nat /\ tc[1].age \in Nat
          /\ tc[1].age = to_client[1].age + 1
      BY <1>3, <1>5, <2>2 DEF sides, ClientHandshake
    <3>2. /\ ct + LATENCY + tc[1].age >= TLS_TIMEOUT
          /\ st + LATENCY + tc[1].age >= TLS_TIMEOUT
      <4>1. /\ client_timer + LATENCY + to_client[1].age >= TLS_TIMEOUT
            /\ server_timer + LATENCY + to_client[1].age >= TLS_TIMEOUT
            /\ to_client[1].age \in Nat /\ tc[1].age \in Nat
            /\ tc[1].age = to_client[1].age + 1
        BY <2>2, <3>1
      <4> QED BY <1>2, <4>1
    <3> QED BY <1>1, <2>2, <3>1, <3>2 DEF Greeting, sides
  <2>3. ASSUME sides("read_version", "tls"),
               to_client = <<>>, holds_two(to_server, "finished", "version"),
               client_timer + to_server[1].age >= READ_TIMEOUT,
               server_timer + 2 * LATENCY + to_server[1].age >= TLS_TIMEOUT
        PROVE  Greeting'
    <3>1. /\ holds_two(ts, "finished", "version") /\ tc = <<>>
          /\ to_server[1].age \in Nat /\ ts[1].age \in Nat
          /\ ts[1].age = to_server[1].age + 1
      BY <1>2, <1>3, <1>4, <2>3, TwoOlder DEF sides, ServerHandshake
    <3>2. /\ ct + ts[1].age >= READ_TIMEOUT
          /\ st + 2 * LATENCY + ts[1].age >= TLS_TIMEOUT
      <4>1. /\ client_timer + to_server[1].age >= READ_TIMEOUT
            /\ server_timer + 2 * LATENCY + to_server[1].age >= TLS_TIMEOUT
            /\ to_server[1].age \in Nat /\ ts[1].age \in Nat
            /\ ts[1].age = to_server[1].age + 1
        BY <2>3, <3>1
      <4> QED BY <1>2, <4>1
    <3> QED BY <1>1, <2>3, <3>1, <3>2 DEF Greeting, sides
  <2> QED BY <2>1, <2>2, <2>3 DEF Greeting
<1>8. Versions => Versions'
  <2>1. ASSUME sides("read_version", "read_version"),
               holds_one(to_client, "version"), holds_one(to_server, "version"),
               client_timer + LATENCY + to_client[1].age >= READ_TIMEOUT,
               server_timer + to_server[1].age >= READ_TIMEOUT
        PROVE  Versions'
    <3>1. /\ holds_one(tc, "version")
          /\ to_client[1].age \in Nat /\ tc[1].age \in Nat
          /\ tc[1].age = to_client[1].age + 1
      BY <1>5, <2>1 DEF sides, ClientHandshake
    <3>2. /\ holds_one(ts, "version")
          /\ to_server[1].age \in Nat /\ ts[1].age \in Nat
          /\ ts[1].age = to_server[1].age + 1
      BY <1>6, <2>1 DEF sides, ServerHandshake
    <3>3. ct + LATENCY + tc[1].age >= READ_TIMEOUT /\ st + ts[1].age >= READ_TIMEOUT
      <4>1. /\ client_timer + LATENCY + to_client[1].age >= READ_TIMEOUT
            /\ server_timer + to_server[1].age >= READ_TIMEOUT
            /\ to_client[1].age \in Nat /\ tc[1].age \in Nat
            /\ tc[1].age = to_client[1].age + 1
            /\ to_server[1].age \in Nat /\ ts[1].age \in Nat
            /\ ts[1].age = to_server[1].age + 1
        BY <2>1, <3>1, <3>2
      <4> QED BY <1>2, <4>1
    <3> QED BY <1>1, <2>1, <3>1, <3>2, <3>3 DEF Versions, sides
  <2>2. ASSUME sides("read_version", "read_response"),
               holds_two(to_client, "version", "challenge"), to_server = <<>>,
               client_timer + LATENCY + to_client[1].age >= READ_TIMEOUT,
               server_timer + to_client[2].age >= READ_TIMEOUT
        PROVE  Versions'
    <3>1. /\ holds_two(tc, "version", "challenge") /\ ts = <<>>
          /\ to_client[1].age \in Nat /\ tc[1].age \in Nat
          /\ tc[1].age = to_client[1].age + 1
          /\ to_client[2].age \in Nat /\ tc[2].age \in Nat
          /\ tc[2].age = to_client[2].age + 1
      BY <1>2, <1>3, <1>4, <2>2, TwoOlder DEF sides, ClientHandshake
    <3>2. ct + LATENCY + tc[1].age >= READ_TIMEOUT /\ st + tc[2].age >= READ_TIMEOUT
      <4>1. /\ client_timer + LATENCY + to_client[1].age >= READ_TIMEOUT
            /\ server_timer + to_client[2].age >= READ_TIMEOUT
            /\ to_client[1].age \in Nat /\ tc[1].age \in Nat
            /\ tc[1].age = to_client[1].age + 1
            /\ to_client[2].age \in Nat /\ tc[2].age \in Nat
            /\ tc[2].age = to_client[2].age + 1
        BY <2>2, <3>1
      <4> QED BY <1>2, <4>1
    <3> QED BY <1>1, <2>2, <3>1, <3>2 DEF Versions, sides
  <2>3. ASSUME sides("read_challenge", "read_version"),
               to_client = <<>>, holds_one(to_server, "version"),
               client_timer + to_server[1].age >= READ_TIMEOUT,
               server_timer + to_server[1].age >= READ_TIMEOUT
        PROVE  Versions'
    <3>1. /\ holds_one(ts, "version") /\ tc = <<>>
          /\ to_server[1].age \in Nat /\ ts[1].age \in Nat
          /\ ts[1].age = to_server[1].age + 1
      BY <1>3, <1>6, <2>3 DEF sides, ServerHandshake
    <3>2. ct + ts[1].age >= READ_TIMEOUT /\ st + ts[1].age >= READ_TIMEOUT
      <4>1. /\ client_timer + to_server[1].age >= READ_TIMEOUT
            /\ server_timer + to_server[1].age >= READ_TIMEOUT
            /\ to_server[1].age \in Nat /\ ts[1].age \in Nat
            /\ ts[1].age = to_server[1].age + 1
        BY <2>3, <3>1
      <4> QED BY <1>2, <4>1
    <3> QED BY <1>1, <2>3, <3>1, <3>2 DEF Versions, sides
  <2>4. ASSUME sides("stopped", "read_version"),
               to_server # <<>>, to_server[1].msg = "version",
               version["client"] # version["server"],
               server_timer + to_server[1].age >= READ_TIMEOUT
        PROVE  Versions'
    <3>1. 1 \in DOMAIN to_server /\ to_server[1].age < LATENCY
      BY <1>3, <2>4, First DEF sides, ServerHandshake
    <3>2. /\ ts # <<>> /\ ts[1].msg = "version"
          /\ to_server[1].age \in Nat /\ ts[1].age \in Nat
          /\ ts[1].age = to_server[1].age + 1
      BY <1>3, <2>4, <3>1 DEF Older
    <3>3. st + ts[1].age >= READ_TIMEOUT
      <4>1. /\ server_timer + to_server[1].age >= READ_TIMEOUT
            /\ to_server[1].age \in Nat /\ ts[1].age \in Nat
            /\ ts[1].age = to_server[1].age + 1
        BY <2>4, <3>2
      <4> QED BY <1>2, <4>1
    <3> QED BY <1>1, <2>4, <3>2, <3>3 DEF Versions, sides
  <2> QED BY <2>1, <2>2, <2>3, <2>4 DEF Versions
<1>9. Passwords => Passwords'
  <2>1. ASSUME sides("read_challenge", "read_response"),
               holds_one(to_client, "challenge"), to_server = <<>>,
               client_timer + LATENCY + to_client[1].age >= READ_TIMEOUT,
               server_timer + to_client[1].age >= READ_TIMEOUT
        PROVE  Passwords'
    <3>1. /\ holds_one(tc, "challenge") /\ ts = <<>>
          /\ to_client[1].age \in Nat /\ tc[1].age \in Nat
          /\ tc[1].age = to_client[1].age + 1
      BY <1>3, <1>5, <2>1 DEF sides, ClientHandshake
    <3>2. ct + LATENCY + tc[1].age >= READ_TIMEOUT /\ st + tc[1].age >= READ_TIMEOUT
      <4>1. /\ client_timer + LATENCY + to_client[1].age >= READ_TIMEOUT
            /\ server_timer + to_client[1].age >= READ_TIMEOUT
            /\ to_client[1].age \in Nat /\ tc[1].age \in Nat
            /\ tc[1].age = to_client[1].age + 1
        BY <2>1, <3>1
      <4> QED BY <1>2, <4>1
    <3> QED BY <1>1, <2>1, <3>1, <3>2 DEF Passwords, sides
  <2>2. ASSUME sides("read_status", "read_response"),
               to_client = <<>>, holds_one(to_server, "response"),
               client_timer + to_server[1].age >= READ_TIMEOUT,
               server_timer + LATENCY + to_server[1].age >= READ_TIMEOUT
        PROVE  Passwords'
    <3>1. /\ holds_one(ts, "response") /\ tc = <<>>
          /\ to_server[1].age \in Nat /\ ts[1].age \in Nat
          /\ ts[1].age = to_server[1].age + 1
      BY <1>3, <1>6, <2>2 DEF sides, ServerHandshake
    <3>2. ct + ts[1].age >= READ_TIMEOUT /\ st + LATENCY + ts[1].age >= READ_TIMEOUT
      <4>1. /\ client_timer + to_server[1].age >= READ_TIMEOUT
            /\ server_timer + LATENCY + to_server[1].age >= READ_TIMEOUT
            /\ to_server[1].age \in Nat /\ ts[1].age \in Nat
            /\ ts[1].age = to_server[1].age + 1
        BY <2>2, <3>1
      <4> QED BY <1>2, <4>1
    <3> QED BY <1>1, <2>2, <3>1, <3>2 DEF Passwords, sides
  <2> QED BY <2>1, <2>2 DEF Passwords
<1> QED BY <1>7, <1>8, <1>9

LEMMA ListeningTicks ==
    ASSUME NEW ct \in Nat, NEW ci \in Nat, NEW st \in Nat, NEW si \in Nat, NEW pt \in Nat,
           NEW tc, NEW ts,
           Ticks(ct, ci, st, si, pt, tc, ts),
           Listening, client = "pong" => has_room(to_server)
    PROVE  Listening'
<1>0. /\ client' = client
      /\ client_timer' = ct /\ client_interval' = ci /\ to_client' = tc
  BY DEF Ticks
<1>1. /\ LATENCY \in Nat /\ READ_TIMEOUT \in Nat /\ WRITE_TIMEOUT \in Nat
      /\ CLIENT_STALL \in Nat /\ WriteTime \in Nat /\ Silence \in Nat /\ deadline \in Nat
      /\ CLIENT_STALL <= WriteTime
      /\ client_timer \in Nat /\ client_interval \in Nat
      /\ ct + 1 >= client_timer /\ (client_timer > 0 => ct + 1 = client_timer)
      /\ ci + 1 >= client_interval
      /\ client = "pong" => client_timer > 0
      /\ client = "pong" => client_timer + CLIENT_STALL > WRITE_TIMEOUT
  BY DEF Ticks, Facts, Bounds
<1>2. /\ tc = <<>> <=> to_client = <<>>
      /\ to_client # <<>> => /\ to_client[1].age \in Nat /\ tc[1].age \in Nat
                             /\ tc[1].age >= to_client[1].age
                             /\ client \in {"read_status", "select"} =>
                                   tc[1].age = to_client[1].age + 1
  BY DEF Ticks, Facts, Older, ClientHandshake
<1>3. ClientExpects' /\ ClientExpects
  BY <1>0 DEF Listening, ClientExpects
<1>4. CASE client = "read_status"
  <2>1. tc # <<>> /\ to_client # <<>>
    BY <1>2, <1>4 DEF Listening
  <2>2. /\ to_client[1].age \in Nat /\ tc[1].age \in Nat
        /\ tc[1].age = to_client[1].age + 1
        /\ client_timer + LATENCY + to_client[1].age >= READ_TIMEOUT
    BY <1>2, <1>4, <2>1 DEF Listening
  <2>3. ct + LATENCY + tc[1].age >= READ_TIMEOUT
    BY <1>1, <2>2
  <2> QED BY <1>0, <1>3, <1>4, <2>1, <2>3 DEF Listening, ClientRuns
<1>5. CASE client = "pong"
  <2>1. /\ client_timer + CLIENT_STALL >= WRITE_TIMEOUT
        /\ client_interval + WRITE_TIMEOUT >= deadline + client_timer
        /\ client_timer + CLIENT_STALL > WRITE_TIMEOUT
        /\ ct + 1 = client_timer
    BY <1>1, <1>5 DEF Listening
  <2>2. ct + CLIENT_STALL >= WRITE_TIMEOUT /\ ci + WRITE_TIMEOUT >= deadline + ct
    BY <1>1, <2>1
  <2>3. ASSUME tc # <<>> PROVE ci + Silence + WriteTime + tc[1].age >= deadline
    <3>1. /\ to_client[1].age \in Nat /\ tc[1].age \in Nat
          /\ tc[1].age >= to_client[1].age
          /\ client_interval + Silence + WriteTime + to_client[1].age >= deadline
      BY <1>2, <1>5, <2>3 DEF Listening, ClientRuns
    <3> QED BY <1>1, <2>2, <3>1
  <2> QED BY <1>0, <1>3, <1>5, <2>2, <2>3 DEF Listening, ClientRuns
<1>6. CASE client = "select"
  <2>1. ASSUME tc # <<>> PROVE ci + Silence + WriteTime + tc[1].age >= deadline
    <3>1. /\ to_client[1].age \in Nat /\ tc[1].age \in Nat
          /\ tc[1].age = to_client[1].age + 1
          /\ client_interval + Silence + WriteTime + to_client[1].age >= deadline
      BY <1>2, <1>6, <2>1 DEF Listening, ClientRuns
    <3> QED BY <1>1, <3>1
  <2> QED BY <1>0, <1>3, <1>6, <2>1 DEF Listening
<1> QED BY <1>3, <1>4, <1>5, <1>6 DEF ClientExpects

LEMMA WritingTicks ==
    ASSUME NEW ct \in Nat, NEW ci \in Nat, NEW st \in Nat, NEW si \in Nat, NEW pt \in Nat,
           NEW tc, NEW ts,
           Ticks(ct, ci, st, si, pt, tc, ts), Running, Listening'
    PROVE  Writing'
<1>0. /\ client' = client /\ server' = server
      /\ client_timer' = ct /\ server_timer' = st /\ to_client' = tc
      /\ Len(tc) = Len(to_client)
  BY DEF Ticks, Older
<1> SUFFICES ASSUME server \in {"update", "ping"}
             PROVE  /\ st + WriteTime >= WRITE_TIMEOUT
                    /\ ~has_room(to_client) =>
                          /\ tc[1].age < LATENCY => st + tc[1].age >= WRITE_TIMEOUT
                          /\ client = "pong" => st >= ct
  BY <1>0 DEF Writing, has_room
<1>1. /\ LATENCY \in Nat /\ WRITE_TIMEOUT \in Nat /\ WriteTime \in Nat
      /\ SERVER_STALL \in Nat /\ CLIENT_STALL \in Nat
      /\ LATENCY <= WriteTime /\ SERVER_STALL <= WriteTime /\ CLIENT_STALL <= WriteTime
      /\ client_timer \in Nat /\ server_timer \in Nat
      /\ st + 1 = server_timer
      /\ server_timer >= client_timer => st >= ct
  BY DEF Ticks, Facts, Bounds
<1>2. CASE has_room(to_client)
  <2>1. server_timer + SERVER_STALL > WRITE_TIMEOUT
    BY <1>2 DEF Ticks
  <2>2. st + WriteTime >= WRITE_TIMEOUT
    BY <1>1, <2>1
  <2> QED BY <1>2, <2>2
<1>3. CASE ~has_room(to_client)
  <2>1. to_client # <<>>
    BY <1>3 DEF Ticks, Facts, Bounds, has_room
  <2>2. /\ to_client[1].age \in Nat /\ to_client[1].age <= LATENCY /\ tc[1].age \in Nat
        /\ to_client[1].age < LATENCY => tc[1].age = to_client[1].age + 1
        /\ to_client[1].age = LATENCY => tc[1].age = LATENCY
    BY <2>1 DEF Ticks, Facts, Older
  <2>3. CASE to_client[1].age < LATENCY
    <3>1. server_timer + to_client[1].age >= WRITE_TIMEOUT /\ (client = "pong" => st >= ct)
      BY <1>1, <1>3, <2>3 DEF Running, Writing
    <3>2. st + WriteTime >= WRITE_TIMEOUT /\ st + tc[1].age >= WRITE_TIMEOUT
      BY <1>1, <2>2, <2>3, <3>1
    <3> QED BY <1>3, <3>1, <3>2
  <2>4. CASE to_client[1].age = LATENCY
    <3>1. client = "pong"
      BY <2>1, <2>4, <1>1 DEF Ticks, Running, Listening, ClientExpects, ClientHandshake
    <3>2. ct + CLIENT_STALL >= WRITE_TIMEOUT
      BY <1>0, <3>1 DEF Listening
    <3>3. st >= ct
      BY <1>1, <1>3, <3>1 DEF Running, Writing
    <3>4. st + WriteTime >= WRITE_TIMEOUT
      BY <1>1, <3>2, <3>3
    <3>5. ~(tc[1].age < LATENCY)
      BY <1>1, <2>2, <2>4
    <3> QED BY <3>3, <3>4, <3>5
  <2>5. to_client[1].age < LATENCY \/ to_client[1].age = LATENCY
    BY <1>1, <2>2
  <2> QED BY <2>3, <2>4, <2>5
<1> QED BY <1>2, <1>3

LEMMA PingingTicks ==
    ASSUME NEW ct \in Nat, NEW ci \in Nat, NEW st \in Nat, NEW si \in Nat, NEW pt \in Nat,
           NEW tc, NEW ts,
           Ticks(ct, ci, st, si, pt, tc, ts), IInv, Running
    PROVE  Pinging'
<1>0. /\ client' = client /\ client_timer' = ct /\ pong_timeout' = pt
      /\ to_client' = tc /\ to_server' = ts /\ AwaitsPong' = AwaitsPong
      /\ DOMAIN tc = DOMAIN to_client /\ (ts = <<>> <=> to_server = <<>>)
      /\ \A i \in DOMAIN to_client : tc[i].msg = to_client[i].msg
  BY DEF Ticks, Older, AwaitsPong, PongReceived
<1> SUFFICES ASSUME AwaitsPong
             PROVE  /\ \A i \in DOMAIN to_client :
                          to_client[i].msg = "ping" => pt + tc[i].age >= READ_TIMEOUT
                    /\ client = "pong" => pt + LATENCY + WRITE_TIMEOUT >= READ_TIMEOUT + ct
                    /\ to_server # <<>> =>
                          pt + LATENCY + CLIENT_STALL + ts[1].age >= READ_TIMEOUT
  BY <1>0 DEF Pinging
<1>1. /\ LATENCY \in Nat /\ READ_TIMEOUT \in Nat /\ WRITE_TIMEOUT \in Nat
      /\ CLIENT_STALL \in Nat /\ client_timer \in Nat /\ pong_timeout \in Nat
      /\ pt + 1 >= pong_timeout
  BY DEF Ticks, Facts, Bounds
<1>2. ASSUME NEW i \in DOMAIN to_client, to_client[i].msg = "ping"
      PROVE  pt + tc[i].age >= READ_TIMEOUT
  <2>1. pong_timeout + to_client[i].age >= READ_TIMEOUT
    BY <1>2 DEF Running, Pinging
  <2>2. to_client # <<>> /\ client # "pong"
    BY <1>2, WhereThePingIs
  <2>3. to_client[1].age < LATENCY
    BY <2>2 DEF Ticks, Running, Listening, ClientExpects, ClientHandshake
  <2>4. /\ to_client[i].age \in Nat /\ tc[i].age \in Nat
        /\ to_client[i].age < LATENCY => tc[i].age = to_client[i].age + 1
    BY <1>2 DEF Ticks, Older
  <2>5. to_client[i].age < LATENCY
    <3>1. to_client \in Seq(Message) /\ Ages(to_client)
      BY DEF Ticks, Facts
    <3>2. i = 1 \/ (1 \in DOMAIN to_client /\ 1 < i)
      BY <1>2, <3>1, First
    <3>3. 1 \in DOMAIN to_client /\ 1 < i =>
             to_client[1].age \in Nat /\ to_client[i].age <= to_client[1].age
      BY <1>2, <3>1, First DEF Ages
    <3> QED BY <1>1, <2>3, <2>4, <3>2, <3>3
  <2> QED BY <1>1, <2>1, <2>4, <2>5
<1>3. ASSUME client = "pong" PROVE pt + LATENCY + WRITE_TIMEOUT >= READ_TIMEOUT + ct
  <2>1. /\ pong_timeout + LATENCY + WRITE_TIMEOUT >= READ_TIMEOUT + client_timer
        /\ ct + 1 = client_timer
    BY <1>3 DEF Ticks, Running, Pinging
  <2> QED BY <1>1, <2>1
<1>4. ASSUME to_server # <<>>
      PROVE  pt + LATENCY + CLIENT_STALL + ts[1].age >= READ_TIMEOUT
  <2>1. pong_timeout + LATENCY + CLIENT_STALL + to_server[1].age >= READ_TIMEOUT
    BY <1>4 DEF Running, Pinging
  <2>2. to_server[1].age < LATENCY /\ 1 \in DOMAIN to_server
    BY <1>4 DEF Ticks, Facts, Running, AwaitsPong
  <2>3. /\ to_server[1].age \in Nat /\ ts[1].age \in Nat
        /\ ts[1].age = to_server[1].age + 1
    BY <2>2 DEF Ticks, Older
  <2> QED BY <1>1, <2>1, <2>3
<1> QED BY <1>2, <1>3, <1>4

LEMMA QuietTicks ==
    ASSUME NEW ct \in Nat, NEW ci \in Nat, NEW st \in Nat, NEW si \in Nat, NEW pt \in Nat,
           NEW tc, NEW ts,
           Ticks(ct, ci, st, si, pt, tc, ts), IInv, TimeInv, TimesFit, net = "up", Running,
           Listening', Pinging'
    PROVE  Quiet'
<1>0. /\ client' = client /\ server' = server /\ AwaitsPong' = AwaitsPong
      /\ client_timer' = ct /\ client_interval' = ci
      /\ server_timer' = st /\ server_interval' = si /\ pong_timeout' = pt
      /\ to_client' = tc /\ to_server' = ts
      /\ (tc = <<>> <=> to_client = <<>>)
  BY DEF Ticks, Older, AwaitsPong, PongReceived
<1> SUFFICES ASSUME ClientRuns, to_client = <<>>
             PROVE  /\ AwaitsPong => ci + READ_TIMEOUT >= deadline + pt
                    /\ server = "select" =>
                          \/ ci + PING_INTERVAL >= deadline + si
                          \/ si = 0 /\ ci + 2 * LATENCY + CLIENT_STALL >= deadline
                    /\ server \in {"update", "ping"} =>
                          ci + Silence + WRITE_TIMEOUT >= deadline + st
  BY <1>0 DEF Quiet, ClientRuns
<1>1. /\ LATENCY \in Nat /\ READ_TIMEOUT \in Nat /\ WRITE_TIMEOUT \in Nat
      /\ CLIENT_STALL \in Nat /\ PING_INTERVAL \in Nat /\ Silence \in Nat /\ deadline \in Nat
      /\ 2 * LATENCY + CLIENT_STALL < READ_TIMEOUT
      /\ client_interval \in Nat /\ server_timer \in Nat /\ server_interval \in Nat
      /\ pong_timeout \in Nat
      /\ ci + 1 >= client_interval
  BY DEF Ticks, Facts, Bounds
<1>2. ASSUME AwaitsPong
      PROVE  ci + READ_TIMEOUT >= deadline + pt
  <2>1. client_interval + READ_TIMEOUT >= deadline + pong_timeout
    BY <1>2 DEF Running, Quiet
  <2>2. pong_timeout > 0
    BY <1>1, <1>2, PongHasTime
  <2>3. pt + 1 = pong_timeout
    BY <2>2 DEF Ticks
  <2> QED BY <1>1, <2>1, <2>3
<1>3. ASSUME AwaitsPong
      PROVE  pt + 2 * LATENCY + CLIENT_STALL >= READ_TIMEOUT
  <2>1. CASE client = "pong"
    <3>1. /\ pt + LATENCY + WRITE_TIMEOUT >= READ_TIMEOUT + ct
          /\ ct + CLIENT_STALL >= WRITE_TIMEOUT
      BY <1>0, <1>3, <2>1 DEF Listening, Pinging
    <3> QED BY <1>1, <3>1
  <2>2. CASE to_server # <<>>
    <3>1. ts # <<>> /\ 1 \in DOMAIN to_server
      BY <2>2 DEF Ticks, Facts, Older
    <3>2. /\ ts[1].age \in Nat /\ ts[1].age <= LATENCY
          /\ pt + LATENCY + CLIENT_STALL + ts[1].age >= READ_TIMEOUT
      BY <1>0, <1>3, <3>1 DEF Ticks, Older, Pinging
    <3>3. PICK a \in Nat : a <= LATENCY /\ pt + LATENCY + CLIENT_STALL + a >= READ_TIMEOUT
      BY <3>2
    <3> QED BY <1>1, <3>3
  <2>3. DOMAIN to_client = {}
    OBVIOUS
  <2> QED BY <1>3, <2>1, <2>2, <2>3, WhereThePingIs
<1>4. ASSUME server = "select"
      PROVE  \/ ci + PING_INTERVAL >= deadline + si
             \/ si = 0 /\ ci + 2 * LATENCY + CLIENT_STALL >= deadline
  <2>1. CASE server_interval > 0
    <3>1. si + 1 = server_interval /\ server_interval # 0
      BY <1>1, <2>1 DEF Ticks
    <3>2. client_interval + PING_INTERVAL >= deadline + server_interval
      BY <1>4, <3>1 DEF Running, Quiet
    <3>3. ci + PING_INTERVAL >= deadline + si
      BY <1>1, <3>1, <3>2
    <3> QED BY <3>3
  <2>2. CASE server_interval = 0
    <3>1. AwaitsPong /\ si = 0
      BY <1>4, <2>2 DEF Ticks
    <3>2. ci + READ_TIMEOUT >= deadline + pt /\ pt + 2 * LATENCY + CLIENT_STALL >= READ_TIMEOUT
      BY <1>2, <1>3, <3>1
    <3>3. ci + 2 * LATENCY + CLIENT_STALL >= deadline
      BY <1>1, <3>2
    <3> QED BY <3>1, <3>3
  <2> QED BY <1>1, <2>1, <2>2
<1>5. ASSUME server \in {"update", "ping"}
      PROVE  ci + Silence + WRITE_TIMEOUT >= deadline + st
  <2>1. /\ client_interval + Silence + WRITE_TIMEOUT >= deadline + server_timer
        /\ st + 1 = server_timer
    BY <1>5 DEF Ticks, Running, Quiet
  <2> QED BY <1>1, <2>1
<1> QED BY <1>2, <1>4, <1>5

LEMMA RunningTicks ==
    ASSUME NEW ct \in Nat, NEW ci \in Nat, NEW st \in Nat, NEW si \in Nat, NEW pt \in Nat,
           NEW tc, NEW ts,
           Ticks(ct, ci, st, si, pt, tc, ts), IInv, TimeInv, TimesFit, net = "up", Running
    PROVE  Running'
<1>1. client = "pong" => has_room(to_server)
  BY WhereThePingIs DEF Ticks, Facts, Bounds, has_room
<1>2. Listening'
  BY <1>1, ListeningTicks DEF Running
<1>3. Writing'
  BY <1>2, WritingTicks
<1>4. Pinging'
  BY PingingTicks
<1>5. Quiet'
  BY <1>2, <1>4, QuietTicks
<1>6. /\ server' = server /\ pong_channel' = pong_channel
      /\ to_client' = tc /\ to_server' = ts /\ Len(tc) = Len(to_client)
      /\ \A kinds : holds_only(to_client, kinds) => holds_only(tc, kinds)
      /\ \A kinds : holds_only(to_server, kinds) => holds_only(ts, kinds)
  BY DEF Ticks, Older
<1> QED BY <1>2, <1>3, <1>4, <1>5, <1>6 DEF Running, ServerRuns

LEMMA EndedTicks ==
    ASSUME NEW ct \in Nat, NEW ci \in Nat, NEW st \in Nat, NEW si \in Nat, NEW pt \in Nat,
           NEW tc, NEW ts,
           Ticks(ct, ci, st, si, pt, tc, ts), Ended
    PROVE  Ended'
<1>0. /\ client' = client /\ server' = server /\ client_timer' = ct
      /\ to_client' = tc /\ to_server' = ts /\ Len(ts) = Len(to_server)
      /\ \A k : count(tc, k) = count(to_client, k)
      /\ \A kinds : holds_only(to_client, kinds) => holds_only(tc, kinds)
  BY DEF Ticks, Older
<1>1. server' = "none" /\ count(to_client', "eof") > 0
  BY <1>0 DEF Ended
<1>2. CASE /\ client \in {"read_version", "read_challenge"}
           /\ holds_only(to_client, {"version", "eof"})
           /\ client_timer + LATENCY + to_client[1].age >= READ_TIMEOUT
  <2>1. to_client # <<>> /\ 1 \in DOMAIN to_client
    BY CountSome DEF Ended, Ticks, Facts
  <2>2. to_client[1].age < LATENCY
    BY <1>2, <2>1 DEF Ticks, ClientHandshake
  <2>3. /\ to_client[1].age \in Nat /\ tc[1].age \in Nat
        /\ tc[1].age = to_client[1].age + 1
    BY <2>1, <2>2 DEF Ticks, Older
  <2>4. /\ LATENCY \in Nat /\ READ_TIMEOUT \in Nat /\ client_timer \in Nat
        /\ ct + 1 >= client_timer
        /\ client_timer + LATENCY + to_client[1].age >= READ_TIMEOUT
    BY <1>2 DEF Ticks, Facts, Bounds
  <2>5. ct + LATENCY + tc[1].age >= READ_TIMEOUT
    BY <2>3, <2>4
  <2> QED BY <1>0, <1>1, <1>2, <2>5 DEF Ended
<1>3. CASE /\ Listening
           /\ Len(to_server) + count(to_client, "ping") + one_if(client = "pong") <= 1
  <2>1. ASSUME client = "pong" PROVE has_room(to_server)
    <3>1. /\ to_client \in Seq(Message) /\ Len(to_server) \in Nat
          /\ SOCKET \in Nat /\ SOCKET > 0
      BY DEF Ticks, Facts, Bounds
    <3>2. count(to_client, "ping") \in Nat
      BY <3>1, CountType
    <3>3. one_if(client = "pong") = 1
      BY <2>1 DEF one_if
    <3>4. Len(to_server) = 0
      BY <1>3, <3>1, <3>2, <3>3
    <3> QED BY <3>1, <3>4 DEF has_room
  <2>2. Listening'
    BY <1>3, <2>1, ListeningTicks
  <2>3. Len(to_server') + count(to_client', "ping") + one_if(client' = "pong") <= 1
    BY <1>0, <1>3
  <2> QED BY <1>1, <2>2, <2>3 DEF Ended
<1> QED BY <1>2, <1>3 DEF Ended

LEMMA TickInTime ==
    ASSUME IInv, TimeInv, TimesFit, net = "up", Tick
    PROVE  InTime'
<1>1. PICK ct \in Nat, ci \in Nat, st \in Nat, si \in Nat, pt \in Nat,
           tc \in Seq(Message), ts \in Seq(Message) : Ticks(ct, ci, st, si, pt, tc, ts)
  BY TickIsATick
<1>2. InTime
  BY Known DEF Facts
<1>3. Ages(to_client') /\ Ages(to_server')
  BY <1>1 DEF Ticks, Older
<1>4. /\ Greeting => Greeting'
      /\ Versions => Versions'
      /\ Passwords => Passwords'
  BY <1>1, LadderTicks
<1>5. Running => Running'
  BY <1>1, RunningTicks
<1>6. Ended => Ended'
  BY <1>1, EndedTicks
<1>7. Gone => Gone'
  BY <1>1 DEF Ticks, Gone, ClientConnected, ClientRuns
<1> QED BY <1>2, <1>3, <1>4, <1>5, <1>6, <1>7 DEF InTime
-----------------------------------------------------------------------------
(* The invariant of time.                                                   *)

LEMMA TimersStep == Timers /\ [Next]_vars => Timers'
<1> SUFFICES ASSUME Timers, [Next]_vars PROVE Timers'
  OBVIOUS
<1>0. /\ PING_INTERVAL \in Nat /\ READ_TIMEOUT \in Nat /\ WRITE_TIMEOUT \in Nat
      /\ TLS_TIMEOUT \in Nat /\ deadline \in Nat
  BY SessionAssumption DEF deadline
<1>1. CASE Connect
  BY <1>0, <1>1 DEF Timers, Connect, pong_vars
<1>2. CASE ConnectFails \/ Wakes
  BY <1>2 DEF Timers, ConnectFails, Wakes, server_vars, pong_vars
<1>3. CASE ClientHandshakes
  <2>1. ASSUME NEW msg, NEW answers, NEW at, at # "pong", ClientReads(msg, answers, at)
        PROVE  Timers'
    BY <1>0, <2>1 DEF Timers, ClientReads, server_vars, pong_vars
  <2>2. ASSUME NEW msg, ClientStops(msg)
        PROVE  Timers'
    BY <2>2 DEF Timers, ClientStops, ClientCloses, server_vars, pong_vars
  <2> QED BY <1>3, <2>1, <2>2 DEF ClientHandshakes
<1>4. CASE ClientLoop
  BY <1>0, <1>4 DEF Timers, ClientLoop, ClientLoops, server_vars, pong_vars
<1>5. CASE ClientTimeout \/ ClientFails
  BY <1>5 DEF Timers, ClientTimeout, ClientFails, ClientCloses, server_vars, pong_vars
<1>6. CASE ServerHandshakes
  <2>1. ASSUME NEW msg, NEW answers, NEW at, at \notin {"update", "ping"},
               ServerReads(msg, answers, at)
        PROVE  Timers'
    BY <1>0, <2>1 DEF Timers, ServerReads, client_vars, pong_vars
  <2>2. ASSUME NEW msg, NEW answers, ServerRefuses(msg, answers)
        PROVE  Timers'
    BY <1>0, <2>2 DEF Timers, ServerRefuses, ServerCloses, client_vars
  <2> QED BY <1>6, <2>1, <2>2 DEF ServerHandshakes
<1>7. CASE ReadPong
  BY <1>7 DEF Timers, ReadPong, client_vars
<1>8. CASE ReceivePong
  BY <1>0, <1>8 DEF Timers, ReceivePong, Answered, ServerCloses, client_vars
<1>9. CASE TakeUpdate \/ TakePing
  BY <1>0, <1>9 DEF Timers, TakeUpdate, TakePing, UpdateIsReady, client_vars, pong_vars
<1>10. CASE Written
  BY <1>0, <1>10 DEF Timers, Written, client_vars, pong_vars
<1>11. CASE ServerTimeout \/ ServerFails
  BY <1>0, <1>11 DEF Timers, ServerTimeout, ServerFails, ServerCloses, client_vars
<1>12. CASE TrySend \/ Drop \/ Disturb
  BY <1>12 DEF Timers, TrySend, Drop, Disturb, client_vars, server_vars, pong_vars
<1>13. CASE Tick
  BY <1>0, <1>13 DEF Timers, Tick, passed
<1>14. CASE UNCHANGED vars
  BY <1>14 DEF Timers, vars, client_vars, server_vars, pong_vars
<1> QED BY <1>1, <1>2, <1>3, <1>4, <1>5, <1>6, <1>7, <1>8, <1>9, <1>10, <1>11, <1>12,
           <1>13, <1>14 DEF Next, ClientStep, ServerStep

\* Nothing but Connect makes a connection work.
LEMMA NetStep ==
    ASSUME [Next]_vars, net' = "up", ~Connect
    PROVE  net = "up"
<1>1. CASE ClientStep
  BY <1>1 DEF ClientStep, ConnectFails, Wakes, ClientHandshakes, ClientReads, ClientStops,
     ClientLoop, ClientTimeout, ClientFails, connection
<1>2. CASE ServerStep
  BY <1>2 DEF ServerStep, ServerHandshakes, ServerReads, ServerRefuses, ReadPong, ReceivePong,
     TakeUpdate, TakePing, Written, ServerTimeout, ServerFails, connection
<1>3. CASE TrySend \/ Drop \/ Disturb \/ Tick
  BY <1>3 DEF TrySend, Drop, Disturb, Tick, connection
<1>4. CASE UNCHANGED vars
  BY <1>4 DEF vars, connection
<1> QED BY <1>1, <1>2, <1>3, <1>4 DEF Next

LEMMA ClientHandshakesInTime ==
    ASSUME IInv, TimeInv, TimesFit, net = "up", ClientHandshakes
    PROVE  InTime'
<1>1. version["client"] \in Nat /\ password["client"] \in Nat
  BY DEF IInv, TypeInv, Side
<1>2. CASE client = "tls"
  BY <1>1, <1>2, ClientGreets DEF ClientHandshakes
<1>3. CASE client = "read_version"
  BY <1>3, ClientLearnsVersion DEF ClientHandshakes
<1>4. CASE client = "read_challenge"
  BY <1>1, <1>4, ClientAnswersChallenge DEF ClientHandshakes
<1>5. CASE client = "read_status"
  BY <1>5, ClientLearnsStatus DEF ClientHandshakes
<1> QED BY <1>2, <1>3, <1>4, <1>5 DEF ClientHandshakes

LEMMA ServerHandshakesInTime ==
    ASSUME IInv, TimeInv, TimesFit, net = "up", ServerHandshakes
    PROVE  InTime'
<1>1. CASE server = "tls"
  BY <1>1, ServerGreets DEF ServerHandshakes
<1>2. CASE server = "read_version"
  BY <1>2, ServerLearnsVersion DEF ServerHandshakes
<1>3. CASE server = "read_response"
  BY <1>3, ServerLearnsPassword DEF ServerHandshakes
<1> QED BY <1>1, <1>2, <1>3 DEF ServerHandshakes

LEMMA InTimeStep ==
    ASSUME IInv, TimeInv, TimesFit, [Next]_vars, net' = "up"
    PROVE  InTime'
<1>1. CASE Connect
  BY <1>1, ConnectInTime
<1>2. CASE ~Connect
  <2>1. net = "up"
    BY <1>2, NetStep
  <2>2. InTime
    BY <2>1 DEF TimeInv
  <2>3. CASE Wakes
    <3>1. /\ to_client' = to_client /\ to_server' = to_server
          /\ server' = "none" /\ client' = "connecting"
      BY <2>3 DEF Wakes, connection, server_vars
    <3>2. Ages(to_client') /\ Ages(to_server')
      BY <2>2, <3>1 DEF InTime
    <3>3. Gone'
      BY <3>1 DEF Gone, ClientConnected, ClientRuns, ClientHandshake
    <3> QED BY <3>2, <3>3 DEF InTime
  <2>4. CASE ClientHandshakes \/ ClientLoop \/ ClientFails
    BY <2>1, <2>4, ClientHandshakesInTime, ClientLoopInTime, ClientReadsEnd
  <2>5. CASE ServerHandshakes \/ ServerFails
    BY <2>1, <2>5, ServerHandshakesInTime, ServerLeavesInTime
  <2>6. CASE ReadPong \/ ReceivePong \/ TakeUpdate \/ TakePing \/ Written
    BY <2>1, <2>6, ReadPongInTime, ReceivePongInTime, TakeInTime, WrittenInTime
  <2>7. ~ClientTimeout /\ ~ServerTimeout
    BY <2>1, NobodyIsLate DEF ServerTimeout
  <2>8. CASE TrySend \/ Drop \/ UNCHANGED vars
    BY <2>2, <2>8, SameInTime DEF TrySend, Drop, vars, client_vars, server_vars, pong_vars,
       connection, config, ServerStays
  <2>9. CASE Tick
    BY <2>1, <2>9, TickInTime
  <2>10. ~ConnectFails /\ ~Disturb
    BY DEF ConnectFails, Disturb
  <2> QED BY <1>2, <2>3, <2>4, <2>5, <2>6, <2>7, <2>8, <2>9, <2>10
          DEF Next, ClientStep, ServerStep
<1> QED BY <1>1, <1>2

LEMMA TimeoutStep ==
    ASSUME IInv, TimeInv, TimesFit, [Next]_vars
    PROVE  NoSpuriousTimeout'
<1>1. CASE Connect
  BY <1>1 DEF Connect, NoSpuriousTimeout
<1>2. CASE ~Connect
  <2> SUFFICES ASSUME net' = "up" PROVE ~timed_out'
    BY DEF NoSpuriousTimeout
  <2>1. net = "up" /\ ~timed_out
    BY <1>2, NetStep DEF TimeInv, NoSpuriousTimeout
  <2>2. ~ClientTimeout /\ ~ServerTimeout
    BY <2>1, NobodyIsLate DEF ServerTimeout
  <2>3. timed_out' = timed_out
    <3>1. CASE ClientStep
      BY <1>2, <2>2, <3>1 DEF ClientStep, ConnectFails, Wakes, ClientHandshakes, ClientReads,
         ClientStops, ClientLoop, ClientFails
    <3>2. CASE ServerStep
      BY <2>2, <3>2 DEF ServerStep, ServerHandshakes, ServerReads, ServerRefuses, ReadPong,
         ReceivePong, TakeUpdate, TakePing, Written, ServerFails
    <3>3. CASE TrySend \/ Drop \/ Disturb \/ Tick
      BY <3>3 DEF TrySend, Drop, Disturb, Tick
    <3>4. CASE UNCHANGED vars
      BY <3>4 DEF vars
    <3> QED BY <3>1, <3>2, <3>3, <3>4 DEF Next
  <2> QED BY <2>1, <2>3
<1> QED BY <1>1, <1>2

LEMMA InitTime == Init => TimeInv
<1> SUFFICES ASSUME Init PROVE TimeInv
  OBVIOUS
<1>1. Timers
  BY SessionAssumption DEF Init, Timers
<1>2. NoSpuriousTimeout
  BY DEF Init, NoSpuriousTimeout
<1>3. Ages(to_client) /\ Ages(to_server) /\ Gone
  BY DEF Init, Ages, Gone, ClientConnected, ClientHandshake, ClientRuns
<1> QED BY <1>1, <1>2, <1>3 DEF TimeInv, InTime

(* If the times fit each other, no connection that works is given up for    *)
(* lack of time: neither the timers of the handshake nor those of writes,   *)
(* pongs and silence end on it, however messages and slow writes fall       *)
(* together (authenticate and client in server.rs, run_once in client.rs).  *)
THEOREM NobodyTimesOut ==
    ASSUME TimesFit
    PROVE  Spec => []NoSpuriousTimeout
<1>1. IInv /\ TimeInv /\ [Next]_vars => TimeInv'
  BY TimersStep, TimeoutStep, InTimeStep DEF TimeInv
<1>2. TimeInv => NoSpuriousTimeout
  BY DEF TimeInv
<1> QED BY <1>1, <1>2, InitTime, Safety, PTL DEF Spec
=============================================================================
