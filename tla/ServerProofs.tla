----------------------------- MODULE ServerProofs -----------------------------
(* Proofs about Server for all devices, clients, keys and bindings, and all *)
(* capacities of channels and queues.                                       *)
EXTENDS Server, FiniteSetTheorems, TLAPS

Writes == INSTANCE FoldProofs WITH op <- update_key_state
Copies == INSTANCE FoldProofs WITH op <- carried_out

-----------------------------------------------------------------------------
(* Types. *)

KeyEvent == [key : Key, down : BOOLEAN]

Update ==
    [kind : {"create", "destroy", "reset"}, device : Device]
    \cup [kind : {"events"}, device : Device, events : Seq(KeyEvent)]
    \cup [kind : {"keys"}, device : Device, keys : SUBSET Key]

Routing  == {u \in Update : u.kind \in {"events", "keys"}}
Command  == {u \in Update : u.kind \in {"events", "keys", "reset"}}
ToClient == {u \in Update : u.kind # "reset"}

HandlerSteps ==
    [op : {"send"}, route : Client, update : ToClient]
    \cup [op : {"local"}, route : {0}, update : Routing]
    \cup [op : {"sweep", "stabilize", "insert"}]
    \cup [op : {"remove"}, client : Client]
    \cup [op : {"add", "reset", "abort", "forget"}, device : Device]
    \cup [op : {"release"}, activation_id : 1 .. ACTIVATIONS]

Event ==
    [device : Device, activation_id : 0 .. ACTIVATIONS,
     result : {"sending", "lost", "failed"}]

Frame == [device : Device, events : 0 .. FRAME, pending : Seq(KeyEvent)]

TypeInv ==
    /\ current \in Client \cup {0}
    /\ physical_keys \in [Device -> SUBSET Key]
    /\ task \in [Device -> TaskState]
    /\ activation_id \in [Device -> 0 .. ACTIVATIONS]
    /\ commands \in [Device -> Seq(Command)]
    /\ local_keys \in [Device -> SUBSET Key]
    /\ events \in Seq(Event)
    /\ session \in [Client -> {"vacant", "open", "closed"}]
    /\ queue \in [Client -> Seq(ToClient)]
    /\ writers = [c \in Client |-> writers[c]]
    /\ \A c \in Client : DOMAIN writers[c] \subseteq Device
    /\ devices \in SUBSET Device
    /\ todo \in Seq((SUBSET HandlerSteps) \ {{}})
    /\ frame \in Frame \cup {NoFrame}
    /\ activations \in 0 .. ACTIVATIONS
    /\ released \in SUBSET (1 .. ACTIVATIONS)
    /\ running \in BOOLEAN

(* What the queues and channels hold at most, and what is left of the tasks *)
(* and clients that are gone.                                               *)
BoundInv ==
    /\ \A d \in Device : /\ Len(commands[d]) <= COMMANDS
                         /\ task[d] \in {"none", "ended"} => commands[d] = <<>>
    /\ \A c \in Client : /\ Len(queue[c]) <= QUEUE
                         /\ session[c] = "vacant" => queue[c] = <<>> /\ writers[c] = none
    /\ \A i \in DOMAIN events : i > EVENTS =>
          /\ task[events[i].device] \in {"sending", "lost", "failed"}
          /\ \A j \in DOMAIN events :
                j > EVENTS /\ events[j].device = events[i].device => j = i

-----------------------------------------------------------------------------
(* The order of steps.                                                      *)

Steps(t) == UNION {t[i] : i \in DOMAIN t}

Pending(s) == s \in Steps(todo)

\* Key events and key states for outputs; what creates or destroys copies is
\* told apart by its kind.
kind_of(s) ==
    IF s.op \in {"send", "local"}
    THEN IF s.update.kind \in {"events", "keys"} THEN "routing" ELSE s.update.kind
    ELSE s.op

device_of(s) == IF s.op \in {"send", "local"} THEN s.update.device ELSE s.device

\* Step t may be done some time after step s by the same handler.
Precedes(s, t) ==
    LET k == kind_of(s)
        l == kind_of(t)
    IN  \/ k \in {"sweep", "remove"} /\ l \in {"stabilize", "insert"}
        \/ k = "stabilize" /\ l \in {"insert", "release"}
        \/ k = "routing" /\ l \in {"routing", "stabilize", "insert", "release"}
        \/ k = "destroy" /\ l \in {"create", "reset", "abort", "forget"}
                         /\ device_of(t) = device_of(s)
        \/ k = "create" /\ l \in {"add", "reset"} /\ device_of(t) = device_of(s)
        \/ k = "create" /\ l = "stabilize"
        \/ k = "abort" /\ l = "forget" /\ device_of(t) = device_of(s)
        \/ k \in {"destroy", "abort", "forget"} /\ l \in {"stabilize", "release"}

\* The two are done in any order.
Alike(s, t) ==
    \/ s = t
    \/ kind_of(s) = kind_of(t) /\ kind_of(s) \in {"remove", "routing", "create"}
    \/ /\ kind_of(s) = "destroy" /\ kind_of(t) = "destroy"
       /\ device_of(s) = device_of(t)

Ordered(t) ==
    /\ \A i, j \in DOMAIN t : i < j => \A s \in t[i], u \in t[j] : Precedes(s, u)
    /\ \A i \in DOMAIN t : \A s, u \in t[i] : Alike(s, u)

OrderInv ==
    /\ Ordered(todo)
    /\ frame # NoFrame =>
          /\ frame.device \in devices
          /\ \A s \in Steps(todo) : kind_of(s) = "routing"

(* A handler that loses the current route or may lose a client stabilizes   *)
(* the routes afterwards.                                                   *)
RouteInv ==
    frame = NoFrame /\
       (current \notin available_routes
        \/ \E s \in Steps(todo) : s.op \in {"send", "sweep", "remove"})
    => \E s \in Steps(todo) : s.op \in {"stabilize", "add", "reset"}

-----------------------------------------------------------------------------
(* The devices a step is about, and their tasks.                            *)
DeviceInv ==
    /\ \A d \in Device :
          task[d] # "none" <=> d \in devices \/ Pending(about("abort", d))
    /\ \A s \in Steps(todo) :
          /\ kind_of(s) \in {"routing", "reset"} => device_of(s) \in devices
          /\ kind_of(s) \in {"add", "abort", "forget"} => device_of(s) \notin devices
          /\ kind_of(s) = "create" =>
                device_of(s) \in devices \/ Pending(about("add", device_of(s)))
          /\ kind_of(s) = "destroy" /\ device_of(s) \in devices =>
                Pending(send(s.route, CreateDevice(device_of(s))))

(* Each activation has one task.  That of a device to be added is new, and  *)
(* that of a release to come is none or will be aborted before.             *)
ActivationInv ==
    /\ \A d \in Device : task[d] # "none" => activation_id[d] \in 1 .. activations
    /\ \A d, e \in Device :
          task[d] # "none" /\ task[e] # "none" /\ activation_id[d] = activation_id[e] => d = e
    /\ \A i \in DOMAIN events : events[i].activation_id <= activations
    /\ \A s \in Steps(todo) :
          /\ s.op = "add" =>
                /\ activations > 0
                /\ \A d \in Device : task[d] # "none" => activation_id[d] # activations
                /\ \A i \in DOMAIN events : events[i].activation_id # activations
          /\ s.op = "release" => \A d \in Device :
                task[d] # "none" /\ activation_id[d] = s.activation_id =>
                   Pending(about("abort", d))

(* The loss of input of a device's current activation: its report is on its *)
(* way, or the Reset is to be sent, or it is in the channel.                *)
lost_at(d, i) ==
    /\ events[i].device = d /\ events[i].activation_id = activation_id[d]
    /\ events[i].result = "lost"

LossReported(d)  == \E i \in DOMAIN events : lost_at(d, i)
ResetCommanded(d) == \E i \in DOMAIN commands[d] : commands[d][i].kind = "reset"

Losing == {"lost", "resetting", "failed", "ended"}

LossInv ==
    /\ ResetAnswersLoss
    /\ \A d \in devices :
          /\ LossReported(d) =>
                /\ task[d] \in Losing
                /\ ~ResetCommanded(d)
                /\ ~Pending(about("reset", d))
                /\ \A i, j \in DOMAIN events : lost_at(d, i) /\ lost_at(d, j) => i = j
          /\ Pending(about("reset", d)) => task[d] \in Losing /\ ~ResetCommanded(d)

-----------------------------------------------------------------------------
(* What a client will have been told when its queue is empty.               *)
carry(copies, q) == FoldLeft(carried_out, copies, q)

told(c) == DOMAIN carry(writers[c], queue[c])

\* The client refuses nothing in its queue.
Acceptable(copies, q) ==
    \A i \in DOMAIN q : accepts(carry(copies, SubSeq(q, 1, i - 1)), q[i])

KnownInv ==
    \A c \in Client : session[c] # "vacant" =>
        /\ Acceptable(writers[c], queue[c])
        /\ \A d \in Device :
              LET destroyed == Pending(send(c, DestroyDevice(d)))
                  created   == Pending(send(c, CreateDevice(d)))
              IN  /\ destroyed => d \in told(c)
                  /\ created /\ ~destroyed => d \notin told(c)
                  /\ ~created /\ ~destroyed =>
                        (d \in told(c) <=> d \in devices \/ Pending(about("add", d)))

IInv ==
    /\ TypeInv /\ BoundInv /\ OrderInv /\ RouteInv
    /\ DeviceInv /\ ActivationInv /\ LossInv /\ KnownInv

-----------------------------------------------------------------------------
(* Sequences of batches.                                                    *)

Batches == Seq((SUBSET HandlerSteps) \ {{}})

LEMMA StepsOfBatch ==
    ASSUME NEW X \in SUBSET HandlerSteps
    PROVE  /\ batch(X) \in Batches
           /\ Steps(batch(X)) = X
           /\ (\A s, t \in X : Alike(s, t)) => Ordered(batch(X))
           /\ X # {} => batch(X) = <<X>>
<1>1. CASE X = {}
  BY <1>1 DEF batch, Batches, Steps, Ordered
<1>2. CASE X # {}
  <2>1. batch(X) = <<X>> /\ <<X>> \in Batches
    BY <1>2 DEF batch, Batches
  <2>2. DOMAIN <<X>> = {1} /\ <<X>>[1] = X
    OBVIOUS
  <2> HIDE DEF Batches
  <2>3. Steps(<<X>>) = X
    BY <2>2 DEF Steps
  <2>4. (\A s, t \in X : Alike(s, t)) => Ordered(<<X>>)
    BY <2>2 DEF Ordered
  <2> QED BY <2>1, <2>3, <2>4
<1> QED BY <1>1, <1>2

LEMMA StepsOfConcat ==
    ASSUME NEW t \in Batches, NEW u \in Batches
    PROVE  /\ t \o u \in Batches
           /\ Steps(t \o u) = Steps(t) \cup Steps(u)
<1>1. t \o u \in Batches
  BY DEF Batches
<1>2. ASSUME NEW s \in Steps(t \o u) PROVE s \in Steps(t) \cup Steps(u)
  <2>1. PICK i \in DOMAIN (t \o u) : s \in (t \o u)[i]
    BY DEF Steps
  <2>2. CASE i <= Len(t)
    BY <2>1, <2>2 DEF Steps, Batches
  <2>3. CASE i > Len(t)
    <3>1. i - Len(t) \in DOMAIN u /\ (t \o u)[i] = u[i - Len(t)]
      BY <2>3 DEF Batches
    <3> QED BY <2>1, <3>1 DEF Steps
  <2> QED BY <2>2, <2>3 DEF Batches
<1>3. ASSUME NEW s \in Steps(t) PROVE s \in Steps(t \o u)
  <2>1. PICK i \in DOMAIN t : s \in t[i]
    BY DEF Steps
  <2>2. i \in DOMAIN (t \o u) /\ (t \o u)[i] = t[i]
    BY DEF Batches
  <2> QED BY <2>1, <2>2 DEF Steps
<1>4. ASSUME NEW s \in Steps(u) PROVE s \in Steps(t \o u)
  <2>1. PICK i \in DOMAIN u : s \in u[i]
    BY DEF Steps
  <2>2. i + Len(t) \in DOMAIN (t \o u) /\ (t \o u)[i + Len(t)] = u[i]
    BY DEF Batches
  <2> QED BY <2>1, <2>2 DEF Steps
<1> QED BY <1>1, <1>2, <1>3, <1>4

LEMMA OrderOfConcat ==
    ASSUME NEW t \in Batches, NEW u \in Batches, Ordered(t), Ordered(u),
           \A s \in Steps(t), v \in Steps(u) : Precedes(s, v)
    PROVE  Ordered(t \o u)
<1>1. /\ DOMAIN (t \o u) = 1 .. Len(t) + Len(u)
      /\ DOMAIN t = 1 .. Len(t) /\ DOMAIN u = 1 .. Len(u)
      /\ Len(t) \in Nat /\ Len(u) \in Nat
  BY DEF Batches
<1>2. ASSUME NEW i \in DOMAIN (t \o u)
      PROVE  \/ i \in DOMAIN t /\ (t \o u)[i] = t[i]
             \/ i > Len(t) /\ i - Len(t) \in DOMAIN u /\ (t \o u)[i] = u[i - Len(t)]
  BY <1>1 DEF Batches
<1>3. ASSUME NEW i \in DOMAIN (t \o u), NEW j \in DOMAIN (t \o u), i < j,
             NEW s \in (t \o u)[i], NEW v \in (t \o u)[j]
      PROVE  Precedes(s, v)
  <2>1. CASE j \in DOMAIN t /\ (t \o u)[j] = t[j]
    BY <1>1, <1>2, <1>3, <2>1 DEF Ordered
  <2>2. CASE /\ i > Len(t) /\ i - Len(t) \in DOMAIN u /\ (t \o u)[i] = u[i - Len(t)]
             /\ j > Len(t) /\ j - Len(t) \in DOMAIN u /\ (t \o u)[j] = u[j - Len(t)]
    <3>1. i - Len(t) < j - Len(t)
      BY <1>1, <1>3
    <3> QED BY <1>3, <2>2, <3>1 DEF Ordered
  <2>3. CASE /\ i \in DOMAIN t /\ (t \o u)[i] = t[i]
             /\ j > Len(t) /\ j - Len(t) \in DOMAIN u /\ (t \o u)[j] = u[j - Len(t)]
    <3>1. s \in Steps(t) /\ v \in Steps(u)
      BY <2>3 DEF Steps
    <3> QED BY <3>1
  <2> QED BY <1>2, <2>1, <2>2, <2>3
<1>4. ASSUME NEW i \in DOMAIN (t \o u), NEW s \in (t \o u)[i], NEW v \in (t \o u)[i]
      PROVE  Alike(s, v)
  BY <1>2, <1>4 DEF Ordered
<1> QED BY <1>3, <1>4 DEF Ordered

(* What is left when a step of the first batch is done.                     *)
Popped(t, s, rest) ==
    /\ t # <<>> /\ s \in Head(t)
    /\ rest = batch(Head(t) \ {s}) \o Tail(t)

LEMMA StepsOfRest ==
    ASSUME NEW t \in Batches, Ordered(t), NEW s, NEW rest, Popped(t, s, rest)
    PROVE  /\ rest \in Batches
           /\ Steps(t) = Steps(rest) \cup {s}
           /\ Ordered(rest)
           /\ \A u \in Steps(rest) : Precedes(s, u) \/ Alike(s, u)
           /\ s \in Steps(rest) => Precedes(s, s)
<1>1. /\ Tail(t) \in Batches /\ Head(t) \in SUBSET HandlerSteps
      /\ 1 \in DOMAIN t /\ Head(t) = t[1]
      /\ \A i \in DOMAIN Tail(t) : i + 1 \in DOMAIN t /\ Tail(t)[i] = t[i + 1]
      /\ \A i \in DOMAIN t : i = 1 \/ (i - 1 \in DOMAIN Tail(t) /\ t[i] = Tail(t)[i - 1])
  BY DEF Batches, Popped
<1>2. Steps(t) = Head(t) \cup Steps(Tail(t))
  <2>1. ASSUME NEW v \in Steps(t) PROVE v \in Head(t) \cup Steps(Tail(t))
    <3>1. PICK i \in DOMAIN t : v \in t[i]
      BY DEF Steps
    <3> QED BY <1>1, <3>1 DEF Steps
  <2>2. ASSUME NEW v \in Steps(Tail(t)) PROVE v \in Steps(t)
    <3>1. PICK i \in DOMAIN Tail(t) : v \in Tail(t)[i]
      BY DEF Steps
    <3> QED BY <1>1, <3>1 DEF Steps
  <2>3. Head(t) \subseteq Steps(t)
    BY <1>1 DEF Steps
  <2> QED BY <2>1, <2>2, <2>3
<1>3. \A v \in Head(t), u \in Steps(Tail(t)) : Precedes(v, u)
  <2> SUFFICES ASSUME NEW v \in Head(t), NEW u \in Steps(Tail(t)) PROVE Precedes(v, u)
    OBVIOUS
  <2>1. PICK i \in DOMAIN Tail(t) : u \in Tail(t)[i]
    BY DEF Steps
  <2>2. i + 1 \in DOMAIN t /\ u \in t[i + 1] /\ 1 < i + 1
    BY <1>1, <2>1 DEF Batches
  <2> QED BY <1>1, <2>2 DEF Ordered
<1>4. Ordered(Tail(t))
  <2>1. ASSUME NEW i \in DOMAIN Tail(t), NEW j \in DOMAIN Tail(t), i < j
        PROVE  i + 1 < j + 1
    BY <2>1 DEF Batches
  <2> QED BY <1>1, <2>1 DEF Ordered
<1>5. \A v, u \in Head(t) : Alike(v, u)
  BY <1>1 DEF Ordered
<1> DEFINE B == batch(Head(t) \ {s})
<1>6. B \in Batches /\ Steps(B) = Head(t) \ {s} /\ Ordered(B)
  BY <1>1, <1>5, StepsOfBatch, Head(t) \ {s} \in SUBSET HandlerSteps
<1>7. rest \in Batches /\ Steps(rest) = Steps(B) \cup Steps(Tail(t))
  BY <1>1, <1>6, StepsOfConcat DEF Popped
<1>8. Ordered(rest)
  BY <1>1, <1>3, <1>4, <1>6, OrderOfConcat DEF Popped
<1> QED BY <1>2, <1>3, <1>5, <1>6, <1>7, <1>8 DEF Popped

(* Two steps that are pending come one after the other, or are alike.       *)
LEMMA Comparable ==
    ASSUME NEW t \in Batches, Ordered(t), NEW s \in Steps(t), NEW u \in Steps(t)
    PROVE  Alike(s, u) \/ Precedes(s, u) \/ Precedes(u, s)
<1>1. PICK i \in DOMAIN t : s \in t[i]
  BY DEF Steps
<1>2. PICK j \in DOMAIN t : u \in t[j]
  BY DEF Steps
<1>3. i = j \/ i < j \/ j < i
  BY DEF Batches
<1> QED BY <1>1, <1>2, <1>3 DEF Ordered

-----------------------------------------------------------------------------
(* Folding updates.                                                         *)

LEMMA WriteFrame ==
    ASSUME NEW pressed, NEW evs
    PROVE  FoldLeft(update_key_state, pressed, evs) = Writes!Fold(pressed, evs)
BY DEF Writes!Fold, Writes!FoldLeft, FoldLeft, Writes!MapThenFoldSet, MapThenFoldSet,
       Writes!Max, Max

LEMMA CarryOut ==
    ASSUME NEW copies, NEW q
    PROVE  carry(copies, q) = Copies!Fold(copies, q)
BY DEF carry, Copies!Fold, Copies!FoldLeft, FoldLeft, Copies!MapThenFoldSet, MapThenFoldSet,
       Copies!Max, Max

(* A writer holds keys, whatever it is told.                                *)
LEMMA WrittenKeys ==
    ASSUME NEW pressed \in SUBSET Key, NEW u \in Command
    PROVE  written(pressed, u) \in SUBSET Key
<1>1. CASE u.kind = "events"
  <2>1. u.events \in Seq(KeyEvent)
    BY <1>1 DEF Command, Update
  <2> DEFINE evs == u.events
             A == {n \in Nat : n <= Len(evs) =>
                      Writes!Fold(pressed, SubSeq(evs, 1, n)) \in SUBSET Key}
  <2>2. 0 \in A
    BY <2>1, Writes!FoldEmpty, SubSeq(evs, 1, 0) = <<>>
  <2>3. ASSUME NEW n \in A PROVE n + 1 \in A
    <3>1. SUFFICES ASSUME n + 1 <= Len(evs)
                   PROVE  Writes!Fold(pressed, SubSeq(evs, 1, n + 1)) \in SUBSET Key
      OBVIOUS
    <3>2. /\ SubSeq(evs, 1, n) \in Seq(KeyEvent) /\ evs[n + 1] \in KeyEvent
          /\ SubSeq(evs, 1, n + 1) = Append(SubSeq(evs, 1, n), evs[n + 1])
      BY <2>1, <3>1
    <3> DEFINE first == SubSeq(evs, 1, n)
               e == evs[n + 1]
    <3>5. first \in Seq(KeyEvent) /\ e \in KeyEvent
      BY <3>2
    <3> HIDE DEF first, e, evs
    <3>3. Writes!Fold(pressed, Append(first, e))
            = update_key_state(Writes!Fold(pressed, first), e)
      BY <3>5, Writes!FoldAppend, Zenon
    <3>4. Writes!Fold(pressed, SubSeq(evs, 1, n)) \in SUBSET Key
      BY <3>1
    <3> QED BY <3>2, <3>3, <3>4 DEF update_key_state, KeyEvent, first, e
  <2> HIDE DEF A
  <2>4. A = Nat
    BY <2>2, <2>3, Writes!Inductive, A \subseteq Nat DEF A
  <2>5. Len(evs) \in A
    BY <2>1, <2>4
  <2>6. Writes!Fold(pressed, SubSeq(evs, 1, Len(evs))) \in SUBSET Key
    BY <2>1, <2>5 DEF A
  <2>7. SubSeq(evs, 1, Len(evs)) = evs
    BY <2>1
  <2> QED BY <1>1, <2>6, <2>7, WriteFrame DEF written, keys_after
<1>2. CASE u.kind # "events"
  BY <1>2 DEF written, Command, Update
<1> QED BY <1>1, <1>2

(* What a client has copies of after an update, and after a queue of them.  *)
known_after(known, u) ==
    CASE u.kind = "create"  -> known \cup {u.device}
      [] u.kind = "destroy" -> known \ {u.device}
      [] OTHER              -> known

LEMMA KnownAfter ==
    ASSUME NEW copies, NEW u
    PROVE  DOMAIN carried_out(copies, u) = known_after(DOMAIN copies, u)
BY DEF carried_out, known_after, Restrict

LEMMA ToldAppend ==
    ASSUME NEW copies, NEW q \in Seq(ToClient), NEW u \in ToClient
    PROVE  DOMAIN carry(copies, Append(q, u))
             = known_after(DOMAIN carry(copies, q), u)
<1>1. Copies!Fold(copies, Append(q, u)) = carried_out(Copies!Fold(copies, q), u)
  BY Copies!FoldAppend
<1>2. /\ carry(copies, Append(q, u)) = Copies!Fold(copies, Append(q, u))
      /\ carry(copies, q) = Copies!Fold(copies, q)
  BY CarryOut
<1>3. DOMAIN carried_out(Copies!Fold(copies, q), u)
        = known_after(DOMAIN Copies!Fold(copies, q), u)
  BY KnownAfter
<1> QED BY <1>1, <1>2, <1>3

LEMMA ToldTail ==
    ASSUME NEW copies, NEW q \in Seq(ToClient), q # <<>>
    PROVE  carry(copies, q)
             = carry(carried_out(copies, Head(q)), Tail(q))
<1>1. Copies!Fold(copies, q) = Copies!Fold(carried_out(copies, Head(q)), Tail(q))
  BY Copies!FoldHead
<1> QED BY <1>1, CarryOut

LEMMA ToldEmpty ==
    ASSUME NEW copies
    PROVE  carry(copies, <<>>) = copies
BY Copies!FoldEmpty, CarryOut

LEMMA AcceptableAppend ==
    ASSUME NEW copies, NEW q \in Seq(ToClient), NEW u \in ToClient, Acceptable(copies, q),
           accepts(carry(copies, q), u)
    PROVE  Acceptable(copies, Append(q, u))
<1> DEFINE longer == Append(q, u)
<1>1. /\ DOMAIN longer = 1 .. Len(q) + 1 /\ Len(q) \in Nat
      /\ \A i \in 1 .. Len(q) : longer[i] = q[i] /\ i \in DOMAIN q
      /\ longer[Len(q) + 1] = u
  OBVIOUS
<1>2. \A i \in 1 .. Len(q) + 1 : SubSeq(longer, 1, i - 1) = SubSeq(q, 1, i - 1)
  OBVIOUS
<1>3. SubSeq(q, 1, (Len(q) + 1) - 1) = q
  OBVIOUS
<1> HIDE DEF longer
<1>4. ASSUME NEW i \in DOMAIN longer
      PROVE  accepts(carry(copies, SubSeq(longer, 1, i - 1)), longer[i])
  <2>1. CASE i \in 1 .. Len(q)
    BY <1>1, <1>2, <2>1 DEF Acceptable
  <2>2. CASE i = Len(q) + 1
    BY <1>1, <1>2, <1>3, <2>2
  <2> QED BY <1>1, <2>1, <2>2
<1> QED BY <1>4 DEF Acceptable, longer

LEMMA AcceptableTail ==
    ASSUME NEW copies, NEW q \in Seq(ToClient), q # <<>>, Acceptable(copies, q)
    PROVE  /\ accepts(copies, Head(q))
           /\ Acceptable(carried_out(copies, Head(q)), Tail(q))
<1>1. accepts(copies, Head(q))
  <2>1. 1 \in DOMAIN q /\ SubSeq(q, 1, 1 - 1) = <<>> /\ q[1] = Head(q)
    OBVIOUS
  <2> QED BY <2>1, ToldEmpty DEF Acceptable
<1>2. ASSUME NEW i \in DOMAIN Tail(q)
      PROVE  accepts(carry(carried_out(copies, Head(q)), SubSeq(Tail(q), 1, i - 1)), Tail(q)[i])
  <2>1. /\ i \in 1 .. Len(q) - 1 /\ i + 1 \in DOMAIN q /\ Tail(q)[i] = q[i + 1]
        /\ (i + 1) - 1 = i
    OBVIOUS
  <2>2. /\ SubSeq(q, 1, i) \in Seq(ToClient) /\ SubSeq(q, 1, i) # <<>>
        /\ Head(SubSeq(q, 1, i)) = Head(q)
        /\ Tail(SubSeq(q, 1, i)) = SubSeq(Tail(q), 1, i - 1)
    BY <2>1
  <2>3. carry(copies, SubSeq(q, 1, i))
          = carry(carried_out(copies, Head(q)), SubSeq(Tail(q), 1, i - 1))
    BY <2>2, ToldTail
  <2>4. accepts(carry(copies, SubSeq(q, 1, i)), q[i + 1])
    BY <2>1 DEF Acceptable
  <2> QED BY <2>1, <2>3, <2>4
<1> QED BY <1>1, <1>2 DEF Acceptable

-----------------------------------------------------------------------------
(* The kinds of steps.                                                      *)

removal(c)   == [op |-> "remove", client |-> c]
release_of(i) == [op |-> "release", activation_id |-> i]

LEMMA Kinds ==
    /\ \A c, d : /\ kind_of(send(c, CreateDevice(d))) = "create"
                 /\ device_of(send(c, CreateDevice(d))) = d
                 /\ kind_of(send(c, DestroyDevice(d))) = "destroy"
                 /\ device_of(send(c, DestroyDevice(d))) = d
    /\ \A r, u : u.kind \in {"events", "keys"} =>
                    /\ kind_of(emit(r, u)) = "routing"
                    /\ device_of(emit(r, u)) = u.device
    /\ \A op \in {"sweep", "stabilize", "insert"} : kind_of(step(op)) = op
    /\ \A d : \A op \in {"add", "reset", "abort", "forget"} :
          kind_of(about(op, d)) = op /\ device_of(about(op, d)) = d
    /\ \A c : kind_of(removal(c)) = "remove"
    /\ \A i : kind_of(release_of(i)) = "release"
BY DEF kind_of, device_of, send, local, emit, step, about, CreateDevice, DestroyDevice,
       removal, release_of

LEMMA StepKinds ==
    ASSUME NEW s \in HandlerSteps
    PROVE  /\ kind_of(s) \in {"routing", "create", "destroy", "sweep", "stabilize", "insert",
                              "remove", "add", "reset", "abort", "forget", "release"}
           /\ kind_of(s) \notin {"routing", "create", "destroy"} => kind_of(s) = s.op
           /\ kind_of(s) \in {"create", "destroy"} => s.op = "send"
           /\ kind_of(s) = "routing" => s.op \in {"send", "local"}
           /\ kind_of(s) = "create" =>
                 s.route \in Client /\ s = send(s.route, CreateDevice(device_of(s)))
           /\ kind_of(s) = "destroy" =>
                 s.route \in Client /\ s = send(s.route, DestroyDevice(device_of(s)))
           /\ kind_of(s) \in {"routing", "create", "destroy", "add", "reset", "abort", "forget"}
                 => device_of(s) \in Device
           /\ s.op \in {"sweep", "stabilize", "insert"} => s = step(s.op)
           /\ s.op \in {"add", "reset", "abort", "forget"} => s = about(s.op, s.device)
           /\ s.op \in {"add", "reset", "abort", "forget"} =>
                 device_of(s) = s.device /\ s.device \in Device
           /\ s.op = "remove" => s.client \in Client
           /\ s.op = "release" => s.activation_id \in 1 .. ACTIVATIONS
           /\ s.op = "send" => s.route \in Client /\ s.update \in ToClient
           /\ s.op = "local" => s.update \in Routing /\ kind_of(s) = "routing"
<1>1. CASE s \in [op : {"send"}, route : Client, update : ToClient]
  <2>1. s = [op |-> "send", route |-> s.route, update |-> s.update]
    BY <1>1
  <2>2. s.op = "send" /\ s.route \in Client /\ s.update \in ToClient
    BY <1>1
  <2>3. s.update.kind \in {"create", "destroy", "events", "keys"} /\ s.update.device \in Device
    BY <2>2 DEF ToClient, Update
  <2>4. s.update.kind \in {"create", "destroy"} =>
           s.update = [kind |-> s.update.kind, device |-> s.update.device]
    BY <2>2 DEF ToClient, Update
  <2> QED BY <2>1, <2>2, <2>3, <2>4 DEF kind_of, device_of, send, CreateDevice, DestroyDevice
<1>2. CASE s \in [op : {"local"}, route : {0}, update : Routing]
  <2>1. s.op = "local" /\ s.update \in Routing
    BY <1>2
  <2>2. s.update.kind \in {"events", "keys"} /\ s.update.device \in Device
    BY <2>1 DEF Routing, Update
  <2> QED BY <2>1, <2>2 DEF kind_of, device_of
<1>3. CASE s \in [op : {"sweep", "stabilize", "insert"}]
  BY <1>3 DEF kind_of, step
<1>4. CASE s \in [op : {"remove"}, client : Client]
  BY <1>4 DEF kind_of
<1>5. CASE s \in [op : {"add", "reset", "abort", "forget"}, device : Device]
  BY <1>5 DEF kind_of, device_of, about
<1>6. CASE s \in [op : {"release"}, activation_id : 1 .. ACTIVATIONS]
  BY <1>6 DEF kind_of
<1> QED BY <1>1, <1>2, <1>3, <1>4, <1>5, <1>6 DEF HandlerSteps

LEMMA Typed ==
    /\ \A c \in Client, d \in Device :
          /\ send(c, CreateDevice(d)) \in HandlerSteps
          /\ send(c, DestroyDevice(d)) \in HandlerSteps
    /\ \A r \in Client \cup {0}, u \in Routing : emit(r, u) \in HandlerSteps
    /\ \A op \in {"sweep", "stabilize", "insert"} : step(op) \in HandlerSteps
    /\ \A op \in {"add", "reset", "abort", "forget"}, d \in Device :
          about(op, d) \in HandlerSteps
    /\ \A c \in Client : removal(c) \in HandlerSteps
    /\ \A i \in 1 .. ACTIVATIONS : release_of(i) \in HandlerSteps
    /\ \A d \in Device, keys \in SUBSET Key : SetKeyState(d, keys) \in Routing
    /\ \A d \in Device, evs \in Seq(KeyEvent) : Events(d, evs) \in Routing
    /\ Routing \subseteq ToClient
<1>1. \A c \in Client, d \in Device :
          /\ send(c, CreateDevice(d)) \in HandlerSteps
          /\ send(c, DestroyDevice(d)) \in HandlerSteps
  BY DEF send, CreateDevice, DestroyDevice, HandlerSteps, ToClient, Update
<1>2. Routing \subseteq ToClient
  BY DEF Routing, ToClient
<1>3. \A r \in Client \cup {0}, u \in Routing : emit(r, u) \in HandlerSteps
  BY <1>2 DEF emit, send, local, HandlerSteps
<1>4. \A d \in Device, keys \in SUBSET Key : SetKeyState(d, keys) \in Routing
  BY DEF SetKeyState, Routing, Update
<1>5. \A d \in Device, evs \in Seq(KeyEvent) : Events(d, evs) \in Routing
  BY DEF Events, Routing, Update
<1>6. /\ \A op \in {"sweep", "stabilize", "insert"} : step(op) \in HandlerSteps
      /\ \A op \in {"add", "reset", "abort", "forget"}, d \in Device :
            about(op, d) \in HandlerSteps
      /\ \A c \in Client : removal(c) \in HandlerSteps
      /\ \A i \in 1 .. ACTIVATIONS : release_of(i) \in HandlerSteps
  BY DEF step, about, removal, release_of, HandlerSteps
<1> QED BY <1>1, <1>2, <1>3, <1>4, <1>5, <1>6

(* What may be left when a step is done.                                    *)
LEMMA AfterStep ==
    ASSUME TypeInv, OrderInv, NEW s, NEW rest, Popped(todo, s, rest)
    PROVE  /\ s \in HandlerSteps /\ rest \in Batches /\ Ordered(rest)
           /\ Steps(todo) = Steps(rest) \cup {s}
           /\ \A t \in Steps(rest) : t \in HandlerSteps
           /\ kind_of(s) = "sweep" =>
                 \A t \in Steps(rest) : kind_of(t) \in {"stabilize", "insert"}
           /\ kind_of(s) = "remove" =>
                 \A t \in Steps(rest) : kind_of(t) \in {"remove", "stabilize", "insert"}
           /\ kind_of(s) = "stabilize" =>
                 \A t \in Steps(rest) : kind_of(t) \in {"insert", "release"}
           /\ kind_of(s) \in {"insert", "add", "reset", "release"} => Steps(rest) = {}
           /\ kind_of(s) = "routing" => \A t \in Steps(rest) :
                 kind_of(t) \in {"routing", "stabilize", "insert", "release"}
           /\ kind_of(s) = "create" => \A t \in Steps(rest) : t # s /\
                 \/ kind_of(t) \in {"create", "stabilize"}
                 \/ kind_of(t) \in {"add", "reset"} /\ device_of(t) = device_of(s)
           /\ kind_of(s) = "destroy" => \A t \in Steps(rest) : t # s /\
                 \/ kind_of(t) \in {"stabilize", "release"}
                 \/ kind_of(t) \in {"destroy", "create", "reset", "abort", "forget"}
                       /\ device_of(t) = device_of(s)
           /\ kind_of(s) = "abort" => \A t \in Steps(rest) :
                 \/ kind_of(t) \in {"stabilize", "release"}
                 \/ kind_of(t) = "forget" /\ device_of(t) = device_of(s)
           /\ kind_of(s) = "forget" =>
                 \A t \in Steps(rest) : kind_of(t) \in {"stabilize", "release"}
<1>1. todo \in Batches /\ todo # <<>> /\ Ordered(todo)
  BY DEF TypeInv, OrderInv, Popped, Batches
<1>2. s \in HandlerSteps
  BY <1>1 DEF Popped, Batches
<1>3. /\ rest \in Batches
      /\ Steps(todo) = Steps(rest) \cup {s}
      /\ Ordered(rest)
      /\ \A u \in Steps(rest) : Precedes(s, u) \/ Alike(s, u)
      /\ s \in Steps(rest) => Precedes(s, s)
  BY <1>1, StepsOfRest
<1>4. \A t \in Steps(rest) : t \in HandlerSteps
  BY <1>3 DEF Steps, Batches
<1>5. \A t \in Steps(rest) : Precedes(s, t) \/ (Alike(s, t) /\ t # s)
  BY <1>3
<1> HIDE DEF HandlerSteps, Batches
<1> QED BY <1>2, <1>3, <1>4, <1>5 DEF Precedes, Alike

-----------------------------------------------------------------------------
(* What handlers add to todo.                                               *)

(* The steps X, in an order they may have.                                  *)
Does(t, X) == t \in Batches /\ Ordered(t) /\ Steps(t) = X

LEMMA DoesBoth ==
    ASSUME NEW t, NEW X, Does(t, X), NEW u, NEW Y, Does(u, Y),
           \A s \in X, v \in Y : Precedes(s, v)
    PROVE  Does(t \o u, X \cup Y)
BY StepsOfConcat, OrderOfConcat DEF Does

LEMMA DoesBatch ==
    ASSUME NEW X \in SUBSET HandlerSteps, \A s, t \in X : Alike(s, t)
    PROVE  Does(batch(X), X)
BY StepsOfBatch DEF Does

LEMMA SingleStep ==
    ASSUME NEW s \in HandlerSteps
    PROVE  Does(<<{s}>>, {s})
<1>1. batch({s}) = <<{s}>>
  BY DEF batch
<1>2. \A u, t \in {s} : Alike(u, t)
  BY DEF Alike
<1> QED BY <1>1, <1>2, DoesBatch, {s} \in SUBSET HandlerSteps

LEMMA StabilizeStep ==
    Does(stabilize, {step("stabilize")}) /\ kind_of(step("stabilize")) = "stabilize"
BY SingleStep, Typed, Kinds DEF stabilize

(* Routing actions for devices in D.                                        *)
RoutingTo(t, D) ==
    /\ t \in Batches /\ Ordered(t)
    /\ \A s \in Steps(t) : kind_of(s) = "routing" /\ device_of(s) \in D

LEMMA RoutingBatch ==
    ASSUME NEW D, NEW X \in SUBSET HandlerSteps,
           \A s \in X : kind_of(s) = "routing" /\ device_of(s) \in D
    PROVE  RoutingTo(batch(X), D)
<1>1. \A s, t \in X : Alike(s, t)
  BY DEF Alike
<1> QED BY <1>1, StepsOfBatch DEF RoutingTo

LEMMA RoutingConcat ==
    ASSUME NEW D, NEW t, NEW u, RoutingTo(t, D), RoutingTo(u, D)
    PROVE  RoutingTo(t \o u, D)
<1>1. /\ t \in Batches /\ u \in Batches /\ Ordered(t) /\ Ordered(u)
      /\ \A s \in Steps(t), v \in Steps(u) : Precedes(s, v)
  BY DEF RoutingTo, Precedes
<1>2. Ordered(t \o u)
  BY <1>1, OrderOfConcat
<1>3. t \o u \in Batches /\ Steps(t \o u) = Steps(t) \cup Steps(u)
  BY <1>1, StepsOfConcat
<1> QED BY <1>2, <1>3 DEF RoutingTo

LEMMA RoutesType ==
    ASSUME TypeInv
    PROVE  /\ available_routes \subseteq Client \cup {0}
           /\ Clients \subseteq Client
           /\ \A c \in Client : c \in Clients <=> session[c] # "vacant"
           /\ \A c \in Client : c \in available_routes <=> session[c] # "vacant"
BY ClientAssumption DEF TypeInv, available_routes, Clients

LEMMA RoutingStep ==
    ASSUME NEW r \in Client \cup {0}, NEW u \in Routing
    PROVE  /\ emit(r, u) \in HandlerSteps
           /\ kind_of(emit(r, u)) = "routing" /\ device_of(emit(r, u)) = u.device
BY Typed, Kinds DEF Routing

LEMMA HandoffSteps ==
    ASSUME TypeInv
    PROVE  RoutingTo(handoff_actions, devices)
<1> DEFINE X == {emit(r, SetKeyState(d, {})) : r \in available_routes \ {current'}, d \in devices}
           Y == {emit(r, SetKeyState(d, handoff_keys(d)')) :
                    r \in available_routes \cap {current'}, d \in devices}
<1>1. devices \subseteq Device
  BY DEF TypeInv
<1>2. \A d : handoff_keys(d)' \in SUBSET Key
  BY InputAssumption DEF handoff_keys
<1>3. \A d \in Device : SetKeyState(d, {}) \in Routing /\ SetKeyState(d, handoff_keys(d)') \in Routing
  BY <1>2, Typed
<1>4. \A d, keys : SetKeyState(d, keys).kind = "keys" /\ SetKeyState(d, keys).device = d
  BY DEF SetKeyState
<1>5. ASSUME NEW s \in X PROVE s \in HandlerSteps /\ kind_of(s) = "routing" /\ device_of(s) \in devices
  <2>1. PICK r \in available_routes \ {current'}, d \in devices : s = emit(r, SetKeyState(d, {}))
    BY <1>5
  <2> QED BY <1>1, <1>3, <1>4, <2>1, RoutesType, Typed, Kinds
<1>6. ASSUME NEW s \in Y PROVE s \in HandlerSteps /\ kind_of(s) = "routing" /\ device_of(s) \in devices
  <2>1. PICK r \in available_routes \cap {current'}, d \in devices :
             s = emit(r, SetKeyState(d, handoff_keys(d)'))
    BY <1>6
  <2> QED BY <1>1, <1>3, <1>4, <2>1, RoutesType, Typed, Kinds
<1>7. handoff_actions = batch(X) \o batch(Y)
  BY DEF handoff_actions
<1> HIDE DEF X, Y
<1>8. RoutingTo(batch(X), devices) /\ RoutingTo(batch(Y), devices)
  BY <1>5, <1>6, RoutingBatch, X \in SUBSET HandlerSteps, Y \in SUBSET HandlerSteps
<1> QED BY <1>7, <1>8, RoutingConcat

LEMMA RecoverySteps ==
    ASSUME TypeInv, NEW d \in Device, recovery_keys(d)' \in SUBSET Key
    PROVE  RoutingTo(recovery_actions(d), {d})
<1> DEFINE keys(r) == IF r = current THEN recovery_keys(d)' ELSE {}
           X == {emit(r, SetKeyState(d, keys(r))) : r \in available_routes}
<1>1. \A r : keys(r) \in SUBSET Key
  OBVIOUS
<1> HIDE DEF keys
<1>2. \A r : SetKeyState(d, keys(r)) \in Routing
  BY <1>1, Typed
<1>3. \A k : SetKeyState(d, k).kind = "keys" /\ SetKeyState(d, k).device = d
  BY DEF SetKeyState
<1>4. ASSUME NEW s \in X PROVE s \in HandlerSteps /\ kind_of(s) = "routing" /\ device_of(s) \in {d}
  <2>1. PICK r \in available_routes : s = emit(r, SetKeyState(d, keys(r)))
    BY <1>4
  <2> QED BY <1>2, <1>3, <2>1, RoutesType, Typed, Kinds
<1>5. 0 \in available_routes
  BY DEF available_routes
<1>6. X # {}
  BY <1>5
<1>7. recovery_actions(d) = <<X>>
  BY DEF recovery_actions, keys
<1> HIDE DEF X
<1>8. RoutingTo(batch(X), {d})
  BY <1>4, RoutingBatch, X \in SUBSET HandlerSteps
<1>9. batch(X) = <<X>>
  BY <1>6 DEF batch
<1> QED BY <1>7, <1>8, <1>9

LEMMA FlushSteps ==
    ASSUME NEW r \in Client \cup {0}, NEW d \in Device, NEW pending \in Seq(KeyEvent),
           NEW others \in BOOLEAN
    PROVE  RoutingTo(flush_events(r, d, pending, others), {d})
<1> DEFINE s == emit(r, Events(d, pending))
<1>1. Events(d, pending) \in Routing
  BY Typed
<1>2. Events(d, pending).kind = "events" /\ Events(d, pending).device = d
  BY DEF Events
<1>3. s \in HandlerSteps /\ kind_of(s) = "routing" /\ device_of(s) \in {d}
  BY <1>1, <1>2, RoutingStep
<1> HIDE DEF s
<1>4. RoutingTo(batch({s}), {d})
  BY <1>3, RoutingBatch
<1>5. RoutingTo(batch({}), {d})
  BY RoutingBatch
<1>6. batch({s}) = <<{s}>> /\ batch({}) = <<>>
  BY DEF batch
<1> QED BY <1>4, <1>5, <1>6 DEF flush_events, s

(* destroy_device, whatever may be left to do after it.                     *)
LEMMA DestroySteps ==
    ASSUME TypeInv, NEW d \in Device, activation_id[d] \in 1 .. ACTIVATIONS
    PROVE  Does(destroy_device(d),
                {send(c, DestroyDevice(d)) : c \in Clients}
                \cup {about("abort", d), about("forget", d), step("stabilize"),
                      release_of(activation_id[d])})
<1> DEFINE X == {send(c, DestroyDevice(d)) : c \in Clients}
           a == about("abort", d)
           f == about("forget", d)
           z == step("stabilize")
           r == release_of(activation_id[d])
<1>1. /\ a \in HandlerSteps /\ f \in HandlerSteps /\ z \in HandlerSteps /\ r \in HandlerSteps
      /\ kind_of(a) = "abort" /\ kind_of(f) = "forget" /\ kind_of(z) = "stabilize"
      /\ kind_of(r) = "release" /\ device_of(a) = d /\ device_of(f) = d
  BY Typed, Kinds
<1>2. \A s \in X : s \in HandlerSteps /\ kind_of(s) = "destroy" /\ device_of(s) = d
  BY Typed, Kinds, RoutesType
<1>3. destroy_device(d) = (((batch(X) \o <<{a}>>) \o <<{f}>>) \o <<{z}>>) \o <<{r}>>
  BY DEF destroy_device, release_of, broadcast, stabilize
<1> HIDE DEF a, f, z, r, X
<1>4. Does(<<{a}>>, {a}) /\ Does(<<{f}>>, {f}) /\ Does(<<{z}>>, {z}) /\ Does(<<{r}>>, {r})
  BY <1>1, SingleStep
<1>5. Does(batch(X), X)
  BY <1>2, DoesBatch, X \in SUBSET HandlerSteps DEF Alike
<1>6. Does(batch(X) \o <<{a}>>, X \cup {a})
  <2>1. \A s \in X, v \in {a} : Precedes(s, v)
    BY <1>1, <1>2 DEF Precedes
  <2> QED BY <1>4, <1>5, <2>1, DoesBoth
<1>7. Does((batch(X) \o <<{a}>>) \o <<{f}>>, (X \cup {a}) \cup {f})
  <2>1. \A s \in X \cup {a}, v \in {f} : Precedes(s, v)
    BY <1>1, <1>2 DEF Precedes
  <2> QED BY <1>4, <1>6, <2>1, DoesBoth
<1>8. Does(((batch(X) \o <<{a}>>) \o <<{f}>>) \o <<{z}>>, ((X \cup {a}) \cup {f}) \cup {z})
  <2>1. \A s \in (X \cup {a}) \cup {f}, v \in {z} : Precedes(s, v)
    BY <1>1, <1>2 DEF Precedes
  <2> QED BY <1>4, <1>7, <2>1, DoesBoth
<1>9. Does(destroy_device(d), (((X \cup {a}) \cup {f}) \cup {z}) \cup {r})
  <2>1. \A s \in ((X \cup {a}) \cup {f}) \cup {z}, v \in {r} : Precedes(s, v)
    BY <1>1, <1>2 DEF Precedes
  <2>2. Does((((batch(X) \o <<{a}>>) \o <<{f}>>) \o <<{z}>>) \o <<{r}>>,
             (((X \cup {a}) \cup {f}) \cup {z}) \cup {r})
    BY <1>4, <1>8, <2>1, DoesBoth
  <2> QED BY <1>3, <2>2
<1>10. (((X \cup {a}) \cup {f}) \cup {z}) \cup {r} = X \cup {a, f, z, r}
  OBVIOUS
<1> QED BY <1>9, <1>10 DEF X, a, f, z, r

-----------------------------------------------------------------------------
(* What depends on nothing that changes.                                    *)

LEMMA OrderSame ==
    ASSUME OrderInv, UNCHANGED <<todo, frame, devices>>
    PROVE  OrderInv'
BY DEF OrderInv

LEMMA RouteSame ==
    ASSUME RouteInv, UNCHANGED <<current, session, todo, frame>>
    PROVE  RouteInv'
BY DEF RouteInv, available_routes

LEMMA KnownSame ==
    ASSUME KnownInv, UNCHANGED <<session, queue, writers, devices, todo>>
    PROVE  KnownInv'
BY DEF KnownInv, Pending, told

-----------------------------------------------------------------------------
(* The steps of a task.                                                     *)

Elsewhere == <<router, sessions, devices, todo, frame, activations, released, running>>

LEMMA Reported ==
    ASSUME IInv, NEW d \in Device, NEW result \in {"sending", "lost", "failed"},
           report(d, result), task[d] \in {"reading", "resetting"}, UNCHANGED activation_id
    PROVE  /\ task' = [task EXCEPT ![d] = result]
           /\ events' \in Seq(Event) /\ Len(events') = Len(events) + 1
           /\ \A i \in DOMAIN events : i \in DOMAIN events' /\ events'[i] = events[i]
           /\ \A i \in DOMAIN events' : i \in DOMAIN events \/ i = Len(events')
           /\ LET e == events'[Len(events')]
              IN  e.device = d /\ e.activation_id = activation_id[d] /\ e.result = result
           /\ \A i \in DOMAIN events : i > EVENTS => events[i].device # d
<1> DEFINE e == [device |-> d, activation_id |-> activation_id[d], result |-> result]
<1>1. events \in Seq(Event) /\ e \in Event
  BY DEF IInv, TypeInv, Event
<1>2. events' = Append(events, e) /\ task' = [task EXCEPT ![d] = result]
  BY DEF report
<1>3. \A i \in DOMAIN events : i > EVENTS => events[i].device # d
  BY DEF IInv, BoundInv
<1>4. e.device = d /\ e.activation_id = activation_id[d] /\ e.result = result
  OBVIOUS
<1> HIDE DEF e
<1> QED BY <1>1, <1>2, <1>3, <1>4

(* A task has at most one message that waits.                               *)
LEMMA ReportedBound ==
    ASSUME IInv, NEW d \in Device, NEW result \in {"sending", "lost", "failed"},
           report(d, result), task[d] \in {"reading", "resetting"}, UNCHANGED activation_id
    PROVE  \A i \in DOMAIN events' : i > EVENTS =>
              /\ task'[events'[i].device] \in {"sending", "lost", "failed"}
              /\ \A j \in DOMAIN events' :
                    j > EVENTS /\ events'[j].device = events'[i].device => j = i
<1> DEFINE n == Len(events')
<1>1. /\ task' = [task EXCEPT ![d] = result] /\ task \in [Device -> TaskState]
      /\ events' \in Seq(Event) /\ events \in Seq(Event)
      /\ \A i \in DOMAIN events : i \in DOMAIN events' /\ events'[i] = events[i]
      /\ \A i \in DOMAIN events' : i \in DOMAIN events \/ i = n
      /\ events'[n].device = d
      /\ \A i \in DOMAIN events : i > EVENTS => events[i].device # d
  BY Reported DEF IInv, TypeInv
<1>2. ASSUME NEW i \in DOMAIN events PROVE events[i].device \in Device
  <2>1. events[i] \in Event
    BY <1>1
  <2> QED BY <2>1 DEF Event
<1> HIDE DEF n
<1>3. \A i \in DOMAIN events : i > EVENTS =>
          /\ task[events[i].device] \in {"sending", "lost", "failed"}
          /\ \A j \in DOMAIN events :
                j > EVENTS /\ events[j].device = events[i].device => j = i
  BY DEF IInv, BoundInv
<1> QED BY <1>1, <1>2, <1>3

LEMMA ReportedActivation ==
    ASSUME IInv, NEW d \in Device, NEW result \in {"sending", "lost", "failed"},
           report(d, result), task[d] \in {"reading", "resetting"}, UNCHANGED activation_id,
           UNCHANGED Elsewhere
    PROVE  DeviceInv' /\ ActivationInv'
<1>1. /\ task' = [task EXCEPT ![d] = result] /\ task \in [Device -> TaskState]
      /\ \A i \in DOMAIN events' : i \in DOMAIN events \/ i = Len(events')
      /\ \A i \in DOMAIN events : events'[i] = events[i]
      /\ events'[Len(events')].activation_id = activation_id[d]
  BY Reported DEF IInv, TypeInv
<1>2. \A e \in Device : task'[e] # "none" <=> task[e] # "none"
  BY <1>1
<1>3. /\ activation_id' = activation_id /\ devices' = devices /\ todo' = todo
      /\ activations' = activations
  BY DEF Elsewhere
<1>4. DeviceInv'
  BY <1>2, <1>3 DEF IInv, DeviceInv, Pending
<1>5. activation_id[d] \in 1 .. activations /\ activations \in Nat
  BY DEF IInv, ActivationInv, TypeInv
<1>6. \A i \in DOMAIN events' :
          \/ i \in DOMAIN events /\ events'[i].activation_id = events[i].activation_id
          \/ events'[i].activation_id = activation_id[d]
  BY <1>1
<1>7. ActivationInv'
  <2> USE <1>3
  <2>1. \A e \in Device : task'[e] # "none" => activation_id[e] \in 1 .. activations
    BY <1>2 DEF IInv, ActivationInv
  <2>2. \A e, f \in Device :
           task'[e] # "none" /\ task'[f] # "none" /\ activation_id[e] = activation_id[f] => e = f
    BY <1>2 DEF IInv, ActivationInv
  <2>3. \A i \in DOMAIN events' : events'[i].activation_id <= activations
    BY <1>5, <1>6 DEF IInv, ActivationInv
  <2>4. ASSUME NEW s \in Steps(todo), s.op = "add"
        PROVE  /\ activations > 0
               /\ \A e \in Device : task'[e] # "none" => activation_id[e] # activations
               /\ \A i \in DOMAIN events' : events'[i].activation_id # activations
    BY <1>1, <1>2, <1>6, <2>4 DEF IInv, ActivationInv
  <2>5. ASSUME NEW s \in Steps(todo), s.op = "release", NEW e \in Device,
               task'[e] # "none", activation_id[e] = s.activation_id
        PROVE  Pending(about("abort", e))
    BY <1>2, <2>5 DEF IInv, ActivationInv
  <2> QED BY <2>1, <2>2, <2>3, <2>4, <2>5 DEF ActivationInv, Pending
<1> QED BY <1>4, <1>7

(* The commands of the task d are as they were, or one less.                *)
CommandsLeft(d) ==
    \/ UNCHANGED commands
    \/ commands[d] # <<>> /\ commands' = [commands EXCEPT ![d] = Tail(@)]

LEMMA CommandsLeftType ==
    ASSUME TypeInv, BoundInv, NEW d \in Device, CommandsLeft(d)
    PROVE  /\ commands' \in [Device -> Seq(Command)]
           /\ \A e \in Device : Len(commands'[e]) <= Len(commands[e])
           /\ \A e \in Device : commands[e] = <<>> => commands'[e] = <<>>
           /\ \A e \in Device : e # d => commands'[e] = commands[e]
           /\ commands'[d] = commands[d]
              \/ (commands[d] # <<>> /\ commands'[d] = Tail(commands[d]))
           /\ \A e \in Device : ResetCommanded(e)' => ResetCommanded(e)
           /\ \A e \in Device : \A i, j \in DOMAIN commands'[e] :
                 /\ commands'[e][i].kind = "reset" /\ commands'[e][j].kind = "reset"
                 /\ \A k, l \in DOMAIN commands[e] : 
                       commands[e][k].kind = "reset" /\ commands[e][l].kind = "reset" => k = l
                 => i = j
<1>1. CASE UNCHANGED commands
  BY <1>1 DEF TypeInv, ResetCommanded
<1>2. CASE commands[d] # <<>> /\ commands' = [commands EXCEPT ![d] = Tail(@)]
  <2>1. /\ commands \in [Device -> Seq(Command)] /\ commands[d] \in Seq(Command)
        /\ Tail(commands[d]) \in Seq(Command)
        /\ Len(Tail(commands[d])) = Len(commands[d]) - 1 /\ Len(commands[d]) \in Nat
        /\ \A i \in DOMAIN Tail(commands[d]) :
              i + 1 \in DOMAIN commands[d] /\ Tail(commands[d])[i] = commands[d][i + 1]
    BY <1>2 DEF TypeInv
  <2>2. \A e \in Device : commands'[e] = IF e = d THEN Tail(commands[d]) ELSE commands[e]
    BY <1>2, <2>1
  <2>3. commands' \in [Device -> Seq(Command)]
    BY <1>2, <2>1
  <2>4. \A e \in Device : ResetCommanded(e)' => ResetCommanded(e)
    BY <2>1, <2>2 DEF ResetCommanded
  <2>5. ASSUME NEW e \in Device, NEW i \in DOMAIN commands'[e], NEW j \in DOMAIN commands'[e],
               commands'[e][i].kind = "reset", commands'[e][j].kind = "reset",
               \A k, l \in DOMAIN commands[e] : 
                    commands[e][k].kind = "reset" /\ commands[e][l].kind = "reset" => k = l
        PROVE  i = j
    <3>1. CASE e = d
      <4>0. i \in DOMAIN Tail(commands[d]) /\ j \in DOMAIN Tail(commands[d])
        BY <2>2, <3>1
      <4>1. i + 1 \in DOMAIN commands[d] /\ j + 1 \in DOMAIN commands[d] /\ i \in Int /\ j \in Int
        BY <2>1, <4>0
      <4>2. commands[d][i + 1].kind = "reset" /\ commands[d][j + 1].kind = "reset"
        BY <2>1, <2>2, <2>5, <3>1
      <4>3. i + 1 = j + 1
        BY <2>5, <3>1, <4>1, <4>2
      <4> QED BY <4>1, <4>3
    <3>2. CASE e # d
      BY <2>2, <2>5, <3>2
    <3> QED BY <3>1, <3>2
  <2>6. /\ \A e \in Device : Len(commands'[e]) <= Len(commands[e])
        /\ \A e \in Device : commands[e] = <<>> => commands'[e] = <<>>
    <3>1. \A e \in Device : Len(commands[e]) \in Nat
      BY <2>1
    <3> QED BY <1>2, <2>1, <2>2, <3>1
  <2>7. /\ \A e \in Device : e # d => commands'[e] = commands[e]
        /\ commands'[d] = Tail(commands[d])
    BY <2>2
  <2> QED BY <1>2, <2>3, <2>4, <2>5, <2>6, <2>7
<1> QED BY <1>1, <1>2 DEF CommandsLeft

LEMMA ReportedLoss ==
    ASSUME IInv, NEW d \in Device, NEW result \in {"sending", "lost", "failed"},
           report(d, result), UNCHANGED activation_id, UNCHANGED Elsewhere,
           CommandsLeft(d),
           task[d] = "reading" \/ (task[d] = "resetting" /\ result = "failed")
    PROVE  LossInv'
<1>1. /\ task' = [task EXCEPT ![d] = result] /\ task \in [Device -> TaskState]
      /\ events \in Seq(Event) /\ events' \in Seq(Event)
      /\ \A i \in DOMAIN events : i \in DOMAIN events' /\ events'[i] = events[i]
      /\ \A i \in DOMAIN events' : i \in DOMAIN events \/ i = Len(events')
      /\ events'[Len(events')].device = d
      /\ events'[Len(events')].result = result
  BY Reported DEF IInv, TypeInv
<1>2. /\ activation_id' = activation_id /\ devices' = devices /\ todo' = todo
      /\ devices \subseteq Device
  BY DEF Elsewhere, IInv, TypeInv
<1>3. /\ \A e \in Device : ResetCommanded(e)' => ResetCommanded(e)
      /\ \A e \in Device : \A i, j \in DOMAIN commands'[e] :
                 /\ commands'[e][i].kind = "reset" /\ commands'[e][j].kind = "reset"
                 /\ \A k, l \in DOMAIN commands[e] : 
                       commands[e][k].kind = "reset" /\ commands[e][l].kind = "reset" => k = l
                 => i = j
  BY CommandsLeftType DEF IInv
<1>4. \A e \in Device : ResetCommanded(e) =>
          /\ task[e] \in {"lost", "resetting", "failed"}
          /\ \A k, l \in DOMAIN commands[e] :
                commands[e][k].kind = "reset" /\ commands[e][l].kind = "reset" => k = l
  BY DEF IInv, LossInv, ResetAnswersLoss, ResetCommanded
<1>5. \A e \in Device : e # d => task'[e] = task[e]
  BY <1>1
<1>6. task'[d] = result
  BY <1>1
<1>7. ResetAnswersLoss'
  <2>1. ASSUME NEW e \in Device, NEW i \in DOMAIN commands'[e], commands'[e][i].kind = "reset"
        PROVE  /\ task'[e] \in {"lost", "resetting", "failed"}
               /\ \A j \in DOMAIN commands'[e] : commands'[e][j].kind = "reset" => j = i
    <3>1. ResetCommanded(e)
      BY <1>3, <2>1 DEF ResetCommanded
    <3>2. task'[e] \in {"lost", "resetting", "failed"}
      BY <1>4, <1>5, <1>6, <3>1
    <3> QED BY <1>3, <1>4, <2>1, <3>1, <3>2
  <2> QED BY <2>1 DEF ResetAnswersLoss
<1>8. \A e \in Device, i \in DOMAIN events' :
          lost_at(e, i)' => \/ i \in DOMAIN events /\ lost_at(e, i)
                            \/ e = d /\ result = "lost" /\ i = Len(events')
  BY <1>1, <1>2 DEF lost_at
<1>9. \A e \in devices :
          /\ LossReported(e) =>
                /\ task[e] \in Losing
                /\ ~ResetCommanded(e)
                /\ ~Pending(about("reset", e))
                /\ \A i, j \in DOMAIN events : lost_at(e, i) /\ lost_at(e, j) => i = j
          /\ Pending(about("reset", e)) => task[e] \in Losing /\ ~ResetCommanded(e)
  BY DEF IInv, LossInv
<1>10. ASSUME NEW e \in devices, LossReported(e)'
       PROVE  /\ task'[e] \in Losing
              /\ ~ResetCommanded(e)'
              /\ ~Pending(about("reset", e))
              /\ \A i, j \in DOMAIN events' : lost_at(e, i)' /\ lost_at(e, j)' => i = j
  <2>1. CASE LossReported(e)
    <3>1. ~(e = d /\ result = "lost")
      BY <1>9, <2>1 DEF Losing
    <3>2. \A i \in DOMAIN events' : lost_at(e, i)' => i \in DOMAIN events /\ lost_at(e, i)
      BY <1>2, <1>8, <3>1
    <3> QED BY <1>2, <1>3, <1>5, <1>6, <1>9, <2>1, <3>2 DEF Losing
  <2>2. CASE ~LossReported(e)
    <3>1. e = d /\ result = "lost"
          /\ \A i \in DOMAIN events' : lost_at(e, i)' => i = Len(events')
      BY <1>2, <1>8, <1>10, <2>2 DEF LossReported
    <3>2. task[d] = "reading"
      BY <3>1
    <3>3. ~ResetCommanded(d) /\ ~Pending(about("reset", d))
      BY <1>2, <1>4, <1>9, <3>1, <3>2 DEF Losing
    <3> QED BY <1>2, <1>3, <1>6, <3>1, <3>3 DEF Losing
  <2> QED BY <2>1, <2>2
<1>11. ASSUME NEW e \in devices, Pending(about("reset", e))
       PROVE  task'[e] \in Losing /\ ~ResetCommanded(e)'
  BY <1>2, <1>3, <1>5, <1>6, <1>9, <1>11 DEF Losing
<1> QED BY <1>2, <1>7, <1>10, <1>11 DEF LossInv, Pending

LEMMA ReportedStep ==
    ASSUME IInv, NEW d \in Device, NEW result \in {"sending", "lost", "failed"},
           report(d, result), UNCHANGED activation_id, UNCHANGED Elsewhere,
           CommandsLeft(d), local_keys' \in [Device -> SUBSET Key],
           task[d] = "reading" \/ (task[d] = "resetting" /\ result = "failed")
    PROVE  IInv'
<1>1. /\ UNCHANGED <<current, physical_keys, sessions, devices, todo, frame, activations,
                     released, running, session, queue, writers>>
  BY DEF Elsewhere, router, sessions
<1>2. task[d] \in {"reading", "resetting"}
  OBVIOUS
<1>3. task' = [task EXCEPT ![d] = result] /\ events' \in Seq(Event)
  BY <1>2, Reported
<1>4. /\ commands' \in [Device -> Seq(Command)]
      /\ \A e \in Device : Len(commands'[e]) <= Len(commands[e])
      /\ \A e \in Device : commands[e] = <<>> => commands'[e] = <<>>
  BY CommandsLeftType DEF IInv
<1>5. TypeInv'
  <2>1. task' \in [Device -> TaskState]
    BY <1>3 DEF IInv, TypeInv, TaskState
  <2> QED BY <1>1, <1>3, <1>4, <2>1 DEF IInv, TypeInv
<1>6. BoundInv'
  <2>1. \A i \in DOMAIN events' : i > EVENTS =>
              /\ task'[events'[i].device] \in {"sending", "lost", "failed"}
              /\ \A j \in DOMAIN events' :
                    j > EVENTS /\ events'[j].device = events'[i].device => j = i
    BY <1>2, ReportedBound
  <2>2. ASSUME NEW e \in Device
        PROVE  /\ Len(commands'[e]) <= COMMANDS
               /\ task'[e] \in {"none", "ended"} => commands'[e] = <<>>
    <3>1. Len(commands[e]) <= COMMANDS /\ (task[e] \in {"none", "ended"} => commands[e] = <<>>)
      BY DEF IInv, BoundInv
    <3>2. Len(commands[e]) \in Nat /\ Len(commands'[e]) \in Nat
      BY <1>4 DEF IInv, TypeInv
    <3>3. Len(commands'[e]) <= COMMANDS
      BY <1>4, <3>1, <3>2, ChannelAssumption
    <3>4. e # d => task'[e] = task[e]
      BY <1>3 DEF IInv, TypeInv
    <3>5. task'[d] = result
      BY <1>3 DEF IInv, TypeInv
    <3> QED BY <1>4, <3>1, <3>3, <3>4, <3>5
  <2>3. \A c \in Client : /\ Len(queue'[c]) <= QUEUE
                          /\ session'[c] = "vacant" => queue'[c] = <<>> /\ writers'[c] = none
    BY <1>1 DEF IInv, BoundInv
  <2> QED BY <2>1, <2>2, <2>3 DEF BoundInv
<1>7. DeviceInv' /\ ActivationInv'
  BY <1>2, ReportedActivation
<1>8. LossInv'
  BY ReportedLoss
<1>9. OrderInv' /\ RouteInv' /\ KnownInv'
  BY <1>1, OrderSame, RouteSame, KnownSame DEF IInv
<1> QED BY <1>5, <1>6, <1>7, <1>8, <1>9 DEF IInv

(* The task d goes on without a message: events stays as it is.             *)
LEMMA TaskGoesOn ==
    ASSUME IInv, NEW d \in Device, NEW s \in TaskState \ {"none"},
           task[d] # "none", task' = [task EXCEPT ![d] = s],
           UNCHANGED <<activation_id, events>>, UNCHANGED Elsewhere,
           commands' \in [Device -> Seq(Command)], local_keys' \in [Device -> SUBSET Key],
           \A e \in Device : e # d => commands'[e] = commands[e],
           Len(commands'[d]) <= Len(commands[d]),
           s = "ended" => commands'[d] = <<>>,
           \A i \in DOMAIN events : i > EVENTS => events[i].device # d,
           ResetCommanded(d)' =>
                 /\ s \in {"lost", "resetting", "failed"}
                 /\ ResetCommanded(d)
                 /\ \A i, j \in DOMAIN commands'[d] :
                       commands'[d][i].kind = "reset" /\ commands'[d][j].kind = "reset"
                       => i = j,
           task[d] \in Losing => s \in Losing \/ ResetCommanded(d)
    PROVE  IInv'
<1>1. /\ UNCHANGED <<current, physical_keys, sessions, devices, todo, frame, activations,
                     released, running, session, queue, writers>>
  BY DEF Elsewhere, router, sessions
<1>2. task \in [Device -> TaskState] /\ task'[d] = s /\ \A e \in Device : e # d => task'[e] = task[e]
  BY DEF IInv, TypeInv
<1>3. TypeInv'
  <2>1. task' \in [Device -> TaskState]
    BY <1>2
  <2> QED BY <1>1, <2>1 DEF IInv, TypeInv
<1>4. BoundInv'
  <2>1. ASSUME NEW i \in DOMAIN events, i > EVENTS
        PROVE  /\ task'[events[i].device] \in {"sending", "lost", "failed"}
               /\ \A j \in DOMAIN events :
                     j > EVENTS /\ events[j].device = events[i].device => j = i
    <3>1. events[i] \in Event
      BY DEF IInv, TypeInv
    <3>2. events[i].device \in Device /\ events[i].device # d
      BY <2>1, <3>1 DEF Event
    <3> QED BY <1>2, <2>1, <3>2 DEF IInv, BoundInv
  <2>2. ASSUME NEW e \in Device
        PROVE  /\ Len(commands'[e]) <= COMMANDS
               /\ task'[e] \in {"none", "ended"} => commands'[e] = <<>>
    <3>1. Len(commands[e]) <= COMMANDS /\ (task[e] \in {"none", "ended"} => commands[e] = <<>>)
      BY DEF IInv, BoundInv
    <3>2. Len(commands[e]) \in Nat /\ Len(commands'[e]) \in Nat
      BY DEF IInv, TypeInv
    <3>3. Len(commands'[e]) <= COMMANDS
      BY <3>1, <3>2, ChannelAssumption
    <3> QED BY <1>2, <3>1, <3>3
  <2>3. \A c \in Client : /\ Len(queue'[c]) <= QUEUE
                          /\ session'[c] = "vacant" => queue'[c] = <<>> /\ writers'[c] = none
    BY <1>1 DEF IInv, BoundInv
  <2> QED BY <2>1, <2>2, <2>3 DEF BoundInv
<1>5. \A e \in Device : task'[e] # "none" <=> task[e] # "none"
  BY <1>2
<1>6. DeviceInv'
  BY <1>1, <1>5 DEF IInv, DeviceInv, Pending
<1>7. ActivationInv'
  BY <1>1, <1>5 DEF IInv, ActivationInv, Pending
<1>8. LossInv'
  <2>1. \A e \in Device : e # d => (ResetCommanded(e)' <=> ResetCommanded(e))
    BY DEF ResetCommanded
  <2>2. \A e \in Device : \A i \in DOMAIN events : lost_at(e, i)' <=> lost_at(e, i)
    BY DEF lost_at
  <2>3. \A e \in Device : LossReported(e)' <=> LossReported(e)
    BY <2>2 DEF LossReported
  <2>4. ResetAnswersLoss'
    <3>1. ASSUME NEW e \in Device, NEW i \in DOMAIN commands'[e], commands'[e][i].kind = "reset"
          PROVE  /\ task'[e] \in {"lost", "resetting", "failed"}
                 /\ \A j \in DOMAIN commands'[e] : commands'[e][j].kind = "reset" => j = i
      <4>1. CASE e = d
        <5>1. ResetCommanded(d)'
          BY <3>1, <4>1 DEF ResetCommanded
        <5> QED BY <1>2, <3>1, <4>1, <5>1
      <4>2. CASE e # d
        BY <1>2, <3>1, <4>2 DEF IInv, LossInv, ResetAnswersLoss
      <4> QED BY <4>1, <4>2
    <3> QED BY <3>1 DEF ResetAnswersLoss
  <2>5. ASSUME NEW e \in devices
        PROVE  /\ LossReported(e) =>
                    /\ task[e] \in Losing
                    /\ ~ResetCommanded(e)
                    /\ ~Pending(about("reset", e))
                    /\ \A i, j \in DOMAIN events : lost_at(e, i) /\ lost_at(e, j) => i = j
               /\ Pending(about("reset", e)) => task[e] \in Losing /\ ~ResetCommanded(e)
    BY DEF IInv, LossInv
  <2>6. devices \subseteq Device
    BY DEF IInv, TypeInv
  <2>7. ASSUME NEW e \in devices
        PROVE  /\ LossReported(e) =>
                    /\ task'[e] \in Losing
                    /\ ~ResetCommanded(e)'
                    /\ ~Pending(about("reset", e))
                    /\ \A i, j \in DOMAIN events : lost_at(e, i)' /\ lost_at(e, j)' => i = j
               /\ Pending(about("reset", e)) => task'[e] \in Losing /\ ~ResetCommanded(e)'
    <3>1. ~ResetCommanded(e) => ~ResetCommanded(e)'
      BY <2>1, <2>6
    <3>2. task[e] \in Losing /\ ~ResetCommanded(e) => task'[e] \in Losing
      BY <1>2, <2>6
    <3> QED BY <2>2, <2>5, <2>6, <3>1, <3>2
  <2> QED BY <1>1, <2>3, <2>4, <2>6, <2>7 DEF LossInv, Pending
<1>9. OrderInv' /\ RouteInv' /\ KnownInv'
  BY <1>1, OrderSame, RouteSame, KnownSame DEF IInv
<1> QED BY <1>3, <1>4, <1>6, <1>7, <1>8, <1>9 DEF IInv

LEMMA TaskStepKeeps ==
    ASSUME IInv, NEW d \in Device, TaskStep(d), UNCHANGED Elsewhere
    PROVE  IInv'
<1>1. /\ task \in [Device -> TaskState] /\ commands \in [Device -> Seq(Command)]
      /\ local_keys \in [Device -> SUBSET Key] /\ events \in Seq(Event)
  BY DEF IInv, TypeInv
<1>2. CASE read_frame(d)
  <2>1. PICK result \in {"sending", "lost", "failed"} : report(d, result)
    BY <1>2 DEF read_frame
  <2> QED BY <1>1, <1>2, <2>1, ReportedStep DEF read_frame, CommandsLeft
<1>3. CASE sent(d)
  <2> DEFINE s == CASE task[d] = "sending" -> "reading"
                    [] task[d] = "lost"    -> "resetting"
                    [] task[d] = "failed"  -> "ended"
  <2>1. /\ task[d] \in {"sending", "lost", "failed"} /\ UNCHANGED <<activation_id, events>>
        /\ task' = [task EXCEPT ![d] = s]
        /\ commands' = [commands EXCEPT ![d] = IF task[d] = "failed" THEN <<>> ELSE @]
        /\ local_keys' = [local_keys EXCEPT ![d] = IF task[d] = "failed" THEN {} ELSE @]
    BY <1>1, <1>3 DEF sent
  <2>2. /\ task[d] = "sending" => s = "reading"
        /\ task[d] = "lost" => s = "resetting"
        /\ task[d] = "failed" => s = "ended"
    OBVIOUS
  <2>3. \A i \in DOMAIN events : i > EVENTS => events[i].device # d
    BY <1>3 DEF sent, waits, waits_at
  <2> HIDE DEF s
  <2>4. s \in TaskState \ {"none"} /\ task[d] # "none"
    BY <2>1, <2>2 DEF TaskState
  <2>5. /\ commands' \in [Device -> Seq(Command)] /\ local_keys' \in [Device -> SUBSET Key]
        /\ \A e \in Device : e # d => commands'[e] = commands[e]
        /\ commands'[d] = IF task[d] = "failed" THEN <<>> ELSE commands[d]
    BY <1>1, <2>1
  <2>6. Len(commands'[d]) <= Len(commands[d]) /\ (s = "ended" => commands'[d] = <<>>)
    BY <1>1, <2>1, <2>2, <2>5
  <2>7. \A i, j \in DOMAIN commands[d] :
            commands[d][i].kind = "reset" /\ commands[d][j].kind = "reset" => i = j
    BY DEF IInv, LossInv, ResetAnswersLoss
  <2>8. ResetCommanded(d) => task[d] \in {"lost", "resetting", "failed"}
    BY DEF IInv, LossInv, ResetAnswersLoss, ResetCommanded
  <2>9. ResetCommanded(d)' =>
                 /\ s \in {"lost", "resetting", "failed"}
                 /\ ResetCommanded(d)
                 /\ \A i, j \in DOMAIN commands'[d] :
                       commands'[d][i].kind = "reset" /\ commands'[d][j].kind = "reset"
                       => i = j
    <3>1. CASE task[d] = "failed"
      <4>1. commands'[d] = <<>>
        BY <2>5, <3>1
      <4> QED BY <4>1 DEF ResetCommanded
    <3>2. CASE task[d] # "failed"
      <4>1. commands'[d] = commands[d]
        BY <2>5, <3>2
      <4>2. ResetCommanded(d)' <=> ResetCommanded(d)
        BY <4>1 DEF ResetCommanded
      <4> QED BY <2>1, <2>2, <2>7, <2>8, <3>2, <4>1, <4>2
    <3> QED BY <3>1, <3>2
  <2>10. task[d] \in Losing => s \in Losing
    BY <2>1, <2>2 DEF Losing
  <2> QED BY <2>1, <2>3, <2>4, <2>5, <2>6, <2>9, <2>10, TaskGoesOn
<1>4. CASE handle_device_command(d)
  <2> DEFINE u == Head(commands[d])
  <2>1. /\ task[d] \in {"reading", "resetting"} /\ commands[d] # <<>>
        /\ commands' = [commands EXCEPT ![d] = Tail(@)] /\ UNCHANGED activation_id
    BY <1>4 DEF handle_device_command, command_fails
  <2>2. CommandsLeft(d)
    BY <2>1 DEF CommandsLeft
  <2>3. u \in Command /\ commands[d][1] = u /\ 1 \in DOMAIN commands[d]
    BY <1>1, <2>1
  <2>4. local_keys' \in [Device -> SUBSET Key]
    <3>1. written(local_keys[d], u) \in SUBSET Key
      BY <1>1, <2>3, WrittenKeys
    <3>2. \/ local_keys' = [local_keys EXCEPT ![d] = written(local_keys[d], u)]
          \/ local_keys' = [local_keys EXCEPT ![d] = {}]
          \/ local_keys' = [local_keys EXCEPT ![d] = local_keys[d]]
      BY <1>1, <1>4 DEF handle_device_command, command_fails
    <3> QED BY <1>1, <3>1, <3>2
  <2>5. CASE report(d, "failed")
    BY <2>1, <2>2, <2>4, <2>5, ReportedStep
  <2>6. CASE /\ task' = [task EXCEPT ![d] = IF u.kind = "reset" THEN "reading" ELSE task[d]]
             /\ UNCHANGED events
    <3> DEFINE s == IF u.kind = "reset" THEN "reading" ELSE task[d]
    <3>1. task' = [task EXCEPT ![d] = s] /\ s \in TaskState \ {"none"} /\ task[d] # "none"
          /\ s # "ended"
      BY <1>1, <2>1, <2>6 DEF TaskState
    <3>2. \A i \in DOMAIN events : i > EVENTS => events[i].device # d
      BY <2>1 DEF IInv, BoundInv
    <3>3. /\ commands' \in [Device -> Seq(Command)]
          /\ \A e \in Device : e # d => commands'[e] = commands[e]
          /\ Len(commands'[d]) <= Len(commands[d])
          /\ commands'[d] = Tail(commands[d])
          /\ ResetCommanded(d)' => ResetCommanded(d)
      BY <2>1, <2>2, CommandsLeftType DEF IInv
    <3>4. \A i, j \in DOMAIN commands[d] :
              commands[d][i].kind = "reset" /\ commands[d][j].kind = "reset" => i = j
      BY DEF IInv, LossInv, ResetAnswersLoss
    <3>5. ResetCommanded(d) => task[d] \in {"lost", "resetting", "failed"}
      BY DEF IInv, LossInv, ResetAnswersLoss, ResetCommanded
    <3>6. \A i, j \in DOMAIN commands'[d] :
              commands'[d][i].kind = "reset" /\ commands'[d][j].kind = "reset" => i = j
      BY <2>2, <3>4, CommandsLeftType DEF IInv
    <3>7. u.kind = "reset" => ~ResetCommanded(d)'
      <4>1. \A i \in DOMAIN Tail(commands[d]) :
                i + 1 \in DOMAIN commands[d] /\ Tail(commands[d])[i] = commands[d][i + 1] /\ i + 1 # 1
        BY <1>1, <2>1
      <4> QED BY <2>3, <3>3, <3>4, <4>1 DEF ResetCommanded
    <3>8. u.kind = "reset" => ResetCommanded(d)
      BY <2>3 DEF ResetCommanded
    <3> HIDE DEF u
    <3>9. task[d] \in Losing => s \in Losing \/ ResetCommanded(d)
      BY <3>8
    <3>10. ResetCommanded(d)' =>
                 /\ s \in {"lost", "resetting", "failed"}
                 /\ ResetCommanded(d)
                 /\ \A i, j \in DOMAIN commands'[d] :
                       commands'[d][i].kind = "reset" /\ commands'[d][j].kind = "reset"
                       => i = j
      BY <3>3, <3>5, <3>6, <3>7
    <3> HIDE DEF s
    <3> QED BY <2>1, <2>4, <2>6, <3>1, <3>2, <3>3, <3>9, <3>10, TaskGoesOn
  <2> QED BY <1>4, <2>5, <2>6 DEF handle_device_command, command_fails
<1> QED BY <1>2, <1>3, <1>4 DEF TaskStep

-----------------------------------------------------------------------------
(* The steps of a client.                                                   *)

LEMMA ClientStepKeeps ==
    ASSUME IInv, NEW c \in Client, ClientStep(c),
           UNCHANGED <<tasks, router, devices, todo, frame, activations, released, running>>
    PROVE  IInv'
<1>1. UNCHANGED <<current, physical_keys, task, activation_id, commands, local_keys, events,
                  devices, todo, frame, activations, released, running>>
  BY DEF router, tasks
<1>2. /\ session \in [Client -> {"vacant", "open", "closed"}] /\ queue \in [Client -> Seq(ToClient)]
      /\ writers = [e \in Client |-> writers[e]] /\ session[c] = "open"
      /\ \A e \in Client : DOMAIN writers[e] \subseteq Device
  BY DEF IInv, TypeInv, ClientStep, run_once, disconnect
<1>3. CASE disconnect(c)
  <2>1. /\ session' = [session EXCEPT ![c] = "closed"] /\ UNCHANGED <<queue, writers>>
    BY <1>3 DEF disconnect
  <2>2. \A e \in Client : session'[e] = "vacant" <=> session[e] = "vacant"
    BY <1>2, <2>1
  <2>3. TypeInv'
    BY <1>1, <1>2, <2>1 DEF IInv, TypeInv
  <2>4. BoundInv'
    BY <1>1, <2>1, <2>2 DEF IInv, BoundInv
  <2>5. OrderInv' /\ DeviceInv' /\ ActivationInv' /\ LossInv'
    BY <1>1 DEF IInv, OrderInv, DeviceInv, Pending, ActivationInv, LossInv, LossReported,
                ResetCommanded, ResetAnswersLoss, lost_at
  <2>6. RouteInv'
    BY <1>1, <2>2 DEF IInv, RouteInv, available_routes
  <2>7. KnownInv'
    BY <1>1, <2>1, <2>2 DEF IInv, KnownInv, Pending, told
  <2> QED BY <2>3, <2>4, <2>5, <2>6, <2>7 DEF IInv
<1>4. CASE run_once(c)
  <2> DEFINE q == queue[c]
             w == carried_out(writers[c], Head(q))
  <2>1. q \in Seq(ToClient) /\ q # <<>> /\ Head(q) \in ToClient /\ Tail(q) \in Seq(ToClient)
        /\ Len(Tail(q)) <= Len(q) /\ Len(q) \in Nat
    BY <1>2, <1>4 DEF run_once
  <2>2. Acceptable(writers[c], q)
    BY <1>2 DEF IInv, KnownInv
  <2>3. accepts(writers[c], Head(q)) /\ Acceptable(w, Tail(q))
    BY <2>1, <2>2, AcceptableTail
  <2>4. carry(writers[c], q) = carry(w, Tail(q))
    BY <2>1, ToldTail
  <2>5. /\ queue' = [queue EXCEPT ![c] = Tail(q)]
        /\ writers' = [writers EXCEPT ![c] = w]
        /\ session' = session
    BY <1>2, <1>4, <2>3 DEF run_once
  <2>6. DOMAIN w \subseteq Device
    <3>1. DOMAIN w = known_after(DOMAIN writers[c], Head(q))
      BY KnownAfter
    <3>2. Head(q).device \in Device
      BY <2>1 DEF ToClient, Update
    <3> QED BY <1>2, <3>1, <3>2 DEF known_after
  <2> HIDE DEF w
  <2>7. /\ queue'[c] = Tail(q) /\ writers'[c] = w
        /\ \A e \in Client : e # c => queue'[e] = queue[e] /\ writers'[e] = writers[e]
    BY <1>2, <2>5
  <2>8. TypeInv'
    <3>1. writers' = [e \in Client |-> writers'[e]]
      BY <1>2, <2>5
    <3>2. queue' \in [Client -> Seq(ToClient)]
      BY <1>2, <2>1, <2>5
    <3>3. \A e \in Client : DOMAIN writers'[e] \subseteq Device
      BY <1>2, <2>6, <2>7
    <3> QED BY <1>1, <2>5, <3>1, <3>2, <3>3 DEF IInv, TypeInv
  <2>9. BoundInv'
    <3>1. ASSUME NEW e \in Client
          PROVE  /\ Len(queue'[e]) <= QUEUE
                 /\ session'[e] = "vacant" => queue'[e] = <<>> /\ writers'[e] = none
      <4>1. /\ Len(queue[e]) <= QUEUE
            /\ session[e] = "vacant" => queue[e] = <<>> /\ writers[e] = none
        BY DEF IInv, BoundInv
      <4>2. CASE e = c
        BY <1>2, <2>1, <2>5, <2>7, <4>1, <4>2, ClientAssumption
      <4>3. CASE e # c
        BY <2>5, <2>7, <4>1, <4>3
      <4> QED BY <4>2, <4>3
    <3> QED BY <1>1, <3>1 DEF IInv, BoundInv
  <2>10. OrderInv' /\ DeviceInv' /\ ActivationInv' /\ LossInv'
    BY <1>1 DEF IInv, OrderInv, DeviceInv, Pending, ActivationInv, LossInv, LossReported,
                ResetCommanded, ResetAnswersLoss, lost_at
  <2>11. RouteInv'
    BY <1>1, <2>5 DEF IInv, RouteInv, available_routes
  <2>12. \A e \in Client : told(e)' = told(e)
    <3>1. told(c)' = told(c)
      BY <2>4, <2>7 DEF told
    <3>2. \A e \in Client : e # c => told(e)' = told(e)
      BY <2>7 DEF told
    <3> QED BY <3>1, <3>2
  <2>13. \A e \in Client : session[e] # "vacant" => Acceptable(writers'[e], queue'[e])
    BY <2>3, <2>7 DEF IInv, KnownInv
  <2>14. KnownInv'
    BY <1>1, <2>5, <2>12, <2>13 DEF IInv, KnownInv, Pending
  <2> QED BY <2>8, <2>9, <2>10, <2>11, <2>14 DEF IInv
<1> QED BY <1>3, <1>4 DEF ClientStep

-----------------------------------------------------------------------------
(* Events that are left.                                                    *)

Among(later, earlier) ==
    /\ later \in Seq(Event)
    /\ \A i \in DOMAIN later : \E j \in DOMAIN earlier : j >= i /\ earlier[j] = later[i]
    /\ \A i, k \in DOMAIN later : i # k =>
          \E j, l \in DOMAIN earlier :
             j # l /\ j >= i /\ l >= k /\ earlier[j] = later[i] /\ earlier[l] = later[k]

LEMMA AmongSame ==
    ASSUME NEW evs \in Seq(Event)
    PROVE  Among(evs, evs)
<1>1. \A i \in DOMAIN evs : i >= i
  OBVIOUS
<1> QED BY <1>1 DEF Among

LEMMA AmongTail ==
    ASSUME NEW evs \in Seq(Event), evs # <<>>
    PROVE  Among(Tail(evs), evs)
<1>1. /\ Tail(evs) \in Seq(Event)
      /\ \A i \in DOMAIN Tail(evs) :
            i \in Int /\ i + 1 \in DOMAIN evs /\ evs[i + 1] = Tail(evs)[i] /\ i + 1 >= i
  BY DEF Event
<1>2. \A i, k \in DOMAIN Tail(evs) : i # k => i + 1 # k + 1
  BY <1>1
<1> QED BY <1>1, <1>2 DEF Among

LEMMA RemovedAt ==
    ASSUME NEW evs \in Seq(Event), NEW n \in DOMAIN evs
    PROVE  /\ RemoveAt(evs, n) \in Seq(Event)
           /\ \A i \in DOMAIN RemoveAt(evs, n) :
                 /\ i \in Nat
                 /\ i < n => i \in DOMAIN evs /\ RemoveAt(evs, n)[i] = evs[i]
                 /\ i >= n => i + 1 \in DOMAIN evs /\ RemoveAt(evs, n)[i] = evs[i + 1]
<1> DEFINE front == SubSeq(evs, 1, n - 1)
           back  == SubSeq(evs, n + 1, Len(evs))
<1>1. n \in 1 .. Len(evs) /\ Len(evs) \in Nat
  OBVIOUS
<1>2. /\ front \in Seq(Event) /\ Len(front) = n - 1
      /\ \A i \in 1 .. n - 1 : front[i] = evs[i]
  BY <1>1
<1>3. /\ back \in Seq(Event) /\ Len(back) = Len(evs) - n
      /\ \A i \in 1 .. Len(evs) - n : back[i] = evs[n + i]
  BY <1>1
<1>4. RemoveAt(evs, n) = front \o back
  BY DEF RemoveAt
<1> HIDE DEF front, back
<1>5. /\ front \o back \in Seq(Event) /\ DOMAIN (front \o back) = 1 .. Len(evs) - 1
      /\ \A i \in 1 .. n - 1 : (front \o back)[i] = front[i]
      /\ \A i \in n .. Len(evs) - 1 : (front \o back)[i] = back[i - (n - 1)]
  <2> DEFINE f == front \o back
  <2>1. front \in Seq(Event) /\ back \in Seq(Event)
    BY <1>2, <1>3
  <2>2. /\ f \in Seq(Event) /\ Len(f) = Len(front) + Len(back)
        /\ DOMAIN f = 1 .. Len(f)
        /\ \A i \in 1 .. Len(front) : f[i] = front[i]
        /\ \A i \in Len(front) + 1 .. Len(front) + Len(back) : f[i] = back[i - Len(front)]
    BY <2>1
  <2>3. /\ (n - 1) + 1 = n /\ (n - 1) + (Len(evs) - n) = Len(evs) - 1
        /\ Len(front) = n - 1 /\ Len(back) = Len(evs) - n
    BY <1>1, <1>2, <1>3
  <2> HIDE DEF f
  <2> QED BY <2>2, <2>3 DEF f
<1>6. \A i \in n .. Len(evs) - 1 : i - (n - 1) \in 1 .. Len(evs) - n /\ n + (i - (n - 1)) = i + 1
  BY <1>1
<1>7. ASSUME NEW i \in 1 .. Len(evs) - 1
      PROVE  /\ i < n => i \in DOMAIN evs /\ (front \o back)[i] = evs[i]
             /\ i >= n => i + 1 \in DOMAIN evs /\ (front \o back)[i] = evs[i + 1]
  <2>1. CASE i < n
    BY <1>1, <1>2, <1>5, <2>1
  <2>2. CASE i >= n
    <3>0. i \in n .. Len(evs) - 1
      BY <1>1, <2>2
    <3>1. (front \o back)[i] = back[i - (n - 1)] /\ i - (n - 1) \in 1 .. Len(evs) - n
      BY <1>5, <1>6, <3>0
    <3>2. back[i - (n - 1)] = evs[n + (i - (n - 1))]
      BY <1>3, <3>1
    <3> QED BY <1>1, <1>6, <2>2, <3>1, <3>2
  <2> QED BY <1>1, <2>1, <2>2
<1>8. \A i \in 1 .. Len(evs) - 1 : i \in Nat
  BY <1>1
<1> QED BY <1>4, <1>5, <1>7, <1>8

LEMMA AmongRemoved ==
    ASSUME NEW evs \in Seq(Event), NEW n \in DOMAIN evs
    PROVE  Among(RemoveAt(evs, n), evs)
<1> DEFINE r == RemoveAt(evs, n)
           at(i) == IF i < n THEN i ELSE i + 1
<1>1. n \in Nat
  OBVIOUS
<1>2. r \in Seq(Event) /\ \A i \in DOMAIN r : i \in Nat /\ at(i) \in DOMAIN evs /\ r[i] = evs[at(i)]
  BY <1>1, RemovedAt
<1>3. \A i \in Nat : at(i) >= i
  BY <1>1
<1>4. \A i, k \in Nat : i # k => at(i) # at(k)
  BY <1>1
<1> HIDE DEF r, at
<1> QED BY <1>2, <1>3, <1>4 DEF Among, r

(* Nothing but the messages changes.                                        *)
LEMMA AmongBound ==
    ASSUME TypeInv, BoundInv, Among(events', events),
           NEW t, \A d \in Device : task[d] \in {"sending", "lost", "failed"} =>
                                       t[d] = task[d]
    PROVE  \A i \in DOMAIN events' : i > EVENTS =>
              /\ t[events'[i].device] \in {"sending", "lost", "failed"}
              /\ \A j \in DOMAIN events' :
                    j > EVENTS /\ events'[j].device = events'[i].device => j = i
<1>1. /\ \A i \in DOMAIN events' : i \in Nat
      /\ \A i \in DOMAIN events : i \in Nat /\ events[i] \in Event
  BY DEF Among, TypeInv
<1>2. \A i \in DOMAIN events : events[i].device \in Device
  BY <1>1 DEF Event
<1>3. EVENTS \in Nat
  BY ChannelAssumption
<1>4. ASSUME NEW i \in DOMAIN events', i > EVENTS
      PROVE  t[events'[i].device] \in {"sending", "lost", "failed"}
  <2>1. PICK j \in DOMAIN events : j >= i /\ events[j] = events'[i]
    BY DEF Among
  <2>2. j > EVENTS
    BY <1>1, <1>3, <1>4, <2>1
  <2> QED BY <1>2, <2>1, <2>2 DEF BoundInv
<1>5. ASSUME NEW i \in DOMAIN events', i > EVENTS, NEW j \in DOMAIN events', j > EVENTS,
             events'[j].device = events'[i].device
      PROVE  j = i
  <2> SUFFICES ASSUME j # i PROVE FALSE
    OBVIOUS
  <2>1. PICK a, b \in DOMAIN events : /\ a # b /\ a >= i /\ b >= j
                                      /\ events[a] = events'[i] /\ events[b] = events'[j]
    BY DEF Among
  <2>2. a > EVENTS /\ b > EVENTS
    BY <1>1, <1>3, <1>5, <2>1
  <2> QED BY <1>5, <2>1, <2>2 DEF BoundInv
<1> QED BY <1>4, <1>5

LEMMA AmongLoss ==
    ASSUME TypeInv, Among(events', events), UNCHANGED activation_id, NEW d \in Device
    PROVE  /\ LossReported(d)' => LossReported(d)
           /\ (\A i, j \in DOMAIN events : lost_at(d, i) /\ lost_at(d, j) => i = j) =>
                 \A i, j \in DOMAIN events' : lost_at(d, i)' /\ lost_at(d, j)' => i = j
<1>1. \A i \in DOMAIN events' : lost_at(d, i)' =>
          \E j \in DOMAIN events : events[j] = events'[i] /\ lost_at(d, j)
  BY DEF Among, lost_at
<1>2. LossReported(d)' => LossReported(d)
  BY <1>1 DEF LossReported
<1>3. ASSUME \A i, j \in DOMAIN events : lost_at(d, i) /\ lost_at(d, j) => i = j,
             NEW i \in DOMAIN events', NEW k \in DOMAIN events',
             lost_at(d, i)', lost_at(d, k)', i # k
      PROVE  FALSE
  <2>1. PICK j, l \in DOMAIN events :
             j # l /\ events[j] = events'[i] /\ events[l] = events'[k]
    BY <1>3 DEF Among
  <2>2. lost_at(d, j) /\ lost_at(d, l)
    BY <1>3, <2>1 DEF lost_at
  <2> QED BY <1>3, <2>1, <2>2
<1> QED BY <1>2, <1>3

-----------------------------------------------------------------------------
(* What the server does while tasks and clients stay as they are.           *)

Undisturbed == <<task, activation_id, commands, local_keys, session, queue, writers>>

LEMMA QuietType ==
    ASSUME TypeInv, BoundInv, UNCHANGED Undisturbed, Among(events', events),
           todo' \in Batches, frame' \in Frame \cup {NoFrame}, devices' \in SUBSET Device,
           activations' \in 0 .. ACTIVATIONS, released' \in SUBSET (1 .. ACTIVATIONS),
           running' \in BOOLEAN, current' \in Client \cup {0},
           physical_keys' \in [Device -> SUBSET Key]
    PROVE  TypeInv' /\ BoundInv'
<1>1. UNCHANGED <<task, activation_id, commands, local_keys, session, queue, writers>>
  BY DEF Undisturbed
<1>2. TypeInv'
  BY <1>1 DEF TypeInv, Among, Batches
<1>3. BoundInv'
  <2>1. \A i \in DOMAIN events' : i > EVENTS =>
              /\ task[events'[i].device] \in {"sending", "lost", "failed"}
              /\ \A j \in DOMAIN events' :
                    j > EVENTS /\ events'[j].device = events'[i].device => j = i
    BY AmongBound
  <2> QED BY <1>1, <2>1 DEF BoundInv
<1> QED BY <1>2, <1>3

(* Steps are done, or come that concern no device or one that is there.     *)
LEMMA DevicesKept ==
    ASSUME IInv, UNCHANGED <<task, activation_id, devices, activations>>,
           Among(events', events),
           \A s \in Steps(todo') :
              /\ kind_of(s) \in {"add", "reset", "abort", "forget", "release"} => s \in Steps(todo)
              /\ kind_of(s) = "routing" => device_of(s) \in devices
              /\ kind_of(s) = "create" =>
                    device_of(s) \in devices \/ Pending(about("add", device_of(s)))'
              /\ kind_of(s) = "destroy" /\ device_of(s) \in devices =>
                    Pending(send(s.route, CreateDevice(device_of(s))))',
           \A d : Pending(about("abort", d)) => Pending(about("abort", d))'
    PROVE  DeviceInv' /\ ActivationInv'
<1>1. \A d : Pending(about("abort", d))' <=> Pending(about("abort", d))
  BY Kinds DEF Pending
<1>2. \A s : s.op \in {"add", "release"} => kind_of(s) = s.op
  BY DEF kind_of
<1>3. DeviceInv'
  <2>1. \A d \in Device : task[d] # "none" <=> d \in devices \/ Pending(about("abort", d))'
    BY <1>1 DEF IInv, DeviceInv
  <2>2. ASSUME NEW s \in Steps(todo')
        PROVE  /\ kind_of(s) \in {"routing", "reset"} => device_of(s) \in devices
               /\ kind_of(s) \in {"add", "abort", "forget"} => device_of(s) \notin devices
    BY DEF IInv, DeviceInv
  <2> QED BY <2>1, <2>2 DEF DeviceInv
<1>4. ActivationInv'
  <2>1. \A d \in Device : task[d] # "none" => activation_id[d] \in 1 .. activations
    BY DEF IInv, ActivationInv
  <2>2. \A d, e \in Device :
           task[d] # "none" /\ task[e] # "none" /\ activation_id[d] = activation_id[e] => d = e
    BY DEF IInv, ActivationInv
  <2>3. \A i \in DOMAIN events' : events'[i].activation_id <= activations
    BY DEF IInv, ActivationInv, Among
  <2>4. ASSUME NEW s \in Steps(todo'), s.op = "add"
        PROVE  /\ activations > 0
               /\ \A d \in Device : task[d] # "none" => activation_id[d] # activations
               /\ \A i \in DOMAIN events' : events'[i].activation_id # activations
    <3>1. s \in Steps(todo)
      BY <1>2, <2>4
    <3> QED BY <2>4, <3>1 DEF IInv, ActivationInv, Among
  <2>5. ASSUME NEW s \in Steps(todo'), s.op = "release", NEW d \in Device,
               task[d] # "none", activation_id[d] = s.activation_id
        PROVE  Pending(about("abort", d))'
    <3>1. s \in Steps(todo)
      BY <1>2, <2>5
    <3> QED BY <1>1, <2>5, <3>1 DEF IInv, ActivationInv
  <2> QED BY <2>1, <2>2, <2>3, <2>4, <2>5 DEF ActivationInv
<1> QED BY <1>3, <1>4

LEMMA LossKept ==
    ASSUME IInv, UNCHANGED <<task, activation_id, devices>>, Among(events', events),
           \A d : Pending(about("reset", d))' => Pending(about("reset", d)),
           ResetAnswersLoss', \A d \in Device : ResetCommanded(d)' => ResetCommanded(d)
    PROVE  LossInv'
<1>1. devices \subseteq Device
  BY DEF IInv, TypeInv
<1>2. \A d \in devices :
         /\ LossReported(d)' => LossReported(d)
         /\ (\A i, j \in DOMAIN events : lost_at(d, i) /\ lost_at(d, j) => i = j) =>
               \A i, j \in DOMAIN events' : lost_at(d, i)' /\ lost_at(d, j)' => i = j
  BY <1>1, AmongLoss DEF IInv
<1> HIDE DEF ResetAnswersLoss
<1> QED BY <1>1, <1>2 DEF IInv, LossInv

LEMMA KnownKept ==
    ASSUME IInv, UNCHANGED <<session, queue, writers, devices>>,
           \A s : kind_of(s) \in {"create", "destroy", "add"} =>
                     (s \in Steps(todo') <=> s \in Steps(todo))
    PROVE  KnownInv'
<1>1. /\ \A d : Pending(about("add", d))' <=> Pending(about("add", d))
      /\ \A c, d : Pending(send(c, CreateDevice(d)))' <=> Pending(send(c, CreateDevice(d)))
      /\ \A c, d : Pending(send(c, DestroyDevice(d)))' <=> Pending(send(c, DestroyDevice(d)))
  BY Kinds DEF Pending
<1> QED BY <1>1 DEF IInv, KnownInv, told

(* These steps concern no device, or one that is there.                     *)
Neutral == {"sweep", "remove", "stabilize", "insert", "routing"}

LEMMA NeutralSteps ==
    ASSUME IInv, UNCHANGED Undisturbed, UNCHANGED <<devices, activations>>,
           Among(events', events),
           \A s : kind_of(s) \notin Neutral => (s \in Steps(todo') <=> s \in Steps(todo)),
           \A s \in Steps(todo') : kind_of(s) = "routing" => device_of(s) \in devices
    PROVE  DeviceInv' /\ ActivationInv' /\ LossInv' /\ KnownInv'
<1>1. UNCHANGED <<task, activation_id, commands, session, queue, writers, devices, activations>>
  BY DEF Undisturbed
<1>2. /\ \A d : Pending(about("abort", d))' <=> Pending(about("abort", d))
      /\ \A d : Pending(about("add", d))' <=> Pending(about("add", d))
      /\ \A d : Pending(about("reset", d))' <=> Pending(about("reset", d))
      /\ \A c, d : Pending(send(c, CreateDevice(d)))' <=> Pending(send(c, CreateDevice(d)))
  BY Kinds DEF Pending, Neutral
<1>3. DeviceInv' /\ ActivationInv'
  <2>1. ASSUME NEW s \in Steps(todo')
        PROVE  /\ kind_of(s) \in {"add", "reset", "abort", "forget", "release"} =>
                     s \in Steps(todo)
               /\ kind_of(s) = "routing" => device_of(s) \in devices
               /\ kind_of(s) = "create" =>
                     device_of(s) \in devices \/ Pending(about("add", device_of(s)))'
               /\ kind_of(s) = "destroy" /\ device_of(s) \in devices =>
                     Pending(send(s.route, CreateDevice(device_of(s))))'
    <3>1. kind_of(s) \notin Neutral => s \in Steps(todo)
      OBVIOUS
    <3> QED BY <1>2, <3>1 DEF IInv, DeviceInv, Neutral
  <2> QED BY <1>1, <1>2, <2>1, DevicesKept
<1>4. LossInv'
  <2>1. ResetAnswersLoss' /\ \A d : ResetCommanded(d)' <=> ResetCommanded(d)
    BY <1>1 DEF IInv, LossInv, ResetAnswersLoss, ResetCommanded
  <2> QED BY <1>1, <1>2, <2>1, LossKept
<1>5. KnownInv'
  BY <1>1, KnownKept DEF Neutral
<1> QED BY <1>3, <1>4, <1>5

LEMMA NoStepsLeft ==
    ASSUME NEW t \in Batches, Steps(t) = {}
    PROVE  t = <<>>
<1>1. ASSUME t # <<>> PROVE FALSE
  <2>1. 1 \in DOMAIN t /\ t[1] \in (SUBSET HandlerSteps) \ {{}}
    BY <1>1 DEF Batches
  <2> QED BY <2>1 DEF Steps
<1> QED BY <1>1

LEMMA NoSteps ==
    <<>> \in Batches /\ Steps(<<>>) = {} /\ Ordered(<<>>)
BY DEF Batches, Steps, Ordered

LEMMA FrameIsNotNone ==
    ASSUME NEW f \in Frame
    PROVE  f # NoFrame
<1>1. "device" \in DOMAIN f
  BY DEF Frame
<1>2. DOMAIN NoFrame = {"events"}
  BY DEF NoFrame
<1> QED BY <1>1, <1>2

LEMMA AcceptKeeps ==
    ASSUME IInv, Accept \/ Authenticated, running' = running
    PROVE  IInv'
<1> DEFINE z == step("stabilize")
           w == step("sweep")
           n == step("insert")
<1>1. /\ w \in HandlerSteps /\ z \in HandlerSteps /\ n \in HandlerSteps
      /\ kind_of(w) = "sweep" /\ kind_of(z) = "stabilize" /\ kind_of(n) = "insert"
  BY Typed, Kinds
<1>2. /\ todo = <<>> /\ frame = NoFrame /\ frame' = NoFrame
      /\ \/ todo' = <<{w}>> \o <<{z}>>
         \/ todo' = (<<{w}>> \o <<{z}>>) \o <<{n}>>
      /\ UNCHANGED <<current, physical_keys, task, activation_id, commands, local_keys, events,
                     session, queue, writers, devices, activations, released, running>>
  BY DEF Accept, Authenticated, Waiting, stabilize, router, tasks, sessions
<1>3. /\ z \in Steps(todo') /\ OrderInv' /\ todo' \in Batches
      /\ \A s \in Steps(todo') : kind_of(s) \in Neutral \ {"routing"}
  <2> HIDE DEF w, z, n
  <2>1. Does(<<{w}>>, {w}) /\ Does(<<{z}>>, {z}) /\ Does(<<{n}>>, {n})
    BY <1>1, SingleStep
  <2>2. Does(<<{w}>> \o <<{z}>>, {w} \cup {z})
    <3>1. \A s \in {w}, v \in {z} : Precedes(s, v)
      BY <1>1 DEF Precedes
    <3> QED BY <2>1, <3>1, DoesBoth
  <2>3. Does((<<{w}>> \o <<{z}>>) \o <<{n}>>, ({w} \cup {z}) \cup {n})
    <3>1. \A s \in {w} \cup {z}, v \in {n} : Precedes(s, v)
      BY <1>1 DEF Precedes
    <3> QED BY <2>1, <2>2, <3>1, DoesBoth
  <2>4. Does(todo', {w} \cup {z}) \/ Does(todo', ({w} \cup {z}) \cup {n})
    BY <1>2, <2>2, <2>3
  <2> QED BY <1>1, <1>2, <2>4 DEF Does, OrderInv, Neutral
<1>4. events \in Seq(Event)
  BY DEF IInv, TypeInv
<1>5. Among(events', events)
  BY <1>2, <1>4, AmongSame
<1>6. Steps(todo) = {}
  BY <1>2, NoSteps
<1>7. UNCHANGED Undisturbed
  BY <1>2 DEF Undisturbed
<1>8. TypeInv' /\ BoundInv'
  BY <1>2, <1>3, <1>5, <1>7, QuietType DEF IInv, TypeInv
<1>9. DeviceInv' /\ ActivationInv' /\ LossInv' /\ KnownInv'
  <2>1. \A s : kind_of(s) \notin Neutral => (s \in Steps(todo') <=> s \in Steps(todo))
    BY <1>3, <1>6
  <2>2. \A s \in Steps(todo') : kind_of(s) = "routing" => device_of(s) \in devices
    BY <1>3 DEF Neutral
  <2> QED BY <1>2, <1>5, <1>7, <2>1, <2>2, NeutralSteps
<1>10. RouteInv'
  <2>1. z.op = "stabilize"
    BY DEF step
  <2> QED BY <1>3, <2>1 DEF RouteInv
<1> QED BY <1>3, <1>8, <1>9, <1>10 DEF IInv

(* A device is gone, and all that is left to do is what destroys it.        *)
LEMMA DestroyKeeps ==
    ASSUME IInv, frame = NoFrame, NEW d \in devices,
           \A s \in Steps(todo) : kind_of(s) = "reset",
           devices' = devices \ {d}, todo' = destroy_device(d), frame' = frame,
           Among(events', events), UNCHANGED Undisturbed, UNCHANGED router,
           UNCHANGED <<activations, released, running>>
    PROVE  IInv'
<1> DEFINE X == {send(c, DestroyDevice(d)) : c \in Clients}
           a == about("abort", d)
           f == about("forget", d)
           z == step("stabilize")
           r == release_of(activation_id[d])
<1>1. /\ d \in Device /\ task[d] # "none" /\ activation_id[d] \in 1 .. activations
      /\ activations \in 0 .. ACTIVATIONS /\ devices \subseteq Device
      /\ UNCHANGED <<current, physical_keys, task, activation_id, commands, local_keys,
                     session, queue, writers>>
  BY DEF IInv, TypeInv, DeviceInv, ActivationInv, Undisturbed, router
<1>2. activation_id[d] \in 1 .. ACTIVATIONS
  BY <1>1, BoundAssumption
<1>3. Does(todo', X \cup {a, f, z, r})
  BY <1>1, <1>2, DestroySteps DEF IInv
<1>4. /\ kind_of(a) = "abort" /\ kind_of(f) = "forget" /\ kind_of(z) = "stabilize"
      /\ kind_of(r) = "release" /\ device_of(a) = d /\ device_of(f) = d
      /\ r.op = "release" /\ r.activation_id = activation_id[d] /\ z.op = "stabilize"
      /\ \A s \in X : kind_of(s) = "destroy" /\ device_of(s) = d
  BY Kinds DEF release_of, step
<1>5. todo' \in Batches /\ Ordered(todo')
      /\ \A s : s \in Steps(todo') <=> s \in X \/ s \in {a, f, z, r}
  BY <1>3 DEF Does
<1>6. \A s : s.op \in {"add", "release"} => kind_of(s) = s.op
  BY DEF kind_of
<1>7. \A e : /\ Pending(about("abort", e))' <=> e = d
             /\ ~Pending(about("add", e))' /\ ~Pending(about("reset", e))'
             /\ \A c : ~Pending(send(c, CreateDevice(e)))'
             /\ \A c \in Client : Pending(send(c, DestroyDevice(e)))' <=> e = d /\ c \in Clients
  <2>1. ASSUME NEW e PROVE Pending(about("abort", e))' <=> e = d
    BY <1>4, <1>5, Kinds DEF Pending
  <2>2. ASSUME NEW e PROVE ~Pending(about("add", e))' /\ ~Pending(about("reset", e))'
    BY <1>4, <1>5, Kinds DEF Pending
  <2>3. ASSUME NEW e, NEW c PROVE ~Pending(send(c, CreateDevice(e)))'
    BY <1>4, <1>5, Kinds DEF Pending
  <2>4. ASSUME NEW e, NEW c \in Client
        PROVE  Pending(send(c, DestroyDevice(e)))' <=> e = d /\ c \in Clients
    <3>1. kind_of(send(c, DestroyDevice(e))) = "destroy" /\ device_of(send(c, DestroyDevice(e))) = e
          /\ send(c, DestroyDevice(e)).route = c
      BY Kinds DEF send
    <3>2. \A s \in X : s.route \in Clients
      BY DEF send
    <3> QED BY <1>4, <1>5, <3>1, <3>2 DEF Pending
  <2> QED BY <2>1, <2>2, <2>3, <2>4
<1>8. /\ \A e : ~Pending(about("abort", e)) /\ ~Pending(about("add", e))
      /\ \A c, e : ~Pending(send(c, CreateDevice(e))) /\ ~Pending(send(c, DestroyDevice(e)))
  BY Kinds DEF Pending
<1> HIDE DEF X, a, f, z, r
<1>9. TypeInv' /\ BoundInv'
  BY <1>1, <1>5, QuietType DEF IInv, TypeInv
<1>10. OrderInv'
  BY <1>5 DEF OrderInv
<1>11. RouteInv'
  BY <1>4, <1>5 DEF RouteInv
<1>12. DeviceInv'
  <2>1. \A e \in Device : task[e] # "none" <=> e \in devices
    BY <1>8 DEF IInv, DeviceInv
  <2>2. \A e \in Device : task'[e] # "none" <=> e \in devices' \/ Pending(about("abort", e))'
    BY <1>1, <1>7, <2>1
  <2>3. ASSUME NEW s \in Steps(todo')
        PROVE  /\ kind_of(s) \in {"routing", "reset"} => device_of(s) \in devices'
               /\ kind_of(s) \in {"add", "abort", "forget"} => device_of(s) \notin devices'
               /\ kind_of(s) = "create" =>
                     device_of(s) \in devices' \/ Pending(about("add", device_of(s)))'
               /\ kind_of(s) = "destroy" /\ device_of(s) \in devices' =>
                     Pending(send(s.route, CreateDevice(device_of(s))))'
    BY <1>4, <1>5
  <2> QED BY <2>2, <2>3 DEF DeviceInv
<1>13. ActivationInv'
  <2>1. \A s \in Steps(todo') : s.op # "add"
    BY <1>4, <1>5, <1>6
  <2>2. ASSUME NEW s \in Steps(todo'), s.op = "release", NEW e \in Device,
               task[e] # "none", activation_id[e] = s.activation_id
        PROVE  Pending(about("abort", e))'
    <3>1. s = r
      BY <1>4, <1>5, <1>6, <2>2
    <3>2. e = d
      BY <1>1, <1>4, <2>2, <3>1 DEF IInv, ActivationInv
    <3> QED BY <1>7, <3>2
  <2>3. /\ \A e \in Device : task[e] # "none" => activation_id[e] \in 1 .. activations
        /\ \A e, g \in Device :
              task[e] # "none" /\ task[g] # "none" /\ activation_id[e] = activation_id[g] => e = g
        /\ \A i \in DOMAIN events' : events'[i].activation_id <= activations
    BY DEF IInv, ActivationInv, Among
  <2> QED BY <1>1, <2>1, <2>2, <2>3 DEF ActivationInv
<1>14. LossInv'
  <2>1. ResetAnswersLoss' /\ \A e : ResetCommanded(e)' <=> ResetCommanded(e)
    BY <1>1 DEF IInv, LossInv, ResetAnswersLoss, ResetCommanded
  <2>2. \A e \in devices :
           /\ LossReported(e)' => LossReported(e)
           /\ (\A i, j \in DOMAIN events : lost_at(e, i) /\ lost_at(e, j) => i = j) =>
                 \A i, j \in DOMAIN events' : lost_at(e, i)' /\ lost_at(e, j)' => i = j
    BY <1>1, AmongLoss DEF IInv
  <2> HIDE DEF ResetAnswersLoss
  <2>3. \A e \in devices : LossReported(e) =>
                /\ task[e] \in Losing
                /\ ~ResetCommanded(e)
                /\ \A i, j \in DOMAIN events : lost_at(e, i) /\ lost_at(e, j) => i = j
    BY DEF IInv, LossInv
  <2> QED BY <1>1, <1>7, <2>1, <2>2, <2>3 DEF LossInv
<1>15. KnownInv'
  <2>1. ASSUME NEW c \in Client, session[c] # "vacant", NEW e \in Device
        PROVE  /\ Pending(send(c, DestroyDevice(e)))' => e \in told(c)
               /\ ~Pending(send(c, DestroyDevice(e)))' => (e \in told(c) <=> e \in devices')
    <3>1. e \in told(c) <=> e \in devices
      BY <1>8, <2>1 DEF IInv, KnownInv
    <3>2. c \in Clients
      BY <2>1, RoutesType DEF IInv
    <3> QED BY <1>7, <3>1, <3>2
  <2>2. \A c \in Client : told(c)' = told(c)
    BY <1>1 DEF told
  <2>3. \A c \in Client : session[c] # "vacant" => Acceptable(writers[c], queue[c])
    BY DEF IInv, KnownInv
  <2> QED BY <1>1, <1>7, <2>1, <2>2, <2>3 DEF KnownInv
<1> QED BY <1>9, <1>10, <1>11, <1>12, <1>13, <1>14, <1>15 DEF IInv

LEMMA RemovedKeeps ==
    ASSUME IInv, Removed, running' = running
    PROVE  IInv'
<1>1. /\ todo = <<>> /\ frame = NoFrame /\ frame' = frame
      /\ UNCHANGED Undisturbed /\ UNCHANGED router
      /\ UNCHANGED <<events, activations, released, running>>
  BY DEF Removed, Waiting, Undisturbed, tasks, sessions
<1>2. PICK d \in devices : devices' = devices \ {d} /\ todo' = destroy_device(d)
  BY DEF Removed
<1>3. Steps(todo) = {}
  BY <1>1, NoSteps
<1>4. events \in Seq(Event)
  BY DEF IInv, TypeInv
<1>5. Among(events', events)
  BY <1>1, <1>4, AmongSame
<1> QED BY <1>1, <1>2, <1>3, <1>5, DestroyKeeps

LEMMA ActivatedKeeps ==
    ASSUME IInv, Activated, running' = running
    PROVE  IInv'
<1>1. /\ todo = <<>> /\ frame = NoFrame /\ frame' = frame /\ activations < ACTIVATIONS
      /\ activations' = activations + 1
      /\ UNCHANGED <<current, physical_keys, task, activation_id, commands, local_keys, events,
                     session, queue, writers, devices, released, running>>
  BY DEF Activated, Waiting, tasks, sessions, router
<1>2. PICK d \in Device \ devices :
         todo' = batch(broadcast(CreateDevice(d))) \o <<{about("add", d)}>>
  BY DEF Activated
<1> DEFINE X == {send(c, CreateDevice(d)) : c \in Clients}
           a == about("add", d)
<1>3. /\ a \in HandlerSteps /\ kind_of(a) = "add" /\ device_of(a) = d /\ a.op = "add"
      /\ \A s \in X : /\ s \in HandlerSteps /\ kind_of(s) = "create" /\ device_of(s) = d
                      /\ s.route \in Clients
  <2>1. a \in HandlerSteps /\ kind_of(a) = "add" /\ device_of(a) = d /\ a.op = "add"
    BY Typed, Kinds DEF about
  <2>2. ASSUME NEW c \in Clients
        PROVE  LET s == send(c, CreateDevice(d))
               IN  /\ s \in HandlerSteps /\ kind_of(s) = "create" /\ device_of(s) = d
                   /\ s.route \in Clients
    <3>1. c \in Client
      BY RoutesType DEF IInv
    <3>2. send(c, CreateDevice(d)).route = c
      BY DEF send
    <3> QED BY <3>1, <3>2, Typed, Kinds
  <2> QED BY <2>1, <2>2
<1>4. Does(todo', X \cup {a})
  <2>1. todo' = batch(X) \o <<{a}>>
    BY <1>2 DEF broadcast
  <2> HIDE DEF X, a
  <2>2. Does(batch(X), X)
    BY <1>3, DoesBatch, X \in SUBSET HandlerSteps DEF Alike
  <2>3. Does(<<{a}>>, {a})
    BY <1>3, SingleStep
  <2>4. \A s \in X, v \in {a} : Precedes(s, v)
    BY <1>3 DEF Precedes
  <2> QED BY <2>1, <2>2, <2>3, <2>4, DoesBoth
<1>5. todo' \in Batches /\ Ordered(todo') /\ \A s : s \in Steps(todo') <=> s \in X \/ s = a
  BY <1>4 DEF Does
<1>6. Steps(todo) = {}
  BY <1>1, NoSteps
<1>7. \A e : /\ ~Pending(about("abort", e))'
             /\ Pending(about("add", e))' <=> e = d
             /\ ~Pending(about("reset", e))'
             /\ \A c : ~Pending(send(c, DestroyDevice(e)))'
             /\ \A c \in Client : Pending(send(c, CreateDevice(e)))' <=> e = d /\ c \in Clients
  <2>1. ASSUME NEW e PROVE /\ ~Pending(about("abort", e))' /\ ~Pending(about("reset", e))'
                           /\ Pending(about("add", e))' <=> e = d
    BY <1>3, <1>5, Kinds DEF Pending
  <2>2. ASSUME NEW e, NEW c PROVE ~Pending(send(c, DestroyDevice(e)))'
    BY <1>3, <1>5, Kinds DEF Pending
  <2>3. ASSUME NEW e, NEW c \in Client
        PROVE  Pending(send(c, CreateDevice(e)))' <=> e = d /\ c \in Clients
    <3>1. kind_of(send(c, CreateDevice(e))) = "create" /\ device_of(send(c, CreateDevice(e))) = e
          /\ send(c, CreateDevice(e)).route = c
      BY Kinds DEF send
    <3> QED BY <1>3, <1>5, <3>1 DEF Pending
  <2> QED BY <2>1, <2>2, <2>3
<1>8. \A s : ~Pending(s)
  BY <1>6 DEF Pending
<1> HIDE DEF X, a
<1>9. events \in Seq(Event) /\ activations \in Nat /\ activations' \in 0 .. ACTIVATIONS
  BY <1>1, BoundAssumption DEF IInv, TypeInv
<1>10. Among(events', events) /\ UNCHANGED Undisturbed
  BY <1>1, <1>9, AmongSame DEF Undisturbed
<1>11. TypeInv' /\ BoundInv'
  BY <1>1, <1>5, <1>9, <1>10, QuietType DEF IInv, TypeInv
<1>12. OrderInv'
  BY <1>1, <1>5 DEF OrderInv
<1>13. RouteInv'
  BY <1>3, <1>5 DEF RouteInv
<1>14. \A e \in Device : task[e] # "none" <=> e \in devices
  BY <1>8 DEF IInv, DeviceInv
<1>15. DeviceInv'
  BY <1>1, <1>2, <1>3, <1>5, <1>7, <1>14 DEF DeviceInv
<1>16. ActivationInv'
  <2>1. \A s \in Steps(todo') : s.op # "release"
    <3>1. \A s \in Steps(todo') : kind_of(s) # "release"
      BY <1>3, <1>5
    <3> QED BY <3>1 DEF kind_of
  <2>2. /\ \A e \in Device : task[e] # "none" => activation_id[e] \in 1 .. activations
        /\ \A e, g \in Device :
              task[e] # "none" /\ task[g] # "none" /\ activation_id[e] = activation_id[g] => e = g
        /\ \A i \in DOMAIN events : events[i].activation_id <= activations
    BY DEF IInv, ActivationInv
  <2>3. \A i \in DOMAIN events : events[i].activation_id \in Nat
    <3>1. \A i \in DOMAIN events : events[i] \in Event
      BY <1>9
    <3> QED BY <3>1, BoundAssumption DEF Event
  <2>4. \A i \in DOMAIN events :
           events[i].activation_id <= activations' /\ events[i].activation_id # activations'
    BY <1>1, <1>9, <2>2, <2>3
  <2>5. \A e \in Device : task[e] # "none" =>
           activation_id[e] \in 1 .. activations' /\ activation_id[e] # activations'
    BY <1>1, <1>9, <2>2
  <2>6. activations' > 0
    BY <1>1, <1>9
  <2> QED BY <1>1, <2>1, <2>2, <2>4, <2>5, <2>6 DEF ActivationInv
<1>17. LossInv'
  <2>1. /\ \A e \in Device : \A i \in DOMAIN events : lost_at(e, i)' <=> lost_at(e, i)
        /\ devices \subseteq Device
    BY <1>1 DEF lost_at, IInv, TypeInv
  <2>2. \A e \in devices : LossReported(e)' <=> LossReported(e)
    BY <1>1, <2>1 DEF LossReported
  <2>3. ResetAnswersLoss' /\ \A e : ResetCommanded(e)' <=> ResetCommanded(e)
    BY <1>1 DEF IInv, LossInv, ResetAnswersLoss, ResetCommanded
  <2> HIDE DEF ResetAnswersLoss
  <2> QED BY <1>1, <1>7, <2>1, <2>2, <2>3 DEF IInv, LossInv
<1>18. KnownInv'
  <2>1. ASSUME NEW c \in Client, session[c] # "vacant", NEW e \in Device
        PROVE  /\ e \in told(c) <=> e \in devices
               /\ Pending(send(c, CreateDevice(e)))' <=> e = d
    <3>1. c \in Clients
      BY <2>1, RoutesType DEF IInv
    <3> QED BY <1>7, <1>8, <2>1, <3>1 DEF IInv, KnownInv
  <2>2. \A c \in Client : told(c)' = told(c)
    BY <1>1 DEF told
  <2>3. \A c \in Client : session[c] # "vacant" => Acceptable(writers[c], queue[c])
    BY DEF IInv, KnownInv
  <2> QED BY <1>1, <1>2, <1>7, <2>1, <2>2, <2>3 DEF KnownInv
<1> QED BY <1>11, <1>12, <1>13, <1>15, <1>16, <1>17, <1>18 DEF IInv

(* A device has lost input: its copies are made anew and it is reset.       *)
LEMMA LostKeeps ==
    ASSUME IInv, todo = <<>>, frame = NoFrame, frame' = frame, events # <<>>,
           events' = Tail(events), NEW d \in devices, lost_at(d, 1),
           todo' = batch(broadcast(DestroyDevice(d))) \o batch(broadcast(CreateDevice(d)))
                      \o <<{about("reset", d)}>>,
           UNCHANGED Undisturbed, UNCHANGED router,
           UNCHANGED <<devices, activations, released, running>>
    PROVE  IInv'
<1> DEFINE X == {send(c, DestroyDevice(d)) : c \in Clients}
           Y == {send(c, CreateDevice(d)) : c \in Clients}
           r == about("reset", d)
<1>1. /\ d \in Device /\ devices \subseteq Device /\ events \in Seq(Event) /\ 1 \in DOMAIN events
      /\ UNCHANGED <<current, physical_keys, task, activation_id, commands, local_keys,
                     session, queue, writers>>
  BY DEF IInv, TypeInv, Undisturbed, router
<1>2. Among(events', events)
  BY <1>1, AmongTail
<1>3. r \in HandlerSteps /\ kind_of(r) = "reset" /\ device_of(r) = d /\ r.op = "reset"
  BY <1>1, Typed, Kinds DEF about
<1>4. ASSUME NEW c \in Clients
      PROVE  LET s == send(c, DestroyDevice(d))
                 t == send(c, CreateDevice(d))
             IN  /\ s \in HandlerSteps /\ kind_of(s) = "destroy" /\ device_of(s) = d
                 /\ t \in HandlerSteps /\ kind_of(t) = "create" /\ device_of(t) = d
                 /\ s.route = c /\ t.route = c
  <2>1. c \in Client
    BY RoutesType DEF IInv
  <2>2. send(c, DestroyDevice(d)).route = c /\ send(c, CreateDevice(d)).route = c
    BY DEF send
  <2> QED BY <1>1, <2>1, <2>2, Typed, Kinds
<1>5. /\ \A s \in X : s \in HandlerSteps /\ kind_of(s) = "destroy" /\ device_of(s) = d
                      /\ s.route \in Clients
      /\ \A s \in Y : s \in HandlerSteps /\ kind_of(s) = "create" /\ device_of(s) = d
                      /\ s.route \in Clients
  BY <1>4
<1>6. Does(todo', (X \cup Y) \cup {r})
  <2>1. todo' = (batch(X) \o batch(Y)) \o <<{r}>>
    BY DEF broadcast
  <2> HIDE DEF X, Y, r
  <2>2. Does(batch(X), X) /\ Does(batch(Y), Y)
    BY <1>5, DoesBatch, X \in SUBSET HandlerSteps, Y \in SUBSET HandlerSteps DEF Alike
  <2>3. Does(<<{r}>>, {r})
    BY <1>3, SingleStep
  <2>4. Does(batch(X) \o batch(Y), X \cup Y)
    <3>1. \A s \in X, v \in Y : Precedes(s, v)
      BY <1>5 DEF Precedes
    <3> QED BY <2>2, <3>1, DoesBoth
  <2>5. \A s \in X \cup Y, v \in {r} : Precedes(s, v)
    BY <1>3, <1>5 DEF Precedes
  <2>6. Does((batch(X) \o batch(Y)) \o <<{r}>>, (X \cup Y) \cup {r})
    BY <2>3, <2>4, <2>5, DoesBoth
  <2> QED BY <2>1, <2>6
<1>7. /\ todo' \in Batches /\ Ordered(todo')
      /\ \A s : s \in Steps(todo') <=> s \in X \/ s \in Y \/ s = r
  BY <1>6 DEF Does
<1>8. Steps(todo) = {}
  BY NoSteps
<1>9. \A e : /\ ~Pending(about("abort", e))' /\ ~Pending(about("add", e))'
             /\ Pending(about("reset", e))' <=> e = d
             /\ \A c \in Client :
                   /\ Pending(send(c, DestroyDevice(e)))' <=> e = d /\ c \in Clients
                   /\ Pending(send(c, CreateDevice(e)))' <=> e = d /\ c \in Clients
  <2>1. \A c \in Clients : send(c, DestroyDevice(d)) \in X /\ send(c, CreateDevice(d)) \in Y
    OBVIOUS
  <2>2. r = about("reset", d)
    OBVIOUS
  <2> HIDE DEF X, Y, r
  <2>3. \A s : Pending(s)' <=> s \in X \/ s \in Y \/ s = r
    BY <1>7 DEF Pending
  <2>4. ASSUME NEW e PROVE /\ ~Pending(about("abort", e))' /\ ~Pending(about("add", e))'
                           /\ Pending(about("reset", e))' <=> e = d
    BY <1>3, <1>5, <2>2, <2>3, Kinds
  <2>5. ASSUME NEW e, NEW c \in Client
        PROVE  /\ Pending(send(c, DestroyDevice(e)))' <=> e = d /\ c \in Clients
               /\ Pending(send(c, CreateDevice(e)))' <=> e = d /\ c \in Clients
    <3>1. /\ kind_of(send(c, CreateDevice(e))) = "create" /\ device_of(send(c, CreateDevice(e))) = e
          /\ kind_of(send(c, DestroyDevice(e))) = "destroy"
          /\ device_of(send(c, DestroyDevice(e))) = e
      BY Kinds
    <3>2. send(c, CreateDevice(e)).route = c /\ send(c, DestroyDevice(e)).route = c
      BY DEF send
    <3>3. Pending(send(c, DestroyDevice(e)))' <=> e = d /\ c \in Clients
      BY <1>3, <1>5, <2>1, <2>3, <3>1, <3>2
    <3>4. Pending(send(c, CreateDevice(e)))' <=> e = d /\ c \in Clients
      BY <1>3, <1>5, <2>1, <2>3, <3>1, <3>2
    <3> QED BY <3>3, <3>4
  <2> QED BY <2>4, <2>5
<1>10. \A s : ~Pending(s)
  BY <1>8 DEF Pending
<1>11. \A s \in Steps(todo') : kind_of(s) = "destroy" =>
           s.route \in Clients /\ Pending(send(s.route, CreateDevice(d)))'
  <2>1. \A c \in Clients : c \in Client
    BY RoutesType DEF IInv
  <2> QED BY <1>3, <1>5, <1>7, <1>9, <2>1
<1> HIDE DEF X, Y, r
<1>12. TypeInv' /\ BoundInv'
  BY <1>1, <1>2, <1>7, QuietType DEF IInv, TypeInv
<1>13. OrderInv'
  BY <1>7 DEF OrderInv
<1>14. RouteInv'
  BY <1>3, <1>7 DEF RouteInv
<1>15. \A e \in Device : task[e] # "none" <=> e \in devices
  BY <1>10 DEF IInv, DeviceInv
<1>16. DeviceInv'
  <2>1. ASSUME NEW s \in Steps(todo')
        PROVE  /\ device_of(s) = d /\ kind_of(s) \in {"destroy", "create", "reset"}
    BY <1>3, <1>5, <1>7
  <2> QED BY <1>1, <1>9, <1>11, <1>15, <2>1 DEF DeviceInv
<1>17. ActivationInv'
  <2>1. \A s \in Steps(todo') : s.op \notin {"add", "release"}
    <3>1. \A s \in Steps(todo') : kind_of(s) \notin {"add", "release"}
      BY <1>3, <1>5, <1>7
    <3> QED BY <3>1 DEF kind_of
  <2>2. /\ \A e \in Device : task[e] # "none" => activation_id[e] \in 1 .. activations
        /\ \A e, g \in Device :
              task[e] # "none" /\ task[g] # "none" /\ activation_id[e] = activation_id[g] => e = g
        /\ \A i \in DOMAIN events' : events'[i].activation_id <= activations
    BY <1>2 DEF IInv, ActivationInv, Among
  <2> QED BY <1>1, <2>1, <2>2 DEF ActivationInv
<1>18. LossInv'
  <2>1. ResetAnswersLoss' /\ \A e : ResetCommanded(e)' <=> ResetCommanded(e)
    BY <1>1 DEF IInv, LossInv, ResetAnswersLoss, ResetCommanded
  <2>2. \A e \in devices :
           /\ LossReported(e)' => LossReported(e)
           /\ (\A i, j \in DOMAIN events : lost_at(e, i) /\ lost_at(e, j) => i = j) =>
                 \A i, j \in DOMAIN events' : lost_at(e, i)' /\ lost_at(e, j)' => i = j
    BY <1>1, <1>2, AmongLoss DEF IInv
  <2>3. LossReported(d)
    BY <1>1 DEF LossReported
  <2>4. ~LossReported(d)'
    <3>1. \A i, j \in DOMAIN events : lost_at(d, i) /\ lost_at(d, j) => i = j
      BY <2>3 DEF IInv, LossInv
    <3>2. \A i \in DOMAIN events' : /\ i \in Int /\ i # 0 /\ i + 1 \in DOMAIN events
                                    /\ events'[i] = events[i + 1]
      BY <1>1
    <3>3. ASSUME NEW i \in DOMAIN events', lost_at(d, i)' PROVE FALSE
      <4>1. lost_at(d, i + 1)
        BY <1>1, <3>2, <3>3 DEF lost_at
      <4>2. i + 1 = 1
        BY <1>1, <3>1, <3>2, <4>1
      <4> QED BY <3>2, <4>2
    <3> QED BY <3>3 DEF LossReported
  <2> HIDE DEF ResetAnswersLoss
  <2>5. \A e \in devices : LossReported(e) =>
                /\ task[e] \in Losing
                /\ ~ResetCommanded(e)
                /\ \A i, j \in DOMAIN events : lost_at(e, i) /\ lost_at(e, j) => i = j
    BY DEF IInv, LossInv
  <2> QED BY <1>1, <1>9, <2>1, <2>2, <2>3, <2>4, <2>5 DEF LossInv
<1>19. KnownInv'
  <2>1. ASSUME NEW c \in Client, session[c] # "vacant", NEW e \in Device
        PROVE  /\ e \in told(c) <=> e \in devices
               /\ Pending(send(c, CreateDevice(e)))' <=> e = d
               /\ Pending(send(c, DestroyDevice(e)))' <=> e = d
    <3>1. c \in Clients
      BY <2>1, RoutesType DEF IInv
    <3> QED BY <1>9, <1>10, <2>1, <3>1 DEF IInv, KnownInv
  <2>2. \A c \in Client : told(c)' = told(c)
    BY <1>1 DEF told
  <2>3. \A c \in Client : session[c] # "vacant" => Acceptable(writers[c], queue[c])
    BY DEF IInv, KnownInv
  <2> QED BY <1>1, <1>9, <2>1, <2>2, <2>3 DEF KnownInv
<1> QED BY <1>12, <1>13, <1>14, <1>16, <1>17, <1>18, <1>19 DEF IInv

LEMMA ReceiveKeeps ==
    ASSUME IInv, Receive, running' = running
    PROVE  IInv'
<1> DEFINE e == Head(events)
           d == e.device
<1>1. /\ todo = <<>> /\ frame = NoFrame /\ events # <<>> /\ events' = Tail(events)
      /\ UNCHANGED Undisturbed /\ UNCHANGED router
      /\ UNCHANGED <<current, physical_keys, activations, released, running>>
  BY DEF Receive, Waiting, Undisturbed, sessions, router
<1>2. events \in Seq(Event) /\ 1 \in DOMAIN events /\ events[1] = e
  BY <1>1 DEF IInv, TypeInv
<1>3. Among(events', events)
  BY <1>1, <1>2, AmongTail
<1>4. Steps(todo) = {}
  BY <1>1, NoSteps
<1>5. CASE UNCHANGED <<todo, devices>> /\ (frame' = frame \/ (frame' \in Frame /\ frame'.device \in devices))
  <2>1. TypeInv' /\ BoundInv'
    <3>1. frame' \in Frame \cup {NoFrame} /\ todo' \in Batches
      BY <1>1, <1>5, NoSteps
    <3> QED BY <1>1, <1>3, <1>5, <3>1, QuietType DEF IInv, TypeInv
  <2>2. Steps(todo') = {} /\ todo' = <<>> /\ Ordered(todo')
    BY <1>1, <1>4, <1>5, NoSteps
  <2>3. DeviceInv' /\ ActivationInv' /\ LossInv' /\ KnownInv'
    BY <1>1, <1>3, <1>4, <1>5, <2>2, NeutralSteps
  <2>4. OrderInv'
    BY <1>1, <1>5, <2>2 DEF OrderInv
  <2>5. RouteInv'
    <3>1. CASE frame' = frame
      <4>1. session' = session /\ current' = current
        BY <1>1 DEF Undisturbed
      <4> QED BY <1>1, <1>5, <3>1, <4>1, RouteSame DEF IInv
    <3>2. CASE frame' \in Frame
      BY <3>2, FrameIsNotNone DEF RouteInv
    <3> QED BY <1>5, <3>1, <3>2
  <2> QED BY <2>1, <2>3, <2>4, <2>5 DEF IInv
<1>6. CASE /\ is_current_device_event(e) /\ e.result = "sending"
           /\ frame' = [device |-> d, events |-> 0, pending |-> <<>>]
           /\ UNCHANGED <<todo, devices>>
  <2>1. d \in devices /\ d \in Device
    BY <1>6 DEF is_current_device_event, IInv, TypeInv
  <2>2. frame' \in Frame /\ frame'.device \in devices
    BY <1>6, <2>1, BoundAssumption DEF Frame
  <2> QED BY <1>5, <1>6, <2>2
<1>7. CASE /\ is_current_device_event(e) /\ e.result = "lost"
           /\ todo' = batch(broadcast(DestroyDevice(d))) \o batch(broadcast(CreateDevice(d)))
                         \o <<{about("reset", d)}>>
           /\ UNCHANGED <<frame, devices>>
  <2>1. d \in devices /\ lost_at(d, 1)
    BY <1>2, <1>7 DEF is_current_device_event, lost_at
  <2> HIDE DEF d, e
  <2> QED BY <1>1, <1>7, <2>1, LostKeeps
<1>8. CASE /\ is_current_device_event(e) /\ e.result = "failed"
           /\ devices' = devices \ {d} /\ todo' = destroy_device(d) /\ UNCHANGED frame
  <2>1. d \in devices
    BY <1>8 DEF is_current_device_event
  <2> HIDE DEF d, e
  <2> QED BY <1>1, <1>3, <1>4, <1>8, <2>1, DestroyKeeps
<1>9. \/ ~is_current_device_event(e) /\ UNCHANGED <<todo, frame, devices>>
      \/ <1>6!1 \/ <1>7!1 \/ <1>8!1
  BY DEF Receive
<1> QED BY <1>5, <1>6, <1>7, <1>8, <1>9

(* While a frame is processed only routing actions are to be done.          *)
LEMMA FrameSteps ==
    ASSUME IInv, frame # NoFrame
    PROVE  /\ frame \in Frame /\ frame.device \in devices /\ frame.device \in Device
           /\ frame.pending \in Seq(KeyEvent)
           /\ RoutingTo(todo, devices)
<1>1. frame \in Frame /\ devices \subseteq Device /\ todo \in Batches
  BY DEF IInv, TypeInv, Batches
<1>2. frame.device \in devices /\ \A s \in Steps(todo) : kind_of(s) = "routing"
  BY DEF IInv, OrderInv
<1>3. \A s \in Steps(todo) : device_of(s) \in devices
  BY <1>2 DEF IInv, DeviceInv
<1>4. Ordered(todo)
  BY DEF IInv, OrderInv
<1>5. frame.pending \in Seq(KeyEvent)
  BY <1>1 DEF Frame
<1> QED BY <1>1, <1>2, <1>3, <1>4, <1>5 DEF RoutingTo

LEMMA RoutingWider ==
    ASSUME NEW t, NEW D, NEW E, RoutingTo(t, D), D \subseteq E
    PROVE  RoutingTo(t, E)
BY DEF RoutingTo

(* A key event leaves the frame open, with routing actions to be done.       *)
LEMMA KeyPressFrame ==
    ASSUME IInv, NEW k \in Key, KeyPress(k)
    PROVE  /\ frame' \in Frame /\ frame'.device = frame.device
           /\ RoutingTo(todo', devices)
<1> DEFINE d == frame.device
<1>1. frame # NoFrame /\ frame.events < FRAME
  BY DEF KeyPress
<1>2. /\ frame \in Frame /\ d \in devices /\ d \in Device
      /\ frame.pending \in Seq(KeyEvent) /\ RoutingTo(todo, devices)
  BY <1>1, FrameSteps
<1>3. /\ event(d, k) \in KeyEvent /\ press(k) \in KeyEvent
  BY DEF event, press, release, KeyEvent
<1>4. /\ \/ frame' = [frame EXCEPT !.events = @ + 1]
         \/ frame' = [frame EXCEPT !.events = @ + 1, !.pending = Append(@, event(d, k))]
         \/ frame' = [frame EXCEPT !.events = @ + 1, !.pending = <<>>]
  BY DEF KeyPress
<1>5. frame' \in Frame /\ frame'.device = d
  <2>1. frame.events + 1 \in 0 .. FRAME
    BY <1>1, <1>2, BoundAssumption DEF Frame
  <2>2. Append(frame.pending, event(d, k)) \in Seq(KeyEvent)
    BY <1>2, <1>3
  <2>3. /\ frame = [device |-> d, events |-> frame.events, pending |-> frame.pending]
        /\ frame.events \in Nat
    BY <1>2, BoundAssumption DEF Frame
  <2> DEFINE n == frame.events + 1
  <2>4. \/ frame' = [device |-> d, events |-> n, pending |-> frame.pending]
        \/ frame' = [device |-> d, events |-> n, pending |-> Append(frame.pending, event(d, k))]
        \/ frame' = [device |-> d, events |-> n, pending |-> <<>>]
    BY <1>4, <2>3
  <2>5. <<>> \in Seq(KeyEvent)
    OBVIOUS
  <2>6. n \in 0 .. FRAME
    BY <2>1
  <2> HIDE DEF n, d
  <2>7. ASSUME NEW p \in Seq(KeyEvent)
        PROVE  LET f == [device |-> d, events |-> n, pending |-> p]
               IN  f \in Frame /\ f.device = d
    BY <1>2, <2>6 DEF Frame
  <2> QED BY <1>2, <2>2, <2>4, <2>5, <2>7
<1>6. RoutingTo(todo', devices)
  <2>1. CASE UNCHANGED todo
    BY <1>2, <2>1
  <2>2. CASE ~UNCHANGED todo
    <3> DEFINE pending == IF k \in withheld THEN frame.pending ELSE Append(frame.pending, press(k))
    <3>1. PICK others \in BOOLEAN :
             todo' = todo \o flush_events(current, d, pending, others) \o handoff_actions
      BY <2>2 DEF KeyPress
    <3>2. pending \in Seq(KeyEvent)
      BY <1>2, <1>3
    <3> HIDE DEF pending
    <3>3. RoutingTo(flush_events(current, d, pending, others), {d})
      BY <1>2, <3>2, FlushSteps DEF IInv, TypeInv
    <3>4. RoutingTo(flush_events(current, d, pending, others), devices)
      BY <1>2, <3>3, RoutingWider, {d} \subseteq devices
    <3>5. RoutingTo(handoff_actions, devices)
      BY HandoffSteps DEF IInv
    <3>6. RoutingTo(todo \o flush_events(current, d, pending, others), devices)
      BY <1>2, <3>4, RoutingConcat
    <3>7. RoutingTo((todo \o flush_events(current, d, pending, others)) \o handoff_actions, devices)
      BY <3>5, <3>6, RoutingConcat
    <3> QED BY <3>1, <3>7
  <2> QED BY <2>1, <2>2
<1> QED BY <1>5, <1>6

LEMMA KeyPressKeeps ==
    ASSUME IInv, NEW k \in Key, KeyPress(k), running' = running
    PROVE  IInv'
<1> DEFINE d == frame.device
<1>1. /\ frame # NoFrame /\ frame.events < FRAME
      /\ UNCHANGED Undisturbed
      /\ UNCHANGED <<session, events, devices, activations, released, running>>
  BY DEF KeyPress, Undisturbed, tasks, sessions
<1>2. /\ frame \in Frame /\ d \in devices /\ d \in Device
      /\ frame.pending \in Seq(KeyEvent) /\ RoutingTo(todo, devices)
  BY <1>1, FrameSteps
<1>3. update_physical_key(d, k)
  BY DEF KeyPress, BlockedKey, ActiveTriggerKey, WithheldKey, ForwardedKey, SwitchKey,
         OrdinaryEvent
<1>4. physical_keys' \in [Device -> SUBSET Key]
  BY <1>2, <1>3 DEF update_physical_key, IInv, TypeInv
<1>5. current' \in Client \cup {0}
  <2>1. current' = current \/ current' \in available_routes
    BY DEF KeyPress, BlockedKey, ActiveTriggerKey, WithheldKey, ForwardedKey, SwitchKey,
           OrdinaryEvent
  <2> QED BY <2>1, RoutesType DEF IInv, TypeInv
<1>6. frame' \in Frame /\ frame'.device = d
  BY KeyPressFrame
<1>7. RoutingTo(todo', devices)
  BY KeyPressFrame
<1>8. events \in Seq(Event)
  BY DEF IInv, TypeInv
<1>9. Among(events', events)
  BY <1>1, <1>8, AmongSame
<1>10. TypeInv' /\ BoundInv'
  BY <1>1, <1>4, <1>5, <1>6, <1>7, <1>9, QuietType DEF IInv, TypeInv, RoutingTo
<1>11. OrderInv'
  BY <1>1, <1>2, <1>6, <1>7 DEF OrderInv, RoutingTo
<1>12. RouteInv'
  BY <1>6, FrameIsNotNone DEF RouteInv
<1>13. DeviceInv' /\ ActivationInv' /\ LossInv' /\ KnownInv'
  <2>1. \A s : s \in Steps(todo) \/ s \in Steps(todo') =>
           kind_of(s) = "routing" /\ device_of(s) \in devices
    BY <1>2, <1>7 DEF RoutingTo
  <2> QED BY <1>1, <1>9, <2>1, NeutralSteps DEF Neutral
<1> QED BY <1>10, <1>11, <1>12, <1>13 DEF IInv

LEMMA FrameEndKeeps ==
    ASSUME IInv, FrameEnd, running' = running
    PROVE  IInv'
<1> DEFINE d == frame.device
           z == step("stabilize")
<1>1. /\ frame # NoFrame /\ frame' = NoFrame
      /\ UNCHANGED Undisturbed
      /\ UNCHANGED <<current, physical_keys, session, events, devices, activations, released,
                     running>>
  BY DEF FrameEnd, Undisturbed, tasks, sessions, router
<1>2. /\ frame \in Frame /\ d \in devices /\ d \in Device
      /\ frame.pending \in Seq(KeyEvent) /\ RoutingTo(todo, devices)
  BY <1>1, FrameSteps
<1>3. PICK others \in BOOLEAN :
          todo' = (todo \o flush_events(current, d, frame.pending, others)) \o stabilize
  BY DEF FrameEnd
<1> DEFINE t == todo \o flush_events(current, d, frame.pending, others)
<1>4. RoutingTo(t, devices)
  <2>1. RoutingTo(flush_events(current, d, frame.pending, others), {d})
    BY <1>2, FlushSteps DEF IInv, TypeInv
  <2>2. RoutingTo(flush_events(current, d, frame.pending, others), devices)
    BY <1>2, <2>1, RoutingWider, {d} \subseteq devices
  <2> QED BY <1>2, <2>2, RoutingConcat
<1>5. todo' = t \o stabilize
  BY <1>3
<1> HIDE DEF t
<1>6. Does(stabilize, {z}) /\ kind_of(z) = "stabilize" /\ z.op = "stabilize"
  BY StabilizeStep DEF step
<1>7. Does(todo', Steps(t) \cup {z})
  <2>1. Does(t, Steps(t))
    BY <1>4 DEF RoutingTo, Does
  <2>2. \A s \in Steps(t), v \in {z} : Precedes(s, v)
    BY <1>4, <1>6 DEF Precedes, RoutingTo
  <2>3. Does(t \o stabilize, Steps(t) \cup {z})
    BY <1>6, <2>1, <2>2, DoesBoth
  <2> QED BY <1>5, <2>3
<1>8. /\ todo' \in Batches /\ Ordered(todo') /\ z \in Steps(todo')
      /\ \A s \in Steps(todo') :
            \/ kind_of(s) = "routing" /\ device_of(s) \in devices
            \/ kind_of(s) = "stabilize"
  BY <1>4, <1>6, <1>7 DEF Does, RoutingTo
<1>9. events \in Seq(Event)
  BY DEF IInv, TypeInv
<1>10. Among(events', events)
  BY <1>1, <1>9, AmongSame
<1>11. TypeInv' /\ BoundInv'
  BY <1>1, <1>8, <1>10, QuietType DEF IInv, TypeInv
<1>12. OrderInv'
  BY <1>1, <1>8 DEF OrderInv
<1>13. RouteInv'
  BY <1>6, <1>8 DEF RouteInv
<1>14. DeviceInv' /\ ActivationInv' /\ LossInv' /\ KnownInv'
  <2>1. \A s \in Steps(todo) : kind_of(s) = "routing"
    BY <1>2 DEF RoutingTo
  <2>2. \A s : kind_of(s) \notin Neutral => s \notin Steps(todo) /\ s \notin Steps(todo')
    BY <1>8, <2>1 DEF Neutral
  <2>3. \A s \in Steps(todo') : kind_of(s) = "routing" => device_of(s) \in devices
    BY <1>8
  <2> QED BY <1>1, <1>10, <2>2, <2>3, NeutralSteps
<1> QED BY <1>11, <1>12, <1>13, <1>14 DEF IInv

-----------------------------------------------------------------------------
(* The steps of handlers.                                                   *)

(* Whoever loses the route is not the one that stabilizes.                  *)
LEMMA RoutePopped ==
    ASSUME IInv, NEW s, NEW rest, Popped(todo, s, rest),
           frame = NoFrame, kind_of(s) \notin {"stabilize", "add", "reset"},
           s.op \in {"stabilize", "add", "reset"} => kind_of(s) = s.op,
           Steps(rest) \subseteq Steps(todo'),
           \A t \in Steps(todo') : t.op \in {"send", "sweep", "remove"} =>
              t \in Steps(todo) \/ s.op \in {"send", "sweep", "remove"},
           current' \notin available_routes' =>
              current \notin available_routes \/ s.op \in {"send", "sweep", "remove"}
    PROVE  RouteInv'
<1>1. Steps(todo) = Steps(rest) \cup {s}
  BY AfterStep DEF IInv
<1>2. SUFFICES ASSUME current' \notin available_routes'
                      \/ \E t \in Steps(todo') : t.op \in {"send", "sweep", "remove"}
               PROVE  \E t \in Steps(todo') : t.op \in {"stabilize", "add", "reset"}
  BY DEF RouteInv
<1>3. PICK t \in Steps(todo) : t.op \in {"stabilize", "add", "reset"}
  BY <1>1, <1>2 DEF IInv, RouteInv
<1>4. t # s
  BY <1>3
<1> QED BY <1>1, <1>3, <1>4

LEMMA SweepKeeps ==
    ASSUME IInv, NEW s, NEW rest, Popped(todo, s, rest), s.op = "sweep", Sweep(rest),
           frame = NoFrame, UNCHANGED <<frame, activations, released, running>>
    PROVE  IInv'
<1> DEFINE X == {[op |-> "remove", client |-> c] : c \in closed_clients}
<1>1. /\ todo' = batch(X) \o rest
      /\ UNCHANGED Undisturbed
      /\ UNCHANGED <<current, physical_keys, session, events, devices, activations, released,
                     running, frame>>
  BY DEF Sweep, router, tasks, sessions, Undisturbed
<1>2. kind_of(s) = "sweep"
  BY DEF kind_of
<1>3. /\ rest \in Batches /\ Ordered(rest) /\ Steps(todo) = Steps(rest) \cup {s}
      /\ \A t \in Steps(rest) : kind_of(t) \in {"stabilize", "insert"}
  BY <1>2, AfterStep DEF IInv
<1>4. \A t \in X : t \in HandlerSteps /\ kind_of(t) = "remove"
  BY Typed, Kinds DEF removal, closed_clients
<1> HIDE DEF X
<1>5. Does(todo', X \cup Steps(rest))
  <2>1. Does(batch(X), X)
    BY <1>4, DoesBatch, X \in SUBSET HandlerSteps DEF Alike
  <2>2. Does(rest, Steps(rest))
    BY <1>3 DEF Does
  <2>3. \A t \in X, v \in Steps(rest) : Precedes(t, v)
    BY <1>3, <1>4 DEF Precedes
  <2>4. Does(batch(X) \o rest, X \cup Steps(rest))
    BY <2>1, <2>2, <2>3, DoesBoth
  <2> QED BY <1>1, <2>4
<1>6. todo' \in Batches /\ Ordered(todo') /\ Steps(todo') = X \cup Steps(rest)
  BY <1>5 DEF Does
<1>7. events \in Seq(Event)
  BY DEF IInv, TypeInv
<1>8. Among(events', events)
  BY <1>1, <1>7, AmongSame
<1>9. TypeInv' /\ BoundInv'
  BY <1>1, <1>6, <1>8, QuietType DEF IInv, TypeInv
<1>10. OrderInv'
  BY <1>1, <1>6 DEF OrderInv
<1>11. RouteInv'
  BY <1>1, <1>2, <1>6, RoutePopped
<1>12. DeviceInv' /\ ActivationInv' /\ LossInv' /\ KnownInv'
  <2>1. \A t : t \in Steps(todo) \/ t \in Steps(todo') => kind_of(t) \in Neutral \ {"routing"}
    BY <1>2, <1>3, <1>4, <1>6 DEF Neutral
  <2> QED BY <1>1, <1>8, <2>1, NeutralSteps DEF Neutral
<1> QED BY <1>9, <1>10, <1>11, <1>12 DEF IInv

LEMMA StabilizeKeeps ==
    ASSUME IInv, NEW s, NEW rest, Popped(todo, s, rest), s.op = "stabilize", Stabilize(rest),
           frame = NoFrame, UNCHANGED <<frame, activations, released, running>>
    PROVE  IInv'
<1> DEFINE z == step("stabilize")
<1>1. /\ UNCHANGED Undisturbed
      /\ UNCHANGED <<session, events, devices, activations, released, running, frame>>
  BY DEF Stabilize, tasks, sessions, Undisturbed
<1>2. kind_of(s) = "stabilize"
  BY DEF kind_of
<1>3. /\ rest \in Batches /\ Ordered(rest) /\ Steps(todo) = Steps(rest) \cup {s}
      /\ \A t \in Steps(rest) : t \in HandlerSteps /\ kind_of(t) \in {"insert", "release"}
  BY <1>2, AfterStep DEF IInv
<1>4. events \in Seq(Event)
  BY DEF IInv, TypeInv
<1>5. Among(events', events)
  BY <1>1, <1>4, AmongSame
<1>6. CASE current \in available_routes /\ todo' = rest /\ UNCHANGED router
  <2>1. UNCHANGED <<current, physical_keys>>
    BY <1>6 DEF router
  <2>2. TypeInv' /\ BoundInv'
    BY <1>1, <1>3, <1>5, <1>6, <2>1, QuietType DEF IInv, TypeInv
  <2>3. OrderInv'
    BY <1>1, <1>3, <1>6 DEF OrderInv
  <2>4. RouteInv'
    <3>1. \A t \in Steps(rest) : t.op \notin {"send", "sweep", "remove"}
      <4>1. ASSUME NEW t \in Steps(rest) PROVE t.op \notin {"send", "sweep", "remove"}
        <5>1. t \in HandlerSteps /\ kind_of(t) \in {"insert", "release"}
          BY <1>3
        <5>2. kind_of(t) = t.op
          BY <5>1, StepKinds
        <5> QED BY <5>1, <5>2
      <4> QED BY <4>1
    <3>2. current' \in available_routes'
      BY <1>1, <1>6, <2>1 DEF available_routes
    <3> QED BY <1>6, <3>1, <3>2 DEF RouteInv
  <2>5. DeviceInv' /\ ActivationInv' /\ LossInv' /\ KnownInv'
    <3>1. \A t : kind_of(t) \notin Neutral => (t \in Steps(todo') <=> t \in Steps(todo))
      BY <1>2, <1>3, <1>6 DEF Neutral
    <3>2. \A t \in Steps(todo') : kind_of(t) = "routing" => device_of(t) \in devices
      BY <1>3, <1>6
    <3> QED BY <1>1, <1>5, <3>1, <3>2, NeutralSteps
  <2> QED BY <2>2, <2>3, <2>4, <2>5 DEF IInv
<1>7. CASE retain_routes(available_routes) /\ todo' = handoff_actions \o stabilize \o rest
  <2>1. current' = 0 /\ UNCHANGED physical_keys
    BY <1>7 DEF retain_routes
  <2>2. RoutingTo(handoff_actions, devices)
    BY HandoffSteps DEF IInv
  <2>3. Does(stabilize, {z}) /\ kind_of(z) = "stabilize" /\ z.op = "stabilize"
    BY StabilizeStep DEF step
  <2> DEFINE h == handoff_actions
  <2> HIDE DEF h, z
  <2>4. Does(h, Steps(h)) /\ \A t \in Steps(h) : kind_of(t) = "routing" /\ device_of(t) \in devices
    BY <2>2 DEF h, RoutingTo, Does
  <2>5. Does(h \o stabilize, Steps(h) \cup {z})
    <3>1. \A t \in Steps(h), v \in {z} : Precedes(t, v)
      BY <2>3, <2>4 DEF Precedes
    <3> QED BY <2>3, <2>4, <3>1, DoesBoth
  <2>6. Does((h \o stabilize) \o rest, (Steps(h) \cup {z}) \cup Steps(rest))
    <3>1. \A t \in Steps(h) \cup {z}, v \in Steps(rest) : Precedes(t, v)
      BY <1>3, <2>3, <2>4 DEF Precedes
    <3>2. Does(rest, Steps(rest))
      BY <1>3 DEF Does
    <3> QED BY <2>5, <3>1, <3>2, DoesBoth
  <2>7. /\ todo' \in Batches /\ Ordered(todo')
        /\ \A t : t \in Steps(todo') <=> t \in Steps(h) \/ t = z \/ t \in Steps(rest)
    BY <1>7, <2>6 DEF Does, h
  <2>8. TypeInv' /\ BoundInv'
    BY <1>1, <1>5, <2>1, <2>7, QuietType DEF IInv, TypeInv
  <2>9. OrderInv'
    BY <1>1, <2>7 DEF OrderInv
  <2>10. RouteInv'
    BY <2>3, <2>7 DEF RouteInv
  <2>11. DeviceInv' /\ ActivationInv' /\ LossInv' /\ KnownInv'
    <3>1. \A t : kind_of(t) \notin Neutral => (t \in Steps(todo') <=> t \in Steps(todo))
      BY <1>2, <1>3, <2>3, <2>4, <2>7 DEF Neutral
    <3>2. \A t \in Steps(todo') : kind_of(t) = "routing" => device_of(t) \in devices
      BY <1>3, <2>3, <2>4, <2>7
    <3> QED BY <1>1, <1>5, <3>1, <3>2, NeutralSteps
  <2> QED BY <2>8, <2>9, <2>10, <2>11 DEF IInv
<1> QED BY <1>6, <1>7 DEF Stabilize

LEMMA DevicesPopped ==
    ASSUME IInv, NEW s, NEW rest, Popped(todo, s, rest), kind_of(s) \notin {"abort", "add"},
           todo' = rest, UNCHANGED <<task, activation_id, devices, activations>>,
           Among(events', events)
    PROVE  DeviceInv' /\ ActivationInv'
<1>1. /\ Steps(todo) = Steps(rest) \cup {s}
      /\ kind_of(s) = "create" => \A t \in Steps(rest) : kind_of(t) # "destroy"
  BY AfterStep DEF IInv
<1>2. /\ \A d : Pending(about("abort", d)) => Pending(about("abort", d))'
      /\ \A d : Pending(about("add", d)) => Pending(about("add", d))'
  BY <1>1, Kinds DEF Pending
<1>3. ASSUME NEW t \in Steps(todo')
      PROVE  /\ t \in Steps(todo)
             /\ kind_of(t) = "routing" => device_of(t) \in devices
             /\ kind_of(t) = "create" =>
                   device_of(t) \in devices \/ Pending(about("add", device_of(t)))'
             /\ kind_of(t) = "destroy" /\ device_of(t) \in devices =>
                   Pending(send(t.route, CreateDevice(device_of(t))))'
  <2>1. t \in Steps(todo)
    BY <1>1
  <2>2. CASE kind_of(t) = "destroy" /\ device_of(t) \in devices
    <3>1. Pending(send(t.route, CreateDevice(device_of(t))))
      BY <2>1, <2>2 DEF IInv, DeviceInv
    <3>2. kind_of(send(t.route, CreateDevice(device_of(t)))) = "create"
      BY Kinds
    <3> QED BY <1>1, <2>1, <2>2, <3>1, <3>2 DEF Pending
  <2>3. CASE kind_of(t) # "destroy" \/ device_of(t) \notin devices
    BY <1>2, <2>1, <2>3 DEF IInv, DeviceInv
  <2> QED BY <2>1, <2>2, <2>3
<1> QED BY <1>2, <1>3, DevicesKept

LEMMA OrderPopped ==
    ASSUME IInv, NEW s, NEW rest, Popped(todo, s, rest), todo' = rest, frame = NoFrame,
           UNCHANGED frame
    PROVE  /\ OrderInv'
           /\ todo' \in Batches
BY AfterStep DEF IInv, OrderInv

(* The steps after which nothing about tasks and clients changes.           *)
LEMMA QuietPopped ==
    ASSUME IInv, NEW s, NEW rest, Popped(todo, s, rest),
           kind_of(s) \in {"forget", "release"}, kind_of(s) = s.op,
           todo' = rest, frame = NoFrame, UNCHANGED frame,
           UNCHANGED Undisturbed,
           UNCHANGED <<current, events, devices, activations, running>>,
           physical_keys' \in [Device -> SUBSET Key], released' \in SUBSET (1 .. ACTIVATIONS)
    PROVE  IInv'
<1>1. UNCHANGED <<task, activation_id, commands, local_keys, session, queue, writers>>
  BY DEF Undisturbed
<1>2. events \in Seq(Event)
  BY DEF IInv, TypeInv
<1>3. Among(events', events)
  BY <1>2, AmongSame
<1>4. OrderInv' /\ todo' \in Batches
  BY OrderPopped
<1>5. TypeInv' /\ BoundInv'
  BY <1>3, <1>4, QuietType DEF IInv, TypeInv
<1>6. Steps(todo) = Steps(rest) \cup {s}
  BY AfterStep DEF IInv
<1>7. RouteInv'
  <2>1. available_routes' = available_routes
    BY <1>1 DEF available_routes
  <2> QED BY <1>6, <2>1, RoutePopped
<1>8. DeviceInv' /\ ActivationInv'
  BY <1>1, <1>3, DevicesPopped
<1>9. LossInv'
  <2>1. ResetAnswersLoss' /\ \A d : ResetCommanded(d)' <=> ResetCommanded(d)
    BY <1>1 DEF IInv, LossInv, ResetAnswersLoss, ResetCommanded
  <2>2. \A d : Pending(about("reset", d))' => Pending(about("reset", d))
    BY <1>6 DEF Pending
  <2> QED BY <1>1, <1>3, <2>1, <2>2, LossKept
<1>10. KnownInv'
  BY <1>1, <1>6, KnownKept
<1> QED BY <1>4, <1>5, <1>7, <1>8, <1>9, <1>10 DEF IInv

LEMMA ForgetKeeps ==
    ASSUME IInv, NEW s, NEW rest, Popped(todo, s, rest), s.op = "forget",
           Forget(s.device, rest),
           frame = NoFrame, UNCHANGED <<frame, activations, released, running>>
    PROVE  IInv'
<1>1. /\ UNCHANGED Undisturbed /\ todo' = rest
      /\ UNCHANGED <<current, session, events, devices, activations, released, running, frame>>
      /\ physical_keys' = [physical_keys EXCEPT ![s.device] = {}]
  BY DEF Forget, remove_device, tasks, sessions, Undisturbed
<1>2. physical_keys' \in [Device -> SUBSET Key]
  BY <1>1 DEF IInv, TypeInv
<1>3. kind_of(s) = "forget"
  BY DEF kind_of
<1>4. released' \in SUBSET (1 .. ACTIVATIONS)
  BY <1>1 DEF IInv, TypeInv
<1> QED BY <1>1, <1>2, <1>3, <1>4, QuietPopped

LEMMA ReleaseKeeps ==
    ASSUME IInv, NEW s, NEW rest, Popped(todo, s, rest), s.op = "release",
           Release(s.activation_id, rest),
           frame = NoFrame, UNCHANGED <<frame, activations, running>>
    PROVE  IInv'
<1>1. /\ UNCHANGED Undisturbed /\ todo' = rest
      /\ UNCHANGED <<current, physical_keys, session, events, devices, activations, running,
                     frame>>
      /\ released' = released \cup {s.activation_id}
  BY DEF Release, router, tasks, sessions, Undisturbed
<1>2. kind_of(s) = "release"
  BY DEF kind_of
<1>3. s.activation_id \in 1 .. ACTIVATIONS
  <2>1. s \in HandlerSteps
    BY AfterStep DEF IInv
  <2> QED BY <2>1, StepKinds
<1>4. released' \in SUBSET (1 .. ACTIVATIONS) /\ physical_keys' \in [Device -> SUBSET Key]
  BY <1>1, <1>3 DEF IInv, TypeInv
<1> QED BY <1>1, <1>2, <1>4, QuietPopped

LEMMA AbortKeeps ==
    ASSUME IInv, NEW s, NEW rest, Popped(todo, s, rest), s.op = "abort",
           Abort(s.device, rest),
           frame = NoFrame, UNCHANGED <<frame, activations, released, running>>
    PROVE  IInv'
<1> DEFINE d == s.device
<1>1. kind_of(s) = "abort" /\ device_of(s) = s.device
  BY DEF kind_of, device_of
<1>2. /\ s \in HandlerSteps /\ Steps(todo) = Steps(rest) \cup {s}
      /\ \A t \in Steps(rest) : \/ kind_of(t) \in {"stabilize", "release"}
                                \/ kind_of(t) = "forget" /\ device_of(t) = device_of(s)
  BY <1>1, AfterStep DEF IInv
<1>3. d \in Device /\ s = about("abort", d)
  BY <1>2, StepKinds
<1>4. d \notin devices /\ devices \subseteq Device
  BY <1>1, <1>2 DEF IInv, DeviceInv, TypeInv
<1>5. /\ task' = [task EXCEPT ![d] = "none"]
      /\ commands' = [commands EXCEPT ![d] = <<>>]
      /\ local_keys' = [local_keys EXCEPT ![d] = {}]
      /\ \/ ~waits(d) /\ UNCHANGED events
         \/ \E i \in DOMAIN events : waits_at(d, i) /\ events' = RemoveAt(events, i)
      /\ todo' = rest
      /\ UNCHANGED <<current, physical_keys, activation_id, session, queue, writers, devices,
                     frame, activations, released, running>>
  BY DEF Abort, abort, router, sessions
<1> HIDE DEF d
<1>6. /\ events \in Seq(Event) /\ task \in [Device -> TaskState]
      /\ commands \in [Device -> Seq(Command)] /\ local_keys \in [Device -> SUBSET Key]
  BY DEF IInv, TypeInv
<1>7. /\ task'[d] = "none" /\ commands'[d] = <<>>
      /\ \A e \in Device : e # d => task'[e] = task[e] /\ commands'[e] = commands[e]
  BY <1>3, <1>5, <1>6
<1>8. Among(events', events)
  BY <1>5, <1>6, AmongSame, AmongRemoved
<1>9. \A i \in DOMAIN events' : i > EVENTS => events'[i].device # d
  <2>1. CASE ~waits(d) /\ UNCHANGED events
    BY <2>1 DEF waits, waits_at
  <2>2. CASE \E n \in DOMAIN events : waits_at(d, n) /\ events' = RemoveAt(events, n)
    <3>1. PICK n \in DOMAIN events : waits_at(d, n) /\ events' = RemoveAt(events, n)
      BY <2>2
    <3>2. n > EVENTS /\ events[n].device = d /\ n \in Nat
      BY <1>6, <3>1 DEF waits_at
    <3>3. ASSUME NEW i \in DOMAIN events', i > EVENTS, events'[i].device = d
          PROVE  FALSE
      <4>1. /\ i \in Nat
            /\ i < n => i \in DOMAIN events /\ events'[i] = events[i]
            /\ i >= n => i + 1 \in DOMAIN events /\ events'[i] = events[i + 1]
        BY <1>6, <3>1, <3>3, RemovedAt
      <4>2. \A j \in DOMAIN events : j > EVENTS /\ events[j].device = d => j = n
        BY <3>2 DEF IInv, BoundInv
      <4>3. CASE i < n
        BY <3>3, <4>1, <4>2, <4>3
      <4>4. CASE i >= n
        <5>1. i + 1 > EVENTS /\ i + 1 # n
          BY <3>2, <3>3, <4>1, <4>4, ChannelAssumption
        <5> QED BY <3>3, <4>1, <4>2, <4>4, <5>1
      <4> QED BY <3>2, <4>1, <4>3, <4>4
    <3> QED BY <3>3
  <2> QED BY <1>5, <2>1, <2>2
<1>10. OrderInv' /\ todo' \in Batches
  BY <1>5, OrderPopped
<1>11. TypeInv'
  <2>1. task' \in [Device -> TaskState] /\ commands' \in [Device -> Seq(Command)]
    <3>1. "none" \in TaskState
      BY DEF TaskState
    <3>2. <<>> \in Seq(Command)
      OBVIOUS
    <3> QED BY <1>5, <1>6, <3>1, <3>2
  <2>2. local_keys' \in [Device -> SUBSET Key] /\ events' \in Seq(Event)
    BY <1>5, <1>6, <1>8 DEF Among
  <2> QED BY <1>5, <1>10, <2>1, <2>2 DEF IInv, TypeInv, Batches
<1>12. BoundInv'
  <2>1. ASSUME NEW i \in DOMAIN events', i > EVENTS
        PROVE  task'[events'[i].device] \in {"sending", "lost", "failed"}
    <3>1. task[events'[i].device] \in {"sending", "lost", "failed"}
      BY <1>8, <2>1, AmongBound DEF IInv
    <3>2. events'[i] \in Event
      BY <1>8 DEF Among
    <3>3. events'[i].device \in Device /\ events'[i].device # d
      BY <1>9, <2>1, <3>2 DEF Event
    <3> QED BY <1>7, <3>1, <3>3
  <2>2. \A i \in DOMAIN events' : i > EVENTS =>
           \A j \in DOMAIN events' :
              j > EVENTS /\ events'[j].device = events'[i].device => j = i
    BY <1>8, AmongBound DEF IInv
  <2>3. ASSUME NEW e \in Device
        PROVE  /\ Len(commands'[e]) <= COMMANDS
               /\ task'[e] \in {"none", "ended"} => commands'[e] = <<>>
    BY <1>7, ChannelAssumption DEF IInv, BoundInv
  <2> QED BY <1>5, <2>1, <2>2, <2>3 DEF IInv, BoundInv
<1>13. RouteInv'
  <2>1. available_routes' = available_routes
    BY <1>5 DEF available_routes
  <2> QED BY <1>1, <1>2, <1>5, <2>1, RoutePopped
<1>14. /\ \A e : ~Pending(about("abort", e))'
       /\ \A e : Pending(about("abort", e)) <=> e = d
  <2>1. \A e : about("abort", e) \notin Steps(rest)
    BY <1>2, Kinds
  <2>2. \A e : about("abort", e) = s <=> e = d
    BY <1>3 DEF about
  <2> QED BY <1>2, <1>5, <2>1, <2>2 DEF Pending
<1>15. DeviceInv'
  <2>1. \A e \in Device : task'[e] # "none" <=> e \in devices
    BY <1>4, <1>7, <1>14 DEF IInv, DeviceInv
  <2>2. ASSUME NEW t \in Steps(todo')
        PROVE  /\ kind_of(t) \in {"stabilize", "release", "forget"}
               /\ kind_of(t) = "forget" => device_of(t) \notin devices
    BY <1>2, <1>5 DEF IInv, DeviceInv
  <2> QED BY <1>5, <1>14, <2>1, <2>2 DEF DeviceInv
<1>16. ActivationInv'
  <2>1. \A e \in Device : task'[e] # "none" => task[e] # "none" /\ e # d
    BY <1>7
  <2>2. /\ \A e \in Device : task'[e] # "none" => activation_id[e] \in 1 .. activations
        /\ \A e, g \in Device :
              task'[e] # "none" /\ task'[g] # "none" /\ activation_id[e] = activation_id[g] => e = g
        /\ \A i \in DOMAIN events' : events'[i].activation_id <= activations
    BY <1>8, <2>1 DEF IInv, ActivationInv, Among
  <2>3. \A t \in Steps(todo') : t.op # "add"
    <3>1. \A t : t.op = "add" => kind_of(t) = "add"
      BY DEF kind_of
    <3> QED BY <1>2, <1>5, <3>1
  <2>4. ASSUME NEW t \in Steps(todo'), t.op = "release", NEW e \in Device,
               task'[e] # "none", activation_id[e] = t.activation_id
        PROVE  FALSE
    <3>1. t \in Steps(todo) /\ task[e] # "none" /\ e # d
      BY <1>2, <1>5, <2>1, <2>4
    <3>2. Pending(about("abort", e))
      BY <2>4, <3>1 DEF IInv, ActivationInv
    <3> QED BY <1>14, <3>1, <3>2
  <2> QED BY <1>5, <2>2, <2>3, <2>4 DEF ActivationInv
<1>17. LossInv'
  <2>1. ResetAnswersLoss'
    <3>1. ASSUME NEW e \in Device, NEW i \in DOMAIN commands'[e], commands'[e][i].kind = "reset"
          PROVE  /\ task'[e] \in {"lost", "resetting", "failed"}
                 /\ \A j \in DOMAIN commands'[e] : commands'[e][j].kind = "reset" => j = i
      <4>1. e # d
        BY <1>7, <3>1
      <4> QED BY <1>7, <3>1, <4>1 DEF IInv, LossInv, ResetAnswersLoss
    <3> QED BY <3>1 DEF ResetAnswersLoss
  <2>2. \A e \in devices : ResetCommanded(e)' <=> ResetCommanded(e)
    BY <1>4, <1>7 DEF ResetCommanded
  <2>3. \A e \in devices :
           /\ LossReported(e)' => LossReported(e)
           /\ (\A i, j \in DOMAIN events : lost_at(e, i) /\ lost_at(e, j) => i = j) =>
                 \A i, j \in DOMAIN events' : lost_at(e, i)' /\ lost_at(e, j)' => i = j
    BY <1>4, <1>5, <1>8, AmongLoss DEF IInv
  <2>4. \A e : ~Pending(about("reset", e))'
    BY <1>2, <1>5, Kinds DEF Pending
  <2>5. \A e \in devices : task'[e] = task[e]
    BY <1>4, <1>7
  <2> HIDE DEF ResetAnswersLoss
  <2> QED BY <1>5, <2>1, <2>2, <2>3, <2>4, <2>5 DEF IInv, LossInv
<1>18. KnownInv'
  BY <1>1, <1>2, <1>5, KnownKept
<1> QED BY <1>10, <1>11, <1>12, <1>13, <1>15, <1>16, <1>17, <1>18 DEF IInv

LEMMA LocalKeeps ==
    ASSUME IInv, NEW s, NEW rest, Popped(todo, s, rest), s.op = "local",
           Local(s.update, rest),
           frame = NoFrame, UNCHANGED <<frame, activations, released, running>>
    PROVE  IInv'
<1> DEFINE u == s.update
           d == u.device
<1>1. /\ s \in HandlerSteps /\ Steps(todo) = Steps(rest) \cup {s}
  BY AfterStep DEF IInv
<1>2. u \in Routing /\ kind_of(s) = "routing" /\ device_of(s) = d
  BY <1>1, StepKinds DEF device_of
<1>3. d \in devices /\ d \in Device
  BY <1>1, <1>2 DEF IInv, DeviceInv, TypeInv
<1>4. u \in Command /\ u.kind # "reset"
  BY <1>2 DEF Routing, Command
<1>5. /\ \/ UNCHANGED commands
         \/ /\ ~is_closed(d) /\ ~is_full(d)
            /\ commands' = [commands EXCEPT ![d] = Append(@, u)]
      /\ todo' = rest
      /\ UNCHANGED <<current, physical_keys, task, activation_id, local_keys, events, session,
                     queue, writers, devices, frame, activations, released, running>>
  BY <1>3 DEF Local, router, sessions
<1> HIDE DEF u, d
<1>6. /\ commands \in [Device -> Seq(Command)] /\ events \in Seq(Event)
  BY DEF IInv, TypeInv
<1>7. /\ commands' \in [Device -> Seq(Command)]
      /\ \A e \in Device : e # d => commands'[e] = commands[e]
      /\ \/ commands'[d] = commands[d]
         \/ /\ task[d] # "ended" /\ Len(commands[d]) < COMMANDS
            /\ commands'[d] = Append(commands[d], u)
  <2>1. CASE UNCHANGED commands
    BY <1>6, <2>1
  <2>2. CASE /\ ~is_closed(d) /\ ~is_full(d)
             /\ commands' = [commands EXCEPT ![d] = Append(@, u)]
    <3>1. Append(commands[d], u) \in Seq(Command)
      BY <1>3, <1>4, <1>6
    <3>2. Len(commands[d]) < COMMANDS
      BY <1>3, <1>6, <2>2, ChannelAssumption DEF is_full
    <3> QED BY <1>3, <1>6, <2>2, <3>1, <3>2 DEF is_closed
  <2> QED BY <1>5, <2>1, <2>2
<1>8. \A e \in Device : \A i \in DOMAIN commands'[e] :
          commands'[e][i].kind = "reset" =>
             i \in DOMAIN commands[e] /\ commands[e][i] = commands'[e][i]
  <2>1. CASE commands'[d] = commands[d]
    BY <1>7, <2>1
  <2>2. CASE commands'[d] = Append(commands[d], u)
    <3>1. \A i \in DOMAIN commands'[d] :
             (i \in DOMAIN commands[d] /\ commands[d][i] = commands'[d][i]) \/ commands'[d][i] = u
      BY <1>3, <1>4, <1>6, <2>2
    <3> QED BY <1>4, <1>7, <3>1
  <2> QED BY <1>7, <2>1, <2>2
<1>9. Among(events', events)
  BY <1>5, <1>6, AmongSame
<1>10. OrderInv' /\ todo' \in Batches
  BY <1>5, OrderPopped
<1>11. TypeInv'
  BY <1>5, <1>7, <1>10 DEF IInv, TypeInv, Batches
<1>12. BoundInv'
  <2>1. ASSUME NEW e \in Device
        PROVE  /\ Len(commands'[e]) <= COMMANDS
               /\ task[e] \in {"none", "ended"} => commands'[e] = <<>>
    <3>1. Len(commands[e]) <= COMMANDS /\ (task[e] \in {"none", "ended"} => commands[e] = <<>>)
      BY DEF IInv, BoundInv
    <3>2. CASE commands'[e] = commands[e]
      BY <3>1, <3>2
    <3>3. CASE e = d /\ commands'[d] = Append(commands[d], u)
               /\ task[d] # "ended" /\ Len(commands[d]) < COMMANDS
      <4>1. task[d] # "none"
        BY <1>3 DEF IInv, DeviceInv
      <4>2. Len(commands'[d]) = Len(commands[d]) + 1 /\ Len(commands[d]) \in Nat
        BY <1>3, <1>4, <1>6, <3>3
      <4> QED BY <3>3, <4>1, <4>2, ChannelAssumption
    <3> QED BY <1>7, <3>2, <3>3
  <2> QED BY <1>5, <2>1 DEF IInv, BoundInv
<1>13. RouteInv'
  <2>1. available_routes' = available_routes
    BY <1>5 DEF available_routes
  <2> QED BY <1>1, <1>2, <1>5, <2>1, RoutePopped
<1>14. DeviceInv' /\ ActivationInv'
  BY <1>2, <1>5, <1>9, DevicesPopped
<1>15. LossInv'
  <2>1. ResetAnswersLoss'
    BY <1>5, <1>8 DEF IInv, LossInv, ResetAnswersLoss
  <2>2. \A e \in Device : ResetCommanded(e)' => ResetCommanded(e)
    BY <1>8 DEF ResetCommanded
  <2>3. \A e : Pending(about("reset", e))' => Pending(about("reset", e))
    BY <1>1, <1>5 DEF Pending
  <2> QED BY <1>5, <1>9, <2>1, <2>2, <2>3, LossKept
<1>16. KnownInv'
  BY <1>1, <1>2, <1>5, KnownKept
<1> QED BY <1>10, <1>11, <1>12, <1>13, <1>14, <1>15, <1>16 DEF IInv

LEMMA OverflowKeeps ==
    ASSUME IInv, NEW u, Overflow(u)
    PROVE  IInv'
<1>1. /\ UNCHANGED <<current, physical_keys, task, activation_id, commands, local_keys, events,
                     session, queue, writers, devices, todo, frame, activations, released>>
      /\ running' = FALSE
  BY DEF Overflow, router, tasks, sessions
<1>2. TypeInv' /\ BoundInv'
  BY <1>1 DEF IInv, TypeInv, BoundInv
<1>3. DeviceInv' /\ ActivationInv' /\ LossInv'
  BY <1>1 DEF IInv, DeviceInv, Pending, ActivationInv, LossInv, LossReported, ResetCommanded,
              ResetAnswersLoss, lost_at
<1>4. OrderInv' /\ RouteInv' /\ KnownInv'
  BY <1>1, OrderSame, RouteSame, KnownSame DEF IInv
<1> QED BY <1>2, <1>3, <1>4 DEF IInv

(* A step concerns clients only.                                            *)
LEMMA ClientsPopped ==
    ASSUME IInv, NEW s, NEW rest, Popped(todo, s, rest), s.op \in {"send", "remove"},
           todo' = rest, frame = NoFrame, UNCHANGED frame,
           UNCHANGED <<router, tasks, devices, activations, released, running>>,
           session' \in [Client -> {"vacant", "open", "closed"}],
           queue' \in [Client -> Seq(ToClient)], writers' = [c \in Client |-> writers'[c]],
           \A c \in Client :
              /\ DOMAIN writers'[c] \subseteq Device
              /\ Len(queue'[c]) <= QUEUE
              /\ session'[c] = "vacant" => queue'[c] = <<>> /\ writers'[c] = none,
           KnownInv'
    PROVE  IInv'
<1>1. UNCHANGED <<current, physical_keys, task, activation_id, commands, local_keys, events,
                  devices, frame, activations, released, running>>
  BY DEF router, tasks
<1>2. /\ s \in HandlerSteps /\ Steps(todo) = Steps(rest) \cup {s}
  BY AfterStep DEF IInv
<1>3. kind_of(s) \in {"routing", "create", "destroy", "remove"}
  BY <1>2, StepKinds
<1>4. OrderInv' /\ todo' \in Batches
  BY OrderPopped
<1>5. events \in Seq(Event)
  BY DEF IInv, TypeInv
<1>6. Among(events', events)
  BY <1>1, <1>5, AmongSame
<1>7. TypeInv'
  BY <1>1, <1>4 DEF IInv, TypeInv, Batches
<1>8. BoundInv'
  BY <1>1 DEF IInv, BoundInv
<1>9. RouteInv'
  BY <1>2, <1>3, RoutePopped
<1>10. DeviceInv' /\ ActivationInv'
  BY <1>1, <1>3, <1>6, DevicesPopped
<1>11. LossInv'
  <2>1. ResetAnswersLoss' /\ \A d : ResetCommanded(d)' <=> ResetCommanded(d)
    BY <1>1 DEF IInv, LossInv, ResetAnswersLoss, ResetCommanded
  <2>2. \A d : Pending(about("reset", d))' => Pending(about("reset", d))
    BY <1>2 DEF Pending
  <2> QED BY <1>1, <1>6, <2>1, <2>2, LossKept
<1> QED BY <1>4, <1>7, <1>8, <1>9, <1>10, <1>11 DEF IInv

LEMMA ClientGone ==
    ASSUME IInv, NEW s, NEW rest, Popped(todo, s, rest), NEW c \in Client,
           s.op = "remove" \/ (s.op = "send" /\ s.route = c),
           remove_clients({c}),
           todo' = rest, frame = NoFrame, UNCHANGED frame,
           UNCHANGED <<router, tasks, devices, activations, released, running>>
    PROVE  IInv'
<1>1. /\ session \in [Client -> {"vacant", "open", "closed"}] /\ queue \in [Client -> Seq(ToClient)]
      /\ \A e \in Client : DOMAIN writers[e] \subseteq Device
  BY DEF IInv, TypeInv
<1>2. /\ session' = [e \in Client |-> IF e = c THEN "vacant" ELSE session[e]]
      /\ queue' = [e \in Client |-> IF e = c THEN <<>> ELSE queue[e]]
      /\ writers' = [e \in Client |-> IF e = c THEN none ELSE writers[e]]
  BY DEF remove_clients
<1>3. /\ session'[c] = "vacant" /\ queue'[c] = <<>> /\ writers'[c] = none
      /\ \A e \in Client : e # c => /\ session'[e] = session[e] /\ queue'[e] = queue[e]
                                    /\ writers'[e] = writers[e]
  BY <1>2
<1>4. /\ session' \in [Client -> {"vacant", "open", "closed"}]
      /\ writers' = [e \in Client |-> writers'[e]]
  BY <1>1, <1>2
<1>5. queue' \in [Client -> Seq(ToClient)]
  <2>1. <<>> \in Seq(ToClient)
    OBVIOUS
  <2> QED BY <1>1, <1>2, <2>1
<1>6. ASSUME NEW e \in Client
      PROVE  /\ DOMAIN writers'[e] \subseteq Device
             /\ Len(queue'[e]) <= QUEUE
             /\ session'[e] = "vacant" => queue'[e] = <<>> /\ writers'[e] = none
  <2>1. DOMAIN none = {}
    BY DEF none
  <2> QED BY <1>1, <1>3, <2>1, ClientAssumption DEF IInv, BoundInv
<1>7. KnownInv'
  <2>1. Steps(todo) = Steps(rest) \cup {s}
    BY AfterStep DEF IInv
  <2>2. /\ \A d : Pending(about("add", d))' <=> Pending(about("add", d))
        /\ \A e, d : e # c =>
              /\ Pending(send(e, CreateDevice(d)))' <=> Pending(send(e, CreateDevice(d)))
              /\ Pending(send(e, DestroyDevice(d)))' <=> Pending(send(e, DestroyDevice(d)))
    <3>1. /\ \A d : about("add", d).op = "add"
          /\ \A e, u : send(e, u).op = "send" /\ send(e, u).route = e
      BY DEF about, send
    <3> QED BY <2>1, <3>1 DEF Pending
  <2>3. \A e \in Client : e # c => told(e)' = told(e)
    BY <1>3 DEF told
  <2>4. ASSUME NEW e \in Client, session'[e] # "vacant"
        PROVE  e # c /\ session[e] # "vacant"
    BY <1>3, <2>4
  <2>5. \A e \in Client : session'[e] # "vacant" => Acceptable(writers'[e], queue'[e])
    BY <1>3, <2>4 DEF IInv, KnownInv
  <2> QED BY <2>2, <2>3, <2>4, <2>5 DEF IInv, KnownInv
<1> QED BY <1>4, <1>5, <1>6, <1>7, ClientsPopped

LEMMA SendKeeps ==
    ASSUME IInv, NEW s, NEW rest, Popped(todo, s, rest), s.op = "send",
           Send(s.route, s.update, rest),
           frame = NoFrame, UNCHANGED <<frame, activations, released, running>>
    PROVE  IInv'
<1> DEFINE c == s.route
           u == s.update
           d == u.device
<1>1. /\ s \in HandlerSteps /\ Steps(todo) = Steps(rest) \cup {s}
      /\ kind_of(s) = "routing" => \A t \in Steps(rest) :
            kind_of(t) \in {"routing", "stabilize", "insert", "release"}
      /\ kind_of(s) = "create" => \A t \in Steps(rest) : t # s /\
            \/ kind_of(t) \in {"create", "stabilize"}
            \/ kind_of(t) \in {"add", "reset"} /\ device_of(t) = device_of(s)
      /\ kind_of(s) = "destroy" => \A t \in Steps(rest) : t # s /\
            \/ kind_of(t) \in {"stabilize", "release"}
            \/ kind_of(t) \in {"destroy", "create", "reset", "abort", "forget"}
                  /\ device_of(t) = device_of(s)
  BY AfterStep DEF IInv
<1>2. /\ c \in Client /\ u \in ToClient /\ kind_of(s) \in {"routing", "create", "destroy"}
      /\ device_of(s) = d /\ d \in Device
      /\ kind_of(s) = "create" => s = send(c, CreateDevice(d))
      /\ kind_of(s) = "destroy" => s = send(c, DestroyDevice(d))
  BY <1>1, StepKinds DEF device_of
<1>3. /\ kind_of(s) \in {"create", "destroy"} => u.kind = kind_of(s)
      /\ kind_of(s) = "routing" => u.kind \in {"events", "keys"}
  <2>1. u.kind \in {"create", "destroy", "events", "keys"}
    BY <1>2 DEF ToClient, Update
  <2> QED BY <2>1 DEF kind_of
<1>4. todo' = rest /\ UNCHANGED <<router, tasks, devices, activations, released, running>>
  BY DEF Send
<1>5. CASE remove_clients({c})
  BY <1>2, <1>4, <1>5, ClientGone
<1>6. CASE /\ session[c] = "open" /\ Len(queue[c]) < QUEUE
           /\ queue' = [queue EXCEPT ![c] = Append(@, u)]
           /\ UNCHANGED <<session, writers>>
  <2> HIDE DEF c, u, d
  <2>1. /\ session \in [Client -> {"vacant", "open", "closed"}]
        /\ queue \in [Client -> Seq(ToClient)] /\ writers = [e \in Client |-> writers[e]]
        /\ \A e \in Client : DOMAIN writers[e] \subseteq Device
    BY DEF IInv, TypeInv
  <2>2. Append(queue[c], u) \in Seq(ToClient) /\ Len(Append(queue[c], u)) = Len(queue[c]) + 1
        /\ Len(queue[c]) \in Nat
    BY <1>2, <2>1
  <2>3. /\ queue' \in [Client -> Seq(ToClient)] /\ queue'[c] = Append(queue[c], u)
        /\ \A e \in Client : e # c => queue'[e] = queue[e]
    BY <1>2, <1>6, <2>1, <2>2
  <2>4. ASSUME NEW e \in Client
        PROVE  /\ DOMAIN writers'[e] \subseteq Device
               /\ Len(queue'[e]) <= QUEUE
               /\ session'[e] = "vacant" => queue'[e] = <<>> /\ writers'[e] = none
    <3>1. /\ Len(queue[e]) <= QUEUE
          /\ session[e] = "vacant" => queue[e] = <<>> /\ writers[e] = none
      BY DEF IInv, BoundInv
    <3> QED BY <1>6, <2>1, <2>2, <2>3, <3>1, ClientAssumption
  <2>5. KnownInv'
    <3> DEFINE destroyed(e, f) == Pending(send(e, DestroyDevice(f)))
               created(e, f)   == Pending(send(e, CreateDevice(f)))
               added(f)        == Pending(about("add", f))
    <3>1. /\ \A e \in Client : session[e] # "vacant" => Acceptable(writers[e], queue[e])
          /\ \A e \in Client, f \in Device : session[e] # "vacant" =>
                /\ destroyed(e, f) => f \in told(e)
                /\ created(e, f) /\ ~destroyed(e, f) => f \notin told(e)
                /\ ~created(e, f) /\ ~destroyed(e, f) =>
                      (f \in told(e) <=> f \in devices \/ added(f))
      BY DEF IInv, KnownInv
    <3>2. told(c)' = known_after(told(c), u)
      <4>1. DOMAIN carry(writers[c], Append(queue[c], u))
              = known_after(DOMAIN carry(writers[c], queue[c]), u)
        BY <1>2, <2>1, ToldAppend
      <4> QED BY <1>6, <2>3, <4>1 DEF told
    <3>3. \A e \in Client : e # c => told(e)' = told(e)
      BY <1>6, <2>3 DEF told
    <3>4. \A f : added(f)' <=> added(f)
      <4>1. \A f : about("add", f) # s
        BY <1>2, Kinds
      <4> QED BY <1>1, <1>4, <4>1 DEF Pending
    <3>5. \A e, f : /\ destroyed(e, f) <=> destroyed(e, f)' \/ s = send(e, DestroyDevice(f))
                    /\ created(e, f) <=> created(e, f)' \/ s = send(e, CreateDevice(f))
      BY <1>1, <1>4 DEF Pending
    <3>6. \A e, f : s \in {send(e, DestroyDevice(f)), send(e, CreateDevice(f))} =>
                       e = c /\ f = d
      <4>1. \A e, v : send(e, v).route = e /\ send(e, v).update = v
        BY DEF send
      <4>2. \A f : CreateDevice(f).device = f /\ DestroyDevice(f).device = f
        BY DEF CreateDevice, DestroyDevice
      <4> QED BY <4>1, <4>2 DEF c, d, u
    <3>7. \A e, f : e # c \/ f # d =>
             (destroyed(e, f)' <=> destroyed(e, f)) /\ (created(e, f)' <=> created(e, f))
      BY <3>5, <3>6
    <3>8. \A e, f : s = send(e, DestroyDevice(f)) => kind_of(s) = "destroy"
      BY Kinds
    <3>9. \A e, f : s = send(e, CreateDevice(f)) => kind_of(s) = "create"
      BY Kinds
    <3>10. /\ \A e, f : kind_of(send(e, DestroyDevice(f))) = "destroy"
           /\ \A e, f : kind_of(send(e, CreateDevice(f))) = "create"
           /\ \A f : kind_of(about("add", f)) = "add"
      BY Kinds
    <3>11. \A f \in Device : f # d => (f \in told(c)' <=> f \in told(c))
      BY <3>2 DEF known_after, d
    <3>12. CASE kind_of(s) = "routing"
      <4>1. \A e, f : ~destroyed(e, f) /\ ~created(e, f)
        BY <1>1, <3>10, <3>12 DEF Pending
      <4>2. d \in devices
        BY <1>1, <1>2, <3>12 DEF IInv, DeviceInv
      <4>3. d \in told(c)
        BY <1>2, <1>6, <3>1, <4>1, <4>2
      <4>4. accepts(carry(writers[c], queue[c]), u)
        BY <1>3, <3>12, <4>3 DEF accepts, told, d
      <4>5. Acceptable(writers[c], Append(queue[c], u))
        BY <1>2, <1>6, <2>1, <3>1, <4>4, AcceptableAppend
      <4>6. told(c)' = told(c)
        BY <1>3, <3>2, <3>12 DEF known_after
      <4>7. \A e, f : ~destroyed(e, f)' /\ ~created(e, f)'
        BY <3>5, <4>1
      <4>8. \A e \in Client : told(e)' = told(e)
        BY <3>3, <4>6
      <4>9. \A e \in Client : session[e] # "vacant" => Acceptable(writers[e], queue'[e])
        BY <2>3, <3>1, <4>5
      <4> HIDE DEF destroyed, created, added
      <4> QED BY <1>4, <1>6, <3>1, <3>4, <4>1, <4>7, <4>8, <4>9
              DEF KnownInv, destroyed, created, added
    <3>13. CASE kind_of(s) = "create"
      <4>1. \A e, f : ~destroyed(e, f)
        BY <1>1, <3>10, <3>13 DEF Pending
      <4>2. created(c, d)
        BY <1>1, <1>2, <3>13 DEF Pending
      <4>3. d \notin told(c)
        BY <1>2, <1>6, <3>1, <4>1, <4>2
      <4>4. accepts(carry(writers[c], queue[c]), u)
        BY <1>3, <3>13, <4>3 DEF accepts, told, d
      <4>5. Acceptable(writers[c], Append(queue[c], u))
        BY <1>2, <1>6, <2>1, <3>1, <4>4, AcceptableAppend
      <4>6. d \in told(c)'
        BY <1>3, <3>2, <3>13 DEF known_after, d
      <4>7. d \in devices \/ added(d)
        BY <1>1, <1>2, <3>13 DEF IInv, DeviceInv
      <4>8. ~created(c, d)' /\ \A e, f : ~destroyed(e, f)'
        <5>1. s = send(c, CreateDevice(d)) /\ s \notin Steps(rest)
          BY <1>1, <1>2, <3>13
        <5> QED BY <1>4, <3>5, <4>1, <5>1 DEF Pending
      <4>9. \A e \in Client : session[e] # "vacant" => Acceptable(writers[e], queue'[e])
        BY <2>3, <3>1, <4>5
      <4>10. ASSUME NEW e \in Client, NEW f \in Device, session[e] # "vacant"
             PROVE  /\ created(e, f)' => f \notin told(e)'
                    /\ ~created(e, f)' => (f \in told(e)' <=> f \in devices \/ added(f)')
        <5>1. CASE e = c /\ f = d
          BY <3>4, <4>6, <4>7, <4>8, <5>1
        <5>2. CASE ~(e = c /\ f = d)
          <6>1. f \in told(e)' <=> f \in told(e)
            BY <3>3, <3>11, <5>2
          <6>2. created(e, f)' <=> created(e, f)
            BY <3>7, <5>2
          <6> HIDE DEF created, destroyed, added
          <6> QED BY <3>1, <3>4, <4>1, <4>10, <6>1, <6>2
        <5> QED BY <5>1, <5>2
      <4> HIDE DEF destroyed, created, added
      <4> QED BY <1>4, <1>6, <4>8, <4>9, <4>10 DEF KnownInv, destroyed, created, added
    <3>14. CASE kind_of(s) = "destroy"
      <4>1. destroyed(c, d)
        BY <1>1, <1>2, <3>14 DEF Pending
      <4>2. d \in told(c)
        BY <1>2, <1>6, <3>1, <4>1
      <4>3. accepts(carry(writers[c], queue[c]), u)
        BY <1>3, <3>14, <4>2 DEF accepts, told, d
      <4>4. Acceptable(writers[c], Append(queue[c], u))
        BY <1>2, <1>6, <2>1, <3>1, <4>3, AcceptableAppend
      <4>5. d \notin told(c)'
        BY <1>3, <3>2, <3>14 DEF known_after, d
      <4>6. ~destroyed(c, d)' /\ \A f : ~added(f)
        <5>1. s = send(c, DestroyDevice(d)) /\ s \notin Steps(rest)
          BY <1>1, <1>2, <3>14
        <5> QED BY <1>1, <1>4, <3>10, <3>14, <5>1 DEF Pending
      <4>7. d \in devices => created(c, d)'
        <5>1. d \in devices => created(c, d)
          BY <1>1, <1>2, <3>14 DEF IInv, DeviceInv, c
        <5>2. s # send(c, CreateDevice(d))
          BY <3>9, <3>14
        <5> QED BY <3>5, <5>1, <5>2
      <4>8. \A e \in Client : session[e] # "vacant" => Acceptable(writers[e], queue'[e])
        BY <2>3, <3>1, <4>4
      <4>9. ASSUME NEW e \in Client, NEW f \in Device, session[e] # "vacant"
            PROVE  /\ destroyed(e, f)' => f \in told(e)'
                   /\ created(e, f)' /\ ~destroyed(e, f)' => f \notin told(e)'
                   /\ ~created(e, f)' /\ ~destroyed(e, f)' =>
                         (f \in told(e)' <=> f \in devices \/ added(f)')
        <5>1. CASE e = c /\ f = d
          BY <3>4, <4>5, <4>6, <4>7, <5>1
        <5>2. CASE ~(e = c /\ f = d)
          <6>1. f \in told(e)' <=> f \in told(e)
            BY <3>3, <3>11, <5>2
          <6>2. (created(e, f)' <=> created(e, f)) /\ (destroyed(e, f)' <=> destroyed(e, f))
            BY <3>7, <5>2
          <6> HIDE DEF created, destroyed, added
          <6> QED BY <3>1, <3>4, <4>9, <6>1, <6>2
        <5> QED BY <5>1, <5>2
      <4> HIDE DEF destroyed, created, added
      <4> QED BY <1>4, <1>6, <4>8, <4>9 DEF KnownInv, destroyed, created, added
    <3> QED BY <1>2, <3>12, <3>13, <3>14
  <2> QED BY <1>4, <1>6, <2>1, <2>3, <2>4, <2>5, ClientsPopped
<1> QED BY <1>5, <1>6 DEF Send, try_send_update

LEMMA RemoveClientKeeps ==
    ASSUME IInv, NEW s, NEW rest, Popped(todo, s, rest), s.op = "remove",
           RemoveClient(s.client, rest),
           frame = NoFrame, UNCHANGED <<frame, activations, released, running>>
    PROVE  IInv'
<1>1. s.client \in Client
  <2>1. s \in HandlerSteps
    BY AfterStep DEF IInv
  <2> QED BY <2>1, StepKinds
<1> QED BY <1>1, ClientGone DEF RemoveClient

(* A new client is told of the devices there are.                           *)
LEMMA InsertKeeps ==
    ASSUME IInv, NEW s, NEW rest, Popped(todo, s, rest), s.op = "insert", Insert(rest),
           frame = NoFrame, UNCHANGED <<frame, activations, released, running>>
    PROVE  IInv'
<1>1. kind_of(s) = "insert"
  BY DEF kind_of
<1>2. Steps(todo) = Steps(rest) \cup {s} /\ Steps(rest) = {} /\ rest \in Batches
  BY <1>1, AfterStep DEF IInv
<1>3. PICK c \in Client :
          /\ insert_client(c)
          /\ todo' = batch({send(c, CreateDevice(d)) : d \in devices}) \o stabilize \o rest
  BY DEF Insert
<1>4. /\ UNCHANGED <<current, physical_keys, task, activation_id, commands, local_keys, events,
                     queue, writers, devices, frame, activations, released, running>>
  BY <1>3 DEF Insert, insert_client, router, tasks
<1>5. PICK state \in {"open", "closed"} : session' = [session EXCEPT ![c] = state]
  BY <1>3 DEF insert_client
<1>6. /\ session[c] = "vacant" /\ session \in [Client -> {"vacant", "open", "closed"}]
      /\ devices \subseteq Device /\ events \in Seq(Event)
  BY <1>3 DEF insert_client, IInv, TypeInv
<1>7. /\ session'[c] # "vacant" /\ \A e \in Client : e # c => session'[e] = session[e]
      /\ session' \in [Client -> {"vacant", "open", "closed"}]
  BY <1>5, <1>6
<1> DEFINE X == {send(c, CreateDevice(d)) : d \in devices}
           z == step("stabilize")
<1>8. \A t \in X : /\ t \in HandlerSteps /\ kind_of(t) = "create" /\ device_of(t) \in devices
                   /\ t.route = c
  <2>1. ASSUME NEW d \in devices
        PROVE  LET t == send(c, CreateDevice(d))
               IN  /\ t \in HandlerSteps /\ kind_of(t) = "create" /\ device_of(t) = d
                   /\ t.route = c
    <3>1. send(c, CreateDevice(d)).route = c
      BY DEF send
    <3> QED BY <1>6, <3>1, Typed, Kinds
  <2> QED BY <2>1
<1>9. \A d \in devices : send(c, CreateDevice(d)) \in X
  OBVIOUS
<1>10. todo' = batch(X) \o stabilize
  <2>1. rest = <<>>
    BY <1>2, NoStepsLeft
  <2>2. stabilize \o <<>> = stabilize
    BY DEF stabilize
  <2>3. stabilize \in Batches
    BY StabilizeStep DEF Does
  <2>4. batch(X) \in Batches
    BY <1>8, StepsOfBatch, X \in SUBSET HandlerSteps
  <2> HIDE DEF X
  <2>5. (batch(X) \o stabilize) \o <<>> = batch(X) \o stabilize
    <3>1. batch(X) \o stabilize \in Batches
      BY <2>3, <2>4, StepsOfConcat
    <3> QED BY <3>1 DEF Batches
  <2> QED BY <1>3, <2>1, <2>5 DEF X
<1> HIDE DEF X, z
<1>11. Does(stabilize, {z}) /\ kind_of(z) = "stabilize" /\ z.op = "stabilize"
  BY StabilizeStep DEF step, z
<1>12. Does(todo', X \cup {z})
  <2>1. Does(batch(X), X)
    BY <1>8, DoesBatch, X \in SUBSET HandlerSteps DEF Alike
  <2>2. \A t \in X, v \in {z} : Precedes(t, v)
    BY <1>8, <1>11 DEF Precedes
  <2>3. Does(batch(X) \o stabilize, X \cup {z})
    BY <1>11, <2>1, <2>2, DoesBoth
  <2> QED BY <1>10, <2>3
<1>13. /\ todo' \in Batches /\ Ordered(todo')
       /\ \A t : t \in Steps(todo') <=> t \in X \/ t = z
  BY <1>12 DEF Does
<1>14. Among(events', events)
  BY <1>4, <1>6, AmongSame
<1>15. TypeInv'
  BY <1>4, <1>7, <1>13 DEF IInv, TypeInv, Batches
<1>16. BoundInv'
  BY <1>4, <1>7 DEF IInv, BoundInv
<1>17. OrderInv'
  BY <1>4, <1>13 DEF OrderInv
<1>18. RouteInv'
  BY <1>11, <1>13 DEF RouteInv
<1>19. \A t : t \in Steps(todo) => kind_of(t) = "insert"
  BY <1>1, <1>2
<1>20. DeviceInv' /\ ActivationInv'
  <2>1. \A t \in Steps(todo') : \/ kind_of(t) = "create" /\ device_of(t) \in devices
                                \/ kind_of(t) = "stabilize"
    BY <1>8, <1>11, <1>13
  <2>2. \A d : ~Pending(about("abort", d))
    BY <1>19, Kinds DEF Pending
  <2> QED BY <1>4, <1>14, <2>1, <2>2, DevicesKept
<1>21. LossInv'
  <2>1. ResetAnswersLoss' /\ \A d : ResetCommanded(d)' <=> ResetCommanded(d)
    BY <1>4 DEF IInv, LossInv, ResetAnswersLoss, ResetCommanded
  <2>2. \A d : ~Pending(about("reset", d))'
    BY <1>8, <1>11, <1>13, Kinds DEF Pending
  <2> QED BY <1>4, <1>14, <2>1, <2>2, LossKept
<1>22. KnownInv'
  <2>1. /\ \A d : ~Pending(about("add", d)) /\ ~Pending(about("add", d))'
        /\ \A e, d : ~Pending(send(e, DestroyDevice(d))) /\ ~Pending(send(e, DestroyDevice(d)))'
        /\ \A e, d : ~Pending(send(e, CreateDevice(d)))
    BY <1>8, <1>11, <1>13, <1>19, Kinds DEF Pending
  <2>2. \A e, d : Pending(send(e, CreateDevice(d)))' <=> e = c /\ d \in devices
    <3>1. \A e, d : send(e, CreateDevice(d)).route = e
      BY DEF send
    <3> QED BY <1>8, <1>9, <1>11, <1>13, <3>1, Kinds DEF Pending
  <2>3. queue[c] = <<>> /\ writers[c] = none
    BY <1>6 DEF IInv, BoundInv
  <2>4. told(c)' = {}
    <3>1. carry(none, <<>>) = none
      BY ToldEmpty
    <3> QED BY <1>4, <2>3, <3>1 DEF told, none
  <2>5. Acceptable(writers[c], queue[c])
    BY <2>3 DEF Acceptable
  <2>6. \A e \in Client : told(e)' = told(e)
    BY <1>4 DEF told
  <2>7. ASSUME NEW e \in Client, session'[e] # "vacant"
        PROVE  /\ Acceptable(writers[e], queue[e])
               /\ \A d \in Device :
                     /\ Pending(send(e, CreateDevice(d)))' => d \notin told(e)'
                     /\ ~Pending(send(e, CreateDevice(d)))' => (d \in told(e)' <=> d \in devices)
    <3>1. CASE e = c
      BY <2>2, <2>4, <2>5, <3>1
    <3>2. CASE e # c
      <4>1. session[e] # "vacant"
        BY <1>7, <2>7, <3>2
      <4> QED BY <2>1, <2>2, <2>6, <3>2, <4>1 DEF IInv, KnownInv
    <3> QED BY <3>1, <3>2
  <2> QED BY <1>4, <2>1, <2>7 DEF KnownInv
<1> QED BY <1>15, <1>16, <1>17, <1>18, <1>20, <1>21, <1>22 DEF IInv

(* What add and reset do last, when nothing else is left to be done.        *)
LEMMA RecoveryOrder ==
    ASSUME TypeInv, NEW d \in Device, recovery_keys(d)' \in SUBSET Key,
           NEW rest \in Batches, Steps(rest) = {},
           NEW t, t = recovery_actions(d) \o stabilize \o rest
    PROVE  /\ t \in Batches /\ Ordered(t)
           /\ step("stabilize") \in Steps(t)
           /\ \A s \in Steps(t) : \/ kind_of(s) = "routing" /\ device_of(s) = d
                                  \/ s = step("stabilize") /\ kind_of(s) = "stabilize"
<1> DEFINE h == recovery_actions(d)
           z == step("stabilize")
<1>1. RoutingTo(h, {d})
  BY RecoverySteps
<1>2. Does(stabilize, {z}) /\ kind_of(z) = "stabilize"
  BY StabilizeStep
<1>3. rest = <<>>
  BY NoStepsLeft
<1> HIDE DEF h, z
<1>4. Does(h, Steps(h)) /\ \A s \in Steps(h) : kind_of(s) = "routing" /\ device_of(s) = d
  BY <1>1 DEF RoutingTo, Does
<1>5. Does(h \o stabilize, Steps(h) \cup {z})
  <2>1. \A s \in Steps(h), v \in {z} : Precedes(s, v)
    BY <1>2, <1>4 DEF Precedes
  <2> QED BY <1>2, <1>4, <2>1, DoesBoth
<1>6. (h \o stabilize) \o <<>> = h \o stabilize
  BY <1>5 DEF Does, Batches
<1>7. t = h \o stabilize
  BY <1>3, <1>6 DEF h
<1>8. Does(t, Steps(h) \cup {z})
  BY <1>5, <1>7
<1> QED BY <1>2, <1>4, <1>8 DEF Does, z

LEMMA AddKeeps ==
    ASSUME IInv, NEW s, NEW rest, Popped(todo, s, rest), s.op = "add", Add(s.device, rest),
           frame = NoFrame, UNCHANGED <<frame, activations, released, running>>
    PROVE  IInv'
<1> DEFINE d == s.device
           z == step("stabilize")
<1>1. kind_of(s) = "add" /\ device_of(s) = d
  BY DEF kind_of, device_of
<1>2. /\ s \in HandlerSteps /\ Steps(todo) = Steps(rest) \cup {s} /\ Steps(rest) = {}
      /\ rest \in Batches
  BY <1>1, AfterStep DEF IInv
<1>3. d \in Device /\ s = about("add", d)
  BY <1>2, StepKinds
<1>4. PICK pressed \in SUBSET Key : add_device(d, pressed)
  BY DEF Add
<1>5. /\ task' = [task EXCEPT ![d] = "reading"]
      /\ activation_id' = [activation_id EXCEPT ![d] = activations]
      /\ devices' = devices \cup {d}
      /\ physical_keys' = [physical_keys EXCEPT ![d] = pressed]
      /\ todo' = recovery_actions(d) \o stabilize \o rest
      /\ UNCHANGED <<current, commands, local_keys, events, session, queue, writers, frame,
                     activations, released, running>>
  BY <1>4 DEF Add, spawn, add_device, sessions
<1> HIDE DEF d
<1>6. /\ task \in [Device -> TaskState] /\ activation_id \in [Device -> 0 .. ACTIVATIONS]
      /\ physical_keys \in [Device -> SUBSET Key] /\ activations \in 0 .. ACTIVATIONS
      /\ devices \subseteq Device /\ events \in Seq(Event)
  BY DEF IInv, TypeInv
<1>7. /\ physical_keys' \in [Device -> SUBSET Key] /\ recovery_keys(d)' \in SUBSET Key
  BY <1>3, <1>5, <1>6 DEF recovery_keys
<1>8. /\ todo' \in Batches /\ Ordered(todo') /\ z \in Steps(todo')
      /\ \A t \in Steps(todo') : \/ kind_of(t) = "routing" /\ device_of(t) = d
                                 \/ t = z /\ kind_of(t) = "stabilize"
  BY <1>2, <1>3, <1>5, <1>7, RecoveryOrder DEF IInv
<1> HIDE DEF z
<1>9. /\ d \notin devices /\ activations > 0
      /\ \A e \in Device : task[e] # "none" => activation_id[e] # activations
      /\ \A i \in DOMAIN events : events[i].activation_id # activations
  BY <1>1, <1>2 DEF IInv, DeviceInv, ActivationInv
<1>10. /\ \A e : Pending(about("add", e)) <=> e = d
       /\ \A e : ~Pending(about("abort", e)) /\ ~Pending(about("reset", e))
       /\ \A c, e : ~Pending(send(c, CreateDevice(e))) /\ ~Pending(send(c, DestroyDevice(e)))
  <2>1. \A t : Pending(t) <=> t = s
    BY <1>2 DEF Pending
  <2>2. \A e : about("add", e) = s <=> e = d
    BY <1>3 DEF about
  <2> QED BY <1>1, <2>1, <2>2, Kinds
<1>11. /\ \A e : /\ ~Pending(about("add", e))' /\ ~Pending(about("abort", e))'
                 /\ ~Pending(about("reset", e))'
       /\ \A c, e : ~Pending(send(c, CreateDevice(e)))' /\ ~Pending(send(c, DestroyDevice(e)))'
  BY <1>8, Kinds DEF Pending
<1>12. task[d] = "none"
  BY <1>3, <1>9, <1>10 DEF IInv, DeviceInv
<1>13. /\ task'[d] = "reading" /\ activation_id'[d] = activations
       /\ \A e \in Device : e # d => task'[e] = task[e] /\ activation_id'[e] = activation_id[e]
  BY <1>3, <1>5, <1>6
<1>14. commands[d] = <<>>
  BY <1>3, <1>12 DEF IInv, BoundInv
<1>15. TypeInv'
  <2>1. task' \in [Device -> TaskState] /\ activation_id' \in [Device -> 0 .. ACTIVATIONS]
    BY <1>5, <1>6 DEF TaskState
  <2>2. devices' \in SUBSET Device
    BY <1>3, <1>5, <1>6
  <2> QED BY <1>5, <1>7, <1>8, <2>1, <2>2 DEF IInv, TypeInv, Batches
<1>16. BoundInv'
  <2>1. ASSUME NEW i \in DOMAIN events, i > EVENTS
        PROVE  task'[events[i].device] \in {"sending", "lost", "failed"}
    <3>1. task[events[i].device] \in {"sending", "lost", "failed"}
      BY <2>1 DEF IInv, BoundInv
    <3>2. events[i] \in Event
      BY <1>6
    <3>3. events[i].device \in Device /\ events[i].device # d
      BY <1>12, <3>1, <3>2 DEF Event
    <3> QED BY <1>13, <3>1, <3>3
  <2>2. ASSUME NEW e \in Device
        PROVE  /\ Len(commands[e]) <= COMMANDS
               /\ task'[e] \in {"none", "ended"} => commands[e] = <<>>
    BY <1>13, <1>14 DEF IInv, BoundInv
  <2> QED BY <1>5, <2>1, <2>2 DEF IInv, BoundInv
<1>17. OrderInv'
  BY <1>5, <1>8 DEF OrderInv
<1>18. RouteInv'
  <2>1. z.op = "stabilize"
    BY DEF z, step
  <2> QED BY <1>8, <2>1 DEF RouteInv
<1>19. DeviceInv'
  <2>1. \A e \in Device : task'[e] # "none" <=> e \in devices'
    BY <1>5, <1>10, <1>13 DEF IInv, DeviceInv
  <2> QED BY <1>5, <1>8, <1>11, <2>1 DEF DeviceInv
<1>20. ActivationInv'
  <2>1. \A e \in Device : task'[e] # "none" =>
           e = d \/ (task[e] # "none" /\ activation_id'[e] = activation_id[e])
    BY <1>13
  <2>2. \A e \in Device : task'[e] # "none" => activation_id'[e] \in 1 .. activations
    <3>1. activations \in 1 .. activations
      BY <1>6, <1>9, BoundAssumption
    <3> QED BY <1>13, <2>1, <3>1 DEF IInv, ActivationInv
  <2>3. \A e, g \in Device :
           task'[e] # "none" /\ task'[g] # "none" /\ activation_id'[e] = activation_id'[g] => e = g
    BY <1>9, <1>13, <2>1 DEF IInv, ActivationInv
  <2>4. \A t \in Steps(todo') : t.op \notin {"add", "release"}
    <3>1. \A t : t.op \in {"add", "release"} => kind_of(t) = t.op
      BY DEF kind_of
    <3> QED BY <1>8, <3>1
  <2>5. \A i \in DOMAIN events : events[i].activation_id <= activations
    BY DEF IInv, ActivationInv
  <2> QED BY <1>5, <2>2, <2>3, <2>4, <2>5 DEF ActivationInv
<1>21. LossInv'
  <2>1. ResetAnswersLoss'
    <3>1. ASSUME NEW e \in Device, NEW i \in DOMAIN commands[e], commands[e][i].kind = "reset"
          PROVE  /\ task'[e] \in {"lost", "resetting", "failed"}
                 /\ \A j \in DOMAIN commands[e] : commands[e][j].kind = "reset" => j = i
      <4>1. e # d
        BY <1>14, <3>1
      <4> QED BY <1>13, <3>1, <4>1 DEF IInv, LossInv, ResetAnswersLoss
    <3> QED BY <1>5, <3>1 DEF ResetAnswersLoss
  <2>2. \A e : ResetCommanded(e)' <=> ResetCommanded(e)
    BY <1>5 DEF ResetCommanded
  <2>3. \A i \in DOMAIN events : ~lost_at(d, i)'
    BY <1>5, <1>9, <1>13 DEF lost_at
  <2>4. \A e \in devices : \A i \in DOMAIN events : lost_at(e, i)' <=> lost_at(e, i)
    BY <1>5, <1>6, <1>9, <1>13 DEF lost_at
  <2>5. ~LossReported(d)' /\ \A e \in devices : LossReported(e)' <=> LossReported(e)
    BY <1>5, <2>3, <2>4 DEF LossReported
  <2>6. \A e \in devices : task'[e] = task[e]
    BY <1>6, <1>9, <1>13
  <2> HIDE DEF ResetAnswersLoss
  <2>7. ASSUME NEW e \in devices', LossReported(e)'
        PROVE  /\ task'[e] \in Losing
               /\ ~ResetCommanded(e)'
               /\ \A i, j \in DOMAIN events' : lost_at(e, i)' /\ lost_at(e, j)' => i = j
    <3>1. e \in devices
      BY <1>5, <2>5, <2>7
    <3> QED BY <1>5, <2>2, <2>4, <2>5, <2>6, <2>7, <3>1 DEF IInv, LossInv
  <2> QED BY <1>11, <2>1, <2>7 DEF LossInv
<1>22. KnownInv'
  <2>1. \A c \in Client : told(c)' = told(c)
    BY <1>5 DEF told
  <2> QED BY <1>5, <1>10, <1>11, <2>1 DEF IInv, KnownInv
<1> QED BY <1>15, <1>16, <1>17, <1>18, <1>19, <1>20, <1>21, <1>22 DEF IInv

LEMMA ResetKeeps ==
    ASSUME IInv, NEW s, NEW rest, Popped(todo, s, rest), s.op = "reset",
           ResetTask(s.device, rest),
           frame = NoFrame, UNCHANGED <<frame, activations, released, running>>
    PROVE  IInv'
<1> DEFINE d == s.device
           z == step("stabilize")
<1>1. kind_of(s) = "reset" /\ device_of(s) = d
  BY DEF kind_of, device_of
<1>2. /\ s \in HandlerSteps /\ Steps(todo) = Steps(rest) \cup {s} /\ Steps(rest) = {}
      /\ rest \in Batches
  BY <1>1, AfterStep DEF IInv
<1>3. s = about("reset", d)
  BY <1>2, StepKinds
<1>4. d \in devices /\ d \in Device /\ Pending(about("reset", d))
  BY <1>1, <1>2, <1>3 DEF IInv, DeviceInv, TypeInv, Pending
<1>5. /\ commands \in [Device -> Seq(Command)] /\ physical_keys \in [Device -> SUBSET Key]
      /\ events \in Seq(Event) /\ devices \subseteq Device
  BY DEF IInv, TypeInv
<1>6. Among(events, events)
  BY <1>5, AmongSame
<1> HIDE DEF d, z
<1>7. CASE /\ devices' = devices \ {d} /\ todo' = destroy_device(d) \o rest
           /\ UNCHANGED <<router, tasks, sessions>>
  <2>1. todo' = destroy_device(d)
    <3>1. rest = <<>>
      BY <1>2, NoStepsLeft
    <3>2. activation_id[d] \in 1 .. ACTIVATIONS
      <4>1. activation_id[d] \in 1 .. activations /\ activations \in 0 .. ACTIVATIONS
        BY <1>4 DEF IInv, DeviceInv, ActivationInv, TypeInv
      <4> QED BY <4>1, BoundAssumption
    <3>3. destroy_device(d) \in Batches
      BY <1>4, <3>2, DestroySteps DEF IInv, Does
    <3>4. destroy_device(d) \o <<>> = destroy_device(d)
      BY <3>3 DEF Batches
    <3> QED BY <1>7, <3>1, <3>4
  <2>2. UNCHANGED Undisturbed /\ events' = events
    BY <1>7 DEF tasks, sessions, Undisturbed
  <2>3. \A t \in Steps(todo) : kind_of(t) = "reset"
    BY <1>1, <1>2
  <2> QED BY <1>4, <1>6, <1>7, <2>1, <2>2, <2>3, DestroyKeeps
<1>8. CASE /\ ~is_closed(d) /\ ~is_full(d)
           /\ commands' = [commands EXCEPT ![d] = Append(@, Reset(d))]
           /\ \E pressed \in SUBSET Key : reset_device(d, pressed)
           /\ todo' = recovery_actions(d) \o stabilize \o rest
           /\ UNCHANGED <<task, activation_id, local_keys, events, sessions, devices>>
  <2>1. PICK pressed \in SUBSET Key : reset_device(d, pressed)
    BY <1>8
  <2>2. /\ physical_keys' = [physical_keys EXCEPT ![d] = pressed]
        /\ UNCHANGED <<current, task, activation_id, local_keys, events, session, queue, writers,
                       devices, frame, activations, released, running>>
    BY <1>8, <2>1 DEF reset_device, sessions
  <2>3. physical_keys' \in [Device -> SUBSET Key] /\ recovery_keys(d)' \in SUBSET Key
    BY <1>4, <1>5, <2>2 DEF recovery_keys
  <2>4. /\ todo' \in Batches /\ Ordered(todo') /\ z \in Steps(todo')
        /\ \A t \in Steps(todo') : \/ kind_of(t) = "routing" /\ device_of(t) = d
                                   \/ t = z /\ kind_of(t) = "stabilize"
    BY <1>2, <1>4, <1>8, <2>3, RecoveryOrder DEF IInv, z
  <2>5. /\ \A e : Pending(about("reset", e)) <=> e = d
        /\ \A t : kind_of(t) # "reset" => ~Pending(t)
    <3>1. \A t : Pending(t) <=> t = s
      BY <1>2 DEF Pending
    <3>2. \A e : about("reset", e) = s <=> e = d
      BY <1>3 DEF about
    <3> QED BY <1>1, <3>1, <3>2
  <2>6. \A t : kind_of(t) \notin {"routing", "stabilize"} => ~Pending(t)'
    BY <2>4 DEF Pending
  <2>7. Reset(d) \in Command /\ Reset(d).kind = "reset"
    BY <1>4 DEF Reset, Command, Update
  <2>8. Len(commands[d]) < COMMANDS /\ Len(commands[d]) \in Nat
    BY <1>4, <1>5, <1>8, ChannelAssumption DEF is_full
  <2>9. /\ commands' \in [Device -> Seq(Command)]
        /\ commands'[d] = Append(commands[d], Reset(d))
        /\ \A e \in Device : e # d => commands'[e] = commands[e]
    <3>1. Append(commands[d], Reset(d)) \in Seq(Command)
      BY <1>4, <1>5, <2>7
    <3> QED BY <1>4, <1>5, <1>8, <3>1
  <2>10. /\ task[d] \in {"lost", "resetting", "failed"} /\ ~ResetCommanded(d)
    <3>1. task[d] \in Losing /\ ~ResetCommanded(d)
      BY <1>4 DEF IInv, LossInv
    <3> QED BY <1>8, <3>1 DEF Losing, is_closed
  <2>11. ~LossReported(d)
    BY <1>4 DEF IInv, LossInv
  <2>12. Among(events', events)
    BY <1>6, <2>2
  <2>13. TypeInv'
    BY <2>2, <2>3, <2>4, <2>9 DEF IInv, TypeInv, Batches
  <2>14. BoundInv'
    <3>1. ASSUME NEW e \in Device
          PROVE  /\ Len(commands'[e]) <= COMMANDS
                 /\ task[e] \in {"none", "ended"} => commands'[e] = <<>>
      <4>1. CASE e = d
        <5>1. Len(commands'[d]) = Len(commands[d]) + 1
          BY <1>4, <1>5, <2>7, <2>9
        <5> QED BY <2>8, <2>10, <4>1, <5>1, ChannelAssumption
      <4>2. CASE e # d
        BY <2>9, <4>2 DEF IInv, BoundInv
      <4> QED BY <4>1, <4>2
    <3> QED BY <2>2, <3>1 DEF IInv, BoundInv
  <2>15. OrderInv'
    BY <2>2, <2>4 DEF OrderInv
  <2>16. RouteInv'
    <3>1. z.op = "stabilize"
      BY DEF z, step
    <3> QED BY <2>4, <3>1 DEF RouteInv
  <2>17. DeviceInv' /\ ActivationInv'
    <3>1. \A e : ~Pending(about("abort", e))
      BY <2>5, Kinds
    <3>2. \A t \in Steps(todo') : \/ kind_of(t) = "routing" /\ device_of(t) \in devices
                                  \/ kind_of(t) = "stabilize"
      BY <1>4, <2>4
    <3> QED BY <2>2, <2>12, <3>1, <3>2, DevicesKept
  <2>18. LossInv'
    <3>1. \A i \in DOMAIN commands'[d] :
             (i \in DOMAIN commands[d] /\ commands'[d][i] = commands[d][i])
             \/ i = Len(commands[d]) + 1
      BY <1>4, <1>5, <2>7, <2>9
    <3>2. \A i \in DOMAIN commands'[d] :
             commands'[d][i].kind = "reset" => i = Len(commands[d]) + 1
      BY <2>10, <3>1 DEF ResetCommanded
    <3>3. ResetAnswersLoss'
      <4>1. ASSUME NEW e \in Device, NEW i \in DOMAIN commands'[e], commands'[e][i].kind = "reset"
            PROVE  /\ task[e] \in {"lost", "resetting", "failed"}
                   /\ \A j \in DOMAIN commands'[e] : commands'[e][j].kind = "reset" => j = i
        <5>1. CASE e = d
          BY <2>10, <3>2, <4>1, <5>1
        <5>2. CASE e # d
          BY <2>9, <4>1, <5>2 DEF IInv, LossInv, ResetAnswersLoss
        <5> QED BY <5>1, <5>2
      <4> QED BY <2>2, <4>1 DEF ResetAnswersLoss
    <3>4. \A e \in Device : e # d => (ResetCommanded(e)' <=> ResetCommanded(e))
      BY <2>9 DEF ResetCommanded
    <3>5. \A e : (LossReported(e)' <=> LossReported(e))
      BY <2>2 DEF LossReported, lost_at
    <3>6. \A e, i : lost_at(e, i)' <=> lost_at(e, i)
      BY <2>2 DEF lost_at
    <3>7. \A e : ~Pending(about("reset", e))'
      BY <2>6, Kinds
    <3> HIDE DEF ResetAnswersLoss
    <3>8. ASSUME NEW e \in devices, LossReported(e)
          PROVE  /\ task[e] \in Losing
                 /\ ~ResetCommanded(e)'
                 /\ \A i, j \in DOMAIN events : lost_at(e, i) /\ lost_at(e, j) => i = j
      <4>1. e # d /\ e \in Device
        BY <1>5, <2>11, <3>8
      <4> QED BY <3>4, <3>8, <4>1 DEF IInv, LossInv
    <3> QED BY <2>2, <3>3, <3>5, <3>6, <3>7, <3>8 DEF LossInv
  <2>19. KnownInv'
    <3>1. \A t : kind_of(t) \in {"create", "destroy", "add"} =>
                    (t \in Steps(todo') <=> t \in Steps(todo))
      BY <2>5, <2>6 DEF Pending
    <3> QED BY <2>2, <3>1, KnownKept
  <2> QED BY <2>13, <2>14, <2>15, <2>16, <2>17, <2>18, <2>19 DEF IInv
<1> QED BY <1>7, <1>8 DEF ResetTask, d

-----------------------------------------------------------------------------
(* The invariant.                                                           *)

LEMMA HandlerStepKeeps ==
    ASSUME IInv, HandlerStep
    PROVE  IInv'
<1>1. frame = NoFrame /\ todo # <<>>
  BY DEF HandlerStep
<1>2. PICK s \in Head(todo) :
          LET rest == batch(Head(todo) \ {s}) \o Tail(todo) IN
          \/ /\ \/ s.op = "sweep" /\ Sweep(rest)
                \/ s.op = "remove" /\ RemoveClient(s.client, rest)
                \/ s.op = "stabilize" /\ Stabilize(rest)
                \/ s.op = "insert" /\ Insert(rest)
                \/ s.op = "send" /\ Send(s.route, s.update, rest)
                \/ s.op = "local" /\ Local(s.update, rest)
                \/ s.op = "add" /\ Add(s.device, rest)
                \/ s.op = "reset" /\ ResetTask(s.device, rest)
                \/ s.op = "abort" /\ Abort(s.device, rest)
                \/ s.op = "forget" /\ Forget(s.device, rest)
             /\ UNCHANGED <<frame, activations, released, running>>
          \/ /\ s.op = "release"
             /\ Release(s.activation_id, rest)
             /\ UNCHANGED <<frame, activations, running>>
          \/ s.op = "local" /\ Overflow(s.update)
  BY DEF HandlerStep
<1> DEFINE rest == batch(Head(todo) \ {s}) \o Tail(todo)
<1>3. Popped(todo, s, rest)
  BY <1>1 DEF Popped
<1> HIDE DEF rest
<1>4. CASE UNCHANGED <<frame, activations, released, running>>
  <2>1. CASE s.op = "sweep" /\ Sweep(rest)
    BY <1>1, <1>3, <1>4, <2>1, SweepKeeps
  <2>2. CASE s.op = "remove" /\ RemoveClient(s.client, rest)
    BY <1>1, <1>3, <1>4, <2>2, RemoveClientKeeps
  <2>3. CASE s.op = "stabilize" /\ Stabilize(rest)
    BY <1>1, <1>3, <1>4, <2>3, StabilizeKeeps
  <2>4. CASE s.op = "insert" /\ Insert(rest)
    BY <1>1, <1>3, <1>4, <2>4, InsertKeeps
  <2>5. CASE s.op = "send" /\ Send(s.route, s.update, rest)
    BY <1>1, <1>3, <1>4, <2>5, SendKeeps
  <2>6. CASE s.op = "local" /\ Local(s.update, rest)
    BY <1>1, <1>3, <1>4, <2>6, LocalKeeps
  <2>7. CASE s.op = "add" /\ Add(s.device, rest)
    BY <1>1, <1>3, <1>4, <2>7, AddKeeps
  <2>8. CASE s.op = "reset" /\ ResetTask(s.device, rest)
    BY <1>1, <1>3, <1>4, <2>8, ResetKeeps
  <2>9. CASE s.op = "abort" /\ Abort(s.device, rest)
    BY <1>1, <1>3, <1>4, <2>9, AbortKeeps
  <2>10. CASE s.op = "forget" /\ Forget(s.device, rest)
    BY <1>1, <1>3, <1>4, <2>10, ForgetKeeps
  <2>11. CASE s.op = "release" /\ Release(s.activation_id, rest)
    BY <1>1, <1>3, <1>4, <2>11, ReleaseKeeps
  <2>12. CASE s.op = "local" /\ Overflow(s.update)
    BY <2>12, OverflowKeeps
  <2> QED BY <1>2, <2>1, <2>2, <2>3, <2>4, <2>5, <2>6, <2>7, <2>8, <2>9, <2>10, <2>11, <2>12
          DEF rest
<1>5. CASE /\ s.op = "release" /\ Release(s.activation_id, rest)
           /\ UNCHANGED <<frame, activations, running>>
  BY <1>1, <1>3, <1>5, ReleaseKeeps
<1>6. CASE s.op = "local" /\ Overflow(s.update)
  BY <1>6, OverflowKeeps
<1> QED BY <1>2, <1>4, <1>5, <1>6 DEF rest

LEMMA InitInvariant == Init => IInv
<1> SUFFICES ASSUME Init PROVE IInv
  OBVIOUS
<1>1. /\ current = 0 /\ physical_keys = [d \in Device |-> {}]
      /\ task = [d \in Device |-> "none"] /\ activation_id = [d \in Device |-> 0]
      /\ commands = [d \in Device |-> <<>>] /\ local_keys = [d \in Device |-> {}]
      /\ events = <<>> /\ session = [c \in Client |-> "vacant"]
      /\ queue = [c \in Client |-> <<>>] /\ writers = [c \in Client |-> none]
      /\ devices = {} /\ todo = <<>> /\ frame = NoFrame /\ activations = 0
      /\ released = {} /\ running = TRUE
  BY DEF Init, RouterInit, TaskInit, ClientInit
<1>2. Steps(todo) = {} /\ todo \in Batches /\ Ordered(todo)
  BY <1>1, NoSteps
<1>3. TypeInv
  <2>1. /\ <<>> \in Seq(Command) /\ <<>> \in Seq(ToClient) /\ <<>> \in Seq(Event)
        /\ 0 \in 0 .. ACTIVATIONS
    BY BoundAssumption
  <2>2. /\ commands \in [Device -> Seq(Command)] /\ queue \in [Client -> Seq(ToClient)]
        /\ activation_id \in [Device -> 0 .. ACTIVATIONS]
        /\ task \in [Device -> TaskState]
        /\ session \in [Client -> {"vacant", "open", "closed"}]
    BY <1>1, <2>1 DEF TaskState
  <2>3. \A c \in Client : DOMAIN writers[c] \subseteq Device
    BY <1>1 DEF none
  <2> QED BY <1>1, <1>2, <2>1, <2>2, <2>3 DEF TypeInv, Batches
<1>4. BoundInv
  BY <1>1, ChannelAssumption, ClientAssumption DEF BoundInv
<1>5. OrderInv /\ RouteInv
  BY <1>1, <1>2 DEF OrderInv, RouteInv, available_routes
<1>6. DeviceInv /\ ActivationInv
  BY <1>1, <1>2 DEF DeviceInv, ActivationInv, Pending
<1>7. LossInv
  BY <1>1 DEF LossInv, ResetAnswersLoss
<1>8. KnownInv
  BY <1>1 DEF KnownInv
<1> QED BY <1>3, <1>4, <1>5, <1>6, <1>7, <1>8 DEF IInv

LEMMA StepInvariant == IInv /\ [Next]_vars => IInv'
<1> SUFFICES ASSUME IInv, [Next]_vars PROVE IInv'
  OBVIOUS
<1>1. CASE running' = running /\ ServerStep
  BY <1>1, AcceptKeeps, ActivatedKeeps, RemovedKeeps, ReceiveKeeps, KeyPressKeeps,
     FrameEndKeeps DEF ServerStep
<1>2. CASE HandlerStep
  BY <1>2, HandlerStepKeeps
<1>3. CASE /\ (\E d \in Device : TaskStep(d)) /\ UNCHANGED sessions
           /\ UNCHANGED <<router, devices, todo, frame, activations, released, running>>
  BY <1>3, TaskStepKeeps DEF Elsewhere
<1>4. CASE /\ (\E c \in Client : ClientStep(c)) /\ UNCHANGED tasks
           /\ UNCHANGED <<router, devices, todo, frame, activations, released, running>>
  BY <1>4, ClientStepKeeps
<1>5. CASE UNCHANGED vars
  <2>1. /\ UNCHANGED <<current, physical_keys, task, activation_id, commands, local_keys, events>>
        /\ UNCHANGED <<session, queue, writers, devices, todo, frame, activations, released, running>>
    BY <1>5 DEF vars, router, tasks, sessions
  <2>2. TypeInv' /\ BoundInv'
    BY <2>1 DEF IInv, TypeInv, BoundInv
  <2>3. OrderInv' /\ RouteInv' /\ KnownInv'
    BY <2>1, OrderSame, RouteSame, KnownSame DEF IInv
  <2>4. DeviceInv' /\ ActivationInv'
    BY <2>1 DEF IInv, DeviceInv, ActivationInv, Pending
  <2>5. LossInv'
    BY <2>1 DEF IInv, LossInv, ResetAnswersLoss, LossReported, lost_at, ResetCommanded, Pending
  <2> QED BY <2>2, <2>3, <2>4, <2>5 DEF IInv
<1> QED BY <1>1, <1>2, <1>3, <1>4, <1>5 DEF Next, Stopped

(* What is known of the server, the tasks of its devices and its clients in *)
(* every reachable state; the theorems below follow from it.                *)
THEOREM Safety == Spec => []IInv
<1>1. Init => IInv
  BY InitInvariant
<1>2. IInv /\ [Next]_vars => IInv'
  BY StepInvariant
<1> QED BY <1>1, <1>2, PTL DEF Spec

-----------------------------------------------------------------------------
(* What follows from it.                                                    *)

LEMMA LengthBehind ==
    ASSUME NEW T, NEW seq \in Seq(T), NEW k \in Nat
    PROVE  /\ k < Len(seq) => Len(SubSeq(seq, k + 1, Len(seq))) = Len(seq) - k
           /\ Len(seq) <= k => Len(SubSeq(seq, k + 1, Len(seq))) = 0
OBVIOUS

\* Each task waits for room for one message at most.
LEMMA FewWait ==
    ASSUME TypeInv, BoundInv
    PROVE  Len(waiting) <= Cardinality(Device)
<1>1. /\ events \in Seq(Event) /\ EVENTS \in Nat /\ Len(events) \in Nat
      /\ DOMAIN events = 1 .. Len(events)
  BY ChannelAssumption DEF TypeInv
<1>2. /\ EVENTS < Len(events) => Len(waiting) = Len(events) - EVENTS
      /\ Len(events) <= EVENTS => Len(waiting) = 0
  BY <1>1, LengthBehind DEF waiting
<1>3. CASE Len(events) <= EVENTS
  <2>1. Len(waiting) = 0
    BY <1>1, <1>2, <1>3
  <2> QED BY <2>1, ChannelAssumption, FS_CardinalityType
<1>4. CASE Len(events) > EVENTS
  <2> DEFINE n == Len(events) - EVENTS
             f == [i \in 1 .. n |-> events[EVENTS + i].device]
  <2>1. n \in Nat /\ Len(waiting) = n
    <3>1. EVENTS \in Nat /\ Len(events) \in Nat
      BY <1>1
    <3>2. Len(waiting) = Len(events) - EVENTS
      BY <1>2, <1>4
    <3> QED BY <1>4, <3>1, <3>2
  <2>2. \A i \in 1 .. n : /\ EVENTS + i \in DOMAIN events /\ EVENTS + i > EVENTS
                          /\ i \in Int
    BY <1>1, <1>4
  <2>3. \A i \in DOMAIN events : events[i] \in Event
    BY <1>1
  <2>4. f \in [1 .. n -> Device]
    BY <2>2, <2>3 DEF Event
  <2>5. ASSUME NEW i \in 1 .. n, NEW j \in 1 .. n, f[i] = f[j] PROVE i = j
    <3>1. EVENTS + i = EVENTS + j
      BY <2>2, <2>5 DEF BoundInv
    <3> QED BY <1>1, <2>2, <3>1
  <2>6. f \in Injection(1 .. n, Device)
    BY <2>4, <2>5 DEF Injection, IsInjective
  <2> HIDE DEF f, n
  <2>7. Cardinality(1 .. n) <= Cardinality(Device)
    BY <2>6, ChannelAssumption, FS_Injection
  <2>8. Cardinality(1 .. n) = n
    BY <2>1, FS_Interval
  <2> QED BY <2>1, <2>7, <2>8
<1> QED BY <1>1, <1>3, <1>4

(* Types, and that no channel or queue ever holds more than it has room     *)
(* for, also with a sender for each device waiting (run, server.rs).        *)
THEOREM TypeCorrect == Spec => []ServerTypeOK
<1>1. IInv => ServerTypeOK
  <2> SUFFICES ASSUME IInv PROVE ServerTypeOK
    OBVIOUS
  <2>1. Len(waiting) <= Cardinality(Device)
    BY FewWait DEF IInv
  <2>2. ASSUME NEW i \in DOMAIN todo PROVE todo[i] # {} /\ \A s \in todo[i] : s.op \in Step
    <3>1. todo[i] \in (SUBSET HandlerSteps) \ {{}}
      BY DEF IInv, TypeInv
    <3>2. \A s \in HandlerSteps : s.op \in Step
      BY DEF HandlerSteps, Step
    <3> QED BY <3>1, <3>2
  <2>3. ASSUME frame # NoFrame PROVE frame.events <= FRAME /\ frame.device \in devices
    <3>1. frame.events \in 0 .. FRAME
      BY <2>3 DEF IInv, TypeInv, Frame
    <3> QED BY <2>3, <3>1, BoundAssumption DEF IInv, OrderInv
  <2>4. \A d \in Device : Len(commands[d]) <= COMMANDS /\ local_keys[d] \subseteq Key
    BY DEF IInv, TypeInv, BoundInv
  <2>5. \A c \in Client : Len(queue[c]) <= QUEUE /\ DOMAIN writers[c] \subseteq Device
    BY DEF IInv, TypeInv, BoundInv
  <2> QED BY <2>1, <2>2, <2>3, <2>4, <2>5 DEF IInv, TypeInv, ServerTypeOK
<1> QED BY <1>1, Safety, PTL

(* No client ever ends its session because the server told it of a device   *)
(* twice, or of one it does not have (run_once in client.rs, and the order  *)
(* in which server.rs sends what was reset, removed or added).              *)
THEOREM UpdatesAccepted == Spec => []NothingRefused
<1>1. IInv => NothingRefused
  <2> SUFFICES ASSUME IInv, NEW c \in Client, session[c] = "open", queue[c] # <<>>
               PROVE  accepts(writers[c], Head(queue[c]))
    BY DEF NothingRefused
  <2>1. queue[c] \in Seq(ToClient)
    BY DEF IInv, TypeInv
  <2>2. Acceptable(writers[c], queue[c])
    BY DEF IInv, KnownInv
  <2> QED BY <2>1, <2>2, AcceptableTail
<1> QED BY <1>1, Safety, PTL

\* A client is told of devices only.
LEMMA ToldDevices ==
    ASSUME NEW copies, NEW q \in Seq(ToClient), DOMAIN copies \subseteq Device
    PROVE  DOMAIN carry(copies, q) \subseteq Device
<1> DEFINE A == {n \in Nat : n <= Len(q) =>
                    DOMAIN carry(copies, SubSeq(q, 1, n)) \subseteq Device}
<1>1. 0 \in A
  BY SubSeq(q, 1, 0) = <<>>, ToldEmpty
<1>2. ASSUME NEW n \in A PROVE n + 1 \in A
  <2>1. SUFFICES ASSUME n + 1 <= Len(q)
                 PROVE  DOMAIN carry(copies, SubSeq(q, 1, n + 1)) \subseteq Device
    OBVIOUS
  <2> DEFINE first == SubSeq(q, 1, n)
             u == q[n + 1]
  <2>2. first \in Seq(ToClient) /\ u \in ToClient /\ SubSeq(q, 1, n + 1) = Append(first, u)
    BY <2>1
  <2>3. DOMAIN carry(copies, first) \subseteq Device
    BY <2>1
  <2> HIDE DEF first, u
  <2>4. DOMAIN carry(copies, Append(first, u)) = known_after(DOMAIN carry(copies, first), u)
    BY <2>2, ToldAppend
  <2>5. u.device \in Device
    BY <2>2 DEF ToClient, Update
  <2> QED BY <2>2, <2>3, <2>4, <2>5 DEF known_after
<1> HIDE DEF A
<1>3. A = Nat
  BY <1>1, <1>2, Copies!Inductive, A \subseteq Nat DEF A
<1>4. Len(q) \in A
  BY <1>3
<1>5. DOMAIN carry(copies, SubSeq(q, 1, Len(q))) \subseteq Device
  BY <1>4 DEF A
<1> QED BY <1>5, SubSeq(q, 1, Len(q)) = q

\* With nothing left to add, create or destroy, a client knows the devices.
LEMMA ClientKnows ==
    ASSUME IInv, NEW c \in Clients,
           \A s \in Steps(todo) : s.op \notin {"add", "send"}
    PROVE  DOMAIN FoldLeft(carried_out, writers[c], queue[c]) = devices
<1>1. c \in Client /\ session[c] # "vacant"
  BY RoutesType DEF IInv
<1>2. /\ queue[c] \in Seq(ToClient) /\ DOMAIN writers[c] \subseteq Device
      /\ devices \subseteq Device
  BY <1>1 DEF IInv, TypeInv
<1>3. told(c) \subseteq Device
  BY <1>2, ToldDevices DEF told
<1>4. \A d : /\ ~Pending(send(c, DestroyDevice(d))) /\ ~Pending(send(c, CreateDevice(d)))
             /\ ~Pending(about("add", d))
  BY DEF Pending, send, about
<1>5. \A d \in Device : d \in told(c) <=> d \in devices
  BY <1>1, <1>4 DEF IInv, KnownInv
<1>6. told(c) = devices
  BY <1>2, <1>3, <1>5
<1> QED BY <1>6 DEF told, carry

(* Whenever the server waits, every client has been sent exactly the        *)
(* devices there are (the broadcasts, and the devices a new client is told  *)
(* of, in server.rs).                                                       *)
THEOREM ClientsAreTold == Spec => []ClientsKnowDevices
<1>1. IInv => ClientsKnowDevices
  <2> SUFFICES ASSUME IInv, Waiting, NEW c \in Clients
               PROVE  DOMAIN FoldLeft(carried_out, writers[c], queue[c]) = devices
    BY DEF ClientsKnowDevices
  <2>1. Steps(todo) = {}
    BY NoSteps DEF Waiting
  <2> QED BY <2>1, ClientKnows
<1> QED BY <1>1, Safety, PTL

(* A task is told to replace its local copy only after a loss of input, and *)
(* once for each (Frame::InputLost and Reset, server.rs).                   *)
THEOREM OneResetPerLoss == Spec => []ResetAnswersLoss
<1>1. IInv => ResetAnswersLoss
  BY DEF IInv, LossInv
<1> QED BY <1>1, Safety, PTL

(* Whenever the server waits, the current route is there, whichever clients *)
(* were lost while it worked (stabilize_routes, server.rs).                 *)
THEOREM RouteIsThere == Spec => []InputHasRoute
<1>1. IInv => InputHasRoute
  <2> SUFFICES ASSUME IInv, Waiting PROVE current \in available_routes
    BY DEF InputHasRoute
  <2>1. Steps(todo) = {} /\ frame = NoFrame
    BY NoSteps DEF Waiting
  <2> QED BY <2>1 DEF IInv, RouteInv
<1> QED BY <1>1, Safety, PTL

\* Only a step of a handler reports a release, and it is the last one.
LEMMA OnlyReleaseReleases ==
    ASSUME [Next]_vars, NEW id \in released' \ released
    PROVE  /\ todo # <<>>
           /\ \E s \in Head(todo) : s.op = "release" /\ s.activation_id = id
<1>1. released' # released
  OBVIOUS
<1>2. HandlerStep
  BY <1>1 DEF Next, Stopped, vars, ServerStep, Accept, Authenticated, Activated, Removed,
       Receive, KeyPress, FrameEnd
<1>3. PICK s \in Head(todo) :
         \/ UNCHANGED released
         \/ s.op = "release" /\ released' = released \cup {s.activation_id}
  BY <1>2 DEF HandlerStep, Release, Overflow
<1> QED BY <1>1, <1>2, <1>3 DEF HandlerStep

(* The grab of a device is reported as released only when its task is gone  *)
(* and the clients have been sent the end of their copies (destroy_device   *)
(* and what its callers do with the activation it returns, server.rs).      *)
THEOREM ReleasedLast == Spec => ReleasedIsGone
<1> DEFINE Gone ==
        \A id \in released' \ released :
          /\ \A d \in Device : task[d] # "none" => activation_id[d] # id
          /\ \A c \in Clients :
                DOMAIN FoldLeft(carried_out, writers[c], queue[c]) = devices
<1>1. IInv /\ [Next]_vars => Gone
  <2> SUFFICES ASSUME IInv, [Next]_vars, NEW id \in released' \ released
               PROVE  /\ \A d \in Device : task[d] # "none" => activation_id[d] # id
                      /\ \A c \in Clients :
                            DOMAIN FoldLeft(carried_out, writers[c], queue[c]) = devices
    BY DEF Gone
  <2>1. todo # <<>>
    BY OnlyReleaseReleases
  <2>2. PICK s \in Head(todo) : s.op = "release" /\ s.activation_id = id
    BY OnlyReleaseReleases
  <2> DEFINE rest == batch(Head(todo) \ {s}) \o Tail(todo)
  <2>3. Popped(todo, s, rest)
    BY <2>1, <2>2 DEF Popped
  <2> HIDE DEF rest
  <2>4. /\ s \in HandlerSteps /\ Steps(todo) = Steps(rest) \cup {s}
        /\ kind_of(s) = "release" => Steps(rest) = {}
    BY <2>3, AfterStep DEF IInv
  <2>5. Steps(todo) = {s}
    BY <2>2, <2>4 DEF kind_of
  <2>6. \A d : ~Pending(about("abort", d))
    BY <2>2, <2>5 DEF Pending, about
  <2>7. \A d \in Device : task[d] # "none" => activation_id[d] # id
    BY <2>2, <2>5, <2>6 DEF IInv, ActivationInv
  <2>8. \A t \in Steps(todo) : t.op \notin {"add", "send"}
    BY <2>2, <2>5
  <2> QED BY <2>7, <2>8, ClientKnows
<1> HIDE DEF Gone
<1>2. IInv /\ [Next]_vars => [Gone]_vars
  BY <1>1
<1>3. Spec => [][Gone]_vars
  BY <1>2, Safety, PTL DEF Spec
<1> QED BY <1>3 DEF ReleasedIsGone, Gone
=============================================================================
