---------------------------- MODULE MonitorProofs ----------------------------
(* Proofs about Monitor for any number of nodes and rules, any capacity of  *)
(* the channels and any bound on the changes of what matches; and about any *)
(* configuration that gives it its rules.                                   *)
EXTENDS ConfiguredMonitor, FiniteSetTheorems, FunctionTheorems, TLAPS

-----------------------------------------------------------------------------
(* The types, more closely than MonitorTypeOK says them. *)

Interceptor == [node : Node, writer : Output \cup {NoNode}, at : Place]

Candidate ==
    [state : CandidateState, rule : Rule \cup {NoRule}, activation_id : Nat,
     removal_sent : BOOLEAN]

Message == [event : {"activated", "remove"}, activation_id : Nat]
Dying   == [activation_id : Nat, cause : ReleaseCause]

CandidatesType ==
    /\ candidates \in [DOMAIN candidates -> Candidate]
    /\ DOMAIN candidates \subseteq Node
    /\ \A n \in DOMAIN candidates :
          /\ candidates[n].rule = NoRule => candidates[n].state = "rejected"
          /\ candidates[n].removal_sent => is_active(n)

RegistryType ==
    /\ present \subseteq Node
    /\ entries \subseteq Node
    /\ interceptor \in [DOMAIN interceptor -> Interceptor]

IdsType ==
    /\ IsFiniteSet(DOMAIN interceptor)
    /\ DOMAIN interceptor \subseteq Nat

PolicyType ==
    /\ matching \in [Source -> SUBSET Rule]
    /\ \A n \in Source : matching[n] \in SourceRules[n] \cup {{}}

LoopType ==
    /\ phase \in {"idle", "scan", "reconcile"}
    /\ pending \subseteq Node
    /\ phase = "reconcile" =>
          \A n \in pending : n \in DOMAIN candidates /\ candidates[n].state = "ready"
    /\ snapshots \in [Node -> Snapshot]

MailType ==
    /\ mailbox \in Seq(Message)
    /\ releases \in Seq(Dying)
    /\ dying \in Dying \cup {NoDevice}
    /\ Len(releases) <= CHANNEL + 1
    /\ dying # NoDevice => Len(releases) <= CHANNEL

TypeInv == RegistryType /\ IdsType /\ PolicyType /\ CandidatesType /\ LoopType /\ MailType

(* Where the copy of an interceptor is when it is on its way.  Its node is  *)
(* there and registered, except for what a reset or a drop has undone, and   *)
(* it belongs to no other interceptor.                                      *)
WriterInv ==
    /\ \A id \in DOMAIN interceptor :
          LET writer == interceptor[id].writer
              at     == interceptor[id].at
          IN  /\ at \in {"sent", "running"} => writer \in present \cap entries
              /\ at = "taken"   => writer \in entries \ present
              /\ at = "queued"  => writer = NoNode
              /\ at = "created" => writer \in present \ entries
              /\ at = "dropped" => writer = NoNode \/ writer \in entries \ present
    /\ \A i, j \in DOMAIN interceptor :
          i # j /\ interceptor[i].writer = interceptor[j].writer
              => interceptor[i].writer = NoNode

\* A copy that is not registered is known to the gate.
unregistered_copies ==
    {interceptor[id].writer : id \in {i \in DOMAIN interceptor : interceptor[i].at = "created"}}

RegistryInv ==
    /\ WriterInv
    /\ present \cap Output \subseteq entries \cup unregistered_copies
    /\ OwnNodesNotTaken

(* Until the server has read that an interceptor is activated, nothing else *)
(* happens to it; and the server destroys only what is still there.         *)
MessageInv ==
    /\ \A i \in DOMAIN mailbox :
          mailbox[i].event = "activated" =>
              /\ mailbox[i].activation_id \in DOMAIN interceptor
              /\ interceptor[mailbox[i].activation_id].at = "sent"
              /\ \A j \in 1 .. i - 1 : mailbox[j].activation_id # mailbox[i].activation_id
    /\ dying # NoDevice => dying.activation_id \in DOMAIN interceptor

\* No two candidates of a group, other than the filter's, are active.
ActiveApart ==
    \A n, m \in DOMAIN candidates :
        is_active(n) /\ is_active(m) /\ n # m
            => group[candidates[n].rule] # group[candidates[m].rule]
               \/ group[candidates[n].rule] = Ungrouped

(* What reconcile has still to claim stands alone in its group, also when   *)
(* the candidates have changed since claim_order was computed.              *)
PendingFirst ==
    phase = "reconcile" =>
        \A n \in pending :
            LET g == group[candidates[n].rule] IN
            g # Ungrouped =>
                \A m \in members(candidates, g) \ {n} :
                    /\ ~is_active(m)
                    /\ m \notin pending
                    /\ candidates[m].rule < candidates[n].rule
                           => candidates[m].state \in {"unsupported", "rejected"}

GroupInv == ActiveApart /\ PendingFirst

IInv == TypeInv /\ RegistryInv /\ MessageInv /\ ActiveIsAccounted /\ GroupInv

-----------------------------------------------------------------------------
(* About finite sets and minima. *)

LEMMA LeastElement ==
    ASSUME NEW S \in SUBSET Nat, S # {}
    PROVE  Min(S) \in S /\ \A n \in S : Min(S) <= n
<1> DEFINE R == OpToRel(<, Nat)
<1>1. IsWellFoundedOn(R, Nat)
  BY NatLessThanWellFounded
<1>2. \A x, y \in Nat : y < x => <<y, x>> \in R
  BY DEF OpToRel
<1> HIDE DEF R
<1>3. PICK m \in S : \A n \in S : ~ (<<n, m>> \in R)
  BY <1>1, WFMin
<1>4. ASSUME NEW n \in S PROVE m <= n
  <2>1. m \in Nat /\ n \in Nat
    OBVIOUS
  <2>2. ~ (n < m)
    BY <1>2, <1>3, <2>1
  <2> QED BY <2>1, <2>2
<1>5. \E m1 \in S : \A n \in S : m1 <= n
  BY <1>4
<1> QED BY <1>5 DEF Min

\* What a function takes the elements of a finite set to is finite.
LEMMA FiniteImage ==
    ASSUME NEW S, IsFiniteSet(S), NEW f, DOMAIN f = S
    PROVE  IsFiniteSet({f[x] : x \in S})
<1> DEFINE T == {f[x] : x \in S}
           g == [x \in S |-> f[x]]
<1>1. g \in Surjection(S, T)
  BY DEF Surjection
<1> QED BY <1>1, FS_Surjection

\* Not all of the first numbers, one more than there are elements, are elements.
LEMMA UnusedNumber ==
    ASSUME NEW S, IsFiniteSet(S)
    PROVE  LET n == Min((1 .. Cardinality(S) + 1) \ S) IN n \in Nat \ {0} /\ n \notin S
<1> DEFINE T == 1 .. Cardinality(S) + 1
<1>1. Cardinality(S) \in Nat
  BY FS_CardinalityType
<1>2. Cardinality(T) = Cardinality(S) + 1
  BY <1>1, FS_Interval
<1>3. T \ S # {}
  <2>1. SUFFICES ASSUME T \subseteq S PROVE FALSE
    OBVIOUS
  <2>2. Cardinality(T) <= Cardinality(S)
    BY <2>1, FS_Subset
  <2> QED BY <1>1, <1>2, <2>2
<1>4. T \ S \subseteq Nat \ {0}
  BY <1>1
<1>5. Min(T \ S) \in T \ S
  BY <1>3, <1>4, LeastElement
<1> QED BY <1>4, <1>5

-----------------------------------------------------------------------------
(* The registry, one operation after the other. *)

\* A new copy is a node that nobody knows.
LEMMA NewOutput ==
    ASSUME NEW known_nodes, fresh(known_nodes) # {}
    PROVE  new_output(known_nodes) \in Output \ (present \cup entries)
<1>1. fresh(known_nodes) \in SUBSET Nat
  BY RegistryAssumption DEF fresh, Node
<1>2. new_output(known_nodes) \in fresh(known_nodes)
  BY <1>1, LeastElement DEF new_output
<1> QED BY <1>2 DEF fresh

\* Every copy that an interceptor has is a node, and not the one that is new.
LEMMA WritersAreNodes ==
    ASSUME RegistryType, WriterInv, NEW id \in DOMAIN interceptor,
           interceptor[id].writer # NoNode
    PROVE  interceptor[id].writer \in Output /\ interceptor[id].writer \in present \cup entries
  BY DEF RegistryType, WriterInv, Interceptor, Place

LEMMA ClaimRegistry ==
    ASSUME RegistryType, RegistryInv,
           NEW n \in Node, NEW id, NEW known_nodes, id \notin DOMAIN interceptor,
           claim(n, id, known_nodes)
    PROVE  RegistryType' /\ RegistryInv'
<1> DEFINE writer == new_output(known_nodes)
<1>1. writer \in Output \ (present \cup entries)
  BY NewOutput DEF claim
<1>2. n \notin Output
  BY DEF claim, claimable, gate_free, RegistryInv, unregistered_copies
<1>3. /\ present' = present \cup {writer}
      /\ entries' = entries \cup {n, writer}
      /\ DOMAIN interceptor' = DOMAIN interceptor \cup {id}
      /\ interceptor'[id] = [node |-> n, writer |-> writer, at |-> "sent"]
      /\ \A i \in DOMAIN interceptor : interceptor'[i] = interceptor[i]
      /\ interceptor' \in [DOMAIN interceptor' -> {interceptor'[i] : i \in DOMAIN interceptor'}]
      /\ n \notin entries
  BY DEF claim, claimable
<1> HIDE DEF writer
<1>4. RegistryType'
  <2>1. interceptor'[id] \in Interceptor
    BY <1>1, <1>3 DEF Interceptor, Place
  <2>2. \A i \in DOMAIN interceptor' : interceptor'[i] \in Interceptor
    BY <1>3, <2>1 DEF RegistryType
  <2> QED BY <1>1, <1>3, <2>2 DEF RegistryType, Node
<1>5. WriterInv'
  <2>1. /\ interceptor'[id].writer = writer /\ interceptor'[id].at = "sent"
        /\ writer \in present' \cap entries'
    BY <1>3
  <2>2. ASSUME NEW i \in DOMAIN interceptor
        PROVE  /\ interceptor'[i] = interceptor[i]
               /\ interceptor[i].writer # writer
    <3>1. writer # NoNode
      BY <1>1, RegistryAssumption DEF Node
    <3> QED BY <1>1, <1>3, <3>1, WritersAreNodes DEF RegistryInv
  <2>3. \A i \in DOMAIN interceptor : interceptor[i].writer # n
    <3>1. n # NoNode
      BY RegistryAssumption
    <3> QED BY <1>2, <3>1, WritersAreNodes DEF RegistryInv
  <2>4. ASSUME NEW i \in DOMAIN interceptor',
               interceptor'[i].at = "created"
        PROVE  interceptor'[i].writer \in present' \ entries'
    BY <1>3, <2>1, <2>2, <2>3, <2>4 DEF RegistryInv, WriterInv
  <2>5. ASSUME NEW i \in DOMAIN interceptor'
        PROVE  LET w == interceptor'[i].writer
                   at == interceptor'[i].at
               IN  /\ at \in {"sent", "running"} => w \in present' \cap entries'
                   /\ at = "taken"   => w \in entries' \ present'
                   /\ at = "queued"  => w = NoNode
                   /\ at = "dropped" => w = NoNode \/ w \in entries' \ present'
    BY <1>3, <2>1, <2>2 DEF RegistryInv, WriterInv
  <2>6. ASSUME NEW i \in DOMAIN interceptor', NEW j \in DOMAIN interceptor',
               i # j, interceptor'[i].writer = interceptor'[j].writer
        PROVE  interceptor'[i].writer = NoNode
    BY <1>3, <2>1, <2>2, <2>6 DEF RegistryInv, WriterInv
  <2> QED BY <2>4, <2>5, <2>6 DEF WriterInv
<1>6. (present \cap Output \subseteq entries \cup unregistered_copies)'
  BY <1>3 DEF RegistryInv, unregistered_copies
<1>7. OwnNodesNotTaken'
  BY <1>2, <1>3 DEF RegistryInv, OwnNodesNotTaken
<1> QED BY <1>4, <1>5, <1>6, <1>7 DEF RegistryInv

(* What the other operations do to an interceptor: its place, and perhaps   *)
(* its copy, change and nothing else of it.                                 *)
placed(id, writer, at) ==
    /\ DOMAIN interceptor' = DOMAIN interceptor
    /\ interceptor'[id] = [node |-> interceptor[id].node, writer |-> writer, at |-> at]
    /\ \A i \in DOMAIN interceptor \ {id} : interceptor'[i] = interceptor[i]
    /\ interceptor' = [i \in DOMAIN interceptor |-> interceptor'[i]]

LEMMA Placed ==
    ASSUME RegistryType, NEW id \in DOMAIN interceptor
    PROVE  /\ \A at : move(id, at) => placed(id, interceptor[id].writer, at)
           /\ take_writer_handle(id) => placed(id, NoNode, "queued")
           /\ \A k : create_writer(id, k) => placed(id, new_output(k), "created")
           /\ drop_writer(id) =>
                  placed(id, IF interceptor[id].writer \in entries
                             THEN interceptor[id].writer ELSE NoNode, "dropped")
  BY DEF RegistryType, Interceptor, placed, move, take_writer_handle, create_writer,
         drop_writer

(* With an interceptor placed anew, what is left to show of the registry.   *)
LEMMA PlacedRegistry ==
    ASSUME RegistryType, RegistryInv, NEW id \in DOMAIN interceptor,
           NEW writer \in Output \cup {NoNode}, NEW at \in Place,
           placed(id, writer, at),
           present' \subseteq Node, entries' \subseteq Node,
           \A i \in DOMAIN interceptor \ {id} :
               LET w == interceptor[i].writer IN
               w # NoNode =>
                   (w \in present' <=> w \in present) /\ (w \in entries' <=> w \in entries),
           \/ writer \in {NoNode, interceptor[id].writer}
           \/ writer \notin present \cup entries,
           /\ at \in {"sent", "running"} => writer \in present' \cap entries'
           /\ at = "taken"   => writer \in entries' \ present'
           /\ at = "queued"  => writer = NoNode
           /\ at = "created" => writer \in present' \ entries'
           /\ at = "dropped" => writer = NoNode \/ writer \in entries' \ present',
           \A n \in present' \cap Output :
               n \in entries' \/ (n = writer /\ at = "created")
               \/ \E i \in DOMAIN interceptor \ {id} :
                     interceptor[i].at = "created" /\ interceptor[i].writer = n
    PROVE  RegistryType' /\ RegistryInv'
<1>1. RegistryType'
  <2>1. interceptor'[id] \in Interceptor
    BY DEF placed, RegistryType, Interceptor
  <2>2. \A i \in DOMAIN interceptor' : interceptor'[i] \in Interceptor
    BY <2>1 DEF placed, RegistryType
  <2> QED BY <2>2 DEF RegistryType, placed
<1>2. WriterInv'
  <2>1. \A i \in DOMAIN interceptor \ {id} :
           /\ interceptor[i].at \in {"sent", "running", "taken", "created"}
                 => interceptor[i].writer # NoNode
    BY RegistryAssumption DEF RegistryType, RegistryInv, WriterInv
  <2>2. ASSUME NEW i \in DOMAIN interceptor'
        PROVE  LET w == interceptor'[i].writer
                   a == interceptor'[i].at
               IN  /\ a \in {"sent", "running"} => w \in present' \cap entries'
                   /\ a = "taken"   => w \in entries' \ present'
                   /\ a = "queued"  => w = NoNode
                   /\ a = "created" => w \in present' \ entries'
                   /\ a = "dropped" => w = NoNode \/ w \in entries' \ present'
    <3>1. CASE i = id
      BY <3>1 DEF placed
    <3>2. CASE i # id
      BY <2>1, <3>2 DEF placed, RegistryInv, WriterInv
    <3> QED BY <3>1, <3>2
  <2>3. ASSUME NEW i \in DOMAIN interceptor', NEW j \in DOMAIN interceptor',
               i # j, interceptor'[i].writer = interceptor'[j].writer
        PROVE  interceptor'[i].writer = NoNode
    <3>1. \A k \in DOMAIN interceptor \ {id} :
             interceptor[k].writer = writer => writer = NoNode
      BY WritersAreNodes DEF RegistryInv, WriterInv
    <3> QED BY <2>3, <3>1 DEF placed, RegistryInv, WriterInv
  <2> QED BY <2>2, <2>3 DEF WriterInv
<1>3. (present \cap Output \subseteq entries \cup unregistered_copies)'
  BY DEF placed, unregistered_copies
<1>4. OwnNodesNotTaken'
  BY DEF placed, RegistryInv, OwnNodesNotTaken
<1> QED BY <1>1, <1>2, <1>3, <1>4 DEF RegistryInv

\* The copies of two interceptors are two.
LEMMA OtherWriter ==
    ASSUME RegistryInv, NEW id \in DOMAIN interceptor, NEW i \in DOMAIN interceptor \ {id},
           interceptor[i].writer # NoNode
    PROVE  interceptor[i].writer # interceptor[id].writer
  BY DEF RegistryInv, WriterInv

LEMMA ResetRegistry ==
    ASSUME RegistryType, RegistryInv, NEW id \in DOMAIN interceptor, NEW known_nodes,
           \/ take_writer(id)
           \/ take_writer_handle(id)
           \/ create_writer(id, known_nodes)
           \/ register_writer(id)
    PROVE  RegistryType' /\ RegistryInv'
<1> DEFINE writer == interceptor[id].writer
<1>1. writer \in Output \cup {NoNode} /\ NoNode \notin Node
  BY RegistryAssumption DEF RegistryType, Interceptor
<1>2. \A i \in DOMAIN interceptor \ {id} :
         interceptor[i].writer # NoNode => interceptor[i].writer # writer
  BY OtherWriter
<1>3. \A n \in present \cap Output :
         n \in entries \/ \E i \in DOMAIN interceptor :
                             interceptor[i].at = "created" /\ interceptor[i].writer = n
  BY DEF RegistryInv, unregistered_copies
<1> HIDE DEF writer
<1>4. CASE take_writer(id)
  <2>1. placed(id, writer, "taken")
    BY <1>4, Placed DEF take_writer, writer
  <2>2. present' = present \ {writer} /\ entries' = entries /\ interceptor[id].at = "running"
    BY <1>4 DEF take_writer, writer
  <2>3. writer \in entries
    BY <2>2 DEF RegistryInv, WriterInv, writer
  <2>4. /\ present' \subseteq Node /\ entries' \subseteq Node
        /\ "taken" \in Place
    BY <2>2 DEF RegistryType, Place
  <2>5. \A n \in present' \cap Output :
           n \in entries' \/ \E i \in DOMAIN interceptor \ {id} :
                     interceptor[i].at = "created" /\ interceptor[i].writer = n
    BY <1>3, <2>2
  <2>6. \A i \in DOMAIN interceptor \ {id} :
           LET w == interceptor[i].writer IN
           w # NoNode =>
               (w \in present' <=> w \in present) /\ (w \in entries' <=> w \in entries)
    BY <1>2, <2>2
  <2>7. writer \in {NoNode, interceptor[id].writer} /\ writer \in entries' \ present'
    BY <2>2, <2>3 DEF writer
  <2> QED BY <1>1, <2>1, <2>4, <2>5, <2>6, <2>7, PlacedRegistry
<1>5. CASE take_writer_handle(id)
  <2>1. placed(id, NoNode, "queued")
    BY <1>5, Placed
  <2>2. present' = present /\ entries' = entries \ {writer} /\ interceptor[id].at = "taken"
    BY <1>5 DEF take_writer_handle, writer
  <2>3. writer \notin present
    BY <2>2 DEF RegistryInv, WriterInv, writer
  <2>4. /\ present' \subseteq Node /\ entries' \subseteq Node
        /\ "queued" \in Place /\ NoNode \in Output \cup {NoNode}
    BY <2>2 DEF RegistryType, Place
  <2>5. \A n \in present' \cap Output :
           n \in entries' \/ \E i \in DOMAIN interceptor \ {id} :
                     interceptor[i].at = "created" /\ interceptor[i].writer = n
    BY <1>3, <2>2, <2>3
  <2>6. \A i \in DOMAIN interceptor \ {id} :
           LET w == interceptor[i].writer IN
           w # NoNode =>
               (w \in present' <=> w \in present) /\ (w \in entries' <=> w \in entries)
    BY <1>2, <2>2
  <2> QED BY <1>1, <2>1, <2>4, <2>5, <2>6, PlacedRegistry
<1>6. CASE create_writer(id, known_nodes)
  <2> DEFINE new == new_output(known_nodes)
  <2>1. placed(id, new, "created")
    BY <1>6, Placed
  <2>2. present' = present \cup {new} /\ entries' = entries /\ interceptor[id].at = "queued"
    BY <1>6 DEF create_writer
  <2>3. new \in Output \ (present \cup entries)
    BY <1>6, NewOutput DEF create_writer
  <2> HIDE DEF new
  <2>4. /\ present' \subseteq Node /\ entries' \subseteq Node
        /\ "created" \in Place
    BY <2>2, <2>3 DEF RegistryType, Place, Node
  <2>5. \A n \in present' \cap Output :
           n \in entries' \/ n = new \/ \E i \in DOMAIN interceptor \ {id} :
                     interceptor[i].at = "created" /\ interceptor[i].writer = n
    BY <1>3, <2>2
  <2>6. \A i \in DOMAIN interceptor \ {id} :
           interceptor[i].writer # NoNode => interceptor[i].writer # new
    BY <2>3, WritersAreNodes DEF RegistryInv
  <2> QED BY <1>1, <2>1, <2>2, <2>3, <2>4, <2>5, <2>6, PlacedRegistry
<1>7. CASE register_writer(id)
  <2>1. placed(id, writer, "running")
    BY <1>7, Placed DEF register_writer, writer
  <2>2. present' = present /\ entries' = entries \cup {writer} /\ interceptor[id].at = "created"
    BY <1>7 DEF register_writer, writer
  <2>3. writer \in present
    BY <2>2 DEF RegistryInv, WriterInv, writer
  <2>4. /\ present' \subseteq Node /\ entries' \subseteq Node
        /\ "running" \in Place
    BY <2>2, <2>3 DEF RegistryType, Place
  <2>5. \A n \in present' \cap Output :
           n \in entries' \/ \E i \in DOMAIN interceptor \ {id} :
                     interceptor[i].at = "created" /\ interceptor[i].writer = n
    BY <1>3, <2>2 DEF writer
  <2>6. \A i \in DOMAIN interceptor \ {id} :
           LET w == interceptor[i].writer IN
           w # NoNode =>
               (w \in present' <=> w \in present) /\ (w \in entries' <=> w \in entries)
    BY <1>2, <2>2
  <2>7. writer \in {NoNode, interceptor[id].writer} /\ writer \in present' \cap entries'
    BY <2>2, <2>3 DEF writer
  <2> QED BY <1>1, <2>1, <2>4, <2>5, <2>6, <2>7, PlacedRegistry
<1> QED BY <1>4, <1>5, <1>6, <1>7

\* What a message of the monitor tells the server does not disturb the registry.
LEMMA MoveRegistry ==
    ASSUME RegistryType, RegistryInv, NEW id \in DOMAIN interceptor,
           interceptor[id].at = "sent", move(id, "running"),
           UNCHANGED <<present, entries>>
    PROVE  RegistryType' /\ RegistryInv'
<1>1. placed(id, interceptor[id].writer, "running")
  BY Placed
<1>2. interceptor[id].writer \in Output \cup {NoNode} /\ "running" \in Place
  BY DEF RegistryType, Interceptor, Place
<1>3. interceptor[id].writer \in present' \cap entries'
  BY DEF RegistryInv, WriterInv
<1>4. \A n \in present' \cap Output :
         n \in entries' \/ \E i \in DOMAIN interceptor \ {id} :
                   interceptor[i].at = "created" /\ interceptor[i].writer = n
  BY DEF RegistryInv, unregistered_copies
<1>5. present' \subseteq Node /\ entries' \subseteq Node
  BY DEF RegistryType
<1>6. \A i \in DOMAIN interceptor \ {id} :
         LET w == interceptor[i].writer IN
         w # NoNode =>
             (w \in present' <=> w \in present) /\ (w \in entries' <=> w \in entries)
  OBVIOUS
<1> QED BY <1>1, <1>2, <1>3, <1>4, <1>5, <1>6, PlacedRegistry

LEMMA DropRegistry ==
    ASSUME RegistryType, RegistryInv, NEW id \in DOMAIN interceptor, drop_writer(id)
    PROVE  RegistryType' /\ RegistryInv'
<1> DEFINE writer == interceptor[id].writer
           left   == IF writer \in entries THEN writer ELSE NoNode
<1>1. placed(id, left, "dropped")
  BY Placed
<1>2. present' = present \ {writer} /\ entries' = entries
  BY DEF drop_writer
<1>3. /\ left \in Output \cup {NoNode}
      /\ left \in {NoNode, writer}
      /\ left = NoNode \/ left \in entries' \ present'
      /\ "dropped" \in Place
  BY <1>2 DEF RegistryType, Interceptor, Place
<1>4. \A n \in present' \cap Output :
         n \in entries' \/ \E i \in DOMAIN interceptor \ {id} :
                   interceptor[i].at = "created" /\ interceptor[i].writer = n
  BY <1>2 DEF RegistryInv, unregistered_copies
<1>5. present' \subseteq Node /\ entries' \subseteq Node
  BY <1>2 DEF RegistryType
<1>6. \A i \in DOMAIN interceptor \ {id} :
         LET w == interceptor[i].writer IN
         w # NoNode =>
             (w \in present' <=> w \in present) /\ (w \in entries' <=> w \in entries)
  BY <1>2, OtherWriter
<1> HIDE DEF left
<1> QED BY <1>1, <1>3, <1>4, <1>5, <1>6, PlacedRegistry

LEMMA DropHandlesRegistry ==
    ASSUME RegistryType, RegistryInv, NEW id \in DOMAIN interceptor, drop_handles(id)
    PROVE  RegistryType' /\ RegistryInv'
<1> DEFINE node   == interceptor[id].node
           writer == interceptor[id].writer
<1>1. /\ interceptor[id].at = "dropped"
      /\ present' = present
      /\ entries' = entries \ {node, writer}
      /\ DOMAIN interceptor' = DOMAIN interceptor \ {id}
      /\ \A i \in DOMAIN interceptor \ {id} : interceptor'[i] = interceptor[i]
      /\ interceptor' = [i \in DOMAIN interceptor' |-> interceptor'[i]]
  BY DEF drop_handles
<1>2. node \in Node \ Output /\ writer \notin present /\ NoNode \notin Node
  <2>1. writer = NoNode \/ writer \in entries \ present
    BY <1>1 DEF RegistryInv, WriterInv
  <2>2. node \in Node \ Output
    BY DEF RegistryType, Interceptor, RegistryInv, OwnNodesNotTaken
  <2>3. NoNode \notin present
    BY RegistryAssumption DEF RegistryType
  <2> QED BY <2>1, <2>2, <2>3, RegistryAssumption
<1>3. \A i \in DOMAIN interceptor \ {id} :
         /\ interceptor[i].writer \in Output \cup {NoNode}
         /\ interceptor[i].writer # NoNode => interceptor[i].writer # writer
  BY OtherWriter DEF RegistryType, Interceptor
<1> HIDE DEF node, writer
<1>4. \A i \in DOMAIN interceptor \ {id} :
         LET w == interceptor[i].writer IN
         w # NoNode =>
             (w \in present' <=> w \in present) /\ (w \in entries' <=> w \in entries)
  BY <1>1, <1>2, <1>3
<1>5. RegistryType'
  BY <1>1 DEF RegistryType
<1>6. WriterInv'
  <2>1. NoNode \notin present \cup entries
    BY RegistryAssumption DEF RegistryType
  <2> QED BY <1>1, <1>4, <2>1 DEF RegistryInv, WriterInv
<1>7. (present \cap Output \subseteq entries \cup unregistered_copies)'
  <2>1. ASSUME NEW n \in present' \cap Output
        PROVE  n \in entries' \/ \E i \in DOMAIN interceptor' :
                   interceptor'[i].at = "created" /\ interceptor'[i].writer = n
    BY <1>1, <1>2 DEF RegistryInv, unregistered_copies
  <2> QED BY <2>1 DEF unregistered_copies
<1>8. OwnNodesNotTaken'
  BY <1>1 DEF RegistryInv, OwnNodesNotTaken
<1> QED BY <1>5, <1>6, <1>7, <1>8 DEF RegistryInv

\* The user's devices come and go; rkvm's own are not among them.
LEMMA SourceRegistry ==
    ASSUME RegistryType, RegistryInv, NEW n \in Source,
           present' \in {present \cup {n}, present \ {n}},
           UNCHANGED <<entries, interceptor>>
    PROVE  RegistryType' /\ RegistryInv'
<1>1. \A w \in Output \cup {NoNode} : w \in present' <=> w \in present
  BY RegistryAssumption DEF Node
<1>2. \A id \in DOMAIN interceptor : interceptor[id].writer \in Output \cup {NoNode}
  BY DEF RegistryType, Interceptor
<1>3. RegistryType'
  BY DEF RegistryType, Node
<1>4. WriterInv'
  BY <1>1, <1>2 DEF RegistryInv, WriterInv
<1>5. (present \cap Output \subseteq entries \cup unregistered_copies)'
  BY <1>1 DEF RegistryInv, unregistered_copies
<1>6. OwnNodesNotTaken'
  BY DEF RegistryInv, OwnNodesNotTaken
<1> QED BY <1>3, <1>4, <1>5, <1>6 DEF RegistryInv

-----------------------------------------------------------------------------
(* Rules and candidates. *)

LEMMA Rules ==
    /\ Rule \subseteq Nat \ {NoRule}
    /\ \A r \in Rule : group[r] \in Nat
  BY PolicyAssumption DEF Rule, NoRule

LEMMA NewCandidate ==
    ASSUME PolicyType, NEW n \in Node
    PROVE  /\ new_candidate(n) \in Candidate
           /\ new_candidate(n).state # "active"
           /\ new_candidate(n).rule = NoRule => new_candidate(n).state = "rejected"
           /\ ~new_candidate(n).removal_sent
<1>1. rules(n) \in SUBSET Rule
  BY PolicyAssumption DEF PolicyType, rules, Node
<1>2. selection(n) \in Rule \cup {NoRule}
  BY <1>1, Rules, LeastElement DEF selection
<1>3. \A state \in CandidateState, r \in Rule \cup {NoRule} :
         /\ candidate(state, r) \in Candidate
         /\ candidate(state, r).state = state
         /\ candidate(state, r).rule = r
         /\ ~candidate(state, r).removal_sent
  BY DEF candidate, Candidate
<1>4. {"rejected", "deferred", "ready"} \subseteq CandidateState
  BY DEF CandidateState, Retry
<1> DEFINE state == CASE selection(n) = NoRule     -> "rejected"
                      [] selection(n) \in delayed  -> "deferred"
                      [] OTHER                     -> "ready"
<1>5. /\ state \in {"rejected", "deferred", "ready"}
      /\ selection(n) = NoRule => state = "rejected"
  BY PolicyAssumption, Rules
<1>6. new_candidate(n) = candidate(state, selection(n))
  BY DEF new_candidate
<1> HIDE DEF state
<1> QED BY <1>2, <1>3, <1>4, <1>5, <1>6

\* What retry makes of a candidate.
LEMMA RetryCandidate ==
    ASSUME NEW r \in Rule \cup {NoRule}, NEW state \in CandidateState
    PROVE  /\ candidate(state, r) \in Candidate
           /\ candidate(state, r).state = state
           /\ candidate(state, r).rule = r
           /\ candidate(state, r).activation_id = 0
           /\ ~candidate(state, r).removal_sent
  BY DEF candidate, Candidate

(* The candidates that claim_order selects: each is the only one of its     *)
(* group, the group has no active one, and preferred ones are out of the    *)
(* question.                                                                *)
LEMMA FirstOfGroup ==
    ASSUME NEW D \in SUBSET Node, NEW cs \in [D -> Candidate], NEW g \in Nat,
           NEW n \in first_of_group(cs, g)
    PROVE  /\ n \in members(cs, g)
           /\ first_of_group(cs, g) = {n}
           /\ \A m \in members(cs, g) :
                 /\ cs[m].state # "active"
                 /\ cs[m].rule < cs[n].rule => cs[m].state \in {"unsupported", "rejected"}
<1> DEFINE eligible == {m \in members(cs, g) : suppresses_lower_rules(cs[m])}
           ranks    == {cs[m].rule : m \in eligible}
           best     == Min(ranks)
           matched  == {m \in eligible : cs[m].rule = best}
           exact    == {m \in matched : reaches_exact_path(m, best)}
           first    == Min(IF exact = {} THEN matched ELSE exact)
<1>1. /\ eligible # {}
      /\ \A m \in eligible : cs[m].state # "active"
      /\ first_of_group(cs, g) = {first}
  BY DEF first_of_group, first_of_rule
<1>2. /\ eligible \subseteq D
      /\ \A m \in eligible : cs[m].rule \in Nat
  <2>1. ASSUME NEW m \in eligible PROVE m \in D /\ cs[m].rule \in Nat
    <3>1. m \in D /\ cs[m].rule # NoRule
      BY DEF members
    <3>2. cs[m] \in Candidate
      BY <3>1
    <3> QED BY <3>1, <3>2, Rules DEF Candidate
  <2> QED BY <2>1
<1>3. /\ best \in ranks
      /\ \A m \in eligible : best <= cs[m].rule
  <2>1. ranks \in SUBSET Nat /\ ranks # {}
    BY <1>1, <1>2
  <2>2. \A m \in eligible : cs[m].rule \in ranks
    OBVIOUS
  <2> HIDE DEF ranks
  <2> QED BY <2>1, <2>2, LeastElement
<1>4. first \in matched
  <2>1. matched # {} /\ exact \subseteq matched
    BY <1>3
  <2>2. matched \in SUBSET Nat
    BY <1>2, RegistryAssumption
  <2> HIDE DEF matched, exact
  <2> DEFINE tried == IF exact = {} THEN matched ELSE exact
  <2>3. tried \in SUBSET Nat /\ tried # {} /\ tried \subseteq matched
    BY <2>1, <2>2
  <2> HIDE DEF tried
  <2>4. Min(tried) \in matched
    BY <2>3, LeastElement
  <2> QED BY <2>4 DEF tried
<1>5. n = first
  BY <1>1
<1>6. cs[n].rule = best /\ n \in eligible
  BY <1>4, <1>5
<1>7. ASSUME NEW m \in members(cs, g)
      PROVE  /\ cs[m].state # "active"
             /\ cs[m].rule < cs[n].rule => cs[m].state \in {"unsupported", "rejected"}
  <2>1. CASE m \in eligible
    <3>1. cs[m].rule \in Nat /\ cs[n].rule \in Nat
      BY <1>2, <1>6, <2>1
    <3>2. ~(cs[m].rule < cs[n].rule)
      BY <1>3, <1>6, <2>1, <3>1
    <3> QED BY <1>1, <2>1, <3>2
  <2>2. CASE m \notin eligible
    BY <2>2 DEF suppresses_lower_rules
  <2> QED BY <2>1, <2>2
<1> QED BY <1>1, <1>5, <1>6, <1>7

LEMMA ClaimOrder ==
    ASSUME NEW D \in SUBSET Node, NEW cs \in [D -> Candidate], NEW n \in claim_order(cs)
    PROVE  /\ n \in D
           /\ cs[n].state = "ready"
           /\ cs[n].rule \in Rule
           /\ group[cs[n].rule] # Ungrouped =>
                 \A m \in members(cs, group[cs[n].rule]) \ {n} :
                    /\ cs[m].state # "active"
                    /\ m \notin claim_order(cs)
                    /\ cs[m].rule < cs[n].rule => cs[m].state \in {"unsupported", "rejected"}
<1>1. Ungrouped \in Nat /\ \A r \in Rule : group[r] \in Nat
  BY Rules DEF Ungrouped
<1>2. ASSUME NEW m \in claim_order(cs)
      PROVE  /\ m \in D
             /\ cs[m].state = "ready"
             /\ cs[m].rule \in Rule
             /\ group[cs[m].rule] # Ungrouped => m \in first_of_group(cs, group[cs[m].rule])
  <2>1. \/ m \in members(cs, Ungrouped)
        \/ \E r \in Rule : m \in first_of_group(cs, group[r])
    BY DEF claim_order
  <2>2. PICK g \in Nat : m \in members(cs, g) /\ (g # Ungrouped => m \in first_of_group(cs, g))
    BY <1>1, <2>1, FirstOfGroup
  <2>3. /\ m \in D
        /\ cs[m].rule \in Rule
        /\ group[cs[m].rule] = g
    BY <2>2 DEF members, Candidate
  <2>4. cs[m].state = "ready"
    BY DEF claim_order
  <2> QED BY <2>2, <2>3, <2>4
<1>3. ASSUME group[cs[n].rule] # Ungrouped
      PROVE  \A m \in members(cs, group[cs[n].rule]) \ {n} :
                /\ cs[m].state # "active"
                /\ m \notin claim_order(cs)
                /\ cs[m].rule < cs[n].rule => cs[m].state \in {"unsupported", "rejected"}
  <2> DEFINE g == group[cs[n].rule]
  <2>1. n \in first_of_group(cs, g) /\ g \in Nat
    BY <1>1, <1>2, <1>3
  <2>2. /\ first_of_group(cs, g) = {n}
        /\ \A m \in members(cs, g) :
              /\ cs[m].state # "active"
              /\ cs[m].rule < cs[n].rule => cs[m].state \in {"unsupported", "rejected"}
    BY <2>1, FirstOfGroup
  <2>3. \A m \in members(cs, g) : group[cs[m].rule] = g
    BY DEF members
  <2> HIDE DEF g
  <2>4. \A m \in members(cs, g) \ {n} : m \notin claim_order(cs)
    BY <1>2, <1>3, <2>2, <2>3 DEF g
  <2> QED BY <2>2, <2>4 DEF g
<1> QED BY <1>2, <1>3

-----------------------------------------------------------------------------
(* The monitor's loop. *)

\* What is claimed next is chosen from the candidates as they are now.
LEMMA Reconciled ==
    ASSUME CandidatesType', reconcile_with(candidates')
    PROVE  /\ phase' \in {"idle", "reconcile"}
           /\ pending' \subseteq Node
           /\ phase' = "reconcile" =>
                 \A n \in pending' : n \in DOMAIN candidates' /\ candidates'[n].state = "ready"
           /\ PendingFirst'
<1>1. /\ candidates' \in [DOMAIN candidates' -> Candidate]
      /\ DOMAIN candidates' \in SUBSET Node
      /\ pending' = claim_order(candidates')
      /\ phase' \in {"idle", "reconcile"}
  BY DEF CandidatesType, reconcile_with
<1>2. ASSUME NEW n \in pending'
      PROVE  /\ n \in DOMAIN candidates'
             /\ candidates'[n].state = "ready"
             /\ group[candidates'[n].rule] # Ungrouped =>
                   \A m \in members(candidates', group[candidates'[n].rule]) \ {n} :
                      /\ candidates'[m].state # "active"
                      /\ m \notin pending'
                      /\ candidates'[m].rule < candidates'[n].rule
                            => candidates'[m].state \in {"unsupported", "rejected"}
  BY <1>1, ClaimOrder
<1>3. PendingFirst'
  BY <1>2 DEF PendingFirst, is_active, members
<1> QED BY <1>1, <1>2, <1>3

\* The step changes nothing that matters of the candidates that are active.
SameActives ==
    \A n \in Node :
        /\ is_active(n)' <=> is_active(n)
        /\ is_active(n) => /\ candidates'[n].rule = candidates[n].rule
                           /\ candidates'[n].activation_id = candidates[n].activation_id

LEMMA ActivesStay ==
    ASSUME CandidatesType, CandidatesType', RegistryType, ActiveIsAccounted, ActiveApart,
           SameActives, UNCHANGED <<interceptor, releases>>
    PROVE  ActiveIsAccounted' /\ ActiveApart'
<1>1. /\ DOMAIN candidates \subseteq Node /\ DOMAIN candidates' \subseteq Node
      /\ \A id \in DOMAIN interceptor : interceptor[id].node \in Node
  BY DEF CandidatesType, RegistryType, Interceptor
<1>2. ActiveIsAccounted'
  <2>1. ASSUME NEW id \in DOMAIN interceptor'
        PROVE  /\ is_active(interceptor[id].node)'
               /\ candidates'[interceptor'[id].node].activation_id = id
    BY <1>1 DEF ActiveIsAccounted, SameActives
  <2>2. ASSUME NEW n \in DOMAIN candidates', is_active(n)'
        PROVE  (candidates'[n].activation_id \in DOMAIN interceptor')
               # (candidates'[n].activation_id \in ids(releases'))
    <3>1. /\ n \in DOMAIN candidates /\ is_active(n)
          /\ candidates'[n].activation_id = candidates[n].activation_id
      BY <1>1, <2>2 DEF SameActives, is_active
    <3>2. (candidates[n].activation_id \in DOMAIN interceptor)
               # (candidates[n].activation_id \in ids(releases))
      BY <3>1 DEF ActiveIsAccounted
    <3> QED BY <3>1, <3>2
  <2> QED BY <2>1, <2>2 DEF ActiveIsAccounted, is_active
<1>3. ActiveApart'
  BY <1>1 DEF ActiveApart, SameActives, is_active
<1> QED BY <1>2, <1>3

LEMMA TickStep ==
    ASSUME IInv, Tick
    PROVE  IInv'
<1>1. UNCHANGED <<grabs, policy, candidates, snapshots, mailbox, releases, dying>>
  BY DEF Tick
<1>2. phase' = "scan" /\ pending' = Node
  BY DEF Tick, start_scan
<1>3. TypeInv'
  BY <1>1, <1>2 DEF grabs, policy, IInv, TypeInv, RegistryType, IdsType, PolicyType,
     CandidatesType, is_active, LoopType, MailType
<1>4. RegistryInv' /\ MessageInv' /\ ActiveIsAccounted' /\ ActiveApart'
  BY <1>1 DEF grabs, IInv, RegistryInv, WriterInv, unregistered_copies, OwnNodesNotTaken,
     MessageInv, ActiveIsAccounted, GroupInv, ActiveApart, is_active
<1>5. PendingFirst'
  BY <1>2 DEF PendingFirst
<1> QED BY <1>3, <1>4, <1>5 DEF IInv, GroupInv

LEMMA HandleReleaseStep ==
    ASSUME IInv, HandleRelease
    PROVE  IInv'
<1> DEFINE release == Head(releases)
           held == {n \in DOMAIN candidates :
                       is_active(n) /\ candidates[n].activation_id = release.activation_id}
<1>1. /\ UNCHANGED <<grabs, policy, snapshots, mailbox, dying>>
      /\ phase' = "scan" /\ pending' = Node
      /\ releases # <<>> /\ releases' = Tail(releases)
      /\ DOMAIN candidates' = DOMAIN candidates
      /\ \A n \in DOMAIN candidates \ held : candidates'[n] = candidates[n]
      /\ \A n \in held :
            candidates'[n] = candidate(after_release(release.cause), candidates[n].rule)
      /\ candidates' = [n \in DOMAIN candidates |-> candidates'[n]]
  BY DEF HandleRelease, start_scan
<1> HIDE DEF held, release
<1>2. \A n \in held :
         /\ candidates'[n] \in Candidate
         /\ candidates'[n].state # "active"
         /\ candidates'[n].rule = candidates[n].rule
         /\ ~candidates'[n].removal_sent
         /\ candidates[n].rule # NoRule
  <2>1. \A cause : after_release(cause) \in CandidateState \ {"active"}
    BY DEF after_release, CandidateState, Retry
  <2>2. \A n \in held : candidates[n].rule \in Rule
    BY DEF held, IInv, TypeInv, CandidatesType, Candidate, is_active
  <2>3. \A r \in Rule : r # NoRule
    BY Rules
  <2> QED BY <1>1, <2>1, <2>2, <2>3, RetryCandidate
<1>3. CandidatesType'
  <2>1. \A n \in DOMAIN candidates' :
           /\ candidates'[n] \in Candidate
           /\ candidates'[n].rule = NoRule => candidates'[n].state = "rejected"
           /\ candidates'[n].removal_sent => candidates'[n].state = "active"
    BY <1>1, <1>2 DEF IInv, TypeInv, CandidatesType, is_active
  <2> QED BY <1>1, <2>1 DEF IInv, TypeInv, CandidatesType, is_active
<1>4. MailType'
  BY <1>1, PolicyAssumption DEF IInv, TypeInv, MailType
<1>5. TypeInv'
  BY <1>1, <1>3, <1>4 DEF grabs, policy, IInv, TypeInv, RegistryType, IdsType, PolicyType,
     LoopType
<1>6. RegistryInv' /\ MessageInv'
  BY <1>1 DEF grabs, IInv, RegistryInv, WriterInv, unregistered_copies, OwnNodesNotTaken,
     MessageInv
<1>7. ActiveIsAccounted'
  <2>1. release \in Dying /\ release.activation_id \in ids(releases)
    BY <1>1 DEF release, ids, IInv, TypeInv, MailType
  <2>2. ids(releases) = ids(releases') \cup {release.activation_id}
    <3>1. releases \in Seq(Dying)
      BY DEF IInv, TypeInv, MailType
    <3>2. DOMAIN releases = 1 .. Len(releases)
          /\ DOMAIN releases' = 1 .. Len(releases) - 1
          /\ \A i \in DOMAIN releases' : releases'[i] = releases[i + 1]
          /\ Len(releases) \in Nat \ {0}
      BY <1>1, <3>1
    <3>3. \A i \in DOMAIN releases : i = 1 \/ (i - 1 \in DOMAIN releases' /\ releases'[i - 1] = releases[i])
      BY <3>2
    <3>4. release = releases[1] /\ 1 \in DOMAIN releases
      BY <1>1, <3>1 DEF release
    <3>5. \A i \in DOMAIN releases' : i + 1 \in DOMAIN releases
      BY <3>2
    <3> QED BY <3>2, <3>3, <3>4, <3>5 DEF ids
  <2>3. \A id \in DOMAIN interceptor :
           /\ is_active(interceptor[id].node)
           /\ candidates[interceptor[id].node].activation_id = id
    BY DEF IInv, ActiveIsAccounted
  <2>4. \A n \in DOMAIN candidates :
           is_active(n) => (candidates[n].activation_id \in DOMAIN interceptor)
                           # (candidates[n].activation_id \in ids(releases))
    BY DEF IInv, ActiveIsAccounted
  <2>5. \A id \in DOMAIN interceptor : interceptor[id].node \notin held
    BY <2>1, <2>3, <2>4 DEF held
  <2>6. interceptor' = interceptor
    BY <1>1 DEF grabs
  <2>7. ASSUME NEW n \in DOMAIN candidates', is_active(n)'
        PROVE  (candidates'[n].activation_id \in DOMAIN interceptor')
               # (candidates'[n].activation_id \in ids(releases'))
    <3>1. n \in DOMAIN candidates \ held
      BY <1>1, <1>2, <2>7 DEF is_active
    <3>2. is_active(n) /\ candidates'[n] = candidates[n]
      BY <1>1, <2>7, <3>1 DEF is_active
    <3>3. candidates[n].activation_id # release.activation_id
      BY <3>1, <3>2 DEF held
    <3>4. candidates[n].activation_id \in ids(releases)
             <=> candidates[n].activation_id \in ids(releases')
      BY <2>2, <3>3
    <3> QED BY <2>4, <2>6, <3>1, <3>2, <3>4
  <2>8. ASSUME NEW id \in DOMAIN interceptor'
        PROVE  /\ is_active(interceptor[id].node)'
               /\ candidates'[interceptor'[id].node].activation_id = id
    BY <1>1, <2>3, <2>5, <2>6 DEF is_active
  <2> QED BY <2>7, <2>8 DEF ActiveIsAccounted, is_active
<1>8. ActiveApart'
  BY <1>1, <1>2 DEF IInv, GroupInv, ActiveApart, is_active
<1>9. PendingFirst'
  BY <1>1 DEF PendingFirst
<1> QED BY <1>5, <1>6, <1>7, <1>8, <1>9 DEF IInv, GroupInv

LEMMA WakeStep ==
    ASSUME IInv, NEW n \in Node, Wake(n)
    PROVE  IInv' /\ SameActives
<1> DEFINE due == {m \in DOMAIN candidates : candidates[m].state \in Retry}
<1>1. PICK expired \in SUBSET due :
         candidates' = [m \in DOMAIN candidates |->
                           IF m \in expired THEN candidate("ready", candidates[m].rule)
                           ELSE candidates[m]]
  BY DEF Wake
<1>2. /\ UNCHANGED <<grabs, policy, snapshots, mailbox, releases, dying>>
      /\ reconcile_with(candidates')
  BY DEF Wake
<1> HIDE DEF due
<1>3. /\ DOMAIN candidates' = DOMAIN candidates
      /\ \A m \in DOMAIN candidates \ expired : candidates'[m] = candidates[m]
      /\ candidates' = [m \in DOMAIN candidates |-> candidates'[m]]
  BY <1>1
<1>4. \A m \in expired :
         /\ m \in DOMAIN candidates
         /\ ~is_active(m)
         /\ candidates'[m] \in Candidate
         /\ candidates'[m].state = "ready"
         /\ candidates'[m].rule \in Rule
         /\ ~candidates'[m].removal_sent
  <2>1. "ready" \in CandidateState /\ {"active", "rejected"} \cap Retry = {}
    BY DEF CandidateState, Retry
  <2>2. ASSUME NEW m \in expired
        PROVE  /\ m \in DOMAIN candidates
               /\ candidates[m].rule \in Rule
               /\ candidates[m].state \notin {"active", "rejected"}
    <3>1. m \in DOMAIN candidates /\ candidates[m].state \in Retry
      BY DEF due
    <3>2. candidates[m].rule \in Rule \cup {NoRule} /\ candidates[m].rule # NoRule
      BY <2>1, <3>1 DEF IInv, TypeInv, CandidatesType, Candidate
    <3> QED BY <2>1, <3>1, <3>2
  <2>3. \A m \in expired : candidates'[m] = candidate("ready", candidates[m].rule)
    BY <1>1, <2>2
  <2> QED BY <2>1, <2>2, <2>3, RetryCandidate DEF is_active
<1>5. CandidatesType'
  <2>1. \A m \in DOMAIN candidates' :
           /\ candidates'[m] \in Candidate
           /\ candidates'[m].rule = NoRule => candidates'[m].state = "rejected"
           /\ candidates'[m].removal_sent => candidates'[m].state = "active"
    BY <1>3, <1>4, Rules DEF IInv, TypeInv, CandidatesType, is_active
  <2> QED BY <1>3, <2>1 DEF IInv, TypeInv, CandidatesType, is_active
<1>6. TypeInv'
  <2>1. LoopType'
    BY <1>2, <1>5, Reconciled DEF IInv, TypeInv, LoopType
  <2> QED BY <1>2, <1>5, <2>1 DEF grabs, policy, IInv, TypeInv, RegistryType, IdsType,
       PolicyType, MailType
<1>7. RegistryInv' /\ MessageInv'
  BY <1>2 DEF grabs, IInv, RegistryInv, WriterInv, unregistered_copies, OwnNodesNotTaken,
     MessageInv
<1>8. SameActives
  BY <1>3, <1>4 DEF SameActives, is_active
<1>9. ActiveIsAccounted' /\ ActiveApart'
  BY <1>2, <1>5, <1>8, ActivesStay DEF IInv, TypeInv, GroupInv, grabs
<1>10. PendingFirst'
  BY <1>2, <1>5, Reconciled
<1> QED BY <1>6, <1>7, <1>8, <1>9, <1>10 DEF IInv, GroupInv

LEMMA ScanStep ==
    ASSUME IInv, NEW n \in Node, ScanNode(n) \/ ScanFails(n)
    PROVE  IInv'
<1>1. PICK snapshot \in Snapshot : scanned(n, snapshot)
  BY DEF ScanNode, ScanFails, finding, Snapshot
<1>2. /\ UNCHANGED <<grabs, policy, candidates, phase, mailbox, releases, dying>>
      /\ phase = "scan"
      /\ snapshots' = [snapshots EXCEPT ![n] = snapshot]
      /\ pending' \subseteq pending
  BY <1>1 DEF scanned
<1>3. TypeInv'
  BY <1>2 DEF grabs, policy, IInv, TypeInv, RegistryType, IdsType, PolicyType,
     CandidatesType, is_active, LoopType, MailType
<1>4. RegistryInv' /\ MessageInv' /\ ActiveIsAccounted' /\ ActiveApart'
  BY <1>2 DEF grabs, IInv, RegistryInv, WriterInv, unregistered_copies, OwnNodesNotTaken,
     MessageInv, ActiveIsAccounted, GroupInv, ActiveApart, is_active
<1>5. PendingFirst'
  BY <1>2 DEF PendingFirst
<1> QED BY <1>3, <1>4, <1>5 DEF IInv, GroupInv

\* Requests to remove devices are sent in any order behind what is in the mailbox.
LEMMA Removals ==
    ASSUME IInv, NEW removals \in SetToSeqs({removal(n) : n \in {m \in Node : removal_due(m)}})
    PROVE  /\ removals \in Seq(Message)
           /\ \A i \in DOMAIN removals : removals[i].event = "remove"
<1> DEFINE due      == {m \in Node : removal_due(m)}
           requests == {removal(n) : n \in due}
           f        == [n \in due |-> removal(n)]
<1>1. IsFiniteSet(due)
  BY RegistryAssumption, FS_Subset
<1>2. requests = {f[n] : n \in due} /\ DOMAIN f = due
  OBVIOUS
<1>3. IsFiniteSet(requests)
  <2> HIDE DEF f, due, requests
  <2>1. IsFiniteSet({f[n] : n \in due})
    BY <1>1, <1>2, FiniteImage
  <2> QED BY <1>2, <2>1
<1>4. requests \subseteq [event : {"remove"}, activation_id : Nat]
  BY DEF removal, removal_due, is_active, IInv, TypeInv, CandidatesType, Candidate
<1>5. Cardinality(requests) \in Nat
  BY <1>3, FS_CardinalityType
<1>6. removals \in [1 .. Cardinality(requests) -> requests]
  BY DEF SetToSeqs
<1> HIDE DEF requests
<1>7. removals \in Seq(requests)
  BY <1>5, <1>6
<1>8. \A i \in DOMAIN removals : removals[i] \in requests
  BY <1>6
<1>9. requests \subseteq Message /\ \A r \in requests : r.event = "remove"
  BY <1>4 DEF Message
<1>10. removals \in Seq(Message)
  BY <1>7, <1>9
<1> QED BY <1>8, <1>9, <1>10

LEMMA RefreshStep ==
    ASSUME IInv, Refresh
    PROVE  IInv' /\ SameActives
<1>1. PICK removals \in SetToSeqs({removal(n) : n \in {m \in Node : removal_due(m)}}) :
         mailbox' = mailbox \o removals
  BY DEF Refresh
<1>2. /\ UNCHANGED <<grabs, policy, releases, dying>>
      /\ candidates' = [n \in {m \in Node : kept(m)} |-> refreshed(n)]
      /\ snapshots' = [n \in Node |-> "absent"]
      /\ reconcile_with(candidates')
  BY DEF Refresh
<1>3. /\ removals \in Seq(Message)
      /\ \A i \in DOMAIN removals : removals[i].event = "remove"
  BY Removals
<1>4. DOMAIN candidates' = {m \in Node : kept(m)}
      /\ \A n \in DOMAIN candidates' : candidates'[n] = refreshed(n)
  BY <1>2
<1>5. ASSUME NEW n \in DOMAIN candidates'
      PROVE  /\ candidates'[n] \in Candidate
             /\ candidates'[n].rule = NoRule => candidates'[n].state = "rejected"
             /\ candidates'[n].removal_sent => candidates'[n].state = "active"
             /\ candidates'[n].state = "active" <=> is_active(n)
             /\ is_active(n) => /\ candidates'[n].rule = candidates[n].rule
                                /\ candidates'[n].activation_id = candidates[n].activation_id
  <2>1. n \in Node
    BY <1>4
  <2>2. CASE is_active(n)
    <3>1. candidates'[n] = [candidates[n] EXCEPT !.removal_sent = @ \/ removal_due(n)]
      BY <1>4, <2>2 DEF refreshed
    <3>2. candidates[n] \in Candidate /\ candidates[n].state = "active"
      BY <2>2 DEF is_active, IInv, TypeInv, CandidatesType
    <3>3. candidates[n].removal_sent \/ removal_due(n) \in BOOLEAN
      BY <3>2 DEF Candidate, removal_due, is_active
    <3>4. /\ candidates'[n] \in Candidate
          /\ candidates'[n].state = "active"
          /\ candidates'[n].rule = candidates[n].rule
          /\ candidates'[n].activation_id = candidates[n].activation_id
      BY <3>1, <3>2, <3>3 DEF Candidate
    <3>5. candidates[n].rule # NoRule
      BY <2>2 DEF is_active, IInv, TypeInv, CandidatesType
    <3> QED BY <2>2, <3>4, <3>5
  <2>3. CASE ~is_active(n)
    <3>1. candidates'[n] \in {new_candidate(n)} \cup
             {candidates[m] : m \in {k \in DOMAIN candidates : k = n /\ ~is_active(k)}}
      BY <1>4, <2>3 DEF refreshed, update_policy
    <3>2. CASE candidates'[n] = new_candidate(n)
      BY <2>1, <2>3, <3>2, NewCandidate DEF IInv, TypeInv
    <3>3. CASE n \in DOMAIN candidates /\ candidates'[n] = candidates[n]
      BY <2>3, <3>3 DEF IInv, TypeInv, CandidatesType, is_active
    <3> QED BY <3>1, <3>2, <3>3
  <2> QED BY <2>2, <2>3
<1>6. CandidatesType'
  <2>1. DOMAIN candidates' \subseteq Node
    BY <1>4
  <2>2. candidates' \in [DOMAIN candidates' -> Candidate]
    <3>1. candidates' = [n \in DOMAIN candidates' |-> candidates'[n]]
      BY <1>2
    <3>2. \A n \in DOMAIN candidates' : candidates'[n] \in Candidate
      BY <1>5
    <3> QED BY <3>1, <3>2
  <2> QED BY <1>5, <2>1, <2>2 DEF CandidatesType, is_active
<1>7. SameActives
  BY <1>4, <1>5 DEF SameActives, is_active, kept
<1>8. LoopType'
  BY <1>2, <1>6, Reconciled DEF LoopType, Snapshot
<1>9. MailType'
  BY <1>1, <1>2, <1>3 DEF IInv, TypeInv, MailType
<1>10. TypeInv'
  BY <1>2, <1>6, <1>8, <1>9 DEF grabs, policy, IInv, TypeInv, RegistryType, IdsType,
     PolicyType
<1>11. RegistryInv'
  BY <1>2 DEF grabs, IInv, RegistryInv, WriterInv, unregistered_copies, OwnNodesNotTaken
<1>12. MessageInv'
  <2>1. mailbox \in Seq(Message)
    BY DEF IInv, TypeInv, MailType
  <2>2. ASSUME NEW i \in DOMAIN mailbox', mailbox'[i].event = "activated"
        PROVE  i \in DOMAIN mailbox /\ \A j \in 1 .. i : mailbox'[j] = mailbox[j]
    <3>1. CASE i <= Len(mailbox)
      BY <1>1, <1>3, <2>1, <3>1
    <3>2. CASE ~(i <= Len(mailbox))
      <4>1. i - Len(mailbox) \in DOMAIN removals /\ mailbox'[i] = removals[i - Len(mailbox)]
        BY <1>1, <1>3, <2>1, <3>2
      <4>2. mailbox'[i].event = "remove"
        BY <1>3, <4>1
      <4> QED BY <2>2, <4>2
    <3> QED BY <3>1, <3>2
  <2>3. UNCHANGED <<interceptor, dying>>
    BY <1>2 DEF grabs
  <2>4. ASSUME NEW i \in DOMAIN mailbox', mailbox'[i].event = "activated"
        PROVE  /\ mailbox'[i].activation_id \in DOMAIN interceptor
               /\ interceptor[mailbox'[i].activation_id].at = "sent"
               /\ \A j \in 1 .. i - 1 :
                     mailbox'[j].activation_id # mailbox'[i].activation_id
    <3>1. /\ i \in DOMAIN mailbox /\ i \in Nat \ {0}
          /\ \A j \in 1 .. i : mailbox'[j] = mailbox[j]
      BY <2>1, <2>2, <2>4
    <3>2. mailbox'[i] = mailbox[i] /\ \A j \in 1 .. i - 1 : mailbox'[j] = mailbox[j]
      BY <3>1
    <3> QED BY <2>4, <3>1, <3>2 DEF IInv, MessageInv
  <2> QED BY <2>3, <2>4 DEF IInv, MessageInv
<1>13. ActiveIsAccounted' /\ ActiveApart'
  BY <1>2, <1>6, <1>7, ActivesStay DEF IInv, TypeInv, GroupInv, grabs
<1>14. PendingFirst'
  BY <1>2, <1>6, Reconciled
<1> QED BY <1>7, <1>10, <1>11, <1>12, <1>13, <1>14 DEF IInv, GroupInv

-----------------------------------------------------------------------------
(* Claims.  Only the candidate that is claimed changes, and whatever else   *)
(* is to be claimed belongs to another group.                               *)

OnlyChanges(n) ==
    /\ DOMAIN candidates' \in {DOMAIN candidates, DOMAIN candidates \ {n}}
    /\ \A m \in DOMAIN candidates' \ {n} : candidates'[m] = candidates[m]
    /\ n \in DOMAIN candidates' =>
          /\ candidates'[n] \in Candidate
          /\ candidates'[n].rule = candidates[n].rule
          /\ ~candidates'[n].removal_sent
    /\ candidates' = [m \in DOMAIN candidates' |-> candidates'[m]]

LEMMA PendingCandidate ==
    ASSUME IInv, phase = "reconcile", NEW n \in pending
    PROVE  /\ n \in Node
           /\ n \in DOMAIN candidates
           /\ candidates[n].state = "ready"
           /\ candidates[n].rule \in Rule
           /\ ~is_active(n)
<1>1. /\ n \in Node
      /\ n \in DOMAIN candidates
      /\ candidates[n].state = "ready"
  BY DEF IInv, TypeInv, LoopType
<1>2. candidates[n] \in Candidate /\ (candidates[n].rule = NoRule => candidates[n].state = "rejected")
  BY <1>1 DEF IInv, TypeInv, CandidatesType
<1> QED BY <1>1, <1>2 DEF Candidate, is_active

LEMMA ClaimedNext ==
    ASSUME IInv, phase = "reconcile", NEW n \in pending, claimed_next(n), OnlyChanges(n),
           UNCHANGED snapshots
    PROVE  LoopType' /\ CandidatesType' /\ PendingFirst'
<1>1. pending' = pending \ {n} /\ phase' \in {"idle", "reconcile"}
  BY DEF claimed_next
<1>2. \A m \in pending : m \in Node /\ m \in DOMAIN candidates /\ candidates[m].state = "ready"
  BY PendingCandidate
<1>3. \A m \in pending' : m \in DOMAIN candidates' /\ candidates'[m] = candidates[m]
  BY <1>1, <1>2 DEF OnlyChanges
<1>4. LoopType'
  BY <1>1, <1>2, <1>3 DEF IInv, TypeInv, LoopType
<1>5. CandidatesType'
  <2>1. candidates[n].rule # NoRule /\ n \in DOMAIN candidates
    BY PendingCandidate, Rules
  <2>2. DOMAIN candidates' \subseteq DOMAIN candidates
    BY <2>1 DEF OnlyChanges
  <2>3. \A m \in DOMAIN candidates' :
           /\ candidates'[m] \in Candidate
           /\ candidates'[m].rule = NoRule => candidates'[m].state = "rejected"
           /\ candidates'[m].removal_sent => candidates'[m].state = "active"
    BY <2>1, <2>2 DEF OnlyChanges, IInv, TypeInv, CandidatesType, is_active
  <2>4. candidates' \in [DOMAIN candidates' -> Candidate]
    <3>1. candidates' = [m \in DOMAIN candidates' |-> candidates'[m]]
      BY DEF OnlyChanges
    <3> QED BY <2>3, <3>1
  <2> QED BY <2>2, <2>3, <2>4 DEF IInv, TypeInv, CandidatesType, is_active
<1>6. PendingFirst'
  <2>1. ASSUME NEW m \in pending', group[candidates'[m].rule] # Ungrouped,
               NEW k \in members(candidates', group[candidates'[m].rule]) \ {m}
        PROVE  /\ ~(k \in DOMAIN candidates' /\ candidates'[k].state = "active")
               /\ k \notin pending'
               /\ candidates'[k].rule < candidates'[m].rule
                     => candidates'[k].state \in {"unsupported", "rejected"}
    <3> DEFINE g == group[candidates[m].rule]
    <3>1. m \in pending /\ m # n /\ candidates'[m] = candidates[m]
      BY <1>1, <1>3
    <3>2. k \in DOMAIN candidates /\ k \in members(candidates, g) \ {m}
      BY <3>1, <2>1, PendingCandidate DEF members, OnlyChanges
    <3>3. /\ ~is_active(k)
          /\ k \notin pending
          /\ candidates[k].rule < candidates[m].rule
                => candidates[k].state \in {"unsupported", "rejected"}
      BY <2>1, <3>1, <3>2 DEF IInv, GroupInv, PendingFirst
    <3>4. k # n
      BY <3>3
    <3>5. k \in DOMAIN candidates' /\ candidates'[k] = candidates[k]
      BY <2>1, <3>4 DEF members, OnlyChanges
    <3> QED BY <1>1, <3>1, <3>2, <3>3, <3>5 DEF is_active
  <2> QED BY <2>1 DEF PendingFirst, is_active
<1> QED BY <1>4, <1>5, <1>6

\* A claim that comes to nothing, for whatever reason.
LEMMA ClaimEndsStep ==
    ASSUME IInv, NEW n \in Node, ClaimRefused(n) \/ ClaimFails(n)
    PROVE  IInv' /\ SameActives
<1>1. /\ UNCHANGED <<grabs, policy, snapshots, mailbox, releases, dying>>
      /\ phase = "reconcile"
      /\ n \in pending
      /\ claimed_next(n)
  BY DEF ClaimRefused, ClaimFails
<1>2. PICK state \in CandidateState \ {"active"} :
         candidates' = forget(n) \/ candidates' = retry(n, state)
  <2>1. "rejected" \in CandidateState \ {"active"}
    BY DEF CandidateState
  <2>2. \A e : /\ source_error(e) \in {"gone", "interrupted", "permission", "unsupported", "other"}
               /\ output_error(e) \in {"gone", "interrupted", "other"}
    BY DEF source_error, output_error
  <2>3. claim_errors \subseteq
           {"gone", "busy", "interrupted", "permission", "unsupported", "other"}
    BY <2>2 DEF claim_errors, grab_error
  <2>4. \A err \in claim_errors : err # "gone" => disposition(err) \in CandidateState \ {"active"}
    BY <2>3 DEF disposition, CandidateState, Retry
  <2>5. CASE ClaimRefused(n)
    BY <2>1, <2>5 DEF ClaimRefused
  <2>6. CASE ClaimFails(n)
    <3>1. PICK err \in claim_errors :
             candidates' = IF err = "gone" THEN forget(n) ELSE retry(n, disposition(err))
      BY <2>6 DEF ClaimFails
    <3>2. CASE err = "gone"
      BY <2>1, <3>1, <3>2
    <3>3. CASE err # "gone"
      BY <2>4, <3>1, <3>3
    <3> QED BY <3>2, <3>3
  <2> QED BY <2>5, <2>6
<1>3. /\ n \in DOMAIN candidates
      /\ ~is_active(n)
      /\ candidates[n].rule \in Rule
  BY <1>1, PendingCandidate
<1>4. OnlyChanges(n) /\ (n \in DOMAIN candidates' => candidates'[n].state # "active")
  <2>1. CASE candidates' = forget(n)
    BY <2>1 DEF forget, OnlyChanges
  <2>2. CASE candidates' = retry(n, state)
    <3>1. /\ DOMAIN candidates' = DOMAIN candidates
          /\ candidates'[n] = candidate(state, candidates[n].rule)
          /\ \A m \in DOMAIN candidates \ {n} : candidates'[m] = candidates[m]
          /\ candidates' = [m \in DOMAIN candidates' |-> candidates'[m]]
      BY <1>3, <2>2 DEF retry, put
    <3> QED BY <1>2, <1>3, <3>1, RetryCandidate DEF OnlyChanges
  <2> QED BY <1>2, <2>1, <2>2
<1>5. LoopType' /\ CandidatesType' /\ PendingFirst'
  BY <1>1, <1>4, ClaimedNext
<1>6. TypeInv'
  BY <1>1, <1>5 DEF grabs, policy, IInv, TypeInv, RegistryType, IdsType, PolicyType, MailType
<1>7. RegistryInv' /\ MessageInv'
  BY <1>1 DEF grabs, IInv, RegistryInv, WriterInv, unregistered_copies, OwnNodesNotTaken,
     MessageInv
<1>8. SameActives
  BY <1>3, <1>4 DEF SameActives, OnlyChanges, is_active
<1>9. ActiveIsAccounted' /\ ActiveApart'
  BY <1>1, <1>5, <1>8, ActivesStay DEF IInv, TypeInv, GroupInv, grabs
<1> QED BY <1>5, <1>6, <1>7, <1>8, <1>9 DEF IInv, GroupInv

\* The id that a claim is given is known to nobody.
LEMMA NextActivationId ==
    ASSUME IInv
    PROVE  next_activation_id \in Nat \ {0} /\ next_activation_id \notin used
<1>1. IsFiniteSet(ids(mailbox)) /\ IsFiniteSet(ids(releases))
  <2>1. ASSUME NEW S, NEW s \in Seq(S) PROVE IsFiniteSet(ids(s))
    <3> DEFINE f == [i \in 1 .. Len(s) |-> s[i].activation_id]
    <3>1. IsFiniteSet(1 .. Len(s)) /\ DOMAIN s = 1 .. Len(s)
      BY FS_Interval
    <3>2. DOMAIN f = 1 .. Len(s) /\ \A i \in 1 .. Len(s) : f[i] = s[i].activation_id
      OBVIOUS
    <3> HIDE DEF f
    <3>3. IsFiniteSet({f[i] : i \in 1 .. Len(s)})
      BY <3>1, <3>2, FiniteImage
    <3>4. ids(s) = {f[i] : i \in 1 .. Len(s)}
      BY <3>1, <3>2 DEF ids
    <3> QED BY <3>3, <3>4
  <2> QED BY <2>1 DEF IInv, TypeInv, MailType
<1>2. IsFiniteSet({candidates[n].activation_id : n \in DOMAIN candidates})
  <2> DEFINE f == [n \in DOMAIN candidates |-> candidates[n].activation_id]
  <2>1. IsFiniteSet(DOMAIN candidates)
    BY RegistryAssumption, FS_Subset DEF IInv, TypeInv, CandidatesType
  <2>2. DOMAIN f = DOMAIN candidates
        /\ \A n \in DOMAIN candidates : f[n] = candidates[n].activation_id
    OBVIOUS
  <2> HIDE DEF f
  <2>3. IsFiniteSet({f[n] : n \in DOMAIN candidates})
    BY <2>1, <2>2, FiniteImage
  <2>4. {f[n] : n \in DOMAIN candidates} = {candidates[n].activation_id : n \in DOMAIN candidates}
    BY <2>2
  <2> QED BY <2>3, <2>4
<1>3. IsFiniteSet(DOMAIN interceptor) /\ IsFiniteSet({dying.activation_id})
  BY FS_Singleton DEF IInv, TypeInv, IdsType
<1>4. IsFiniteSet(used)
  BY <1>1, <1>2, <1>3, FS_Union DEF used
<1> QED BY <1>4, UnusedNumber DEF next_activation_id

LEMMA ClaimStep ==
    ASSUME IInv, NEW n \in Node, Claim(n)
    PROVE  IInv'
<1> DEFINE id == next_activation_id
<1>1. /\ UNCHANGED <<policy, snapshots, releases, dying>>
      /\ phase = "reconcile"
      /\ n \in pending
      /\ claimed_next(n)
      /\ claim(n, id, known)
      /\ mailbox' = Append(mailbox, activated(id))
      /\ candidates' = put(n, [candidate("active", candidates[n].rule)
                                   EXCEPT !.activation_id = id])
  BY DEF Claim
<1>2. id \in Nat \ {0} /\ id \notin used
  BY NextActivationId
<1> HIDE DEF id
<1>3. /\ n \in DOMAIN candidates
      /\ ~is_active(n)
      /\ candidates[n].rule \in Rule
  BY <1>1, PendingCandidate
<1>4. /\ id \notin DOMAIN interceptor
      /\ id \notin ids(mailbox)
      /\ id \notin ids(releases)
      /\ \A m \in DOMAIN candidates : candidates[m].activation_id # id
      /\ dying.activation_id # id
  BY <1>2 DEF used
<1>5. RegistryType' /\ RegistryInv'
  BY <1>1, <1>4, ClaimRegistry DEF IInv, TypeInv
<1>6. /\ DOMAIN interceptor' = DOMAIN interceptor \cup {id}
      /\ interceptor'[id].node = n /\ interceptor'[id].at = "sent"
      /\ \A i \in DOMAIN interceptor : interceptor'[i] = interceptor[i]
  BY <1>1, <1>4 DEF claim
<1>7. /\ DOMAIN candidates' = DOMAIN candidates
      /\ candidates'[n] = [candidate("active", candidates[n].rule) EXCEPT !.activation_id = id]
      /\ \A m \in DOMAIN candidates \ {n} : candidates'[m] = candidates[m]
      /\ candidates' = [m \in DOMAIN candidates' |-> candidates'[m]]
  BY <1>1, <1>3 DEF put
<1>8. /\ candidates'[n] \in Candidate
      /\ candidates'[n].rule = candidates[n].rule
      /\ candidates'[n].activation_id = id
      /\ candidates'[n].state = "active"
      /\ ~candidates'[n].removal_sent
  BY <1>2, <1>3, <1>7 DEF candidate, Candidate, CandidateState
<1>9. LoopType' /\ CandidatesType' /\ PendingFirst'
  <2>1. OnlyChanges(n)
    BY <1>3, <1>7, <1>8 DEF OnlyChanges
  <2> QED BY <1>1, <2>1, ClaimedNext
<1>10. IdsType'
  BY <1>2, <1>6, FS_AddElement DEF IInv, TypeInv, IdsType
<1>11. mailbox \in Seq(Message) /\ activated(id) \in Message
  BY <1>2 DEF IInv, TypeInv, MailType, activated, Message
<1>12. MailType'
  BY <1>1, <1>11 DEF IInv, TypeInv, MailType
<1>13. TypeInv'
  BY <1>1, <1>5, <1>9, <1>10, <1>12 DEF policy, IInv, TypeInv, PolicyType
<1>14. MessageInv'
  <2>1. ASSUME NEW i \in DOMAIN mailbox', mailbox'[i].event = "activated"
        PROVE  /\ mailbox'[i].activation_id \in DOMAIN interceptor'
               /\ interceptor'[mailbox'[i].activation_id].at = "sent"
               /\ \A j \in 1 .. i - 1 :
                     mailbox'[j].activation_id # mailbox'[i].activation_id
    <3>1. \A j \in DOMAIN mailbox : mailbox'[j] = mailbox[j] /\ mailbox[j].activation_id # id
      BY <1>1, <1>4, <1>11 DEF ids
    <3>2. DOMAIN mailbox = 1 .. Len(mailbox) /\ DOMAIN mailbox' = 1 .. Len(mailbox) + 1
          /\ Len(mailbox) \in Nat
          /\ mailbox'[Len(mailbox) + 1] = activated(id)
      BY <1>1, <1>11
    <3>3. CASE i \in DOMAIN mailbox
      BY <1>6, <2>1, <3>1, <3>2, <3>3 DEF IInv, MessageInv
    <3>4. CASE i = Len(mailbox) + 1
      BY <1>6, <3>1, <3>2, <3>4 DEF activated
    <3> QED BY <3>2, <3>3, <3>4
  <2>2. dying' # NoDevice => dying'.activation_id \in DOMAIN interceptor'
    BY <1>1, <1>6 DEF IInv, MessageInv
  <2> QED BY <2>1, <2>2 DEF MessageInv
<1>15. ActiveIsAccounted'
  <2>1. ASSUME NEW i \in DOMAIN interceptor'
        PROVE  /\ is_active(interceptor[i].node)'
               /\ candidates'[interceptor'[i].node].activation_id = i
    <3>1. CASE i = id
      BY <1>3, <1>6, <1>7, <1>8, <3>1 DEF is_active
    <3>2. CASE i # id
      <4>1. /\ i \in DOMAIN interceptor /\ interceptor'[i] = interceptor[i]
            /\ is_active(interceptor[i].node)
            /\ candidates[interceptor[i].node].activation_id = i
        BY <1>6, <3>2 DEF IInv, ActiveIsAccounted
      <4>2. interceptor[i].node \in DOMAIN candidates \ {n}
        BY <1>3, <4>1 DEF is_active
      <4> QED BY <1>7, <4>1, <4>2 DEF is_active
    <3> QED BY <3>1, <3>2
  <2>2. ASSUME NEW m \in DOMAIN candidates', is_active(m)'
        PROVE  (candidates'[m].activation_id \in DOMAIN interceptor')
               # (candidates'[m].activation_id \in ids(releases'))
    <3>1. CASE m = n
      BY <1>1, <1>4, <1>6, <1>8, <3>1
    <3>2. CASE m # n
      <4>1. /\ m \in DOMAIN candidates /\ candidates'[m] = candidates[m] /\ is_active(m)
            /\ candidates[m].activation_id # id
        BY <1>4, <1>7, <2>2, <3>2 DEF is_active
      <4>2. (candidates[m].activation_id \in DOMAIN interceptor)
               # (candidates[m].activation_id \in ids(releases))
        BY <4>1 DEF IInv, ActiveIsAccounted
      <4> QED BY <1>1, <1>6, <4>1, <4>2
    <3> QED BY <3>1, <3>2
  <2> QED BY <2>1, <2>2 DEF ActiveIsAccounted, is_active
<1>16. ActiveApart'
  <2>1. ASSUME NEW m \in DOMAIN candidates \ {n}, is_active(m)
        PROVE  group[candidates[n].rule] # group[candidates[m].rule]
               \/ group[candidates[n].rule] = Ungrouped
    <3>1. candidates[m].rule # NoRule
      BY <2>1 DEF IInv, TypeInv, CandidatesType, is_active
    <3>2. group[candidates[m].rule] = group[candidates[n].rule]
             => m \in members(candidates, group[candidates[n].rule]) \ {n}
      BY <2>1, <3>1 DEF members
    <3> QED BY <1>1, <2>1, <3>2 DEF IInv, GroupInv, PendingFirst
  <2>2. ASSUME NEW k \in DOMAIN candidates', NEW m \in DOMAIN candidates',
               is_active(k)', is_active(m)', k # m
        PROVE  group[candidates'[k].rule] # group[candidates'[m].rule]
               \/ group[candidates'[k].rule] = Ungrouped
    <3>1. \A l \in DOMAIN candidates' \ {n} :
             /\ l \in DOMAIN candidates \ {n}
             /\ candidates'[l] = candidates[l]
             /\ is_active(l)' => is_active(l)
      BY <1>7 DEF is_active
    <3>2. CASE k = n
      BY <1>8, <2>1, <2>2, <3>1, <3>2
    <3>3. CASE m = n
      BY <1>8, <2>1, <2>2, <3>1, <3>3
    <3>4. CASE k # n /\ m # n
      BY <2>2, <3>1, <3>4 DEF IInv, GroupInv, ActiveApart
    <3> QED BY <3>2, <3>3, <3>4
  <2> QED BY <2>2 DEF ActiveApart
<1> QED BY <1>5, <1>9, <1>13, <1>14, <1>15, <1>16 DEF IInv, GroupInv

-----------------------------------------------------------------------------
(* The server. *)

\* The messages behind the first one are about other interceptors, or removals.
LEMMA TailMessages ==
    ASSUME IInv, mailbox # <<>>, mailbox' = Tail(mailbox)
    PROVE  /\ mailbox' \in Seq(Message)
           /\ Head(mailbox) \in Message /\ Head(mailbox) = mailbox[1] /\ 1 \in DOMAIN mailbox
           /\ \A i \in DOMAIN mailbox' :
                 mailbox'[i].event = "activated" =>
                    /\ mailbox'[i].activation_id \in DOMAIN interceptor
                    /\ mailbox'[i].activation_id # Head(mailbox).activation_id
                    /\ interceptor[mailbox'[i].activation_id].at = "sent"
                    /\ \A j \in 1 .. i - 1 :
                          mailbox'[j].activation_id # mailbox'[i].activation_id
<1>1. mailbox \in Seq(Message)
  BY DEF IInv, TypeInv, MailType
<1>2. /\ mailbox' \in Seq(Message)
      /\ Head(mailbox) \in Message /\ Head(mailbox) = mailbox[1] /\ 1 \in DOMAIN mailbox
      /\ \A i \in DOMAIN mailbox' : /\ i \in Nat \ {0}
                                    /\ i + 1 \in DOMAIN mailbox
                                    /\ mailbox'[i] = mailbox[i + 1]
                                    /\ \A j \in 1 .. i - 1 : mailbox'[j] = mailbox[j + 1]
  BY <1>1
<1>3. ASSUME NEW i \in DOMAIN mailbox', mailbox'[i].event = "activated"
      PROVE  /\ mailbox'[i].activation_id \in DOMAIN interceptor
             /\ mailbox'[i].activation_id # Head(mailbox).activation_id
             /\ interceptor[mailbox'[i].activation_id].at = "sent"
             /\ \A j \in 1 .. i - 1 :
                   mailbox'[j].activation_id # mailbox'[i].activation_id
  <2>1. /\ i + 1 \in DOMAIN mailbox /\ mailbox[i + 1] = mailbox'[i]
        /\ mailbox[i + 1].event = "activated"
    BY <1>2, <1>3
  <2>2. /\ mailbox[i + 1].activation_id \in DOMAIN interceptor
        /\ interceptor[mailbox[i + 1].activation_id].at = "sent"
        /\ \A j \in 1 .. (i + 1) - 1 : mailbox[j].activation_id # mailbox[i + 1].activation_id
    BY <2>1 DEF IInv, MessageInv
  <2>3. i \in Nat \ {0} /\ 1 \in 1 .. (i + 1) - 1
        /\ \A j \in 1 .. i - 1 : j + 1 \in 1 .. (i + 1) - 1 /\ mailbox'[j] = mailbox[j + 1]
    BY <1>2, <1>3
  <2> QED BY <1>2, <2>1, <2>2, <2>3
<1> QED BY <1>2, <1>3

\* Where an interceptor is does not matter to the monitor.
LEMMA PlacedElsewhere ==
    ASSUME IInv, NEW id \in DOMAIN interceptor, NEW writer, NEW at, placed(id, writer, at),
           UNCHANGED <<policy, inventory, releases>>
    PROVE  /\ IdsType' /\ PolicyType' /\ CandidatesType' /\ LoopType'
           /\ ActiveIsAccounted' /\ GroupInv'
<1>1. /\ DOMAIN interceptor' = DOMAIN interceptor
      /\ \A i \in DOMAIN interceptor : interceptor'[i].node = interceptor[i].node
  BY DEF placed
<1>2. IdsType' /\ PolicyType' /\ CandidatesType' /\ LoopType'
  BY <1>1 DEF policy, inventory, IInv, TypeInv, IdsType, PolicyType, CandidatesType, is_active,
     LoopType
<1>3. ActiveIsAccounted'
  BY <1>1 DEF inventory, IInv, ActiveIsAccounted, is_active
<1>4. GroupInv'
  BY DEF inventory, IInv, GroupInv, ActiveApart, PendingFirst, members, is_active
<1> QED BY <1>2, <1>3, <1>4

LEMMA DestroyStep ==
    ASSUME IInv, waiting, NEW id \in DOMAIN interceptor, NEW cause \in ReleaseCause,
           destroy_device(id, cause), UNCHANGED <<policy, inventory, releases>>,
           mailbox' \in Seq(Message),
           \A i \in DOMAIN mailbox' :
               mailbox'[i].event = "activated" =>
                  /\ mailbox'[i].activation_id \in DOMAIN interceptor \ {id}
                  /\ interceptor[mailbox'[i].activation_id].at = "sent"
                  /\ \A j \in 1 .. i - 1 :
                        mailbox'[j].activation_id # mailbox'[i].activation_id
    PROVE  IInv'
<1>1. drop_writer(id) /\ dying' = [activation_id |-> id, cause |-> cause]
  BY DEF destroy_device
<1>2. PICK writer : placed(id, writer, "dropped")
  BY <1>1, Placed DEF IInv, TypeInv
<1>3. RegistryType' /\ RegistryInv'
  BY <1>1, DropRegistry DEF IInv, TypeInv
<1>4. MailType'
  <2>1. id \in Nat
    BY DEF IInv, TypeInv, IdsType
  <2>2. dying' \in Dying
    BY <1>1, <2>1 DEF Dying
  <2> QED BY <2>2, PolicyAssumption DEF waiting, IInv, TypeInv, MailType
<1>5. MessageInv'
  BY <1>1, <1>2 DEF placed, MessageInv
<1>6. /\ IdsType' /\ PolicyType' /\ CandidatesType' /\ LoopType'
      /\ ActiveIsAccounted' /\ GroupInv'
  BY <1>2, PlacedElsewhere
<1> QED BY <1>3, <1>4, <1>5, <1>6 DEF IInv, TypeInv

LEMMA ReadMessageStep ==
    ASSUME IInv, ReadMessage
    PROVE  IInv'
<1> DEFINE id == Head(mailbox).activation_id
<1>1. /\ waiting
      /\ mailbox # <<>>
      /\ mailbox' = Tail(mailbox)
      /\ UNCHANGED <<policy, inventory, releases>>
      /\ \/ /\ Head(mailbox).event = "activated"
            /\ move(id, "running")
            /\ UNCHANGED <<present, entries, dying>>
         \/ /\ id \in DOMAIN interceptor
            /\ destroy_device(id, "disconnected")
         \/ UNCHANGED <<grabs, dying>>
  BY DEF ReadMessage
<1>2. /\ mailbox' \in Seq(Message)
      /\ Head(mailbox) = mailbox[1] /\ 1 \in DOMAIN mailbox
      /\ \A i \in DOMAIN mailbox' :
            mailbox'[i].event = "activated" =>
               /\ mailbox'[i].activation_id \in DOMAIN interceptor
               /\ mailbox'[i].activation_id # id
               /\ interceptor[mailbox'[i].activation_id].at = "sent"
               /\ \A j \in 1 .. i - 1 :
                     mailbox'[j].activation_id # mailbox'[i].activation_id
  BY <1>1, TailMessages
<1>3. CASE /\ Head(mailbox).event = "activated"
           /\ move(id, "running")
           /\ UNCHANGED <<present, entries, dying>>
  <2>1. id \in DOMAIN interceptor /\ interceptor[id].at = "sent"
    BY <1>2, <1>3 DEF IInv, MessageInv
  <2> HIDE DEF id
  <2>2. placed(id, interceptor[id].writer, "running")
    BY <1>3, <2>1, Placed DEF IInv, TypeInv
  <2>3. RegistryType' /\ RegistryInv'
    BY <1>3, <2>1, MoveRegistry DEF IInv, TypeInv
  <2>4. MailType'
    BY <1>1, <1>2, <1>3 DEF IInv, TypeInv, MailType
  <2>5. MessageInv'
    BY <1>2, <1>3, <2>1, <2>2 DEF placed, IInv, MessageInv
  <2>6. /\ IdsType' /\ PolicyType' /\ CandidatesType' /\ LoopType'
        /\ ActiveIsAccounted' /\ GroupInv'
    BY <1>1, <2>1, <2>2, PlacedElsewhere
  <2> QED BY <2>3, <2>4, <2>5, <2>6 DEF IInv, TypeInv
<1>4. CASE id \in DOMAIN interceptor /\ destroy_device(id, "disconnected")
  <2> HIDE DEF id
  <2>1. "disconnected" \in ReleaseCause
    BY DEF ReleaseCause
  <2>2. \A i \in DOMAIN mailbox' :
           mailbox'[i].event = "activated" =>
              /\ mailbox'[i].activation_id \in DOMAIN interceptor \ {id}
              /\ interceptor[mailbox'[i].activation_id].at = "sent"
              /\ \A j \in 1 .. i - 1 :
                    mailbox'[j].activation_id # mailbox'[i].activation_id
    BY <1>2
  <2> QED BY <1>1, <1>2, <1>4, <2>1, <2>2, DestroyStep
<1>5. CASE UNCHANGED <<grabs, dying>>
  <2> HIDE DEF id
  <2>1. RegistryType' /\ IdsType' /\ PolicyType' /\ CandidatesType' /\ LoopType'
    BY <1>1, <1>5 DEF grabs, policy, inventory, IInv, TypeInv, RegistryType, IdsType,
       PolicyType, CandidatesType, is_active, LoopType
  <2>2. MailType'
    BY <1>1, <1>2, <1>5 DEF IInv, TypeInv, MailType
  <2>3. RegistryInv' /\ ActiveIsAccounted' /\ GroupInv'
    BY <1>1, <1>5 DEF grabs, inventory, IInv, RegistryInv, WriterInv, unregistered_copies,
       OwnNodesNotTaken, ActiveIsAccounted, GroupInv, ActiveApart, PendingFirst, members,
       is_active
  <2>4. MessageInv'
    BY <1>2, <1>5 DEF grabs, IInv, MessageInv
  <2> QED BY <2>1, <2>2, <2>3, <2>4 DEF IInv, TypeInv
<1> QED BY <1>1, <1>3, <1>4, <1>5

LEMMA DeviceFailsStep ==
    ASSUME IInv, NEW id \in DOMAIN interceptor, DeviceFails(id)
    PROVE  IInv'
<1>1. /\ waiting
      /\ interceptor[id].at # "sent"
      /\ UNCHANGED <<policy, inventory, mailbox, releases>>
  BY DEF DeviceFails
<1>2. PICK cause \in ReleaseCause : destroy_device(id, cause)
  BY DEF DeviceFails
<1>3. mailbox' \in Seq(Message)
  BY <1>1 DEF IInv, TypeInv, MailType
<1>4. \A i \in DOMAIN mailbox' :
         mailbox'[i].event = "activated" =>
            /\ mailbox'[i].activation_id \in DOMAIN interceptor \ {id}
            /\ interceptor[mailbox'[i].activation_id].at = "sent"
            /\ \A j \in 1 .. i - 1 :
                  mailbox'[j].activation_id # mailbox'[i].activation_id
  BY <1>1 DEF IInv, MessageInv
<1> QED BY <1>1, <1>2, <1>3, <1>4, DestroyStep

LEMMA ReleaseStep ==
    ASSUME IInv, Release
    PROVE  IInv'
<1> DEFINE id == dying.activation_id
<1>1. /\ dying # NoDevice
      /\ drop_handles(id)
      /\ releases' = Append(releases, dying)
      /\ dying' = NoDevice
      /\ UNCHANGED <<policy, inventory, mailbox>>
  BY DEF Release
<1>2. /\ id \in DOMAIN interceptor
      /\ releases \in Seq(Dying) /\ dying \in Dying
      /\ Len(releases) <= CHANNEL
  BY <1>1 DEF IInv, TypeInv, MailType, MessageInv
<1>3. ids(releases') = ids(releases) \cup {id}
  <2>1. /\ DOMAIN releases' = DOMAIN releases \cup {Len(releases) + 1}
        /\ \A i \in DOMAIN releases : releases'[i] = releases[i]
        /\ releases'[Len(releases) + 1] = dying
    BY <1>1, <1>2
  <2> QED BY <2>1 DEF ids
<1> HIDE DEF id
<1>4. RegistryType' /\ RegistryInv'
  BY <1>1, <1>2, DropHandlesRegistry DEF IInv, TypeInv
<1>5. /\ interceptor[id].at = "dropped"
      /\ DOMAIN interceptor' = DOMAIN interceptor \ {id}
      /\ \A i \in DOMAIN interceptor \ {id} : interceptor'[i] = interceptor[i]
  BY <1>1 DEF drop_handles
<1>6. IdsType'
  BY <1>5, FS_RemoveElement DEF IInv, TypeInv, IdsType
<1>7. MailType'
  <2>1. mailbox' \in Seq(Message) /\ CHANNEL \in Nat
    BY <1>1, PolicyAssumption DEF inventory, IInv, TypeInv, MailType
  <2>2. releases' \in Seq(Dying) /\ Len(releases') <= CHANNEL + 1
    BY <1>1, <1>2, <2>1
  <2> QED BY <1>1, <2>1, <2>2 DEF MailType
<1>8. PolicyType' /\ CandidatesType' /\ LoopType'
  BY <1>1 DEF policy, inventory, IInv, TypeInv, PolicyType, CandidatesType, is_active, LoopType
<1>9. MessageInv'
  BY <1>1, <1>5 DEF IInv, MessageInv
<1>10. ActiveIsAccounted'
  <2>1. candidates' = candidates
    BY <1>1 DEF inventory
  <2>2. ASSUME NEW n \in DOMAIN candidates, is_active(n)
        PROVE  (candidates[n].activation_id \in DOMAIN interceptor')
               # (candidates[n].activation_id \in ids(releases'))
    <3>1. (candidates[n].activation_id \in DOMAIN interceptor)
             # (candidates[n].activation_id \in ids(releases))
      BY <2>2 DEF IInv, ActiveIsAccounted
    <3> QED BY <1>2, <1>3, <1>5, <3>1
  <2>3. \A i \in DOMAIN interceptor' :
           /\ is_active(interceptor'[i].node)
           /\ candidates[interceptor'[i].node].activation_id = i
    BY <1>5 DEF IInv, ActiveIsAccounted
  <2> QED BY <2>1, <2>2, <2>3 DEF ActiveIsAccounted, is_active
<1>11. GroupInv'
  BY <1>1 DEF inventory, IInv, GroupInv, ActiveApart, PendingFirst, members, is_active
<1> QED BY <1>4, <1>6, <1>7, <1>8, <1>9, <1>10, <1>11 DEF IInv, TypeInv

\* A copy that is replaced is that of an interceptor whose message has been read.
LEMMA ResetStep ==
    ASSUME IInv, NEW id \in DOMAIN interceptor, reset_writer(id)
    PROVE  IInv'
<1>1. /\ UNCHANGED <<policy, inventory, mailbox, releases, dying>>
      /\ \/ take_writer(id)
         \/ take_writer_handle(id)
         \/ create_writer(id, known)
         \/ register_writer(id)
  BY DEF reset_writer
<1>2. interceptor[id].at # "sent" /\ \E writer, at : placed(id, writer, at)
  BY <1>1, Placed DEF IInv, TypeInv, take_writer, take_writer_handle, create_writer,
     register_writer
<1>3. PICK writer, at : placed(id, writer, at)
  BY <1>2
<1>4. RegistryType' /\ RegistryInv'
  BY <1>1, ResetRegistry DEF IInv, TypeInv
<1>5. MailType'
  BY <1>1 DEF IInv, TypeInv, MailType
<1>6. MessageInv'
  BY <1>1, <1>2, <1>3 DEF placed, IInv, MessageInv
<1>7. /\ IdsType' /\ PolicyType' /\ CandidatesType' /\ LoopType'
      /\ ActiveIsAccounted' /\ GroupInv'
  BY <1>1, <1>3, PlacedElsewhere
<1> QED BY <1>4, <1>5, <1>6, <1>7 DEF IInv, TypeInv

-----------------------------------------------------------------------------
(* Devices come and go. *)

LEMMA DeviceStep ==
    ASSUME IInv, NEW n \in Source, Appear(n) \/ Vanish(n) \/ Rematch(n)
    PROVE  IInv'
<1>1. UNCHANGED <<entries, interceptor, inventory, mailbox, releases, dying>>
  BY DEF Appear, Vanish, Rematch, grabs
<1>2. RegistryType' /\ RegistryInv'
  <2>1. CASE present' = present
    BY <1>1, <2>1 DEF IInv, TypeInv, RegistryType, RegistryInv, WriterInv,
       unregistered_copies, OwnNodesNotTaken
  <2>2. CASE present' \in {present \cup {n}, present \ {n}}
    BY <1>1, <2>2, SourceRegistry DEF IInv, TypeInv
  <2> QED BY <2>1, <2>2 DEF Appear, Vanish, Rematch, grabs
<1>3. PolicyType'
  <2>1. \/ matching' = matching
        \/ \E rs \in SourceRules[n] : matching' = [matching EXCEPT ![n] = rs]
    BY DEF Appear, Vanish, Rematch, policy
  <2>2. \A rs \in SourceRules[n] : rs \in SUBSET Rule
    BY PolicyAssumption
  <2>3. matching \in [Source -> SUBSET Rule]
        /\ \A m \in Source : matching[m] \in SourceRules[m] \cup {{}}
    BY DEF IInv, TypeInv, PolicyType
  <2> QED BY <2>1, <2>2, <2>3 DEF PolicyType
<1>4. IdsType' /\ CandidatesType' /\ LoopType' /\ MailType'
  BY <1>1 DEF inventory, IInv, TypeInv, IdsType, CandidatesType, is_active, LoopType, MailType
<1>5. MessageInv' /\ ActiveIsAccounted' /\ GroupInv'
  BY <1>1 DEF inventory, IInv, MessageInv, ActiveIsAccounted, GroupInv, ActiveApart,
     PendingFirst, members, is_active
<1> QED BY <1>2, <1>3, <1>4, <1>5 DEF IInv, TypeInv

-----------------------------------------------------------------------------
(* The invariant. *)

LEMMA InitInvariant == Init => IInv
<1> SUFFICES ASSUME Init PROVE IInv
  OBVIOUS
<1> USE DEF Init, RegistryInit
<1>1. DOMAIN interceptor = {} /\ DOMAIN candidates = {} /\ DOMAIN mailbox = {}
      /\ DOMAIN releases = {}
  OBVIOUS
<1>2. RegistryType
  BY <1>1 DEF RegistryType
<1>3. IdsType
  BY <1>1, FS_EmptySet DEF IdsType
<1>4. PolicyType
  BY DEF PolicyType
<1>5. CandidatesType
  BY <1>1 DEF CandidatesType
<1>6. LoopType
  BY DEF LoopType, Snapshot
<1>7. MailType
  BY PolicyAssumption DEF MailType
<1>8. RegistryInv /\ MessageInv
  BY <1>1 DEF RegistryInv, WriterInv, OwnNodesNotTaken, MessageInv
<1>9. ActiveIsAccounted /\ GroupInv
  BY <1>1 DEF ActiveIsAccounted, GroupInv, ActiveApart, PendingFirst
<1> QED BY <1>2, <1>3, <1>4, <1>5, <1>6, <1>7, <1>8, <1>9 DEF IInv, TypeInv

LEMMA StepInvariant == IInv /\ [Next]_vars => IInv'
<1> SUFFICES ASSUME IInv, [Next]_vars PROVE IInv'
  OBVIOUS
<1>1. CASE MonitorStep
  BY <1>1, TickStep, HandleReleaseStep, RefreshStep, WakeStep, ScanStep, ClaimEndsStep,
     ClaimStep DEF MonitorStep
<1>2. CASE ServerStep
  BY <1>2, ReadMessageStep, ReleaseStep, DeviceFailsStep, ResetStep DEF ServerStep
<1>3. CASE \E n \in Source : Appear(n) \/ Vanish(n) \/ Rematch(n)
  BY <1>3, DeviceStep
<1>4. CASE UNCHANGED vars
  BY <1>4 DEF vars, grabs, policy, inventory, IInv, TypeInv, RegistryType, IdsType, PolicyType,
     CandidatesType, LoopType, MailType, RegistryInv, WriterInv, unregistered_copies,
     OwnNodesNotTaken, MessageInv, ActiveIsAccounted, GroupInv, ActiveApart, PendingFirst,
     members, is_active
<1> QED BY <1>1, <1>2, <1>3, <1>4 DEF Next

(* The whole of the invariant holds of every run of the monitor and the     *)
(* server, whatever devices come, go and fail (monitor.rs, registry.rs).    *)
THEOREM Safety == Spec => []IInv
<1>1. Init => IInv
  BY InitInvariant
<1>2. IInv /\ [Next]_vars => IInv'
  BY StepInvariant
<1> QED BY <1>1, <1>2, PTL DEF Spec

(* Types, and that what reconcile has still to claim is a candidate that is *)
(* ready: claiming one thing never spoils what was chosen with it.          *)
THEOREM TypeCorrect == Spec => []MonitorTypeOK
<1>1. IInv => MonitorTypeOK
  <2> SUFFICES ASSUME IInv PROVE MonitorTypeOK
    OBVIOUS
  <2>1. RegistryTypeOK
    BY DEF IInv, TypeInv, RegistryType, RegistryTypeOK, Interceptor
  <2>2. \A n \in DOMAIN candidates :
           /\ candidates[n].state \in CandidateState
           /\ candidates[n].rule \in Rule \cup {NoRule}
           /\ candidates[n].rule = NoRule => candidates[n].state = "rejected"
           /\ candidates[n].removal_sent => is_active(n)
    BY DEF IInv, TypeInv, CandidatesType, Candidate
  <2> QED BY <2>1, <2>2 DEF MonitorTypeOK, IInv, TypeInv, PolicyType, CandidatesType,
       LoopType, MailType
<1> QED BY <1>1, Safety, PTL

(* rkvm never takes a copy of its own for a device of the user's: a claim   *)
(* finds the copies registered, or waits at the gate for one that a reset   *)
(* has created and not registered yet (registry.rs, interceptor.rs).        *)
THEOREM OwnCopiesLeftAlone == Spec => []OwnNodesNotTaken
<1>1. IInv => OwnNodesNotTaken
  BY DEF IInv, RegistryInv
<1> QED BY <1>1, Safety, PTL

(* Every grabbed device has its active candidate, and every active candidate *)
(* has either its device or, alone, the release of it on the way.            *)
THEOREM ActivationsAccounted == Spec => []ActiveIsAccounted
<1>1. IInv => ActiveIsAccounted
  BY DEF IInv
<1> QED BY <1>1, Safety, PTL

(* At most one device of a group is grabbed, also while the server has not  *)
(* read of it yet or is still destroying it (claim_order, monitor.rs).      *)
THEOREM OneOfAGroup == Spec => []OneActivePerGroup
<1>1. IInv => OneActivePerGroup
  <2> SUFFICES ASSUME IInv, NEW i \in DOMAIN interceptor, NEW j \in DOMAIN interceptor, i # j
               PROVE  group[rule_of(i)] = Ungrouped \/ group[rule_of(i)] # group[rule_of(j)]
    BY DEF OneActivePerGroup
  <2>1. /\ is_active(interceptor[i].node) /\ candidates[interceptor[i].node].activation_id = i
        /\ is_active(interceptor[j].node) /\ candidates[interceptor[j].node].activation_id = j
    BY DEF IInv, ActiveIsAccounted
  <2>2. /\ interceptor[i].node # interceptor[j].node
        /\ interceptor[i].node \in DOMAIN candidates
        /\ interceptor[j].node \in DOMAIN candidates
    BY <2>1 DEF is_active
  <2> QED BY <2>1, <2>2 DEF IInv, GroupInv, ActiveApart, rule_of
<1> QED BY <1>1, Safety, PTL

\* Nothing but a claim of it makes a candidate active.
LEMMA OnlyClaimActivates ==
    ASSUME IInv, [Next]_vars, NEW n \in DOMAIN candidates, ~is_active(n), is_active(n)'
    PROVE  Claim(n)
<1>1. candidates' # candidates
  BY DEF is_active
<1>2. n \in Node
  BY DEF IInv, TypeInv, CandidatesType
<1>3. ~HandleRelease
  <2>1. SUFFICES ASSUME HandleRelease PROVE FALSE
    OBVIOUS
  <2> DEFINE held == {m \in DOMAIN candidates :
                         /\ is_active(m)
                         /\ candidates[m].activation_id = Head(releases).activation_id}
  <2>2. n \notin held
    OBVIOUS
  <2>3. candidates'[n] = IF n \in held
                         THEN candidate(after_release(Head(releases).cause), candidates[n].rule)
                         ELSE candidates[n]
    BY <2>1 DEF HandleRelease
  <2> HIDE DEF held
  <2> QED BY <2>2, <2>3 DEF is_active
<1>4. ~SameActives
  BY <1>2 DEF SameActives
<1>5. PICK m \in Node : Claim(m)
  <2>1. CASE MonitorStep
    BY <1>1, <1>3, <1>4, <2>1, RefreshStep, WakeStep, ClaimEndsStep
       DEF MonitorStep, Tick, ScanNode, ScanFails, scanned
  <2>2. CASE ~MonitorStep
    BY <1>1, <2>2 DEF Next, ServerStep, ReadMessage, Release, DeviceFails, reset_writer,
       Appear, Vanish, Rematch, inventory, vars
  <2> QED BY <2>1, <2>2
<1>6. \A k \in DOMAIN candidates \ {m} : candidates'[k] = candidates[k]
  BY <1>5 DEF Claim, put
<1>7. n = m
  BY <1>6 DEF is_active
<1> QED BY <1>5, <1>7

(* A candidate is claimed only when every preferred one of its group is     *)
(* unsupported or rejected, although candidates change between the choice   *)
(* and the claim (claim_order and reconcile, monitor.rs).                   *)
THEOREM PreferredComeFirst == Spec => PreferredFirst
<1> DEFINE Preferred ==
        \A n \in DOMAIN candidates :
            ~is_active(n) /\ is_active(n)' =>
                \A m \in members(candidates, group[candidates[n].rule]) :
                    candidates[m].rule < candidates[n].rule =>
                        candidates[m].state \in {"unsupported", "rejected"}
<1>1. IInv /\ [Next]_vars => Preferred
  <2> SUFFICES ASSUME IInv, [Next]_vars, NEW n \in DOMAIN candidates,
                      ~is_active(n), is_active(n)',
                      NEW m \in members(candidates, group[candidates[n].rule]),
                      candidates[m].rule < candidates[n].rule
               PROVE  candidates[m].state \in {"unsupported", "rejected"}
    BY DEF Preferred
  <2>1. phase = "reconcile" /\ n \in pending
    BY OnlyClaimActivates DEF Claim
  <2>2. candidates[n].rule \in Rule /\ ~(candidates[n].rule < candidates[n].rule)
    <3>1. candidates[n].rule \in Rule
      BY <2>1, PendingCandidate
    <3>2. \A r \in Rule : ~(r < r)
      BY Rules
    <3> QED BY <3>1, <3>2
  <2>3. m \in DOMAIN candidates /\ candidates[m].rule \in Rule
    BY DEF members, IInv, TypeInv, CandidatesType, Candidate
  <2>4. m # n
    BY <2>2
  <2>5. CASE group[candidates[n].rule] = Ungrouped
    <3>1. candidates[m].rule = candidates[n].rule
      BY <2>2, <2>3, <2>5, PolicyAssumption
    <3> QED BY <2>2, <3>1
  <2>6. CASE group[candidates[n].rule] # Ungrouped
    BY <2>1, <2>4, <2>6 DEF IInv, GroupInv, PendingFirst
  <2> QED BY <2>5, <2>6
<1> HIDE DEF Preferred
<1>2. IInv /\ [Next]_vars => [Preferred]_vars
  BY <1>1
<1>3. Spec => [][Preferred]_vars
  BY <1>2, Safety, PTL DEF Spec
<1> QED BY <1>3 DEF PreferredFirst, Preferred

-----------------------------------------------------------------------------
(* What sorting a finite set gives. *)

\* before puts the elements of S in a line.
StrictOrder(S, before) ==
    /\ before \subseteq S \X S
    /\ \A s \in S : <<s, s>> \notin before
    /\ \A s, t, u \in S : <<s, t>> \in before /\ <<t, u>> \in before => <<s, u>> \in before
    /\ \A s, t \in S : s = t \/ <<s, t>> \in before \/ <<t, s>> \in before

rank(S, before, s) == Cardinality({t \in S : <<t, s>> \in before})

LEMMA RankIsBelow ==
    ASSUME NEW S, IsFiniteSet(S), NEW before, StrictOrder(S, before), NEW s \in S
    PROVE  rank(S, before, s) \in Nat /\ rank(S, before, s) < Cardinality(S)
<1> DEFINE T == {t \in S : <<t, s>> \in before}
<1>1. T \in SUBSET S /\ s \notin T
  BY DEF StrictOrder
<1>2. Cardinality(S) \in Nat
  BY FS_CardinalityType
<1> HIDE DEF T
<1>3. IsFiniteSet(T) /\ Cardinality(T) <= Cardinality(S) /\ Cardinality(T) # Cardinality(S)
  BY <1>1, FS_Subset
<1>4. Cardinality(T) \in Nat
  BY <1>3, FS_CardinalityType
<1>5. Cardinality(T) < Cardinality(S)
  BY <1>2, <1>3, <1>4
<1> QED BY <1>4, <1>5 DEF rank, T

LEMMA RankRises ==
    ASSUME NEW S, IsFiniteSet(S), NEW before, StrictOrder(S, before),
           NEW s \in S, NEW t \in S, <<s, t>> \in before
    PROVE  rank(S, before, s) < rank(S, before, t)
<1> DEFINE A == {u \in S : <<u, s>> \in before}
           B == {u \in S : <<u, t>> \in before}
<1>1. A \in SUBSET B
  BY DEF StrictOrder
<1>2. s \in B /\ s \notin A
  BY DEF StrictOrder
<1>3. IsFiniteSet(B)
  BY FS_Subset
<1> HIDE DEF A, B
<1>4. IsFiniteSet(A) /\ Cardinality(A) <= Cardinality(B) /\ Cardinality(A) # Cardinality(B)
  BY <1>1, <1>2, <1>3, FS_Subset
<1>5. Cardinality(A) \in Nat /\ Cardinality(B) \in Nat
  BY <1>3, <1>4, FS_CardinalityType
<1>6. Cardinality(A) < Cardinality(B)
  BY <1>4, <1>5
<1> QED BY <1>6 DEF rank, A, B

\* Every place is taken: the ranks of different elements differ.
LEMMA RanksAreAll ==
    ASSUME NEW S, IsFiniteSet(S), NEW before, StrictOrder(S, before),
           NEW i \in 1 .. Cardinality(S)
    PROVE  \E s \in S : rank(S, before, s) = i - 1
<1> DEFINE n == Cardinality(S)
           f == [s \in S |-> rank(S, before, s) + 1]
<1>1. n \in Nat
  BY FS_CardinalityType
<1>2. ASSUME NEW s \in S PROVE rank(S, before, s) + 1 \in 1 .. n
  <2>1. rank(S, before, s) \in Nat /\ rank(S, before, s) < n
    BY RankIsBelow
  <2> QED BY <1>1, <2>1
<1>3. f \in [S -> 1 .. n]
  BY <1>2
<1>4. ASSUME NEW s \in S, NEW t \in S, f[s] = f[t] PROVE s = t
  <2>1. /\ rank(S, before, s) \in Nat
        /\ rank(S, before, t) \in Nat
    BY RankIsBelow
  <2>2. rank(S, before, s) = rank(S, before, t)
    BY <1>4, <2>1
  <2>3. CASE <<s, t>> \in before
    BY <2>1, <2>2, <2>3, RankRises
  <2>4. CASE <<t, s>> \in before
    BY <2>1, <2>2, <2>4, RankRises
  <2> QED BY <2>3, <2>4 DEF StrictOrder
<1>5. f \in Injection(S, 1 .. n)
  BY <1>3, <1>4, Fun_IsInj
<1>6. IsFiniteSet(1 .. n) /\ Cardinality(1 .. n) = n
  <2>1. IsFiniteSet(1 .. n) /\ Cardinality(1 .. n) = IF 1 > n THEN 0 ELSE n - 1 + 1
    BY <1>1, FS_Interval
  <2> QED BY <1>1, <2>1
<1>7. f \in Surjection(S, 1 .. n)
  BY <1>5, <1>6, FS_Injection
<1>8. PICK s \in S : f[s] = i
  BY <1>7 DEF Surjection
<1>9. rank(S, before, s) \in Nat
  BY RankIsBelow
<1>10. rank(S, before, s) = i - 1
  <2>1. rank(S, before, s) + 1 = i
    BY <1>8
  <2> QED BY <1>9, <2>1
<1> QED BY <1>10

\* Sorting keeps every element, once, and puts them in their order.
LEMMA InOrder ==
    ASSUME NEW S, IsFiniteSet(S), NEW before, StrictOrder(S, before)
    PROVE  LET sorted == in_order(S, before) IN
           /\ Cardinality(S) \in Nat
           /\ DOMAIN sorted = 1 .. Cardinality(S)
           /\ \A i \in DOMAIN sorted : sorted[i] \in S
           /\ \A s \in S : \E i \in DOMAIN sorted : sorted[i] = s
           /\ \A i, j \in DOMAIN sorted : i < j <=> <<sorted[i], sorted[j]>> \in before
<1> DEFINE n == Cardinality(S)
           sorted == in_order(S, before)
<1>1. n \in Nat
  BY FS_CardinalityType
<1>2. DOMAIN sorted = 1 .. n
  BY DEF in_order
<1>3. ASSUME NEW i \in 1 .. n
      PROVE  sorted[i] \in S /\ rank(S, before, sorted[i]) = i - 1
  <2>1. \E s \in S : Cardinality({t \in S : <<t, s>> \in before}) = i - 1
    BY RanksAreAll DEF rank
  <2>2. sorted[i] = CHOOSE s \in S : Cardinality({t \in S : <<t, s>> \in before}) = i - 1
    BY DEF in_order
  <2> QED BY <2>1, <2>2 DEF rank
<1> HIDE DEF sorted
<1>4. ASSUME NEW s \in S, NEW t \in S, rank(S, before, s) = rank(S, before, t)
      PROVE  s = t
  <2>1. rank(S, before, s) \in Nat /\ rank(S, before, t) \in Nat
    BY RankIsBelow
  <2>2. CASE <<s, t>> \in before
    BY <1>4, <2>1, <2>2, RankRises
  <2>3. CASE <<t, s>> \in before
    BY <1>4, <2>1, <2>3, RankRises
  <2> QED BY <2>2, <2>3 DEF StrictOrder
<1>5. ASSUME NEW s \in S PROVE \E i \in 1 .. n : sorted[i] = s
  <2>1. rank(S, before, s) \in Nat /\ rank(S, before, s) < n
    BY RankIsBelow
  <2>2. PICK i \in 1 .. n : i = rank(S, before, s) + 1
    BY <1>1, <2>1
  <2>3. sorted[i] \in S /\ rank(S, before, sorted[i]) = i - 1
    BY <1>3
  <2>4. i - 1 = rank(S, before, s)
    BY <2>1, <2>2
  <2> QED BY <1>4, <2>3, <2>4
<1>6. ASSUME NEW i \in 1 .. n, NEW j \in 1 .. n, <<sorted[i], sorted[j]>> \in before
      PROVE  i < j
  <2>1. i - 1 < j - 1
    BY <1>3, <1>6, RankRises
  <2> QED BY <1>1, <2>1
<1>7. ASSUME NEW i \in 1 .. n, NEW j \in 1 .. n, i < j
      PROVE  <<sorted[i], sorted[j]>> \in before
  <2>1. sorted[i] # sorted[j]
    <3>1. i - 1 # j - 1
      BY <1>7
    <3> QED BY <1>3, <3>1
  <2>2. ~ (<<sorted[j], sorted[i]>> \in before)
    <3>1. ~ (j < i)
      BY <1>7
    <3> QED BY <1>6, <3>1
  <2> QED BY <1>3, <2>1, <2>2 DEF StrictOrder
<1> QED BY <1>1, <1>2, <1>3, <1>5, <1>6, <1>7 DEF sorted

-----------------------------------------------------------------------------
(* What the configuration makes of it: the list and the rules. *)

LEMMA ListDevices ==
    ASSUME NEW found \in SUBSET Infos
    PROVE  LET list == list_devices(found) IN
           /\ \A i \in DOMAIN list : list[i] \in found
           /\ \A d \in found : \E i \in DOMAIN list : list[i] = d
           /\ \A i, j \in DOMAIN list : i < j => list[i].path < list[j].path
<1> DEFINE before == {p \in found \X found : p[1].path < p[2].path}
<1>1. IsFiniteSet(found)
  BY InfoAssumption, FS_Subset
<1>2. \A d \in found : d.path \in Nat
  BY InfoAssumption
<1>3. \A d, e \in found : <<d, e>> \in before <=> d.path < e.path
  OBVIOUS
<1>4. before \subseteq found \X found
  OBVIOUS
<1> HIDE DEF before
<1>5. StrictOrder(found, before)
  <2>1. \A d \in found : <<d, d>> \notin before
    BY <1>2, <1>3
  <2>2. \A d, e, c \in found :
           <<d, e>> \in before /\ <<e, c>> \in before => <<d, c>> \in before
    BY <1>2, <1>3
  <2>3. ASSUME NEW d \in found, NEW e \in found
        PROVE  d = e \/ <<d, e>> \in before \/ <<e, d>> \in before
    <3>1. d.path = e.path \/ d.path < e.path \/ e.path < d.path
      BY <1>2
    <3>2. d.path = e.path => d = e
      BY InfoAssumption
    <3> QED BY <1>3, <3>1, <3>2
  <2> QED BY <1>4, <2>1, <2>2, <2>3 DEF StrictOrder
<1>6. list_devices(found) = in_order(found, before)
  BY DEF list_devices, before
<1> DEFINE list == in_order(found, before)
<1>7. /\ \A i \in DOMAIN list : list[i] \in found
      /\ \A d \in found : \E i \in DOMAIN list : list[i] = d
      /\ \A i, j \in DOMAIN list : i < j <=> <<list[i], list[j]>> \in before
  BY <1>1, <1>5, InOrder
<1> HIDE DEF list
<1>8. \A i, j \in DOMAIN list : i < j => list[i].path < list[j].path
  BY <1>3, <1>7
<1> QED BY <1>6, <1>7, <1>8 DEF list

\* What the groups of a configuration are.
Grouped(config) == config \in Policies /\ has(config, "device_groups")

at(config, g, c) == config.device_groups[g].candidates[c]
rule_at(config, g, c) == rule(g, c, grab_delay(at(config, g, c)))

Configured(config, g, c) ==
    g \in DOMAIN config.device_groups /\ c \in DOMAIN config.device_groups[g].candidates

LEMMA PlacesAreNumbers ==
    ASSUME NEW config, Grouped(config), NEW g, NEW c, Configured(config, g, c)
    PROVE  g \in Nat \ {0} /\ c \in Nat \ {0}
<1>1. DOMAIN config.device_groups \subseteq Nat \ {0}
  BY PoliciesAssumption DEF Grouped, IsList
<1>2. DOMAIN config.device_groups[g].candidates \subseteq Nat \ {0}
  BY PoliciesAssumption DEF Grouped, Configured, IsList, DeviceGroup
<1> QED BY <1>1, <1>2 DEF Configured

LEMMA GroupRules ==
    ASSUME NEW config, Grouped(config)
    PROVE  LET all == group_rules(config.device_groups) IN
           /\ IsFiniteSet(all)
           /\ \A r \in all : \E g, c : Configured(config, g, c) /\ r = rule_at(config, g, c)
           /\ \A g, c : Configured(config, g, c) => rule_at(config, g, c) \in all
<1> DEFINE groups == config.device_groups
           F == [g \in DOMAIN groups |-> group_policy(g, groups[g].candidates)]
<1>1. ASSUME NEW g \in DOMAIN groups PROVE IsFiniteSet(F[g])
  <2> DEFINE list == groups[g].candidates
             f    == [c \in DOMAIN list |-> rule(g, c, grab_delay(list[c]))]
  <2>1. DOMAIN list = 1 .. Len(list) /\ Len(list) \in Nat
    BY PoliciesAssumption DEF Grouped, IsList, DeviceGroup
  <2>2. IsFiniteSet(DOMAIN list)
    BY <2>1, FS_Interval
  <2>3. IsFiniteSet({f[c] : c \in DOMAIN f})
    BY <2>2, FiniteImage
  <2>4. F[g] = {f[c] : c \in DOMAIN f}
    BY DEF group_policy
  <2> QED BY <2>3, <2>4
<1>2. IsFiniteSet({F[g] : g \in DOMAIN groups})
  <2>1. DOMAIN groups = 1 .. Len(groups) /\ Len(groups) \in Nat
    BY PoliciesAssumption DEF Grouped, IsList
  <2>2. IsFiniteSet(DOMAIN groups)
    BY <2>1, FS_Interval
  <2> QED BY <2>2, FiniteImage
<1>3. IsFiniteSet(UNION {F[g] : g \in DOMAIN groups})
  BY <1>1, <1>2, FS_UNION
<1>4. group_rules(groups) = UNION {F[g] : g \in DOMAIN groups}
  BY DEF group_rules
<1>5. \A r \in group_rules(groups) : \E g, c : Configured(config, g, c) /\ r = rule_at(config, g, c)
  BY DEF group_rules, group_policy, Configured, rule_at, at
<1>6. \A g, c : Configured(config, g, c) => rule_at(config, g, c) \in group_rules(groups)
  BY DEF group_rules, group_policy, Configured, rule_at, at
<1> QED BY <1>3, <1>4, <1>5, <1>6

(* The rules of a configuration with groups: one for every place, in the    *)
(* order of the places.                                                     *)
LEMMA RulesOfGroups ==
    ASSUME NEW config, Grouped(config)
    PROVE  LET all == policy_rules(config) IN
           /\ DOMAIN all \subseteq Nat \ {0}
           /\ \A r \in DOMAIN all :
                 \E g, c : Configured(config, g, c) /\ all[r] = rule_at(config, g, c)
           /\ \A g, c : Configured(config, g, c) =>
                 \E r \in DOMAIN all : all[r] = rule_at(config, g, c)
           /\ \A r, s \in DOMAIN all : r < s <=> comes_first(all[r], all[s])
<1> DEFINE S == group_rules(config.device_groups)
           before == {p \in S \X S : comes_first(p[1], p[2])}
<1>1. /\ IsFiniteSet(S)
      /\ \A r \in S : \E g, c : Configured(config, g, c) /\ r = rule_at(config, g, c)
      /\ \A g, c : Configured(config, g, c) => rule_at(config, g, c) \in S
  BY GroupRules
<1> HIDE DEF S
<1>2. ASSUME NEW r \in S
      PROVE  /\ r.group \in Nat
             /\ r.candidate \in Nat
             /\ r = rule_at(config, r.group, r.candidate)
  <2>1. PICK g, c : Configured(config, g, c) /\ r = rule_at(config, g, c)
    BY <1>1
  <2>2. r.group = g /\ r.candidate = c
    BY <2>1 DEF rule_at, rule
  <2> QED BY <2>1, <2>2, PlacesAreNumbers
<1>3. \A r, s \in S : <<r, s>> \in before <=> comes_first(r, s)
  OBVIOUS
<1>4. before \subseteq S \X S
  OBVIOUS
<1> HIDE DEF before
<1>5. StrictOrder(S, before)
  <2>1. \A r \in S : <<r, r>> \notin before
    BY <1>2, <1>3 DEF comes_first
  <2>2. ASSUME NEW r \in S, NEW s \in S, NEW t \in S, comes_first(r, s), comes_first(s, t)
        PROVE  comes_first(r, t)
    <3>1. /\ r.group \in Nat /\ s.group \in Nat /\ t.group \in Nat
          /\ r.candidate \in Nat /\ s.candidate \in Nat /\ t.candidate \in Nat
      BY <1>2
    <3> QED BY <2>2, <3>1 DEF comes_first
  <2>3. ASSUME NEW r \in S, NEW s \in S
        PROVE  r = s \/ comes_first(r, s) \/ comes_first(s, r)
    <3>1. /\ r.group \in Nat /\ s.group \in Nat
          /\ r.candidate \in Nat /\ s.candidate \in Nat
      BY <1>2
    <3>2. r.group = s.group /\ r.candidate = s.candidate => r = s
      BY <1>2
    <3> QED BY <3>1, <3>2 DEF comes_first
  <2>4. \A r, s, t \in S : <<r, s>> \in before /\ <<s, t>> \in before => <<r, t>> \in before
    BY <1>3, <2>2
  <2>5. \A r, s \in S : r = s \/ <<r, s>> \in before \/ <<s, r>> \in before
    BY <1>3, <2>3
  <2> QED BY <1>4, <2>1, <2>4, <2>5 DEF StrictOrder
<1> DEFINE all == in_order(S, before)
<1>6. /\ Cardinality(S) \in Nat
      /\ DOMAIN all = 1 .. Cardinality(S)
      /\ \A i \in DOMAIN all : all[i] \in S
      /\ \A d \in S : \E i \in DOMAIN all : all[i] = d
      /\ \A i, j \in DOMAIN all : i < j <=> <<all[i], all[j]>> \in before
  BY <1>1, <1>5, InOrder
<1>7. policy_rules(config) = all
  BY DEF policy_rules, Grouped, S, before
<1> HIDE DEF all
<1>8. DOMAIN all \subseteq Nat \ {0}
  BY <1>6
<1>9. \A r, s \in DOMAIN all : r < s <=> comes_first(all[r], all[s])
  BY <1>3, <1>6
<1>10. \A r \in DOMAIN all : \E g, c : Configured(config, g, c) /\ all[r] = rule_at(config, g, c)
  BY <1>1, <1>6
<1>11. \A g, c : Configured(config, g, c) => \E r \in DOMAIN all : all[r] = rule_at(config, g, c)
  BY <1>1, <1>6
<1> QED BY <1>7, <1>8, <1>9, <1>10, <1>11

\* A rule matches as the candidate does that it was made of.
LEMMA RuleMatches ==
    ASSUME NEW config, Grouped(config), NEW info, NEW links,
           NEW r \in DOMAIN policy_rules(config), NEW g, NEW c, Configured(config, g, c),
           policy_rules(config)[r] = rule_at(config, g, c)
    PROVE  r \in matching_rules(config, info, links)
              <=> matches(at(config, g, c).matcher, info, links)
<1> DEFINE of == policy_rules(config)[r]
<1>1. of.group = g /\ of.candidate = c
  BY DEF rule_at, rule
<1>2. g # 0
  BY PlacesAreNumbers
<1>3. of # Filter
  BY <1>1, <1>2 DEF Filter, rule
<1> HIDE DEF of
<1>4. r \in matching_rules(config, info, links) <=>
         IF of = Filter THEN filter(config, info, links)
         ELSE matches(config.device_groups[of.group].candidates[of.candidate].matcher,
                      info, links)
  BY DEF matching_rules, of
<1> QED BY <1>1, <1>3, <1>4 DEF at

(* The list finds the group and the candidate that the policy selects: the  *)
(* first match of the first group with one is the first rule that matches.  *)
LEMMA GroupMatchIsSelection ==
    ASSUME NEW config, Grouped(config), NEW info, NEW links
    PROVE  policy_selection(config, info, links) = group_match(config, info, links)
<1> DEFINE all     == policy_rules(config)
           rs      == matching_rules(config, info, links)
           groups  == config.device_groups
           fits(g) == {c \in DOMAIN groups[g].candidates :
                          matches(groups[g].candidates[c].matcher, info, links)}
           fitting == {g \in DOMAIN groups : fits(g) # {}}
<1>1. ASSUME NEW g, NEW c
      PROVE  g \in fitting /\ c \in fits(g)
                <=> Configured(config, g, c) /\ matches(at(config, g, c).matcher, info, links)
  BY DEF Configured, at
<1>2. group_match(config, info, links) =
         IF fitting = {} THEN NoSelection
         ELSE rule_at(config, Min(fitting), Min(fits(Min(fitting))))
  BY DEF group_match, rule_at, at
<1>3. policy_selection(config, info, links) = IF rs = {} THEN NoSelection ELSE all[Min(rs)]
  BY DEF policy_selection
<1>4. rs \subseteq DOMAIN all
  BY DEF matching_rules
<1>5. /\ DOMAIN all \subseteq Nat \ {0}
      /\ \A r \in DOMAIN all : \E g, c : Configured(config, g, c) /\ all[r] = rule_at(config, g, c)
      /\ \A g, c : Configured(config, g, c) =>
            \E r \in DOMAIN all : all[r] = rule_at(config, g, c)
      /\ \A r, s \in DOMAIN all : r < s <=> comes_first(all[r], all[s])
  BY RulesOfGroups
<1>6. ASSUME NEW r \in rs
      PROVE  \E g, c : /\ g \in fitting
                       /\ c \in fits(g)
                       /\ all[r] = rule_at(config, g, c)
  <2>1. PICK g, c : Configured(config, g, c) /\ all[r] = rule_at(config, g, c)
    BY <1>4, <1>5
  <2>2. matches(at(config, g, c).matcher, info, links)
    BY <1>4, <2>1, RuleMatches
  <2> QED BY <1>1, <2>1, <2>2
<1>7. CASE fitting = {}
  <2>1. rs = {}
    BY <1>6, <1>7
  <2> QED BY <1>2, <1>3, <1>7, <2>1
<1>8. CASE fitting # {}
  <2> DEFINE f == Min(fitting)
             b == Min(fits(f))
  <2>1. fitting \subseteq Nat
    <3>1. \A g \in fitting : \E c : Configured(config, g, c)
      BY <1>1
    <3> QED BY <3>1, PlacesAreNumbers
  <2>2. f \in fitting /\ \A g \in fitting : f <= g
    BY <1>8, <2>1, LeastElement
  <2>3. fits(f) \subseteq Nat /\ fits(f) # {}
    <3>1. \A c \in fits(f) : Configured(config, f, c)
      BY <1>1, <2>2
    <3>2. fits(f) # {}
      BY <2>2
    <3> QED BY <3>1, <3>2, PlacesAreNumbers
  <2>4. b \in fits(f) /\ \A c \in fits(f) : b <= c
    BY <2>3, LeastElement
  <2>5. Configured(config, f, b) /\ matches(at(config, f, b).matcher, info, links)
    BY <1>1, <2>2, <2>4
  <2>6. PICK r \in DOMAIN all : all[r] = rule_at(config, f, b)
    BY <1>5, <2>5
  <2>7. r \in rs
    BY <2>5, <2>6, RuleMatches
  <2>8. rs \subseteq Nat
    BY <1>4, <1>5
  <2> DEFINE m == Min(rs)
  <2>9. m \in rs /\ m <= r
    BY <2>7, <2>8, LeastElement
  <2> HIDE DEF m, f, b, fitting, fits, all, rs
  <2>10. PICK g, c : g \in fitting /\ c \in fits(g) /\ all[m] = rule_at(config, g, c)
    BY <1>6, <2>9
  <2>11. ~ comes_first(all[m], all[r])
    <3>1. /\ all[m].group = g /\ all[m].candidate = c
          /\ all[r].group = f /\ all[r].candidate = b
      BY <2>6, <2>10 DEF rule_at, rule
    <3>2. g \in Nat /\ f \in Nat /\ f <= g
      BY <2>1, <2>2, <2>10
    <3>3. ASSUME g = f PROVE c \in Nat /\ b \in Nat /\ b <= c
      BY <2>3, <2>4, <2>10, <3>3
    <3> QED BY <3>1, <3>2, <3>3 DEF comes_first
  <2>12. ~ (m < r)
    BY <1>4, <1>5, <2>9, <2>11
  <2>13. m = r
    <3>1. m \in Nat /\ r \in Nat
      BY <2>7, <2>8, <2>9
    <3> QED BY <2>9, <2>12, <3>1
  <2>14. policy_selection(config, info, links) = all[m]
    BY <1>3, <2>7 DEF m
  <2>15. group_match(config, info, links) = rule_at(config, f, b)
    BY <1>2, <1>8 DEF f, b
  <2> QED BY <2>6, <2>13, <2>14, <2>15
<1> QED BY <1>7, <1>8

\* Without groups: the filter takes what the whitelist lets through.
LEMMA FilterIsSelection ==
    ASSUME NEW config, ~has(config, "device_groups"), NEW info, NEW links
    PROVE  policy_selection(config, info, links) = Filter
              <=> whitelisted(config, info, links) # "no"
<1>1. policy_rules(config) = <<Filter>>
  BY DEF policy_rules
<1>2. DOMAIN policy_rules(config) = {1} /\ policy_rules(config)[1] = Filter
  BY <1>1
<1>3. matching_rules(config, info, links) = IF filter(config, info, links) THEN {1} ELSE {}
  BY <1>2 DEF matching_rules
<1>4. NoSelection # Filter
  BY DEF NoSelection, Filter, rule
<1>5. Min({1}) = 1
  BY DEF Min
<1>6. policy_selection(config, info, links) = Filter <=> filter(config, info, links)
  BY <1>2, <1>3, <1>4, <1>5 DEF policy_selection
<1>7. filter(config, info, links) <=> whitelisted(config, info, links) # "no"
  BY DEF filter, whitelisted
<1> QED BY <1>6, <1>7

(* --list-devices prints every device once, in the order of their paths,    *)
(* and of each what the policy makes of it.                                 *)
LEMMA ListAgrees ==
    ASSUME NEW config \in Policies, NEW found \in SUBSET Infos, NEW links
    PROVE  is_listed(config, found, links)
<1> DEFINE list    == list_devices(found)
           printed == print_devices(config, found, links)
<1>1. /\ \A i \in DOMAIN list : list[i] \in found
      /\ \A d \in found : \E i \in DOMAIN list : list[i] = d
      /\ \A i, j \in DOMAIN list : i < j => list[i].path < list[j].path
  BY ListDevices
<1>2. /\ DOMAIN printed = DOMAIN list
      /\ \A i \in DOMAIN list :
            /\ printed[i].path = list[i].path
            /\ printed[i].whitelisted = whitelisted(config, list[i], links)
            /\ printed[i].group = group_line(config, list[i], links)
  BY DEF print_devices
<1> HIDE DEF list, printed
<1>3. \A i, j \in DOMAIN printed : i < j => printed[i].path < printed[j].path
  BY <1>1, <1>2
<1>4. ASSUME NEW info \in found
      PROVE  \E i \in DOMAIN printed :
                listed_as(printed[i], info, policy_selection(config, info, links))
  <2>1. PICK i \in DOMAIN printed : list[i] = info
    BY <1>1, <1>2
  <2>2. CASE has(config, "device_groups")
    <3>1. printed[i].group.enabled /\ printed[i].group.match = group_match(config, info, links)
      <4>1. printed[i].group = group_line(config, info, links)
        BY <1>2, <2>1
      <4> QED BY <2>2, <4>1 DEF group_line
    <3>2. group_match(config, info, links) = policy_selection(config, info, links)
      BY <2>2, GroupMatchIsSelection DEF Grouped
    <3> QED BY <1>2, <2>1, <3>1, <3>2 DEF listed_as
  <2>3. CASE ~has(config, "device_groups")
    <3>1. ~printed[i].group.enabled
      BY <1>2, <2>1, <2>3 DEF group_line
    <3> QED BY <1>2, <2>1, <2>3, <3>1, FilterIsSelection DEF listed_as
  <2> QED BY <2>2, <2>3
<1> QED BY <1>3, <1>4 DEF is_listed, printed

-----------------------------------------------------------------------------
(* What the monitor takes a source by. *)

\* The rule of a candidate was selected once, by what matched its node then.
RuleInv ==
    \A n \in DOMAIN candidates \cap Source :
        candidates[n].rule = NoRule
            \/ \E rs \in SourceRules[n] : rs # {} /\ candidates[n].rule = Min(rs)

\* Nothing gives a candidate a rule but the scan, and that the one selected now.
LEMMA RuleIsKeptOrSelected ==
    ASSUME IInv, [Next]_vars, NEW n \in DOMAIN candidates'
    PROVE  \/ n \in DOMAIN candidates /\ candidates'[n].rule = candidates[n].rule
           \/ candidates'[n].rule = selection(n)
<1>1. CASE candidates' = candidates
  BY <1>1
<1>2. CASE HandleRelease
  <2> DEFINE held == {m \in DOMAIN candidates :
                         /\ is_active(m)
                         /\ candidates[m].activation_id = Head(releases).activation_id}
             cause == Head(releases).cause
  <2>1. candidates' = [m \in DOMAIN candidates |->
                         IF m \in held THEN candidate(after_release(cause), candidates[m].rule)
                         ELSE candidates[m]]
    BY <1>2 DEF HandleRelease
  <2> HIDE DEF held, cause
  <2> QED BY <2>1 DEF candidate
<1>3. CASE \E m \in Node : Wake(m)
  <2>1. PICK m \in Node : Wake(m)
    BY <1>3
  <2>2. PICK expired \in SUBSET DOMAIN candidates :
           candidates' = [k \in DOMAIN candidates |->
                            IF k \in expired THEN candidate("ready", candidates[k].rule)
                            ELSE candidates[k]]
    BY <2>1 DEF Wake
  <2> QED BY <2>2 DEF candidate
<1>4. CASE Refresh
  <2>1. candidates' = [m \in {k \in Node : kept(k)} |-> refreshed(m)]
    BY <1>4 DEF Refresh
  <2>2. candidates'[n] = refreshed(n)
    BY <2>1
  <2>3. new_candidate(n).rule = selection(n)
    BY DEF new_candidate, candidate
  <2>4. CASE is_active(n)
    <3>1. n \in DOMAIN candidates /\ candidates[n] \in Candidate
      BY <2>4 DEF is_active, IInv, TypeInv, CandidatesType
    <3>2. refreshed(n).rule = candidates[n].rule
      BY <2>4, <3>1 DEF refreshed, Candidate
    <3> QED BY <2>2, <3>1, <3>2
  <2>5. CASE ~is_active(n)
    BY <2>2, <2>3, <2>5 DEF refreshed, update_policy
  <2> QED BY <2>4, <2>5
<1>5. CASE \E m \in Node : ClaimRefused(m) \/ ClaimFails(m) \/ Claim(m)
  <2>1. PICK m \in Node : ClaimRefused(m) \/ ClaimFails(m) \/ Claim(m)
    BY <1>5
  <2>2. m \in DOMAIN candidates
    BY <2>1 DEF ClaimRefused, ClaimFails, Claim, IInv, TypeInv, LoopType
  <2>3. \/ candidates' = forget(m)
        \/ \E c : candidates' = put(m, c) /\ c.rule = candidates[m].rule
    <3>1. \A state : candidate(state, candidates[m].rule).rule = candidates[m].rule
      BY DEF candidate
    <3>2. CASE ClaimRefused(m)
      BY <3>1, <3>2 DEF ClaimRefused, retry
    <3>3. CASE ClaimFails(m)
      BY <3>1, <3>3 DEF ClaimFails, retry
    <3>4. CASE Claim(m)
      <4> DEFINE c == [candidate("active", candidates[m].rule)
                       EXCEPT !.activation_id = next_activation_id]
      <4>1. candidates' = put(m, c)
        BY <3>4 DEF Claim
      <4>2. c.rule = candidates[m].rule
        BY DEF candidate
      <4> QED BY <4>1, <4>2
    <3> QED BY <2>1, <3>2, <3>3, <3>4
  <2> QED BY <2>2, <2>3 DEF forget, put
<1>6. CASE UNCHANGED inventory \/ UNCHANGED vars
  BY <1>1, <1>6 DEF vars, inventory
<1> QED BY <1>1, <1>2, <1>3, <1>4, <1>5, <1>6
  DEF Next, MonitorStep, ServerStep, Tick, ScanNode, ScanFails, scanned, ReadMessage, Release,
      DeviceFails, reset_writer, Appear, Vanish, Rematch

LEMMA RuleStep == IInv /\ RuleInv /\ [Next]_vars => RuleInv'
<1> SUFFICES ASSUME IInv, RuleInv, [Next]_vars, NEW n \in DOMAIN candidates' \cap Source
             PROVE  candidates'[n].rule = NoRule
                    \/ \E rs \in SourceRules[n] : rs # {} /\ candidates'[n].rule = Min(rs)
  BY DEF RuleInv
<1>1. CASE n \in DOMAIN candidates /\ candidates'[n].rule = candidates[n].rule
  BY <1>1 DEF RuleInv
<1>2. CASE candidates'[n].rule = selection(n)
  <2>1. matching[n] \in SourceRules[n] \cup {{}}
    BY DEF IInv, TypeInv, PolicyType
  <2> QED BY <1>2, <2>1 DEF selection, rules
<1> QED BY <1>1, <1>2, RuleIsKeptOrSelected

\* What the configuration selects for a source is named by the list.
LEMMA SelectedIsListed ==
    ASSUME NEW n \in Source, NEW rs \in SourceRules[n], rs # {}
    PROVE  Min(rs) \in listed_rules[n]
<1> DEFINE all   == policy_rules(UsedPolicy)
           found == {device_info[m] : m \in Source}
           row(links, i) == print_devices(UsedPolicy, found, links)[i]
<1>1. PICK links \in UsedLinks : rs = matching_rules(UsedPolicy, device_info[n], links)
  BY DerivedAssumption
<1>2. rs \subseteq Nat /\ rs \subseteq DOMAIN all
  BY <1>1, Rules, PolicyAssumption DEF matching_rules
<1>3. Min(rs) \in DOMAIN all
  BY <1>2, LeastElement
<1>4. all[Min(rs)] = policy_selection(UsedPolicy, device_info[n], links)
  BY <1>1 DEF policy_selection
<1>5. found \in SUBSET Infos /\ device_info[n] \in found
  BY UsedAssumption DEF Node
<1>6. is_listed(UsedPolicy, found, links)
  BY <1>5, UsedAssumption, ListAgrees
<1>7. PICK i \in DOMAIN print_devices(UsedPolicy, found, links) :
         listed_as(row(links, i), device_info[n], all[Min(rs)])
  BY <1>4, <1>5, <1>6 DEF is_listed
<1> QED BY <1>1, <1>3, <1>7 DEF listed_rules

(* Under any configuration that rkvm-server accepts, --list-devices and the *)
(* monitor, which find the group of a device by code of their own, agree    *)
(* about every device; and whatever was grabbed is held for a rule that the *)
(* list could name (server.rs, main.rs, monitor.rs).                        *)
THEOREM ListNamesWhatIsTaken == Spec => []PolicyIsListed
<1>1. Init => RuleInv
  BY DEF Init, RuleInv
<1>2. IInv /\ RuleInv /\ [Next]_vars => RuleInv'
  BY RuleStep
<1>3. every_list_agrees
  BY ListAgrees DEF every_list_agrees
<1>4. IInv /\ RuleInv => PolicyIsListed
  <2> SUFFICES ASSUME IInv, RuleInv, NEW n \in Source, is_active(n)
               PROVE  candidates[n].rule \in listed_rules[n]
    BY <1>3 DEF PolicyIsListed
  <2>1. n \in DOMAIN candidates /\ candidates[n].rule # NoRule
    BY DEF is_active, IInv, TypeInv, CandidatesType
  <2>2. PICK rs \in SourceRules[n] : rs # {} /\ candidates[n].rule = Min(rs)
    BY <2>1 DEF RuleInv
  <2> QED BY <2>2, SelectedIsListed
<1> QED BY <1>1, <1>2, <1>4, Safety, PTL DEF Spec
=============================================================================
