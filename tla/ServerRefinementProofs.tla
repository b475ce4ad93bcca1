----------------------- MODULE ServerRefinementProofs -----------------------
(* Server implements RoutedOutputs, for all devices, clients, keys and      *)
(* bindings, and all capacities of channels and queues.                     *)
(*                                                                          *)
(* What an output will show is what its copy holds once all that is sent    *)
(* and to be sent is carried out: two folds, over a queue or channel and    *)
(* over todo.  A step of the loop moves an update from one to the other,    *)
(* which changes nothing, or adds updates, and what these make of the       *)
(* copies is what the router's operation does at once in RoutedOutputs.     *)
EXTENDS ServerProofs

Batched  == INSTANCE FoldProofs WITH op <- dispatched
Commands == INSTANCE FoldProofs WITH op <- written

-----------------------------------------------------------------------------
(* What a list of batches makes of the keys the copies hold.                *)

dispatch(held, t) == FoldLeft(dispatched, held, t)

LEMMA Dispatch ==
    ASSUME NEW held, NEW t
    PROVE  dispatch(held, t) = Batched!Fold(held, t)
BY DEF dispatch, Batched!Fold, Batched!FoldLeft, FoldLeft, Batched!MapThenFoldSet,
       MapThenFoldSet, Batched!Max, Max

LEMMA DispatchNothing ==
    ASSUME NEW held
    PROVE  dispatch(held, <<>>) = held
BY Dispatch, Batched!FoldEmpty

LEMMA DispatchBoth ==
    ASSUME NEW held, NEW t \in Batches, NEW u \in Batches
    PROVE  dispatch(held, t \o u) = dispatch(dispatch(held, t), u)
<1>1. Batched!Fold(held, t \o u) = Batched!Fold(Batched!Fold(held, t), u)
  BY Batched!FoldConcat DEF Batches
<1> QED BY <1>1, Dispatch

LEMMA DispatchFirst ==
    ASSUME NEW held, NEW t \in Batches, t # <<>>
    PROVE  dispatch(held, t) = dispatch(dispatched(held, Head(t)), Tail(t))
<1>1. Batched!Fold(held, t) = Batched!Fold(dispatched(held, Head(t)), Tail(t))
  BY Batched!FoldHead DEF Batches
<1> QED BY <1>1, Dispatch

(* The steps of a batch that are about one copy make one update of it.      *)
LEMMA DispatchedAt ==
    ASSUME NEW held, NEW X, NEW r \in Outlet, NEW d \in Device
    PROVE  /\ (\A s \in X : ~updates(s, r, d)) => dispatched(held, X)[r][d] = held[r][d]
           /\ \A s \in X :
                 updates(s, r, d) /\ (\A t \in X : updates(t, r, d) => t = s) =>
                     dispatched(held, X)[r][d] = written(held[r][d], s.update)
<1> DEFINE mine == {s \in X : updates(s, r, d)}
<1>1. dispatched(held, X)[r][d] = IF mine = {} THEN held[r][d]
                                  ELSE written(held[r][d], (CHOOSE s \in mine : TRUE).update)
  BY DEF dispatched
<1>2. (\A s \in X : ~updates(s, r, d)) => mine = {}
  OBVIOUS
<1>3. ASSUME NEW s \in X, updates(s, r, d), \A t \in X : updates(t, r, d) => t = s
      PROVE  mine = {s}
  BY <1>3
<1> HIDE DEF mine
<1>4. \A s : (CHOOSE t \in {s} : TRUE) = s
  OBVIOUS
<1> QED BY <1>1, <1>2, <1>3, <1>4

(* Each copy is updated on its own.                                         *)
LEMMA DispatchLocal ==
    ASSUME NEW held, NEW other, NEW t \in Batches, NEW r \in Outlet, NEW d \in Device,
           held[r][d] = other[r][d]
    PROVE  dispatch(held, t)[r][d] = dispatch(other, t)[r][d]
<1>1. PICK f : Batched!Goes(f, Len(t), held, t) /\ Batched!Fold(held, t) = f[Len(t)]
  BY Batched!FoldGoes DEF Batches
<1>2. PICK g : Batched!Goes(g, Len(t), other, t) /\ Batched!Fold(other, t) = g[Len(t)]
  BY Batched!FoldGoes DEF Batches
<1> DEFINE A == {n \in Nat : n <= Len(t) => f[n][r][d] = g[n][r][d]}
<1>3. 0 \in A
  BY <1>1, <1>2 DEF Batched!Goes
<1>4. ASSUME NEW n \in A PROVE n + 1 \in A
  <2>1. SUFFICES ASSUME n + 1 <= Len(t) PROVE f[n + 1][r][d] = g[n + 1][r][d]
    OBVIOUS
  <2>2. n + 1 \in 1 .. Len(t) /\ (n + 1) - 1 = n /\ f[n][r][d] = g[n][r][d]
    BY <2>1 DEF Batches
  <2>3. f[n + 1] = dispatched(f[n], t[n + 1]) /\ g[n + 1] = dispatched(g[n], t[n + 1])
    BY <1>1, <1>2, <2>2 DEF Batched!Goes
  <2>4. dispatched(f[n], t[n + 1])[r][d] = dispatched(g[n], t[n + 1])[r][d]
    BY <2>2 DEF dispatched
  <2> QED BY <2>3, <2>4
<1> HIDE DEF A
<1>5. A = Nat
  BY <1>3, <1>4, Batched!Inductive, A \subseteq Nat DEF A
<1>6. Len(t) \in A
  BY <1>5 DEF Batches
<1> QED BY <1>1, <1>2, <1>6, Dispatch DEF A, Batches

(* What no step is about stays as it is.                                    *)
LEMMA DispatchElsewhere ==
    ASSUME NEW held, NEW t \in Batches, NEW r \in Outlet, NEW d \in Device,
           \A s \in Steps(t) : ~updates(s, r, d)
    PROVE  dispatch(held, t)[r][d] = held[r][d]
<1>1. PICK f : Batched!Goes(f, Len(t), held, t) /\ Batched!Fold(held, t) = f[Len(t)]
  BY Batched!FoldGoes DEF Batches
<1> DEFINE A == {n \in Nat : n <= Len(t) => f[n][r][d] = held[r][d]}
<1>2. 0 \in A
  BY <1>1 DEF Batched!Goes
<1>3. ASSUME NEW n \in A PROVE n + 1 \in A
  <2>1. SUFFICES ASSUME n + 1 <= Len(t) PROVE f[n + 1][r][d] = held[r][d]
    OBVIOUS
  <2>2. n + 1 \in 1 .. Len(t) /\ (n + 1) - 1 = n /\ f[n][r][d] = held[r][d] /\ n + 1 \in DOMAIN t
    BY <2>1 DEF Batches
  <2>3. f[n + 1] = dispatched(f[n], t[n + 1])
    BY <1>1, <2>2 DEF Batched!Goes
  <2>4. \A s \in t[n + 1] : ~updates(s, r, d)
    BY <2>2 DEF Steps
  <2>5. dispatched(f[n], t[n + 1])[r][d] = f[n][r][d]
    BY <2>4, DispatchedAt
  <2> QED BY <2>2, <2>3, <2>5
<1> HIDE DEF A
<1>4. A = Nat
  BY <1>2, <1>3, Batched!Inductive, A \subseteq Nat DEF A
<1>5. Len(t) \in A
  BY <1>4 DEF Batches
<1> QED BY <1>1, <1>5, Dispatch DEF A, Batches

(* One batch.                                                               *)
LEMMA DispatchBatch ==
    ASSUME NEW held, NEW X \in SUBSET HandlerSteps, NEW r \in Outlet, NEW d \in Device
    PROVE  /\ (\A s \in X : ~updates(s, r, d)) => dispatch(held, batch(X))[r][d] = held[r][d]
           /\ \A s \in X :
                 updates(s, r, d) /\ (\A t \in X : updates(t, r, d) => t = s) =>
                     dispatch(held, batch(X))[r][d] = written(held[r][d], s.update)
<1>1. CASE X = {}
  BY <1>1, DispatchNothing DEF batch
<1>2. CASE X # {}
  <2>1. /\ batch(X) = <<X>> /\ <<X>> \in Batches
        /\ <<X>> # <<>> /\ Head(<<X>>) = X /\ Tail(<<X>>) = <<>>
    BY <1>2 DEF batch, Batches
  <2>2. dispatch(held, <<X>>) = dispatched(held, X)
    BY <2>1, DispatchFirst, DispatchNothing
  <2> QED BY <2>1, <2>2, DispatchedAt
<1> QED BY <1>1, <1>2

\* The steps of a batch concern different copies.
Single(X) ==
    \A s, t \in X, r \in Outlet, d \in Device : updates(s, r, d) /\ updates(t, r, d) => s = t

EachOnce(t) == \A i \in DOMAIN t : Single(t[i])

(* A step that is carried out makes no difference to what is held when all  *)
(* steps are.                                                               *)
LEMMA DispatchPopped ==
    ASSUME NEW held, NEW after, NEW t \in Batches, EachOnce(t), NEW s, NEW rest,
           Popped(t, s, rest), NEW r \in Outlet, NEW d \in Device,
           after[r][d] = IF updates(s, r, d) THEN written(held[r][d], s.update) ELSE held[r][d]
    PROVE  dispatch(after, rest)[r][d] = dispatch(held, t)[r][d]
<1> DEFINE X == Head(t)
           Y == X \ {s}
<1>1. /\ t # <<>> /\ s \in X /\ rest = batch(Y) \o Tail(t)
      /\ X \in SUBSET HandlerSteps /\ Tail(t) \in Batches /\ 1 \in DOMAIN t /\ t[1] = X
  BY DEF Popped, Batches
<1>2. Single(X)
  BY <1>1 DEF EachOnce
<1> HIDE DEF X
<1>3. Y \in SUBSET HandlerSteps /\ batch(Y) \in Batches
  BY <1>1, StepsOfBatch
<1>4. dispatch(after, rest) = dispatch(dispatch(after, batch(Y)), Tail(t))
  BY <1>1, <1>3, DispatchBoth
<1>5. dispatch(held, t) = dispatch(dispatched(held, X), Tail(t))
  BY <1>1, DispatchFirst DEF X
<1>6. dispatch(after, batch(Y))[r][d] = dispatched(held, X)[r][d]
  <2>1. CASE updates(s, r, d)
    <3>1. \A u \in Y : ~updates(u, r, d)
      BY <1>1, <1>2, <2>1 DEF Single
    <3>2. dispatch(after, batch(Y))[r][d] = after[r][d]
      BY <1>3, <3>1, DispatchBatch
    <3>3. dispatched(held, X)[r][d] = written(held[r][d], s.update)
      <4>1. \A u \in X : updates(u, r, d) => u = s
        BY <1>1, <1>2, <2>1 DEF Single
      <4> QED BY <1>1, <2>1, <4>1, DispatchedAt
    <3> QED BY <2>1, <3>2, <3>3
  <2>2. CASE ~updates(s, r, d)
    <3>1. CASE \A u \in X : ~updates(u, r, d)
      <4>1. dispatch(after, batch(Y))[r][d] = after[r][d]
        BY <1>3, <3>1, DispatchBatch
      <4>2. dispatched(held, X)[r][d] = held[r][d]
        BY <3>1, DispatchedAt
      <4> QED BY <2>2, <4>1, <4>2
    <3>2. CASE \E u \in X : updates(u, r, d)
      <4>1. PICK u \in X : updates(u, r, d)
        BY <3>2
      <4>2. u \in Y /\ \A v \in X : updates(v, r, d) => v = u
        BY <1>2, <2>2, <4>1 DEF Single
      <4>3. dispatch(after, batch(Y))[r][d] = written(after[r][d], u.update)
        BY <1>3, <4>1, <4>2, DispatchBatch
      <4>4. dispatched(held, X)[r][d] = written(held[r][d], u.update)
        BY <4>1, <4>2, DispatchedAt
      <4> QED BY <2>2, <4>3, <4>4
    <3> QED BY <3>1, <3>2
  <2> QED BY <2>1, <2>2
<1> HIDE DEF Y
<1> QED BY <1>1, <1>4, <1>5, <1>6, DispatchLocal

-----------------------------------------------------------------------------
(* What the copies hold once their queues and channels are empty.           *)

shown(copies, d)      == IF d \in DOMAIN copies THEN copies[d] ELSE {}
drained(pressed, cmds) == FoldLeft(written, pressed, cmds)

LEMMA ReceivedAt ==
    /\ \A d \in Device : received[0][d] = drained(local_keys[d], commands[d])
    /\ \A c \in Client, d \in Device : received[c][d] = shown(carry(writers[c], queue[c]), d)
    /\ \A d \in Device : received'[0][d] = drained(local_keys'[d], commands'[d])
    /\ \A c \in Client, d \in Device : received'[c][d] = shown(carry(writers'[c], queue'[c]), d)
<1>1. 0 \notin Client /\ Outlet = Client \cup {0}
  BY ClientAssumption DEF Outlet
<1>2. received =
        [r \in Outlet |-> [d \in Device |->
            IF r = 0 THEN drained(local_keys[d], commands[d])
            ELSE shown(carry(writers[r], queue[r]), d)]]
  BY DEF received, drained, shown, carry
<1>3. received' =
        [r \in Outlet |-> [d \in Device |->
            IF r = 0 THEN drained(local_keys'[d], commands'[d])
            ELSE shown(carry(writers'[r], queue'[r]), d)]]
  BY DEF received, drained, shown, carry
<1> QED BY <1>1, <1>2, <1>3

LEMMA DrainedFold ==
    ASSUME NEW pressed, NEW cmds
    PROVE  drained(pressed, cmds) = Commands!Fold(pressed, cmds)
BY DEF drained, Commands!Fold, Commands!FoldLeft, FoldLeft, Commands!MapThenFoldSet,
       MapThenFoldSet, Commands!Max, Max

LEMMA DrainedAppend ==
    ASSUME NEW pressed, NEW cmds \in Seq(Command), NEW u \in Command
    PROVE  drained(pressed, Append(cmds, u)) = written(drained(pressed, cmds), u)
<1>1. Commands!Fold(pressed, Append(cmds, u)) = written(Commands!Fold(pressed, cmds), u)
  BY Commands!FoldAppend
<1> QED BY <1>1, DrainedFold

LEMMA DrainedHead ==
    ASSUME NEW pressed, NEW cmds \in Seq(Command), cmds # <<>>
    PROVE  drained(pressed, cmds) = drained(written(pressed, Head(cmds)), Tail(cmds))
<1>1. Commands!Fold(pressed, cmds) = Commands!Fold(written(pressed, Head(cmds)), Tail(cmds))
  BY Commands!FoldHead
<1> QED BY <1>1, DrainedFold

LEMMA ShownCarried ==
    ASSUME NEW copies, NEW u \in ToClient, NEW d,
           u.kind \in {"create", "destroy"} \/ u.device \in DOMAIN copies
    PROVE  shown(carried_out(copies, u), d) =
              IF u.device = d THEN written(shown(copies, d), u) ELSE shown(copies, d)
<1>1. CASE u.kind = "create"
  BY <1>1 DEF shown, carried_out, written
<1>2. CASE u.kind = "destroy"
  BY <1>2 DEF shown, carried_out, written, Restrict
<1>3. CASE u.kind \notin {"create", "destroy"}
  <2>1. u.device \in DOMAIN copies
    BY <1>3
  <2>2. carried_out(copies, u) = [copies EXCEPT ![u.device] = written(copies[u.device], u)]
    BY <1>3 DEF carried_out
  <2> QED BY <2>1, <2>2 DEF shown
<1> QED BY <1>1, <1>2, <1>3

LEMMA ShownAppend ==
    ASSUME NEW copies, NEW q \in Seq(ToClient), NEW u \in ToClient, NEW d,
           u.kind \in {"create", "destroy"} \/ u.device \in DOMAIN carry(copies, q)
    PROVE  shown(carry(copies, Append(q, u)), d) =
              IF u.device = d THEN written(shown(carry(copies, q), d), u)
                              ELSE shown(carry(copies, q), d)
<1>1. Copies!Fold(copies, Append(q, u)) = carried_out(Copies!Fold(copies, q), u)
  BY Copies!FoldAppend
<1>2. carry(copies, Append(q, u)) = carried_out(carry(copies, q), u)
  BY <1>1, CarryOut
<1> QED BY <1>2, ShownCarried

-----------------------------------------------------------------------------
(* The effective state of the outputs.                                      *)

Copied(r, d) == IF r = 0 THEN handles_commands(d) ELSE session[r] # "vacant"

value(r, d) == keys_after(dispatch(received, todo)[r][d], ready(r, d))

LEMMA EffectiveIs ==
    /\ effective = [r \in Outlet |-> [d \in Device |-> IF Copied(r, d) THEN value(r, d) ELSE {}]]
    /\ effective' =
         [r \in Outlet |-> [d \in Device |-> IF Copied(r, d)' THEN value(r, d)' ELSE {}]]
<1>1. \A r, d : d \in Device => (d \in has_copies(r) <=> Copied(r, d))
  BY DEF has_copies, Copied
<1>2. \A r, d : d \in Device => (d \in has_copies(r)' <=> Copied(r, d)')
  BY DEF has_copies, Copied
<1> QED BY <1>1, <1>2 DEF effective, value, dispatch

LEMMA NothingReady ==
    ASSUME NEW keys
    PROVE  keys_after(keys, <<>>) = keys
BY WriteFrame, Writes!FoldEmpty DEF keys_after

LEMMA KeysAfterAppend ==
    ASSUME NEW keys, NEW evs \in Seq(KeyEvent), NEW e \in KeyEvent
    PROVE  keys_after(keys, Append(evs, e)) = update_key_state(keys_after(keys, evs), e)
<1>1. Writes!Fold(keys, Append(evs, e)) = update_key_state(Writes!Fold(keys, evs), e)
  BY Writes!FoldAppend
<1> QED BY <1>1, WriteFrame DEF keys_after

LEMMA ValueWithoutFrame ==
    /\ frame = NoFrame => \A r, d : value(r, d) = dispatch(received, todo)[r][d]
    /\ frame' = NoFrame => \A r, d : value(r, d)' = dispatch(received', todo')[r][d]
BY NothingReady DEF value, ready

LEMMA SameOutputs ==
    ASSUME \A r \in Outlet, d \in Device :
              /\ Copied(r, d)' <=> Copied(r, d)
              /\ Copied(r, d) => value(r, d)' = value(r, d)
    PROVE  effective' = effective
BY EffectiveIs

-----------------------------------------------------------------------------
(* Which steps update which copies.                                         *)

LEMMA UpdateKinds ==
    ASSUME NEW s \in HandlerSteps, NEW r, NEW d, updates(s, r, d)
    PROVE  kind_of(s) \in {"routing", "create", "destroy"} /\ device_of(s) = d
<1>1. s.op \in {"send", "local"} /\ s.update.device = d
  BY DEF updates
<1>2. kind_of(s) \notin {"sweep", "stabilize", "insert", "remove", "add", "reset", "abort",
                         "forget", "release"}
  BY <1>1, StepKinds
<1> HIDE DEF HandlerSteps
<1> QED BY <1>1, <1>2, StepKinds DEF device_of

LEMMA EmitUpdates ==
    \A q, u, r, d : updates(emit(q, u), r, d) <=> r = q /\ u.device = d
BY DEF updates, emit, send, local

LEMMA EmitIs ==
    /\ \A q, u : emit(q, u).update = u
    /\ \A c \in Client : \A u : send(c, u) = emit(c, u)
BY ClientAssumption DEF emit, send, local

LEMMA QuietMakes ==
    ASSUME NEW held, NEW t \in Batches, NEW r \in Outlet, NEW d \in Device,
           \A s \in Steps(t) : kind_of(s) \notin {"routing", "create", "destroy"}
    PROVE  dispatch(held, t)[r][d] = held[r][d]
<1>1. \A s \in Steps(t) : s \in HandlerSteps
  BY DEF Steps, Batches
<1>2. \A s \in Steps(t) : ~updates(s, r, d)
  BY <1>1, UpdateKinds
<1> QED BY <1>2, DispatchElsewhere

\* Batch X has the update u[r][d] for each device d of E on each route r of Q.
Sends(X, Q, E, u) ==
    /\ Q \subseteq Outlet /\ E \subseteq Device
    /\ \A s \in X : \E r \in Q, d \in E : s = emit(r, u[r][d])
    /\ \A r \in Q, d \in E :
          emit(r, u[r][d]) \in X /\ emit(r, u[r][d]) \in HandlerSteps /\ u[r][d].device = d

LEMMA EmitMakes ==
    ASSUME NEW X, NEW Q, NEW E, NEW u, Sends(X, Q, E, u)
    PROVE  /\ X \in SUBSET HandlerSteps
           /\ Single(X)
           /\ \A held : \A r \in Outlet, d \in Device :
                 dispatch(held, batch(X))[r][d] =
                    IF r \in Q /\ d \in E THEN written(held[r][d], u[r][d]) ELSE held[r][d]
<1>1. X \in SUBSET HandlerSteps
  BY DEF Sends
<1>2. ASSUME NEW s \in X, NEW r, NEW d, updates(s, r, d)
      PROVE  r \in Q /\ d \in E /\ s = emit(r, u[r][d])
  <2>1. PICK q \in Q, e \in E : s = emit(q, u[q][e]) /\ u[q][e].device = e
    BY DEF Sends
  <2>2. updates(emit(q, u[q][e]), r, d)
    BY <1>2, <2>1
  <2>3. r = q /\ d = e
    BY <2>1, <2>2, EmitUpdates
  <2> QED BY <2>1, <2>3
<1>3. ASSUME NEW r \in Q, NEW d \in E
      PROVE  emit(r, u[r][d]) \in X /\ updates(emit(r, u[r][d]), r, d)
  BY EmitUpdates DEF Sends
<1>4. Single(X)
  BY <1>2 DEF Single
<1>5. ASSUME NEW held, NEW r \in Outlet, NEW d \in Device
      PROVE  dispatch(held, batch(X))[r][d] =
                IF r \in Q /\ d \in E THEN written(held[r][d], u[r][d]) ELSE held[r][d]
  <2>1. CASE r \in Q /\ d \in E
    <3> DEFINE s == emit(r, u[r][d])
    <3>1. s \in X /\ updates(s, r, d) /\ \A t \in X : updates(t, r, d) => t = s
      BY <1>2, <1>3, <2>1
    <3>2. s.update = u[r][d]
      BY EmitIs
    <3> HIDE DEF s
    <3>3. dispatch(held, batch(X))[r][d] = written(held[r][d], s.update)
      BY <1>1, <3>1, DispatchBatch
    <3> QED BY <2>1, <3>2, <3>3
  <2>2. CASE ~(r \in Q /\ d \in E)
    <3>1. \A s \in X : ~updates(s, r, d)
      BY <1>2, <2>2
    <3>2. dispatch(held, batch(X))[r][d] = held[r][d]
      BY <1>1, <3>1, DispatchBatch
    <3> QED BY <2>2, <3>2
  <2> QED BY <2>1, <2>2
<1> QED BY <1>1, <1>4, <1>5

-----------------------------------------------------------------------------
(* Lists of batches that concern each copy once.                            *)

LEMMA OnceBatch ==
    ASSUME NEW X \in SUBSET HandlerSteps, Single(X)
    PROVE  EachOnce(batch(X))
BY DEF batch, EachOnce

LEMMA OnceBoth ==
    ASSUME NEW t \in Batches, NEW u \in Batches, EachOnce(t), EachOnce(u)
    PROVE  EachOnce(t \o u)
<1> SUFFICES ASSUME NEW i \in DOMAIN (t \o u) PROVE Single((t \o u)[i])
  BY DEF EachOnce
<1>1. CASE i <= Len(t)
  <2>1. i \in DOMAIN t /\ (t \o u)[i] = t[i]
    BY <1>1 DEF Batches
  <2> QED BY <2>1 DEF EachOnce
<1>2. CASE i > Len(t)
  <2>1. i - Len(t) \in DOMAIN u /\ (t \o u)[i] = u[i - Len(t)]
    BY <1>2 DEF Batches
  <2> QED BY <2>1 DEF EachOnce
<1> QED BY <1>1, <1>2 DEF Batches

LEMMA OncePopped ==
    ASSUME NEW t \in Batches, EachOnce(t), NEW s, NEW rest, Popped(t, s, rest)
    PROVE  EachOnce(rest)
<1> DEFINE Y == Head(t) \ {s}
<1>1. /\ rest = batch(Y) \o Tail(t) /\ Head(t) \in SUBSET HandlerSteps
      /\ Tail(t) \in Batches /\ 1 \in DOMAIN t /\ t[1] = Head(t)
      /\ \A i \in DOMAIN Tail(t) : i + 1 \in DOMAIN t /\ Tail(t)[i] = t[i + 1]
  BY DEF Popped, Batches
<1>2. EachOnce(Tail(t))
  BY <1>1 DEF EachOnce
<1>3. Y \in SUBSET HandlerSteps /\ Single(Y)
  BY <1>1 DEF EachOnce, Single
<1> HIDE DEF Y
<1>4. batch(Y) \in Batches /\ EachOnce(batch(Y))
  BY <1>3, StepsOfBatch, OnceBatch
<1> QED BY <1>1, <1>2, <1>4, OnceBoth

LEMMA OnceQuiet ==
    ASSUME NEW t \in Batches,
           \A s \in Steps(t) : kind_of(s) \notin {"routing", "create", "destroy"}
    PROVE  EachOnce(t)
<1>1. \A s \in Steps(t) : s \in HandlerSteps
  BY DEF Steps, Batches
<1>2. \A s \in Steps(t), r \in Outlet, d \in Device : ~updates(s, r, d)
  BY <1>1, UpdateKinds
<1>3. \A i \in DOMAIN t : \A s \in t[i] : s \in Steps(t)
  BY DEF Steps
<1> QED BY <1>2, <1>3 DEF EachOnce, Single

-----------------------------------------------------------------------------
(* What handlers make of the copies.                                        *)

\* Batch X sets the keys k[r][d] of each device d of E on each route r of Q.
Sets(X, Q, E, k) ==
    /\ Q \subseteq Outlet /\ E \subseteq Device
    /\ \A s \in X : \E r \in Q, d \in E : s = emit(r, SetKeyState(d, k[r][d]))
    /\ \A r \in Q, d \in E : emit(r, SetKeyState(d, k[r][d])) \in X /\ k[r][d] \subseteq Key

LEMMA SettingMakes ==
    ASSUME NEW X, NEW Q, NEW E, NEW k, Sets(X, Q, E, k)
    PROVE  /\ X \in SUBSET HandlerSteps
           /\ Single(X)
           /\ \A held : \A r \in Outlet, d \in Device :
                 dispatch(held, batch(X))[r][d] =
                    IF r \in Q /\ d \in E THEN k[r][d] ELSE held[r][d]
<1> DEFINE u == [q \in Q |-> [e \in E |-> SetKeyState(e, k[q][e])]]
<1>1. \A q \in Q, e \in E : u[q][e] = SetKeyState(e, k[q][e])
  OBVIOUS
<1> HIDE DEF u
<1>2. ASSUME NEW q \in Q, NEW e \in E
      PROVE  /\ u[q][e] \in Routing
             /\ u[q][e].device = e
             /\ \A keys : written(keys, u[q][e]) = k[q][e]
  <2>1. e \in Device /\ k[q][e] \in SUBSET Key /\ u[q][e] = SetKeyState(e, k[q][e])
    BY <1>1 DEF Sets
  <2>2. SetKeyState(e, k[q][e]) \in Routing
    BY <2>1, Typed
  <2>3. /\ SetKeyState(e, k[q][e]).device = e
        /\ \A keys : written(keys, SetKeyState(e, k[q][e])) = k[q][e]
    BY DEF SetKeyState, written
  <2> QED BY <2>1, <2>2, <2>3
<1>3. \A q \in Q, e \in E : emit(q, u[q][e]) \in HandlerSteps /\ u[q][e].device = e
  <2>1. \A q \in Q : q \in Client \cup {0}
    BY DEF Outlet, Sets
  <2> QED BY <1>2, <2>1, Typed
<1>4. Sends(X, Q, E, u)
  BY <1>1, <1>3 DEF Sets, Sends
<1>5. /\ X \in SUBSET HandlerSteps
      /\ Single(X)
      /\ \A held : \A r \in Outlet, d \in Device :
            dispatch(held, batch(X))[r][d] =
               IF r \in Q /\ d \in E THEN written(held[r][d], u[r][d]) ELSE held[r][d]
  BY <1>4, EmitMakes
<1>6. ASSUME NEW held, NEW r \in Outlet, NEW d \in Device
      PROVE  dispatch(held, batch(X))[r][d] =
                IF r \in Q /\ d \in E THEN k[r][d] ELSE held[r][d]
  <2>1. dispatch(held, batch(X))[r][d] =
           IF r \in Q /\ d \in E THEN written(held[r][d], u[r][d]) ELSE held[r][d]
    BY <1>5
  <2> QED BY <1>2, <2>1
<1> QED BY <1>5, <1>6

LEMMA HandoffMakes ==
    ASSUME TypeInv
    PROVE  /\ handoff_actions \in Batches
           /\ EachOnce(handoff_actions)
           /\ \A held : \A r \in Outlet, d \in Device :
                 dispatch(held, handoff_actions)[r][d] =
                    IF r \in available_routes /\ d \in devices
                    THEN IF r = current' THEN handoff_keys(d)' ELSE {}
                    ELSE held[r][d]
<1> DEFINE Q == available_routes \ {current'}
           R == available_routes \cap {current'}
           k == [q \in Q |-> [e \in devices |-> {}]]
           l == [q \in R |-> [e \in devices |-> handoff_keys(e)']]
           X == {emit(r, SetKeyState(d, k[r][d])) : r \in Q, d \in devices}
           Y == {emit(r, SetKeyState(d, l[r][d])) : r \in R, d \in devices}
<1>1. devices \in SUBSET Device /\ available_routes \in SUBSET Outlet
  BY RoutesType DEF TypeInv, Outlet
<1>2. \A d : handoff_keys(d)' \in SUBSET Key
  BY InputAssumption DEF handoff_keys
<1>3. \A r \in Q, d \in devices : k[r][d] = {}
  OBVIOUS
<1>4. \A r \in R, d \in devices : l[r][d] = handoff_keys(d)'
  OBVIOUS
<1>5. X = {emit(r, SetKeyState(d, {})) : r \in Q, d \in devices}
  BY <1>3
<1>6. Y = {emit(r, SetKeyState(d, handoff_keys(d)')) : r \in R, d \in devices}
  BY <1>4
<1>7. handoff_actions = batch(X) \o batch(Y)
  <2> HIDE DEF X, Y, k, l
  <2> QED BY <1>5, <1>6 DEF handoff_actions
<1>8. /\ Q \in SUBSET Outlet /\ R \in SUBSET Outlet
      /\ \A r \in Q, d \in devices : k[r][d] \in SUBSET Key
      /\ \A r \in R, d \in devices : l[r][d] \in SUBSET Key
  BY <1>1, <1>2
<1>81. Sets(X, Q, devices, k)
  BY <1>1, <1>8 DEF Sets
<1>82. Sets(Y, R, devices, l)
  BY <1>1, <1>8 DEF Sets
<1> HIDE DEF k, l, Q, R, X, Y
<1>9. /\ X \in SUBSET HandlerSteps /\ Single(X)
      /\ \A held : \A r \in Outlet, d \in Device :
            dispatch(held, batch(X))[r][d] =
               IF r \in Q /\ d \in devices THEN k[r][d] ELSE held[r][d]
  BY <1>81, SettingMakes
<1>10. /\ Y \in SUBSET HandlerSteps /\ Single(Y)
       /\ \A held : \A r \in Outlet, d \in Device :
            dispatch(held, batch(Y))[r][d] =
               IF r \in R /\ d \in devices THEN l[r][d] ELSE held[r][d]
  BY <1>82, SettingMakes
<1>11. /\ batch(X) \in Batches /\ EachOnce(batch(X))
       /\ batch(Y) \in Batches /\ EachOnce(batch(Y))
  BY <1>9, <1>10, StepsOfBatch, OnceBatch
<1>12. handoff_actions \in Batches /\ EachOnce(handoff_actions)
  BY <1>7, <1>11, OnceBoth, StepsOfConcat
<1>13. ASSUME NEW held, NEW r \in Outlet, NEW d \in Device
       PROVE  dispatch(held, handoff_actions)[r][d] =
                 IF r \in available_routes /\ d \in devices
                 THEN IF r = current' THEN handoff_keys(d)' ELSE {}
                 ELSE held[r][d]
  <2>1. dispatch(held, handoff_actions) = dispatch(dispatch(held, batch(X)), batch(Y))
    BY <1>7, <1>11, DispatchBoth
  <2>2. dispatch(dispatch(held, batch(X)), batch(Y))[r][d] =
           IF r \in R /\ d \in devices THEN l[r][d] ELSE dispatch(held, batch(X))[r][d]
    BY <1>10
  <2>3. dispatch(held, batch(X))[r][d] = IF r \in Q /\ d \in devices THEN k[r][d] ELSE held[r][d]
    BY <1>9
  <2> QED BY <1>3, <1>4, <2>1, <2>2, <2>3 DEF Q, R
<1> QED BY <1>12, <1>13

LEMMA RecoveryMakes ==
    ASSUME TypeInv, NEW d \in Device, recovery_keys(d)' \in SUBSET Key
    PROVE  /\ recovery_actions(d) \in Batches
           /\ EachOnce(recovery_actions(d))
           /\ \A held : \A r \in Outlet, e \in Device :
                 dispatch(held, recovery_actions(d))[r][e] =
                    IF r \in available_routes /\ e = d
                    THEN IF r = current THEN recovery_keys(d)' ELSE {}
                    ELSE held[r][e]
<1> DEFINE k == [r \in available_routes |-> [e \in {d} |->
                    IF r = current THEN recovery_keys(d)' ELSE {}]]
           X == {emit(r, SetKeyState(e, k[r][e])) : r \in available_routes, e \in {d}}
<1>1. {d} \in SUBSET Device /\ available_routes \in SUBSET Outlet /\ 0 \in available_routes
  BY RoutesType DEF TypeInv, Outlet, available_routes
<1>2. \A r \in available_routes : k[r][d] = IF r = current THEN recovery_keys(d)' ELSE {}
  OBVIOUS
<1>3. X = {emit(r, SetKeyState(d, IF r = current THEN recovery_keys(d)' ELSE {})) :
              r \in available_routes}
  BY <1>2
<1>4. recovery_actions(d) = <<X>>
  BY <1>3 DEF recovery_actions
<1>5. X # {}
  BY <1>1
<1>6. \A r \in available_routes, e \in {d} : k[r][e] \in SUBSET Key
  BY <1>2
<1>61. Sets(X, available_routes, {d}, k)
  BY <1>1, <1>6 DEF Sets
<1> HIDE DEF k, X
<1>7. /\ X \in SUBSET HandlerSteps /\ Single(X)
      /\ \A held : \A r \in Outlet, e \in Device :
            dispatch(held, batch(X))[r][e] =
               IF r \in available_routes /\ e \in {d} THEN k[r][e] ELSE held[r][e]
  BY <1>61, SettingMakes
<1>8. batch(X) = recovery_actions(d)
  BY <1>4, <1>5 DEF batch
<1>9. recovery_actions(d) \in Batches /\ EachOnce(recovery_actions(d))
  BY <1>7, <1>8, StepsOfBatch, OnceBatch
<1> QED BY <1>2, <1>7, <1>8, <1>9

LEMMA FlushMakes ==
    ASSUME NEW q \in Outlet, NEW d \in Device, NEW pending \in Seq(KeyEvent),
           NEW others \in BOOLEAN
    PROVE  /\ flush_events(q, d, pending, others) \in Batches
           /\ EachOnce(flush_events(q, d, pending, others))
           /\ \A held : \A r \in Outlet, e \in Device :
                 dispatch(held, flush_events(q, d, pending, others))[r][e] =
                    IF r = q /\ e = d THEN keys_after(held[r][e], pending) ELSE held[r][e]
<1> DEFINE f == flush_events(q, d, pending, others)
           s == emit(q, Events(d, pending))
           u == [r \in {q} |-> [e \in {d} |-> Events(d, pending)]]
<1>1. /\ Events(d, pending) \in Routing /\ Events(d, pending).device = d
      /\ \A keys : written(keys, Events(d, pending)) = keys_after(keys, pending)
  BY Typed DEF Events, written
<1>2. s \in HandlerSteps
  BY <1>1, Typed DEF Outlet
<1>3. u[q][d] = Events(d, pending)
  OBVIOUS
<1>4. CASE pending = <<>> /\ ~others
  <2>1. f = <<>>
    BY <1>4 DEF flush_events
  <2> QED BY <1>4, <2>1, NoSteps, DispatchNothing, NothingReady DEF EachOnce
<1>5. CASE ~(pending = <<>> /\ ~others)
  <2>1. f = <<{s}>>
    BY <1>5 DEF flush_events
  <2>2. batch({s}) = f
    BY <2>1 DEF batch
  <2> HIDE DEF u, f
  <2> DEFINE X == {s}
             Q == {q}
             E == {d}
  <2>3. Sends(X, Q, E, u)
    BY <1>1, <1>2, <1>3 DEF Sends
  <2> HIDE DEF s, X, Q, E
  <2>4. /\ X \in SUBSET HandlerSteps /\ Single(X)
        /\ \A held : \A r \in Outlet, e \in Device :
              dispatch(held, batch(X))[r][e] =
                 IF r \in Q /\ e \in E THEN written(held[r][e], u[r][e]) ELSE held[r][e]
    BY <2>3, EmitMakes
  <2>5. f \in Batches /\ EachOnce(f)
    BY <2>2, <2>4, StepsOfBatch, OnceBatch DEF X
  <2>6. ASSUME NEW held, NEW r \in Outlet, NEW e \in Device
        PROVE  dispatch(held, f)[r][e] =
                  IF r = q /\ e = d THEN keys_after(held[r][e], pending) ELSE held[r][e]
    <3>1. dispatch(held, f)[r][e] =
             IF r \in Q /\ e \in E THEN written(held[r][e], u[r][e]) ELSE held[r][e]
      BY <2>2, <2>4 DEF X
    <3> QED BY <1>1, <1>3, <3>1 DEF Q, E
  <2> QED BY <2>5, <2>6 DEF f
<1> QED BY <1>4, <1>5

\* Batch X creates or destroys the copy of each device of E on each client of Q.
Renews(X, Q, E) ==
    /\ Q \subseteq Client /\ E \subseteq Device
    /\ \/ X = {send(c, CreateDevice(d)) : c \in Q, d \in E}
       \/ X = {send(c, DestroyDevice(d)) : c \in Q, d \in E}

LEMMA RenewalMakes ==
    ASSUME NEW X, NEW Q, NEW E, Renews(X, Q, E)
    PROVE  /\ X \in SUBSET HandlerSteps
           /\ Single(X)
           /\ \A held : \A r \in Outlet, d \in Device :
                 dispatch(held, batch(X))[r][d] =
                    IF r \in Q /\ d \in E THEN {} ELSE held[r][d]
<1> DEFINE Made(u) == /\ Sends(X, Q, E, u)
                      /\ \A keys : \A c \in Q, d \in E : written(keys, u[c][d]) = {}
<1>1. \E u : Made(u)
  <2>1. Q \subseteq Client /\ E \subseteq Device /\ Q \subseteq Outlet
    BY DEF Renews, Outlet
  <2>2. CASE X = {send(c, CreateDevice(d)) : c \in Q, d \in E}
    <3> DEFINE u == [c \in Q |-> [d \in E |-> CreateDevice(d)]]
    <3>1. ASSUME NEW c \in Q, NEW d \in E
          PROVE  /\ u[c][d] = CreateDevice(d) /\ u[c][d].device = d
                 /\ emit(c, u[c][d]) = send(c, CreateDevice(d))
                 /\ emit(c, u[c][d]) \in HandlerSteps
                 /\ \A keys : written(keys, u[c][d]) = {}
      <4>1. u[c][d] = CreateDevice(d)
        OBVIOUS
      <4> HIDE DEF u
      <4>2. CreateDevice(d).device = d /\ \A keys : written(keys, CreateDevice(d)) = {}
        BY DEF CreateDevice, written
      <4>3. /\ send(c, CreateDevice(d)) \in HandlerSteps
            /\ send(c, CreateDevice(d)) = emit(c, CreateDevice(d))
        BY <2>1, Typed, EmitIs
      <4> QED BY <4>1, <4>2, <4>3
    <3> HIDE DEF u
    <3>2. \A t \in X : \E c \in Q, d \in E : t = emit(c, u[c][d])
      <4> SUFFICES ASSUME NEW t \in X PROVE \E c \in Q, d \in E : t = emit(c, u[c][d])
        OBVIOUS
      <4>1. PICK c \in Q, d \in E : t = send(c, CreateDevice(d))
        BY <2>2
      <4> QED BY <3>1, <4>1
    <3>3. \A c \in Q, d \in E : emit(c, u[c][d]) \in X
      BY <2>2, <3>1
    <3>4. Sends(X, Q, E, u)
      BY <2>1, <3>1, <3>2, <3>3 DEF Sends
    <3>5. Made(u)
      BY <3>1, <3>4
    <3> HIDE DEF Made
    <3> QED BY <3>5
  <2>3. CASE X = {send(c, DestroyDevice(d)) : c \in Q, d \in E}
    <3> DEFINE u == [c \in Q |-> [d \in E |-> DestroyDevice(d)]]
    <3>1. ASSUME NEW c \in Q, NEW d \in E
          PROVE  /\ u[c][d] = DestroyDevice(d) /\ u[c][d].device = d
                 /\ emit(c, u[c][d]) = send(c, DestroyDevice(d))
                 /\ emit(c, u[c][d]) \in HandlerSteps
                 /\ \A keys : written(keys, u[c][d]) = {}
      <4>1. u[c][d] = DestroyDevice(d)
        OBVIOUS
      <4> HIDE DEF u
      <4>2. DestroyDevice(d).device = d /\ \A keys : written(keys, DestroyDevice(d)) = {}
        BY DEF DestroyDevice, written
      <4>3. /\ send(c, DestroyDevice(d)) \in HandlerSteps
            /\ send(c, DestroyDevice(d)) = emit(c, DestroyDevice(d))
        BY <2>1, Typed, EmitIs
      <4> QED BY <4>1, <4>2, <4>3
    <3> HIDE DEF u
    <3>2. \A t \in X : \E c \in Q, d \in E : t = emit(c, u[c][d])
      <4> SUFFICES ASSUME NEW t \in X PROVE \E c \in Q, d \in E : t = emit(c, u[c][d])
        OBVIOUS
      <4>1. PICK c \in Q, d \in E : t = send(c, DestroyDevice(d))
        BY <2>3
      <4> QED BY <3>1, <4>1
    <3>3. \A c \in Q, d \in E : emit(c, u[c][d]) \in X
      BY <2>3, <3>1
    <3>4. Sends(X, Q, E, u)
      BY <2>1, <3>1, <3>2, <3>3 DEF Sends
    <3>5. Made(u)
      BY <3>1, <3>4
    <3> HIDE DEF Made
    <3> QED BY <3>5
  <2> HIDE DEF Made
  <2> QED BY <2>2, <2>3 DEF Renews
<1>2. PICK u : Made(u)
  BY <1>1
<1>3. /\ X \in SUBSET HandlerSteps
      /\ Single(X)
      /\ \A held : \A r \in Outlet, d \in Device :
            dispatch(held, batch(X))[r][d] =
               IF r \in Q /\ d \in E THEN written(held[r][d], u[r][d]) ELSE held[r][d]
  BY <1>2, EmitMakes
<1>4. ASSUME NEW held, NEW r \in Outlet, NEW d \in Device
      PROVE  dispatch(held, batch(X))[r][d] = IF r \in Q /\ d \in E THEN {} ELSE held[r][d]
  BY <1>2, <1>3
<1> QED BY <1>3, <1>4

LEMMA BroadcastMakes ==
    ASSUME TypeInv, NEW d \in Device, NEW X,
           X = broadcast(CreateDevice(d)) \/ X = broadcast(DestroyDevice(d))
    PROVE  /\ batch(X) \in Batches /\ EachOnce(batch(X))
           /\ \A held : \A r \in Outlet, e \in Device :
                 dispatch(held, batch(X))[r][e] =
                    IF r \in Clients /\ e = d THEN {} ELSE held[r][e]
<1>1. Clients \subseteq Client
  BY RoutesType
<1>2. /\ broadcast(CreateDevice(d)) = {send(c, CreateDevice(e)) : c \in Clients, e \in {d}}
      /\ broadcast(DestroyDevice(d)) = {send(c, DestroyDevice(e)) : c \in Clients, e \in {d}}
  BY DEF broadcast
<1>3. Renews(X, Clients, {d})
  BY <1>1, <1>2 DEF Renews
<1>4. /\ X \in SUBSET HandlerSteps /\ Single(X)
      /\ \A held : \A r \in Outlet, e \in Device :
            dispatch(held, batch(X))[r][e] =
               IF r \in Clients /\ e \in {d} THEN {} ELSE held[r][e]
  BY <1>3, RenewalMakes
<1> QED BY <1>4, StepsOfBatch, OnceBatch

(* Steps that update no copy, after others.                                 *)
LEMMA ThenQuiet ==
    ASSUME NEW t \in Batches, NEW u \in Batches, EachOnce(t),
           \A s \in Steps(u) : kind_of(s) \notin {"routing", "create", "destroy"}
    PROVE  /\ t \o u \in Batches /\ EachOnce(t \o u)
           /\ \A held : \A r \in Outlet, d \in Device :
                 dispatch(held, t \o u)[r][d] = dispatch(held, t)[r][d]
<1>1. t \o u \in Batches /\ EachOnce(t \o u)
  BY StepsOfConcat, OnceQuiet, OnceBoth
<1>2. \A held : dispatch(held, t \o u) = dispatch(dispatch(held, t), u)
  BY DispatchBoth
<1>3. \A held : \A r \in Outlet, d \in Device : dispatch(held, u)[r][d] = held[r][d]
  BY QuietMakes
<1> QED BY <1>1, <1>2, <1>3

LEMMA QuietOnly ==
    ASSUME NEW u \in Batches,
           \A s \in Steps(u) : kind_of(s) \notin {"routing", "create", "destroy"}
    PROVE  /\ EachOnce(u)
           /\ \A held : \A r \in Outlet, d \in Device : dispatch(held, u)[r][d] = held[r][d]
BY QuietMakes, OnceQuiet

LEMMA DestroyMakes ==
    ASSUME TypeInv, NEW d \in Device, activation_id[d] \in 1 .. ACTIVATIONS
    PROVE  /\ destroy_device(d) \in Batches /\ EachOnce(destroy_device(d))
           /\ \A held : \A r \in Outlet, e \in Device :
                 dispatch(held, destroy_device(d))[r][e] =
                    IF r \in Clients /\ e = d THEN {} ELSE held[r][e]
<1> DEFINE X == broadcast(DestroyDevice(d))
           a == about("abort", d)
           f == about("forget", d)
           z == step("stabilize")
           r == release_of(activation_id[d])
           u == ((<<{a}>> \o <<{f}>>) \o <<{z}>>) \o <<{r}>>
<1>1. /\ a \in HandlerSteps /\ f \in HandlerSteps /\ z \in HandlerSteps /\ r \in HandlerSteps
      /\ kind_of(a) = "abort" /\ kind_of(f) = "forget" /\ kind_of(z) = "stabilize"
      /\ kind_of(r) = "release"
  BY Typed, Kinds
<1>2. destroy_device(d) = batch(X) \o u
  <2>1. batch(X) \in Batches
    BY BroadcastMakes
  <2>2. destroy_device(d) = (((batch(X) \o <<{a}>>) \o <<{f}>>) \o <<{z}>>) \o <<{r}>>
    BY DEF destroy_device, release_of, broadcast, stabilize
  <2> HIDE DEF X, a, f, z, r
  <2>3. /\ <<{a}>> \in Batches /\ <<{f}>> \in Batches /\ <<{z}>> \in Batches
        /\ <<{r}>> \in Batches
    BY <1>1, SingleStep DEF Does
  <2>4. \A s \in Batches, v \in Batches, w \in Batches : (s \o v) \o w = s \o (v \o w)
    BY DEF Batches
  <2>5. \A s \in Batches, v \in Batches : s \o v \in Batches
    BY StepsOfConcat
  <2> QED BY <2>1, <2>2, <2>3, <2>4, <2>5
<1> HIDE DEF a, f, z, r
<1>3. u \in Batches /\ Steps(u) = {a, f, z, r}
  <2> DEFINE t1 == <<{a}>>
             t2 == <<{f}>>
             t3 == <<{z}>>
             t4 == <<{r}>>
             t5 == t1 \o t2
             t6 == t5 \o t3
  <2>1. /\ t1 \in Batches /\ t2 \in Batches /\ t3 \in Batches /\ t4 \in Batches
        /\ Steps(t1) = {a} /\ Steps(t2) = {f} /\ Steps(t3) = {z} /\ Steps(t4) = {r}
    BY <1>1, SingleStep DEF Does
  <2>2. u = t6 \o t4
    OBVIOUS
  <2> HIDE DEF t1, t2, t3, t4, u
  <2>3. t5 \in Batches /\ Steps(t5) = {a, f}
    BY <2>1, StepsOfConcat
  <2> HIDE DEF t5
  <2>4. t6 \in Batches /\ Steps(t6) = {a, f, z}
    BY <2>1, <2>3, StepsOfConcat
  <2> HIDE DEF t6
  <2> QED BY <2>1, <2>2, <2>4, StepsOfConcat
<1> HIDE DEF u
<1>4. \A s \in Steps(u) : kind_of(s) \notin {"routing", "create", "destroy"}
  BY <1>1, <1>3
<1>5. /\ batch(X) \in Batches /\ EachOnce(batch(X))
      /\ \A held : \A q \in Outlet, e \in Device :
            dispatch(held, batch(X))[q][e] = IF q \in Clients /\ e = d THEN {} ELSE held[q][e]
  BY BroadcastMakes
<1> HIDE DEF X
<1>6. /\ batch(X) \o u \in Batches /\ EachOnce(batch(X) \o u)
      /\ \A held : \A q \in Outlet, e \in Device :
            dispatch(held, batch(X) \o u)[q][e] = dispatch(held, batch(X))[q][e]
  BY <1>3, <1>4, <1>5, ThenQuiet
<1> QED BY <1>2, <1>5, <1>6

-----------------------------------------------------------------------------
(* The mapping, and what it takes beside IInv.                              *)

Registered == devices \cup Suspended
Live       == {d \in Device : handles_commands(d)}

\* A device whose task is stopped is forgotten.
Forgotten == \A d \in Device : Pending(about("abort", d)) => Pending(about("forget", d))

\* Frames are read when the input goes to an output that is there.
FrameRouted == frame # NoFrame => current \in available_routes

(* Nothing is held on a client's copy of a device that is being reset or    *)
(* removed, nor of a device that is not there.                              *)
Silent ==
    /\ \A d \in Suspended, c \in Client : effective[c][d] = {}
    /\ \A d \in Device \ Registered :
          /\ physical_keys[d] = {}
          /\ \A r \in Outlet : effective[r][d] = {}

RefInv == IInv /\ EachOnce(todo) /\ Forgotten /\ FrameRouted /\ Silent

Implemented == [Outputs!Next]_(Outputs!vars)

LEMMA SuspendedIs ==
    /\ \A d \in Device : d \in Suspended <=>
          \/ Pending(about("reset", d)) \/ Pending(about("abort", d)) \/ Pending(about("forget", d))
    /\ \A d \in Device : d \in Suspended' <=>
          \/ Pending(about("reset", d))' \/ Pending(about("abort", d))'
          \/ Pending(about("forget", d))'
    /\ Suspended \subseteq Device /\ Suspended' \subseteq Device
<1>1. \A d : handled(d) = {about("reset", d), about("abort", d), about("forget", d)}
  BY DEF handled
<1>2. \A d \in Device : d \in Suspended <=>
          \/ Pending(about("reset", d)) \/ Pending(about("abort", d)) \/ Pending(about("forget", d))
  BY <1>1 DEF Suspended, Pending, Steps
<1>3. \A d \in Device : d \in Suspended' <=>
          \/ Pending(about("reset", d))' \/ Pending(about("abort", d))'
          \/ Pending(about("forget", d))'
  BY <1>1 DEF Suspended, Pending, Steps
<1> QED BY <1>2, <1>3 DEF Suspended

LEMMA NoneSuspended ==
    /\ (\A s \in Steps(todo) : kind_of(s) \notin {"reset", "abort", "forget"}) => Suspended = {}
    /\ (\A s \in Steps(todo') : kind_of(s) \notin {"reset", "abort", "forget"}) => Suspended' = {}
BY SuspendedIs, Kinds DEF Pending

LEMMA SameSuspended ==
    ASSUME \A s : kind_of(s) \in {"reset", "abort", "forget"} =>
              (s \in Steps(todo') <=> s \in Steps(todo))
    PROVE  Suspended' = Suspended
<1>1. \A d \in Device : \A op \in {"reset", "abort", "forget"} :
          about(op, d) \in Steps(todo') <=> about(op, d) \in Steps(todo)
  BY Kinds
<1>2. \A d \in Device : d \in Suspended' <=> d \in Suspended
  BY <1>1, SuspendedIs DEF Pending
<1> QED BY <1>2, SuspendedIs

LEMMA Stutters ==
    ASSUME UNCHANGED router, devices' \cup Suspended' = devices \cup Suspended,
           Live' = Live, Suspended' = Suspended,
           available_routes' = available_routes, effective' = effective
    PROVE  Implemented
BY DEF Implemented, Outputs!vars, Outputs!router, router, Live

(* The abstract steps, as the loop takes them.                              *)
LEMMA AbstractStep ==
    ASSUME \/ \E d \in Registered, k \in Key : Outputs!KeyEvent(d, k)
           \/ \E d \in Device, pressed \in SUBSET Key :
                 Outputs!AddDevice(d, pressed) \/ Outputs!ResetDevice(d, pressed)
           \/ \E d \in Device :
                 Outputs!FailDevice(d) \/ Outputs!Suspend(d) \/ Outputs!RemoveDevice(d)
           \/ \E r \in Outlet : Outputs!LoseRoute(r) \/ Outputs!GainRoute(r)
           \/ Outputs!RetainRoutes
    PROVE  Implemented
BY DEF Implemented, Outputs!Next, Registered

(* What is silent stays so, whatever the outputs may do next.               *)
LEMMA SilentKept ==
    ASSUME TypeInv, Silent, Implemented
    PROVE  Silent'
<1> DEFINE Reg == devices \cup Suspended
           Quiet(d) == physical_keys[d] = {} /\ \A r \in Outlet : effective[r][d] = {}
<1> SUFFICES /\ \A d \in Suspended', c \in Client : effective'[c][d] = {}
             /\ \A d \in Device \ Reg' : Quiet(d)'
  BY DEF Silent, Registered
<1>1. /\ \A d \in Suspended, c \in Client : effective[c][d] = {}
      /\ \A d \in Device \ Reg : Quiet(d)
  BY DEF Silent, Registered
<1>2. /\ effective = [r \in Outlet |-> [d \in Device |-> effective[r][d]]]
      /\ 0 \notin Client /\ Client \subseteq Outlet /\ 0 \in Outlet
      /\ physical_keys = [d \in Device |-> physical_keys[d]]
  BY EffectiveIs, ClientAssumption DEF Outlet, TypeInv
<1>3. Suspended' \subseteq Device
  BY SuspendedIs
<1>4. CASE UNCHANGED Outputs!vars
  BY <1>1, <1>4 DEF Outputs!vars, Outputs!router
<1>5. ASSUME NEW d \in Reg, NEW k \in Key, Outputs!KeyEvent(d, k)
      PROVE  Silent'
  <2>1. /\ devices' \cup Suspended' = Reg /\ Suspended' = Suspended /\ Suspended = {}
        /\ physical_keys' = [physical_keys EXCEPT ![d] = physical_keys'[d]]
    BY <1>2, <1>5 DEF Outputs!KeyEvent, Outputs!SilentKey, Outputs!Forward, Outputs!Switch,
              Outputs!Settled, Outputs!BlockedKey, Outputs!ActiveTriggerKey,
              Outputs!WithheldKey, Outputs!ForwardedKey, Outputs!OrdinaryEvent,
              Outputs!SwitchKey, Outputs!update_physical_key, TypeInv
  <2>2. \A e \in Device \ Reg : physical_keys'[e] = {}
    BY <1>1, <1>2, <2>1
  <2>3. \A e \in Device \ Reg, r \in Outlet : effective'[r][e] = {}
    <3>1. CASE effective' = effective
      BY <1>1, <3>1
    <3>2. CASE Outputs!forward(d, k)
      BY <1>1, <1>2, <3>2 DEF Outputs!forward
    <3>3. CASE Outputs!reconcile_all
      <4> SUFFICES ASSUME NEW e \in Device \ Reg, NEW r \in Outlet
                   PROVE  effective'[r][e] = {}
        OBVIOUS
      <4>1. Outputs!handoff_keys(e)' = {}
        BY <2>2 DEF Outputs!handoff_keys
      <4> QED BY <3>3, <4>1 DEF Outputs!reconcile_all
    <3> QED BY <1>5, <3>1, <3>2, <3>3 DEF Outputs!KeyEvent, Outputs!SilentKey, Outputs!Forward,
              Outputs!Switch
  <2> QED BY <2>1, <2>2, <2>3 DEF Silent, Registered
<1>6. ASSUME NEW d \in Device, NEW pressed \in SUBSET Key, Outputs!AddDevice(d, pressed)
      PROVE  Silent'
  <2>1. /\ devices' \cup Suspended' = Reg \cup {d} /\ Suspended' = {}
        /\ \A e \in Device : e # d => physical_keys'[e] = physical_keys[e]
        /\ \A e \in Device, r \in Outlet : e # d => effective'[r][e] = effective[r][e]
    BY <1>2, <1>6 DEF Outputs!AddDevice, Outputs!add_device, Outputs!reconcile_device
  <2> QED BY <1>1, <2>1 DEF Silent, Registered
<1>7. ASSUME NEW d \in Device, NEW pressed \in SUBSET Key, Outputs!ResetDevice(d, pressed)
      PROVE  Silent'
  <2>1. /\ d \in Suspended
        /\ devices' \cup Suspended' = Reg /\ Suspended' = Suspended \ {d}
        /\ \A e \in Device : e # d => physical_keys'[e] = physical_keys[e]
        /\ \A e \in Device, r \in Outlet : e # d => effective'[r][e] = effective[r][e]
    BY <1>2, <1>7 DEF Outputs!ResetDevice, Outputs!reset_device, Outputs!reconcile_device
  <2> QED BY <1>1, <1>2, <1>3, <2>1 DEF Silent, Registered
<1>8. ASSUME NEW d \in Device, Outputs!FailDevice(d)
      PROVE  Silent'
  <2>1. /\ devices' \cup Suspended' = Reg /\ Suspended' = Suspended
        /\ physical_keys' = physical_keys
        /\ \A e \in Device, r \in Outlet :
              effective'[r][e] = IF r = 0 /\ e = d THEN {} ELSE effective[r][e]
    BY <1>2, <1>8 DEF Outputs!FailDevice, Outputs!router
  <2> QED BY <1>1, <1>2, <1>3, <2>1 DEF Silent, Registered
<1>9. ASSUME NEW d \in Device, Outputs!Suspend(d)
      PROVE  Silent'
  <2>1. /\ devices' \cup Suspended' = Reg /\ Suspended' = {d}
        /\ physical_keys' = physical_keys
        /\ \A e \in Device, r \in Outlet :
              effective'[r][e] = IF r # 0 /\ e = d THEN {} ELSE effective[r][e]
    BY <1>2, <1>9 DEF Outputs!Suspend, Outputs!router
  <2> QED BY <1>1, <1>2, <1>3, <2>1 DEF Silent, Registered
<1>10. ASSUME NEW d \in Device, Outputs!RemoveDevice(d)
       PROVE  Silent'
  <2>1. /\ devices' \cup Suspended' = Reg \ {d} /\ Suspended' = Suspended \ {d}
        /\ \A e \in Device : physical_keys'[e] = IF e = d THEN {} ELSE physical_keys[e]
        /\ \A e \in Device, r \in Outlet :
              effective'[r][e] = IF e = d THEN {} ELSE effective[r][e]
    BY <1>2, <1>10 DEF Outputs!RemoveDevice, Outputs!remove_device
  <2> QED BY <1>1, <1>2, <1>3, <2>1 DEF Silent, Registered
<1>11. ASSUME NEW q \in Outlet, Outputs!LoseRoute(q) \/ Outputs!GainRoute(q)
       PROVE  Silent'
  <2>1. /\ devices' \cup Suspended' = Reg /\ Suspended' = Suspended
        /\ physical_keys' = physical_keys
        /\ \A e \in Device, r \in Outlet :
              effective'[r][e] = {} \/ effective'[r][e] = effective[r][e]
    BY <1>2, <1>11 DEF Outputs!LoseRoute, Outputs!GainRoute, Outputs!router
  <2> QED BY <1>1, <1>2, <1>3, <2>1 DEF Silent, Registered
<1>12. CASE Outputs!RetainRoutes
  <2>1. /\ devices' \cup Suspended' = Reg /\ Suspended' = Suspended /\ Suspended = {}
        /\ physical_keys' = physical_keys
    BY <1>12 DEF Outputs!RetainRoutes, Outputs!retain_routes
  <2>2. ASSUME NEW e \in Device \ Reg, NEW r \in Outlet PROVE effective'[r][e] = {}
    <3>1. Outputs!handoff_keys(e)' = {}
      BY <1>1, <2>1 DEF Outputs!handoff_keys
    <3> QED BY <1>12, <3>1 DEF Outputs!RetainRoutes, Outputs!reconcile_all
  <2> QED BY <1>1, <2>1, <2>2 DEF Silent, Registered
<1> HIDE DEF Reg
<1> QED BY <1>4, <1>5, <1>6, <1>7, <1>8, <1>9, <1>10, <1>11, <1>12
        DEF Implemented, Outputs!Next, Silent, Registered, Reg

-----------------------------------------------------------------------------
(* The steps of tasks and clients: nothing is sent.                         *)

Kept == EachOnce(todo') /\ Forgotten' /\ FrameRouted'

LEMMA LiveIs ==
    /\ \A d \in Device : d \in Live <=> handles_commands(d)
    /\ \A d \in Device : d \in Live' <=> handles_commands(d)'
    /\ Live \subseteq Device /\ Live' \subseteq Device
BY DEF Live

LEMMA CopiedIs ==
    /\ \A d : Copied(0, d) <=> handles_commands(d)
    /\ \A d : Copied(0, d)' <=> handles_commands(d)'
    /\ \A c \in Client : \A d : Copied(c, d) <=> session[c] # "vacant"
    /\ \A c \in Client : \A d : Copied(c, d)' <=> session'[c] # "vacant"
BY ClientAssumption DEF Copied

LEMMA SameValue ==
    ASSUME TypeInv, UNCHANGED <<todo, frame, current>>, NEW r \in Outlet, NEW d \in Device,
           received'[r][d] = received[r][d]
    PROVE  value(r, d)' = value(r, d)
<1>1. todo \in Batches
  BY DEF TypeInv, Batches
<1>2. dispatch(received', todo)[r][d] = dispatch(received, todo)[r][d]
  BY <1>1, DispatchLocal
<1>3. ready(r, d)' = ready(r, d)
  BY DEF ready
<1> QED BY <1>2, <1>3 DEF value

LEMMA SameSteps ==
    ASSUME RefInv, UNCHANGED <<todo, frame, current>>, available_routes' = available_routes
    PROVE  Kept /\ Suspended' = Suspended
BY DEF Kept, RefInv, Forgotten, FrameRouted, Pending, Suspended

\* What the local copies hold once their channels are empty.
Drains(d) == drained(local_keys'[d], commands'[d]) = drained(local_keys[d], commands[d])

(* A task that goes on, or that had already failed.                         *)
LEMMA TaskContinues ==
    ASSUME RefInv, UNCHANGED Elsewhere, NEW d \in Device,
           handles_commands(d)' <=> handles_commands(d),
           \A e \in Device : e # d => /\ handles_commands(e)' <=> handles_commands(e)
                                      /\ Drains(e),
           handles_commands(d) => Drains(d)
    PROVE  Implemented /\ Kept
<1>1. /\ UNCHANGED router /\ UNCHANGED <<devices, todo, frame, current, session, queue, writers>>
      /\ available_routes' = available_routes
  BY DEF Elsewhere, router, sessions, available_routes
<1>2. Kept /\ Suspended' = Suspended
  BY <1>1, SameSteps
<1>3. Live' = Live
  BY LiveIs
<1>4. effective' = effective
  <2>1. ASSUME NEW r \in Outlet, NEW e \in Device
        PROVE  (Copied(r, e)' <=> Copied(r, e)) /\ (Copied(r, e) => value(r, e)' = value(r, e))
    <3>1. CASE r = 0
      <4>1. Copied(r, e)' <=> Copied(r, e)
        BY <3>1, CopiedIs
      <4>2. ASSUME Copied(r, e) PROVE value(r, e)' = value(r, e)
        <5>1. Drains(e)
          BY <3>1, <4>2, CopiedIs
        <5>2. received'[r][e] = received[r][e]
          BY <3>1, <5>1, ReceivedAt DEF Drains
        <5> QED BY <1>1, <5>2, SameValue DEF RefInv, IInv
      <4> QED BY <4>1, <4>2
    <3>2. CASE r \in Client
      <4>1. Copied(r, e)' <=> Copied(r, e)
        BY <1>1, <3>2, CopiedIs
      <4>2. received'[r][e] = received[r][e]
        BY <1>1, <3>2, ReceivedAt
      <4> QED BY <1>1, <4>1, <4>2, SameValue DEF RefInv, IInv
    <3> QED BY <3>1, <3>2 DEF Outlet
  <2> QED BY <2>1, SameOutputs
<1> QED BY <1>1, <1>2, <1>3, <1>4, Stutters

(* A task that stops handling commands.                                     *)
LEMMA TaskFails ==
    ASSUME RefInv, UNCHANGED Elsewhere, NEW d \in Device,
           handles_commands(d), ~handles_commands(d)',
           \A e \in Device : e # d => /\ handles_commands(e)' <=> handles_commands(e)
                                      /\ Drains(e)
    PROVE  Implemented /\ Kept
<1>1. /\ UNCHANGED router /\ UNCHANGED <<devices, todo, frame, current, session, queue, writers>>
      /\ available_routes' = available_routes
  BY DEF Elsewhere, router, sessions, available_routes
<1>2. Kept /\ Suspended' = Suspended
  BY <1>1, SameSteps
<1>3. d \in Live /\ Live' = Live \ {d}
  BY LiveIs
<1>4. effective' = [effective EXCEPT ![0][d] = {}]
  <2>1. ASSUME NEW r \in Outlet, NEW e \in Device
        PROVE  (IF Copied(r, e)' THEN value(r, e)' ELSE {}) =
                  IF r = 0 /\ e = d THEN {} ELSE IF Copied(r, e) THEN value(r, e) ELSE {}
    <3>1. CASE r = 0 /\ e = d
      BY <3>1, CopiedIs
    <3>2. CASE r = 0 /\ e # d
      <4>1. (Copied(r, e)' <=> Copied(r, e)) /\ Drains(e)
        BY <3>2, CopiedIs
      <4>2. received'[r][e] = received[r][e]
        BY <3>2, <4>1, ReceivedAt DEF Drains
      <4>3. value(r, e)' = value(r, e)
        BY <1>1, <4>2, SameValue DEF RefInv, IInv
      <4> QED BY <3>2, <4>1, <4>3
    <3>3. CASE r \in Client
      <4>1. Copied(r, e)' <=> Copied(r, e)
        BY <1>1, <3>3, CopiedIs
      <4>2. received'[r][e] = received[r][e]
        BY <1>1, <3>3, ReceivedAt
      <4>3. value(r, e)' = value(r, e)
        BY <1>1, <4>2, SameValue DEF RefInv, IInv
      <4> QED BY <3>3, <4>1, <4>3, ClientAssumption
    <3> QED BY <3>1, <3>2, <3>3 DEF Outlet
  <2>2. 0 \in Outlet
    BY DEF Outlet
  <2> QED BY <2>1, <2>2, EffectiveIs
<1>5. Outputs!FailDevice(d)
  BY <1>1, <1>2, <1>3, <1>4 DEF Outputs!FailDevice, Outputs!router, router, Live
<1> QED BY <1>2, <1>5, AbstractStep

LEMMA TaskImplements ==
    ASSUME RefInv, NEW d \in Device, TaskStep(d), UNCHANGED Elsewhere
    PROVE  Implemented /\ Kept
<1>1. /\ task \in [Device -> TaskState] /\ commands \in [Device -> Seq(Command)]
      /\ local_keys \in [Device -> SUBSET Key]
  BY DEF RefInv, IInv, TypeInv
<1>2. CASE read_frame(d)
  <2>1. PICK result \in {"sending", "lost", "failed"} : report(d, result)
    BY <1>2 DEF read_frame
  <2>2. /\ task[d] = "reading" /\ task' = [task EXCEPT ![d] = result]
        /\ UNCHANGED <<commands, local_keys>>
    BY <1>2, <2>1 DEF read_frame, report
  <2>3. \A e \in Device : e # d => (handles_commands(e)' <=> handles_commands(e)) /\ Drains(e)
    BY <1>1, <2>2 DEF handles_commands, Drains
  <2>4. handles_commands(d) /\ Drains(d) /\ (handles_commands(d)' <=> result # "failed")
    BY <1>1, <2>2 DEF handles_commands, Drains
  <2> QED BY <2>3, <2>4, TaskContinues, TaskFails
<1>3. CASE sent(d)
  <2>1. /\ task[d] \in {"sending", "lost", "failed"}
        /\ task[d] = "sending" => task' = [task EXCEPT ![d] = "reading"]
        /\ task[d] = "lost" => task' = [task EXCEPT ![d] = "resetting"]
        /\ task[d] = "failed" => task' = [task EXCEPT ![d] = "ended"]
        /\ commands' = [commands EXCEPT ![d] = IF task[d] = "failed" THEN <<>> ELSE @]
        /\ local_keys' = [local_keys EXCEPT ![d] = IF task[d] = "failed" THEN {} ELSE @]
    BY <1>1, <1>3 DEF sent
  <2>2. \A e \in Device : e # d =>
           /\ task'[e] = task[e] /\ commands'[e] = commands[e] /\ local_keys'[e] = local_keys[e]
    BY <1>1, <2>1
  <2>3. \A e \in Device : e # d => (handles_commands(e)' <=> handles_commands(e)) /\ Drains(e)
    BY <2>2 DEF handles_commands, Drains
  <2>4. handles_commands(d)' <=> handles_commands(d)
    BY <1>1, <2>1 DEF handles_commands
  <2>5. handles_commands(d) => Drains(d)
    BY <1>1, <2>1 DEF handles_commands, Drains
  <2> QED BY <2>3, <2>4, <2>5, TaskContinues
<1>4. CASE handle_device_command(d)
  <2> DEFINE u == Head(commands[d])
  <2>1. /\ task[d] \in {"reading", "resetting"} /\ commands[d] # <<>>
        /\ commands' = [commands EXCEPT ![d] = Tail(@)]
    BY <1>4 DEF handle_device_command, command_fails
  <2>2. handles_commands(d)
    BY <2>1 DEF handles_commands
  <2>3. CASE report(d, "failed") /\ \E keys : local_keys' = [local_keys EXCEPT ![d] = keys]
    <3>1. task' = [task EXCEPT ![d] = "failed"]
      BY <2>3 DEF report
    <3>2. \A e \in Device : e # d => (handles_commands(e)' <=> handles_commands(e)) /\ Drains(e)
      BY <1>1, <2>1, <2>3, <3>1 DEF handles_commands, Drains
    <3>3. ~handles_commands(d)'
      BY <1>1, <3>1 DEF handles_commands
    <3> QED BY <2>2, <3>2, <3>3, TaskFails
  <2>4. CASE /\ local_keys' = [local_keys EXCEPT ![d] = written(@, u)]
             /\ task' = [task EXCEPT ![d] = IF u.kind = "reset" THEN "reading" ELSE @]
    <3>1. \A e \in Device : e # d =>
             /\ task'[e] = task[e] /\ commands'[e] = commands[e] /\ local_keys'[e] = local_keys[e]
      BY <1>1, <2>1, <2>4
    <3>2. \A e \in Device : e # d => (handles_commands(e)' <=> handles_commands(e)) /\ Drains(e)
      BY <3>1 DEF handles_commands, Drains
    <3>3. handles_commands(d)'
      BY <1>1, <2>1, <2>4 DEF handles_commands
    <3>4. local_keys'[d] = written(local_keys[d], u) /\ commands'[d] = Tail(commands[d])
      BY <1>1, <2>1, <2>4
    <3>5. Drains(d)
      BY <1>1, <2>1, <3>4, DrainedHead DEF Drains
    <3> QED BY <2>2, <3>2, <3>3, <3>5, TaskContinues
  <2> QED BY <1>4, <2>3, <2>4 DEF handle_device_command, command_fails
<1> QED BY <1>2, <1>3, <1>4 DEF TaskStep

LEMMA ClientImplements ==
    ASSUME RefInv, NEW c \in Client, ClientStep(c), UNCHANGED tasks,
           UNCHANGED <<router, devices, todo, frame, activations, released, running>>
    PROVE  Implemented /\ Kept
<1>1. /\ UNCHANGED <<current, task, commands, local_keys>>
      /\ session \in [Client -> {"vacant", "open", "closed"}]
      /\ queue \in [Client -> Seq(ToClient)] /\ writers = [e \in Client |-> writers[e]]
  BY DEF router, tasks, RefInv, IInv, TypeInv
<1>2. /\ \A e \in Client : session'[e] = "vacant" <=> session[e] = "vacant"
      /\ \A e \in Client : carry(writers'[e], queue'[e]) = carry(writers[e], queue[e])
  <2>1. CASE /\ queue[c] # <<>>
             /\ queue' = [queue EXCEPT ![c] = Tail(@)]
             /\ writers' = [writers EXCEPT ![c] = carried_out(@, Head(queue[c]))]
             /\ UNCHANGED session
    <3>1. \A e \in Client : e # c => queue'[e] = queue[e] /\ writers'[e] = writers[e]
      BY <1>1, <2>1
    <3>2. queue'[c] = Tail(queue[c]) /\ writers'[c] = carried_out(writers[c], Head(queue[c]))
      BY <1>1, <2>1
    <3>3. carry(writers'[c], queue'[c]) = carry(writers[c], queue[c])
      BY <1>1, <2>1, <3>2, ToldTail
    <3> QED BY <2>1, <3>1, <3>3
  <2>2. CASE /\ session[c] = "open" /\ session' = [session EXCEPT ![c] = "closed"]
             /\ UNCHANGED <<queue, writers>>
    BY <1>1, <2>2
  <2> QED BY <2>1, <2>2 DEF ClientStep, run_once, disconnect
<1>3. available_routes' = available_routes
  BY <1>2 DEF available_routes
<1>4. Kept /\ Suspended' = Suspended
  BY <1>1, <1>3, SameSteps
<1>5. Live' = Live
  BY <1>1 DEF Live, handles_commands
<1>6. effective' = effective
  <2>1. ASSUME NEW r \in Outlet, NEW e \in Device
        PROVE  (Copied(r, e)' <=> Copied(r, e)) /\ value(r, e)' = value(r, e)
    <3>1. CASE r = 0
      <4>1. (Copied(r, e)' <=> Copied(r, e)) /\ received'[r][e] = received[r][e]
        BY <1>1, <3>1, CopiedIs, ReceivedAt DEF handles_commands
      <4> QED BY <1>1, <4>1, SameValue DEF RefInv, IInv
    <3>2. CASE r \in Client
      <4>1. Copied(r, e)' <=> Copied(r, e)
        BY <1>2, <3>2, CopiedIs
      <4>2. received'[r][e] = received[r][e]
        BY <1>2, <3>2, ReceivedAt
      <4> QED BY <1>1, <4>1, <4>2, SameValue DEF RefInv, IInv
    <3> QED BY <3>1, <3>2 DEF Outlet
  <2> QED BY <2>1, SameOutputs
<1> QED BY <1>3, <1>4, <1>5, <1>6, Stutters

-----------------------------------------------------------------------------
(* What the server receives.                                                *)

\* No key event is ready in the frame.
Unready == \A r, d : ready(r, d) = <<>>

LEMMA UnreadyIs ==
    /\ frame = NoFrame => Unready
    /\ frame' = NoFrame => Unready'
    /\ frame'.pending = <<>> => Unready'
    /\ Unready => \A r, d : value(r, d) = dispatch(received, todo)[r][d]
    /\ Unready' => \A r, d : value(r, d)' = dispatch(received', todo')[r][d]
BY NothingReady DEF Unready, ready, value

LEMMA SameOutlets ==
    ASSUME UNCHANGED Undisturbed
    PROVE  /\ received' = received /\ available_routes' = available_routes /\ Live' = Live
           /\ \A r, d : Copied(r, d)' <=> Copied(r, d)
<1>1. UNCHANGED <<task, commands, local_keys, session, queue, writers>>
  BY DEF Undisturbed
<1>2. received' = received
  BY <1>1 DEF received
<1>3. available_routes' = available_routes /\ Live' = Live
  BY <1>1 DEF available_routes, Live, handles_commands
<1>4. \A r, d : Copied(r, d)' <=> Copied(r, d)
  BY <1>1 DEF Copied, handles_commands
<1> QED BY <1>2, <1>3, <1>4

(* Steps that make no difference to the outputs.                            *)
LEMMA StepsAlter ==
    ASSUME UNCHANGED Undisturbed, UNCHANGED router, Unready, Unready',
           Suspended' = Suspended, devices' \cup Suspended' = devices \cup Suspended,
           \A r \in Outlet, d \in Device : Copied(r, d) =>
              dispatch(received, todo')[r][d] = dispatch(received, todo)[r][d]
    PROVE  Implemented
<1>1. /\ received' = received /\ available_routes' = available_routes /\ Live' = Live
      /\ \A r, d : Copied(r, d)' <=> Copied(r, d)
  BY SameOutlets
<1>2. \A r \in Outlet, d \in Device : Copied(r, d) => value(r, d)' = value(r, d)
  BY <1>1, UnreadyIs
<1>3. effective' = effective
  BY <1>1, <1>2, SameOutputs
<1> QED BY <1>1, <1>3, Stutters

(* The copies of a device are destroyed on every client.                    *)
LEMMA StepsSuspend ==
    ASSUME RefInv, UNCHANGED Undisturbed, UNCHANGED router, Unready, Unready',
           NEW d \in devices, Suspended = {}, Suspended' = {d}, devices' \cup {d} = devices,
           \A r \in Outlet, e \in Device :
              dispatch(received, todo')[r][e] =
                 IF r \in Clients /\ e = d THEN {} ELSE dispatch(received, todo)[r][e]
    PROVE  Implemented
<1>1. /\ received' = received /\ available_routes' = available_routes /\ Live' = Live
      /\ \A r, e : Copied(r, e)' <=> Copied(r, e)
  BY SameOutlets
<1>2. d \in Device /\ 0 \notin Client
  BY ClientAssumption DEF RefInv, IInv, TypeInv
<1>3. effective' = [r \in Outlet |->
                      IF r = 0 THEN effective[r] ELSE [effective[r] EXCEPT ![d] = {}]]
  <2>1. ASSUME NEW r \in Outlet, NEW e \in Device
        PROVE  (IF Copied(r, e)' THEN value(r, e)' ELSE {}) =
                  IF r # 0 /\ e = d THEN {} ELSE IF Copied(r, e) THEN value(r, e) ELSE {}
    <3>1. value(r, e)' = IF r \in Clients /\ e = d THEN {} ELSE value(r, e)
      BY <1>1, UnreadyIs
    <3>2. r \in Clients <=> r # 0 /\ Copied(r, e)
      BY <1>2, RoutesType, CopiedIs DEF Outlet, RefInv, IInv
    <3> QED BY <1>1, <3>1, <3>2
  <2>2. effective' = [r \in Outlet |-> [e \in Device |->
                        IF r # 0 /\ e = d THEN {} ELSE effective[r][e]]]
    BY <2>1, EffectiveIs
  <2>3. effective = [r \in Outlet |-> [e \in Device |-> effective[r][e]]]
    BY EffectiveIs
  <2> QED BY <2>2, <2>3
<1>4. Outputs!Suspend(d)
  BY <1>1, <1>3 DEF Outputs!Suspend, Outputs!router, router, Live
<1> QED BY <1>2, <1>4, AbstractStep

LEMMA NothingToDo ==
    ASSUME RefInv, todo = <<>>
    PROVE  /\ Suspended = {}
           /\ \A held : dispatch(held, todo) = held
           /\ frame = NoFrame => current \in available_routes
<1>1. Steps(todo) = {}
  BY NoSteps
<1>2. Suspended = {}
  BY <1>1, NoneSuspended
<1>3. frame = NoFrame => current \in available_routes
  BY <1>1 DEF RefInv, IInv, RouteInv
<1> QED BY <1>2, <1>3, DispatchNothing

LEMMA AcceptImplements ==
    ASSUME RefInv, Accept \/ Authenticated
    PROVE  Implemented /\ Kept
<1> DEFINE a == step("sweep")
           z == step("stabilize")
           i == step("insert")
<1>1. /\ todo = <<>> /\ frame = NoFrame /\ frame' = NoFrame
      /\ UNCHANGED Undisturbed /\ UNCHANGED router /\ devices' = devices
  BY DEF Accept, Authenticated, Waiting, tasks, sessions, Undisturbed
<1>2. /\ a \in HandlerSteps /\ z \in HandlerSteps /\ i \in HandlerSteps
      /\ kind_of(a) = "sweep" /\ kind_of(z) = "stabilize" /\ kind_of(i) = "insert"
  BY Typed, Kinds
<1>3. todo' = <<{a}>> \o <<{z}>> \/ todo' = (<<{a}>> \o <<{z}>>) \o <<{i}>>
  BY DEF Accept, Authenticated, stabilize
<1> HIDE DEF a, z, i
<1>4. todo' \in Batches /\ Steps(todo') \subseteq {a, z, i}
  <2> DEFINE t1 == <<{a}>>
             t2 == <<{z}>>
             t3 == <<{i}>>
             t4 == t1 \o t2
  <2>1. /\ t1 \in Batches /\ t2 \in Batches /\ t3 \in Batches
        /\ Steps(t1) = {a} /\ Steps(t2) = {z} /\ Steps(t3) = {i}
    BY <1>2, SingleStep DEF Does
  <2>2. todo' = t4 \/ todo' = t4 \o t3
    BY <1>3
  <2> HIDE DEF t1, t2, t3
  <2>3. t4 \in Batches /\ Steps(t4) = {a, z}
    BY <2>1, StepsOfConcat
  <2> HIDE DEF t4
  <2>4. t4 \o t3 \in Batches /\ Steps(t4 \o t3) = {a, z, i}
    BY <2>1, <2>3, StepsOfConcat
  <2> QED BY <2>2, <2>3, <2>4
<1>5. \A s \in Steps(todo') : kind_of(s) \in {"sweep", "stabilize", "insert"}
  BY <1>2, <1>4
<1>6. /\ EachOnce(todo')
      /\ \A r \in Outlet, d \in Device : dispatch(received, todo')[r][d] = received[r][d]
  BY <1>4, <1>5, QuietOnly
<1>7. Suspended = {} /\ Suspended' = {} /\ \A held : dispatch(held, todo) = held
  BY <1>1, <1>5, NothingToDo, NoneSuspended
<1>8. Implemented
  BY <1>1, <1>6, <1>7, UnreadyIs, StepsAlter
<1>9. Forgotten'
  BY <1>5, Kinds DEF Forgotten, Pending
<1> QED BY <1>1, <1>6, <1>8, <1>9 DEF Kept, FrameRouted

LEMMA ActivatedImplements ==
    ASSUME RefInv, Activated
    PROVE  Implemented /\ Kept
<1>1. /\ todo = <<>> /\ frame = NoFrame /\ frame' = NoFrame
      /\ UNCHANGED Undisturbed /\ UNCHANGED router /\ devices' = devices
  BY DEF Activated, Waiting, tasks, sessions, Undisturbed
<1>2. PICK d \in Device \ devices :
         todo' = batch(broadcast(CreateDevice(d))) \o <<{about("add", d)}>>
  BY DEF Activated
<1> DEFINE X == broadcast(CreateDevice(d))
           a == about("add", d)
           u == <<{a}>>
<1>3. a \in HandlerSteps /\ kind_of(a) = "add"
  BY Typed, Kinds
<1>4. /\ batch(X) \in Batches /\ EachOnce(batch(X))
      /\ \A held : \A r \in Outlet, e \in Device :
            dispatch(held, batch(X))[r][e] = IF r \in Clients /\ e = d THEN {} ELSE held[r][e]
  BY BroadcastMakes DEF RefInv, IInv
<1>5. \A s \in X : kind_of(s) = "create"
  BY Kinds DEF broadcast
<1>6. X \in SUBSET HandlerSteps
  BY Typed, RoutesType DEF broadcast, RefInv, IInv
<1>7. todo' = batch(X) \o u
  BY <1>2
<1> HIDE DEF X, a
<1>8. u \in Batches /\ Steps(u) = {a}
  BY <1>3, SingleStep DEF Does
<1> HIDE DEF u
<1>9. /\ EachOnce(todo')
      /\ \A r \in Outlet, e \in Device :
            dispatch(received, todo')[r][e] = dispatch(received, batch(X))[r][e]
  BY <1>3, <1>4, <1>7, <1>8, ThenQuiet
<1>10. \A s \in Steps(todo') : kind_of(s) \in {"create", "add"}
  <2>1. Steps(batch(X)) = X
    BY <1>6, StepsOfBatch
  <2>2. Steps(todo') = X \cup {a}
    BY <1>4, <1>7, <1>8, <2>1, StepsOfConcat
  <2> QED BY <1>3, <1>5, <2>2
<1>11. Suspended = {} /\ Suspended' = {} /\ \A held : dispatch(held, todo) = held
  BY <1>1, <1>10, NothingToDo, NoneSuspended
<1>12. ASSUME NEW r \in Outlet, NEW e \in Device, Copied(r, e)
       PROVE  dispatch(received, todo')[r][e] = dispatch(received, todo)[r][e]
  <2>1. CASE r \in Clients /\ e = d
    <3>1. d \notin Registered
      BY <1>11 DEF Registered
    <3>2. effective[r][d] = {}
      BY <3>1 DEF RefInv, Silent
    <3>3. value(r, d) = {}
      BY <1>12, <2>1, <3>2, EffectiveIs
    <3>4. value(r, d) = dispatch(received, todo)[r][d]
      BY <1>1, UnreadyIs
    <3> QED BY <1>4, <1>9, <2>1, <3>3, <3>4
  <2>2. CASE ~(r \in Clients /\ e = d)
    BY <1>4, <1>9, <1>11, <2>2
  <2> QED BY <2>1, <2>2
<1>13. Implemented
  BY <1>1, <1>11, <1>12, UnreadyIs, StepsAlter
<1>14. Forgotten'
  BY <1>10, Kinds DEF Forgotten, Pending
<1> QED BY <1>1, <1>9, <1>13, <1>14 DEF Kept, FrameRouted

LEMMA DestroyPending ==
    ASSUME RefInv, NEW d \in devices, todo' = destroy_device(d)
    PROVE  /\ EachOnce(todo') /\ Suspended' = {d} /\ Forgotten'
           /\ \A held : \A q \in Outlet, e \in Device :
                 dispatch(held, todo')[q][e] = IF q \in Clients /\ e = d THEN {} ELSE held[q][e]
<1> DEFINE X == {send(c, DestroyDevice(d)) : c \in Clients}
           a == about("abort", d)
           f == about("forget", d)
           z == step("stabilize")
           r == release_of(activation_id[d])
<1>1. /\ d \in Device /\ task[d] # "none" /\ activation_id[d] \in 1 .. activations
      /\ activations \in 0 .. ACTIVATIONS /\ devices \subseteq Device
  BY DEF RefInv, IInv, TypeInv, DeviceInv, ActivationInv
<1>2. activation_id[d] \in 1 .. ACTIVATIONS
  BY <1>1, BoundAssumption
<1>3. Steps(todo') = X \cup {a, f, z, r}
  BY <1>1, <1>2, DestroySteps DEF RefInv, IInv, Does
<1>4. /\ EachOnce(todo')
      /\ \A held : \A q \in Outlet, e \in Device :
            dispatch(held, todo')[q][e] = IF q \in Clients /\ e = d THEN {} ELSE held[q][e]
  BY <1>1, <1>2, DestroyMakes DEF RefInv, IInv
<1>6. /\ kind_of(a) = "abort" /\ kind_of(f) = "forget" /\ kind_of(z) = "stabilize"
      /\ kind_of(r) = "release" /\ device_of(a) = d /\ device_of(f) = d
      /\ \A s \in X : kind_of(s) = "destroy"
      /\ \A e : \A op \in {"abort", "forget", "reset"} :
            kind_of(about(op, e)) = op /\ device_of(about(op, e)) = e
  BY Kinds
<1>7. /\ \A e \in Device : Pending(about("abort", e))' <=> e = d
      /\ \A e \in Device : Pending(about("forget", e))' <=> e = d
      /\ \A e \in Device : ~Pending(about("reset", e))'
  <2>1. \A s \in Steps(todo') : kind_of(s) = "abort" => s = a
    BY <1>3, <1>6
  <2>2. \A s \in Steps(todo') : kind_of(s) = "forget" => s = f
    BY <1>3, <1>6
  <2>3. \A s \in Steps(todo') : kind_of(s) # "reset"
    BY <1>3, <1>6
  <2>4. a \in Steps(todo') /\ f \in Steps(todo')
    BY <1>3
  <2> HIDE DEF X, z, r
  <2> QED BY <1>6, <2>1, <2>2, <2>3, <2>4 DEF Pending, a, f
<1>8. Suspended' = {d}
  BY <1>1, <1>7, SuspendedIs
<1>9. Forgotten'
  BY <1>7 DEF Forgotten
<1> HIDE DEF X, a, f, z, r
<1> QED BY <1>4, <1>8, <1>9

LEMMA DestroyImplements ==
    ASSUME RefInv, todo = <<>>, frame = NoFrame, NEW d \in devices,
           devices' = devices \ {d}, todo' = destroy_device(d), frame' = frame,
           UNCHANGED Undisturbed, UNCHANGED router
    PROVE  Implemented /\ Kept
<1>1. /\ EachOnce(todo') /\ Suspended' = {d} /\ Forgotten'
      /\ \A held : \A q \in Outlet, e \in Device :
            dispatch(held, todo')[q][e] = IF q \in Clients /\ e = d THEN {} ELSE held[q][e]
  BY DestroyPending
<1>2. Suspended = {} /\ \A held : dispatch(held, todo) = held
  BY NothingToDo
<1>3. devices' \cup {d} = devices /\ Unready /\ Unready'
  BY UnreadyIs DEF RefInv, IInv, TypeInv
<1>4. Implemented
  BY <1>1, <1>2, <1>3, StepsSuspend
<1> QED BY <1>1, <1>4 DEF Kept, FrameRouted

LEMMA LostImplements ==
    ASSUME RefInv, todo = <<>>, frame = NoFrame, NEW d \in devices,
           todo' = batch(broadcast(DestroyDevice(d))) \o batch(broadcast(CreateDevice(d)))
                      \o <<{about("reset", d)}>>,
           UNCHANGED <<frame, devices>>, UNCHANGED Undisturbed, UNCHANGED router
    PROVE  Implemented /\ Kept
<1> DEFINE X == broadcast(DestroyDevice(d))
           Y == broadcast(CreateDevice(d))
           a == about("reset", d)
           u == <<{a}>>
           t == batch(X) \o batch(Y)
<1>1. d \in Device
  BY DEF RefInv, IInv, TypeInv
<1>2. a \in HandlerSteps /\ kind_of(a) = "reset"
  BY <1>1, Typed, Kinds
<1>3. /\ batch(X) \in Batches /\ EachOnce(batch(X))
      /\ \A held : \A r \in Outlet, e \in Device :
            dispatch(held, batch(X))[r][e] = IF r \in Clients /\ e = d THEN {} ELSE held[r][e]
  BY <1>1, BroadcastMakes DEF RefInv, IInv
<1>4. /\ batch(Y) \in Batches /\ EachOnce(batch(Y))
      /\ \A held : \A r \in Outlet, e \in Device :
            dispatch(held, batch(Y))[r][e] = IF r \in Clients /\ e = d THEN {} ELSE held[r][e]
  BY <1>1, BroadcastMakes DEF RefInv, IInv
<1>5. /\ \A s \in X : kind_of(s) = "destroy"
      /\ \A s \in Y : kind_of(s) = "create"
  BY Kinds DEF broadcast
<1>6. X \in SUBSET HandlerSteps /\ Y \in SUBSET HandlerSteps
  BY <1>1, Typed, RoutesType DEF broadcast, RefInv, IInv
<1>7. todo' = t \o u
  OBVIOUS
<1> HIDE DEF X, Y, u
<1>8. u \in Batches /\ Steps(u) = {a}
  BY <1>2, SingleStep DEF Does, u
<1>9. /\ t \in Batches /\ EachOnce(t) /\ Steps(t) = X \cup Y
      /\ \A held : dispatch(held, t) = dispatch(dispatch(held, batch(X)), batch(Y))
  BY <1>3, <1>4, <1>6, StepsOfBatch, StepsOfConcat, OnceBoth, DispatchBoth
<1> HIDE DEF t
<1>10. \A held : \A r \in Outlet, e \in Device :
          dispatch(held, t)[r][e] = IF r \in Clients /\ e = d THEN {} ELSE held[r][e]
  BY <1>3, <1>4, <1>9
<1>11. /\ EachOnce(todo')
       /\ \A r \in Outlet, e \in Device :
            dispatch(received, todo')[r][e] = dispatch(received, t)[r][e]
  <2>1. \A s \in Steps(u) : kind_of(s) \notin {"routing", "create", "destroy"}
    BY <1>2, <1>8
  <2>2. /\ EachOnce(t \o u)
        /\ \A held : \A r \in Outlet, e \in Device :
             dispatch(held, t \o u)[r][e] = dispatch(held, t)[r][e]
    BY <1>8, <1>9, <2>1, ThenQuiet
  <2>3. EachOnce(todo')
    BY <1>7, <2>2, Zenon
  <2>4. ASSUME NEW r \in Outlet, NEW e \in Device
        PROVE  dispatch(received, todo')[r][e] = dispatch(received, t)[r][e]
    <3>1. dispatch(received, t \o u)[r][e] = dispatch(received, t)[r][e]
      BY <2>2
    <3> QED BY <1>7, <3>1, Zenon
  <2> QED BY <2>3, <2>4
<1>12. Steps(todo') = (X \cup Y) \cup {a}
  BY <1>7, <1>8, <1>9, StepsOfConcat
<1>13. /\ \A e \in Device : Pending(about("reset", e))' <=> e = d
       /\ \A e \in Device : ~Pending(about("abort", e))' /\ ~Pending(about("forget", e))'
  <2>1. /\ \A s \in Steps(todo') : kind_of(s) = "reset" => s = a
        /\ \A s \in Steps(todo') : kind_of(s) \notin {"abort", "forget"}
        /\ a \in Steps(todo')
    BY <1>2, <1>5, <1>12
  <2>2. /\ \A e : \A op \in {"abort", "forget", "reset"} :
            kind_of(about(op, e)) = op /\ device_of(about(op, e)) = e
        /\ device_of(a) = d
    BY Kinds
  <2>3. a = about("reset", d)
    OBVIOUS
  <2> HIDE DEF a
  <2> QED BY <2>1, <2>2, <2>3 DEF Pending
<1>14. Suspended' = {d}
  BY <1>1, <1>13, SuspendedIs
<1>15. Suspended = {} /\ \A held : dispatch(held, todo) = held
  BY NothingToDo
<1>16. Implemented
  <2>1. devices' \cup {d} = devices /\ Unready /\ Unready'
    BY UnreadyIs
  <2>2. \A r \in Outlet, e \in Device :
          dispatch(received, todo')[r][e] =
             IF r \in Clients /\ e = d THEN {} ELSE dispatch(received, todo)[r][e]
    <3> SUFFICES ASSUME NEW r \in Outlet, NEW e \in Device
                 PROVE  dispatch(received, todo')[r][e] =
                          IF r \in Clients /\ e = d THEN {} ELSE dispatch(received, todo)[r][e]
      OBVIOUS
    <3>1. dispatch(received, todo')[r][e] = dispatch(received, t)[r][e]
      BY <1>11
    <3>2. dispatch(received, t)[r][e] = IF r \in Clients /\ e = d THEN {} ELSE received[r][e]
      BY <1>10
    <3> QED BY <1>15, <3>1, <3>2
  <2> QED BY <1>14, <1>15, <2>1, <2>2, StepsSuspend
<1>17. Forgotten' /\ FrameRouted'
  BY <1>13 DEF Forgotten, FrameRouted
<1> QED BY <1>11, <1>16, <1>17 DEF Kept

LEMMA RemovedImplements ==
    ASSUME RefInv, Removed
    PROVE  Implemented /\ Kept
<1>1. /\ todo = <<>> /\ frame = NoFrame /\ frame' = frame
      /\ UNCHANGED Undisturbed /\ UNCHANGED router
  BY DEF Removed, Waiting, Undisturbed, tasks, sessions
<1>2. PICK d \in devices : devices' = devices \ {d} /\ todo' = destroy_device(d)
  BY DEF Removed
<1> QED BY <1>1, <1>2, DestroyImplements

LEMMA ReceiveImplements ==
    ASSUME RefInv, Receive
    PROVE  Implemented /\ Kept
<1> DEFINE e == Head(events)
           d == e.device
<1>1. /\ todo = <<>> /\ frame = NoFrame
      /\ UNCHANGED Undisturbed /\ UNCHANGED router
  BY DEF Receive, Waiting, Undisturbed, sessions
<1>2. CASE UNCHANGED <<todo, devices>> /\ (frame' = frame \/ frame'.pending = <<>>)
  <2>1. Unready /\ Unready' /\ Suspended' = Suspended
    BY <1>1, <1>2, UnreadyIs DEF Suspended
  <2>2. Implemented
    BY <1>1, <1>2, <2>1, StepsAlter
  <2>3. EachOnce(todo') /\ Forgotten'
    BY <1>2 DEF RefInv, Forgotten, Pending
  <2>4. FrameRouted'
    <3>1. current' = current /\ available_routes' = available_routes
      BY <1>1, SameOutlets DEF router
    <3>2. current \in available_routes
      BY <1>1, NothingToDo
    <3> QED BY <3>1, <3>2 DEF FrameRouted
  <2> QED BY <2>2, <2>3, <2>4 DEF Kept
<1>3. CASE /\ is_current_device_event(e)
           /\ todo' = batch(broadcast(DestroyDevice(d))) \o batch(broadcast(CreateDevice(d)))
                         \o <<{about("reset", d)}>>
           /\ UNCHANGED <<frame, devices>>
  <2>1. d \in devices
    BY <1>3 DEF is_current_device_event
  <2> HIDE DEF d, e
  <2> QED BY <1>1, <1>3, <2>1, LostImplements
<1>4. CASE /\ is_current_device_event(e)
           /\ devices' = devices \ {d} /\ todo' = destroy_device(d) /\ UNCHANGED frame
  <2>1. d \in devices
    BY <1>4 DEF is_current_device_event
  <2> HIDE DEF d, e
  <2> QED BY <1>1, <1>4, <2>1, DestroyImplements
<1>5. CASE /\ frame' = [device |-> d, events |-> 0, pending |-> <<>>]
           /\ UNCHANGED <<todo, devices>>
  <2>1. frame'.pending = <<>>
    BY <1>5
  <2> QED BY <1>2, <1>5, <2>1
<1> HIDE DEF d
<1>6. \/ ~is_current_device_event(e) /\ UNCHANGED <<todo, frame, devices>>
      \/ <1>3!1 \/ <1>4!1 \/ <1>5!1
  BY DEF Receive, d
<1> QED BY <1>2, <1>3, <1>4, <1>5, <1>6

-----------------------------------------------------------------------------
(* The router is the one of RoutedOutputs.                                  *)
LEMMA SameRouter ==
    /\ \A d, k : /\ BlockedKey(d, k) => Outputs!BlockedKey(d, k)
                 /\ ActiveTriggerKey(d, k) => Outputs!ActiveTriggerKey(d, k)
                 /\ WithheldKey(d, k) => Outputs!WithheldKey(d, k)
                 /\ ForwardedKey(d, k) => Outputs!ForwardedKey(d, k)
                 /\ Outputs!Down(d, k) <=> Down(d, k)
    /\ \A d, k, routes : SwitchKey(d, k, routes) => Outputs!SwitchKey(d, k, routes)
    /\ \A d, pressed : /\ add_device(d, pressed) => Outputs!add_device(d, pressed)
                       /\ reset_device(d, pressed) => Outputs!reset_device(d, pressed)
    /\ \A d : remove_device(d) => Outputs!remove_device(d)
    /\ \A routes : retain_routes(routes) => Outputs!retain_routes(routes)
    /\ \A d : /\ Outputs!handoff_keys(d)' = handoff_keys(d)'
              /\ Outputs!recovery_keys(d)' = recovery_keys(d)'
    /\ Outputs!router = router
<1>1. /\ Outputs!NoBinding = NoBinding
      /\ Outputs!switch_keys = switch_keys
      /\ Outputs!trigger_keys = trigger_keys
      /\ Outputs!consumed_buttons = consumed_buttons
      /\ Outputs!unpropagated = unpropagated
      /\ Outputs!withheld = withheld
      /\ Outputs!pressed_key_union = pressed_key_union
  BY DEF Outputs!NoBinding, NoBinding, Outputs!switch_keys, switch_keys, Outputs!trigger_keys,
         trigger_keys, Outputs!consumed_buttons, consumed_buttons, Outputs!unpropagated,
         unpropagated, Outputs!withheld, withheld, Outputs!pressed_key_union,
         pressed_key_union
<1>2. /\ \A d : Outputs!handoff_keys(d)' = handoff_keys(d)'
      /\ \A d : Outputs!recovery_keys(d)' = recovery_keys(d)'
      /\ Outputs!pressed_key_union' = pressed_key_union'
      /\ Outputs!router = router
  BY DEF Outputs!handoff_keys, handoff_keys, Outputs!recovery_keys, recovery_keys,
         Outputs!pressed_key_union, pressed_key_union, Outputs!consumed_buttons,
         consumed_buttons, Outputs!switch_keys, switch_keys, Outputs!router, router
<1>3. /\ \A b : Outputs!trigger(b) = trigger(b)
      /\ \A d, k : Outputs!Down(d, k) <=> Down(d, k)
      /\ \A d, k : Outputs!update_physical_key(d, k) <=> update_physical_key(d, k)
      /\ \A b, k : Outputs!rearm_after_trigger_release(b, k) = rearm_after_trigger_release(b, k)
      /\ \A b, q : Outputs!clear_inactive_binding(b, q) = clear_inactive_binding(b, q)
      /\ \A b, k, q : Outputs!matching_binding(b, k, q) <=> matching_binding(b, k, q)
      /\ \A b, q : Outputs!complete_binding(b, q) <=> complete_binding(b, q)
      /\ \A r, q, f : Outputs!next_route(r, q, f) <=> next_route(r, q, f)
      /\ \A q, h : Outputs!handoff_blocked(q, h) = handoff_blocked(q, h)
  BY DEF Outputs!NoBinding, NoBinding, Outputs!trigger, trigger, Outputs!Down, Down,
         Outputs!update_physical_key, update_physical_key, Outputs!rearm_after_trigger_release,
         rearm_after_trigger_release, Outputs!clear_inactive_binding, clear_inactive_binding,
         Outputs!matching_binding, matching_binding, Outputs!complete_binding, complete_binding,
         Outputs!next_route, next_route, Outputs!handoff_blocked, handoff_blocked,
         Outputs!unpropagated, unpropagated, Outputs!switch_keys, switch_keys
<1>4. \A q, b : Outputs!reset_blocked(q, b) = reset_blocked(q, b)
  BY <1>1, <1>3 DEF Outputs!reset_blocked, reset_blocked
<1>5. \A d, k : Outputs!Switches(d, k) <=> Switches(d, k)
  BY <1>1, <1>3 DEF Outputs!Switches, Switches
<1>6. \A d, k : BlockedKey(d, k) => Outputs!BlockedKey(d, k)
  BY <1>1, <1>2, <1>3 DEF Outputs!BlockedKey, BlockedKey
<1>7. \A d, k : ActiveTriggerKey(d, k) => Outputs!ActiveTriggerKey(d, k)
  BY <1>1, <1>2, <1>3 DEF Outputs!ActiveTriggerKey, ActiveTriggerKey
<1>8. \A d, k : OrdinaryEvent(d, k) => Outputs!OrdinaryEvent(d, k)
  BY <1>2, <1>3, <1>5 DEF Outputs!OrdinaryEvent, OrdinaryEvent
<1>9. \A d, k : /\ WithheldKey(d, k) => Outputs!WithheldKey(d, k)
                /\ ForwardedKey(d, k) => Outputs!ForwardedKey(d, k)
  BY <1>1, <1>8 DEF Outputs!WithheldKey, WithheldKey, Outputs!ForwardedKey, ForwardedKey
<1>10. \A d, k, routes : SwitchKey(d, k, routes) => Outputs!SwitchKey(d, k, routes)
  BY <1>1, <1>3, <1>5 DEF Outputs!SwitchKey, SwitchKey
<1>11. \A d, pressed : add_device(d, pressed) => Outputs!add_device(d, pressed)
  BY <1>1 DEF Outputs!add_device, add_device
<1>12. \A d, pressed : reset_device(d, pressed) => Outputs!reset_device(d, pressed)
  BY <1>1, <1>2, <1>3, <1>4 DEF Outputs!reset_device, reset_device
<1>13. \A d : remove_device(d) => Outputs!remove_device(d)
  BY <1>2, <1>3 DEF Outputs!remove_device, remove_device
<1>14. \A routes : retain_routes(routes) => Outputs!retain_routes(routes)
  BY <1>3 DEF Outputs!retain_routes, retain_routes
<1> QED BY <1>2, <1>3, <1>6, <1>7, <1>9, <1>10, <1>11, <1>12, <1>13, <1>14

LEMMA PresentIs ==
    ASSUME NEW r \in Outlet, NEW d \in Device
    PROVE  /\ Outputs!Present(r, d) <=> Copied(r, d)
           /\ Outputs!Present(r, d)' <=> Copied(r, d)'
           /\ Outputs!Wired(r, d) <=> Copied(r, d) /\ d \notin Suspended
           /\ Outputs!Wired(r, d)' <=> Copied(r, d)' /\ d \notin Suspended'
<1>1. /\ r \in available_routes <=> r = 0 \/ session[r] # "vacant"
      /\ r \in available_routes' <=> r = 0 \/ session'[r] # "vacant"
  BY ClientAssumption DEF Outlet, available_routes
<1>2. /\ Outputs!Present(r, d) <=> Copied(r, d)
      /\ Outputs!Present(r, d)' <=> Copied(r, d)'
  BY <1>1 DEF Outputs!Present, Copied
<1> QED BY <1>2 DEF Outputs!Wired

-----------------------------------------------------------------------------
(* Key events.                                                              *)

\* The frame in which a key event is processed.
LEMMA KeyPressIn ==
    ASSUME RefInv, NEW k \in Key, KeyPress(k)
    PROVE  /\ frame # NoFrame /\ frame' # NoFrame /\ frame'.device = frame.device
           /\ frame.device \in devices /\ frame.device \in Device
           /\ frame.pending \in Seq(KeyEvent) /\ todo \in Batches
           /\ UNCHANGED Undisturbed /\ devices' = devices
           /\ Suspended = {} /\ Suspended' = {}
           /\ current \in available_routes
<1>1. frame # NoFrame /\ UNCHANGED Undisturbed /\ devices' = devices
  BY DEF KeyPress, Undisturbed, tasks, sessions
<1>2. /\ frame.device \in devices /\ frame.device \in Device
      /\ frame.pending \in Seq(KeyEvent) /\ RoutingTo(todo, devices)
  BY <1>1, FrameSteps DEF RefInv
<1>3. frame' \in Frame /\ frame'.device = frame.device /\ RoutingTo(todo', devices)
  BY KeyPressFrame DEF RefInv
<1>4. frame' # NoFrame
  BY <1>3, FrameIsNotNone
<1>5. Suspended = {} /\ Suspended' = {}
  BY <1>2, <1>3, NoneSuspended DEF RoutingTo
<1>6. current \in available_routes
  BY <1>1 DEF RefInv, FrameRouted
<1> QED BY <1>1, <1>2, <1>3, <1>4, <1>5, <1>6 DEF RoutingTo

LEMMA KeyPressKept ==
    ASSUME RefInv, NEW k \in Key, KeyPress(k), EachOnce(todo'), current' \in available_routes
    PROVE  Kept
<1>1. RoutingTo(todo', devices) /\ UNCHANGED Undisturbed
  BY KeyPressFrame, KeyPressIn DEF RefInv
<1>2. Forgotten'
  BY <1>1, Kinds DEF Forgotten, Pending, RoutingTo
<1>3. FrameRouted'
  BY <1>1, SameOutlets DEF FrameRouted
<1> QED BY <1>2, <1>3 DEF Kept

LEMMA SilentKeyImplements ==
    ASSUME RefInv, NEW k \in Key, KeyPress(k), UNCHANGED <<todo, current>>,
           frame'.pending = frame.pending,
           LET d == frame.device IN BlockedKey(d, k) \/ ActiveTriggerKey(d, k) \/ WithheldKey(d, k)
    PROVE  Implemented /\ Kept
<1> DEFINE d == frame.device
<1>1. /\ frame # NoFrame /\ frame' # NoFrame /\ frame'.device = d
      /\ d \in devices /\ d \in Device
      /\ UNCHANGED Undisturbed /\ devices' = devices
      /\ Suspended = {} /\ Suspended' = {}
      /\ current \in available_routes
  BY KeyPressIn
<1>2. /\ received' = received /\ available_routes' = available_routes /\ Live' = Live
      /\ \A r, e : Copied(r, e)' <=> Copied(r, e)
  BY <1>1, SameOutlets
<1>3. \A r, e : ready(r, e)' = ready(r, e)
  BY <1>1 DEF ready
<1>4. \A r, e : value(r, e)' = value(r, e)
  BY <1>2, <1>3 DEF value
<1>5. effective' = effective
  BY <1>2, <1>4, SameOutputs
<1>6. Outputs!SilentKey(d, k)
  BY <1>1, <1>2, <1>5, SameRouter DEF Outputs!SilentKey, Outputs!Settled, Live
<1>7. Implemented
  BY <1>1, <1>6, AbstractStep DEF Outputs!KeyEvent, Registered
<1>8. Kept
  BY <1>1, KeyPressKept DEF RefInv
<1> QED BY <1>7, <1>8

LEMMA ForwardImplements ==
    ASSUME RefInv, NEW k \in Key, KeyPress(k), UNCHANGED <<todo, current>>,
           frame'.pending = Append(frame.pending, event(frame.device, k)),
           ForwardedKey(frame.device, k)
    PROVE  Implemented /\ Kept
<1>a. PICK d : d = frame.device
  OBVIOUS
<1>b. PICK q : q = current
  OBVIOUS
<1>1. /\ frame # NoFrame /\ frame' # NoFrame /\ frame'.device = d
      /\ d \in devices /\ d \in Device
      /\ frame.pending \in Seq(KeyEvent)
      /\ UNCHANGED Undisturbed /\ devices' = devices
      /\ Suspended = {} /\ Suspended' = {}
      /\ current \in available_routes
  BY <1>a, KeyPressIn
<1>2. /\ received' = received /\ available_routes' = available_routes /\ Live' = Live
      /\ \A r, e : Copied(r, e)' <=> Copied(r, e)
  BY <1>1, SameOutlets
<1>3. q \in Outlet /\ current' = q
  BY <1>b DEF RefInv, IInv, TypeInv, Outlet
<1>4. value(q, d)' = IF Down(d, k) THEN value(q, d) \cup {k}
                           ELSE value(q, d) \ {k}
  <2> DEFINE held == dispatch(received, todo)[q][d]
  <2>1. ready(q, d) = frame.pending /\ ready(q, d)' = Append(frame.pending, event(d, k))
    BY <1>1, <1>a, <1>b, <1>3 DEF ready
  <2>2. value(q, d) = keys_after(held, frame.pending)
    BY <2>1 DEF value
  <2>3. value(q, d)' = keys_after(held, Append(frame.pending, event(d, k)))
    BY <1>2, <2>1 DEF value
  <2>4. event(d, k) \in KeyEvent
    BY DEF event, press, release, KeyEvent
  <2>5. value(q, d)' = update_key_state(value(q, d), event(d, k))
    BY <1>1, <2>2, <2>3, <2>4, KeysAfterAppend
  <2> QED BY <2>5 DEF update_key_state, event, press, release, IsKey
<1>5. ASSUME NEW r \in Outlet, NEW e \in Device, ~(r = q /\ e = d)
      PROVE  value(r, e)' = value(r, e)
  <2>1. ready(r, e)' = ready(r, e)
    BY <1>1, <1>a, <1>b, <1>3, <1>5 DEF ready
  <2> QED BY <1>2, <2>1 DEF value
<1>6. Outputs!Wired(q, d) <=> Copied(q, d)
  BY <1>1, <1>3, PresentIs
<1>7. Outputs!forward(d, k)
  <2>1. CASE ~Copied(q, d)
    <3>1. \A r \in Outlet, e \in Device : Copied(r, e) => value(r, e)' = value(r, e)
      BY <1>5, <2>1
    <3>2. effective' = effective
      BY <1>2, <3>1, SameOutputs
    <3> QED BY <1>b, <1>6, <2>1, <3>2 DEF Outputs!forward
  <2>2. CASE Copied(q, d)
    <3> DEFINE keys == IF Down(d, k) THEN effective[q][d] \cup {k}
                       ELSE effective[q][d] \ {k}
    <3>1. effective[q][d] = value(q, d)
      BY <1>1, <1>3, <2>2, EffectiveIs
    <3>2. effective' = [r \in Outlet |-> [e \in Device |->
                          IF r = q /\ e = d THEN keys ELSE effective[r][e]]]
      <4>1. ASSUME NEW r \in Outlet, NEW e \in Device
            PROVE  (IF Copied(r, e)' THEN value(r, e)' ELSE {}) =
                      IF r = q /\ e = d THEN keys ELSE effective[r][e]
        <5>1. effective[r][e] = IF Copied(r, e) THEN value(r, e) ELSE {}
          BY EffectiveIs
        <5>2. Copied(r, e)' <=> Copied(r, e)
          BY <1>2
        <5>3. CASE r = q /\ e = d
          BY <1>4, <2>2, <3>1, <5>2, <5>3
        <5>4. CASE ~(r = q /\ e = d)
          BY <1>5, <5>1, <5>2, <5>4
        <5> QED BY <5>3, <5>4
      <4> HIDE DEF keys
      <4> QED BY <4>1, EffectiveIs
    <3>3. effective = [r \in Outlet |-> [e \in Device |-> effective[r][e]]]
      BY EffectiveIs
    <3> HIDE DEF keys
    <3>4. effective' = [effective EXCEPT ![q][d] = keys]
      BY <1>1, <1>3, <3>2, <3>3
    <3>5. Outputs!Down(d, k) <=> Down(d, k)
      BY SameRouter
    <3> QED BY <1>b, <1>6, <2>2, <3>4, <3>5 DEF Outputs!forward, keys
  <2> QED BY <2>1, <2>2
<1>8. Outputs!Forward(d, k)
  BY <1>1, <1>2, <1>7, <1>a, SameRouter DEF Outputs!Forward, Outputs!Settled, Live
<1>9. Implemented
  BY <1>1, <1>8, AbstractStep DEF Outputs!KeyEvent, Registered
<1>10. Kept
  BY <1>1, <1>2, KeyPressKept DEF RefInv
<1> QED BY <1>9, <1>10

(* A device that is not there holds nothing, and its copies show nothing.   *)
LEMMA Reconciled ==
    ASSUME RefInv, UNCHANGED Undisturbed, Suspended = {}, Unready',
           \A e \in Device \ devices : physical_keys'[e] = physical_keys[e],
           \A r \in Outlet, e \in devices :
              r \in available_routes =>
                 dispatch(received, todo')[r][e] = IF r = current' THEN handoff_keys(e)' ELSE {},
           \A r \in Outlet, e \in Device \ devices : Copied(r, e) => value(r, e)' = value(r, e)
    PROVE  Outputs!reconcile_all
<1>1. /\ received' = received /\ \A r, e : Copied(r, e)' <=> Copied(r, e)
  BY SameOutlets
<1>2. ASSUME NEW r \in Outlet, NEW e \in Device
      PROVE  (IF Copied(r, e)' THEN value(r, e)' ELSE {}) =
                IF r = current' /\ Outputs!Wired(r, e) THEN handoff_keys(e)' ELSE {}
  <2>1. Outputs!Wired(r, e) <=> Copied(r, e)
    BY PresentIs
  <2>2. CASE ~Copied(r, e)
    BY <1>1, <2>1, <2>2
  <2>3. CASE Copied(r, e) /\ e \in devices
    <3>1. r \in available_routes
      BY <2>3, RoutesType, CopiedIs DEF Outlet, RefInv, IInv, available_routes
    <3>2. value(r, e)' = dispatch(received', todo')[r][e]
      BY UnreadyIs
    <3>3. dispatch(received, todo')[r][e] = IF r = current' THEN handoff_keys(e)' ELSE {}
      BY <2>3, <3>1
    <3> QED BY <1>1, <2>1, <2>3, <3>2, <3>3
  <2>4. CASE Copied(r, e) /\ e \notin devices
    <3>1. e \notin Registered
      BY <2>4 DEF Registered
    <3>2. physical_keys[e] = {} /\ effective[r][e] = {}
      BY <3>1 DEF RefInv, Silent
    <3>3. value(r, e) = {}
      BY <2>4, <3>2, EffectiveIs
    <3>4. value(r, e)' = {}
      BY <2>4, <3>3
    <3>5. handoff_keys(e)' = {}
      BY <2>4, <3>2 DEF handoff_keys
    <3> QED BY <3>4, <3>5
  <2> QED BY <2>2, <2>3, <2>4
<1>3. effective' = [r \in Outlet |-> [e \in Device |->
                      IF r = current' /\ Outputs!Wired(r, e) THEN handoff_keys(e)' ELSE {}]]
  BY <1>2, EffectiveIs
<1> QED BY <1>3, SameRouter DEF Outputs!reconcile_all

LEMMA SwitchImplements ==
    ASSUME RefInv, NEW k \in Key, KeyPress(k), frame'.pending = <<>>,
           SwitchKey(frame.device, k, available_routes),
           NEW pending \in Seq(KeyEvent), NEW others \in BOOLEAN,
           todo' = (todo \o flush_events(current, frame.device, pending, others))
                      \o handoff_actions
    PROVE  Implemented /\ Kept
<1> DEFINE d == frame.device
           f == flush_events(current, d, pending, others)
           h == handoff_actions
<1>1. /\ frame # NoFrame /\ frame' # NoFrame /\ frame'.device = d
      /\ d \in devices /\ d \in Device /\ todo \in Batches
      /\ UNCHANGED Undisturbed /\ devices' = devices
      /\ Suspended = {} /\ Suspended' = {}
      /\ current \in available_routes
  BY KeyPressIn
<1>2. /\ received' = received /\ available_routes' = available_routes /\ Live' = Live
      /\ \A r, e : Copied(r, e)' <=> Copied(r, e)
  BY <1>1, SameOutlets
<1>3. current \in Outlet
  BY DEF RefInv, IInv, TypeInv, Outlet
<1>4. /\ f \in Batches /\ EachOnce(f)
      /\ \A held : \A r \in Outlet, e \in Device :
            dispatch(held, f)[r][e] =
               IF r = current /\ e = d THEN keys_after(held[r][e], pending) ELSE held[r][e]
  BY <1>1, <1>3, FlushMakes
<1>5. /\ h \in Batches /\ EachOnce(h)
      /\ \A held : \A r \in Outlet, e \in Device :
            dispatch(held, h)[r][e] =
               IF r \in available_routes /\ e \in devices
               THEN IF r = current' THEN handoff_keys(e)' ELSE {}
               ELSE held[r][e]
  BY HandoffMakes DEF RefInv, IInv
<1> DEFINE t == todo \o f
<1>6. todo' = t \o h
  OBVIOUS
<1> HIDE DEF f, h
<1>7. t \in Batches /\ EachOnce(t) /\ dispatch(received, t) = dispatch(dispatch(received, todo), f)
  BY <1>1, <1>4, StepsOfConcat, OnceBoth, DispatchBoth DEF RefInv
<1> HIDE DEF t
<1>8. EachOnce(todo') /\ dispatch(received, todo') = dispatch(dispatch(received, t), h)
  <2>1. EachOnce(t \o h) /\ dispatch(received, t \o h) = dispatch(dispatch(received, t), h)
    BY <1>5, <1>7, OnceBoth, DispatchBoth
  <2> QED BY <1>6, <2>1, Zenon
<1>9. Unready'
  BY UnreadyIs
<1>10. current' \in available_routes
  BY DEF SwitchKey
<1>11. Outputs!reconcile_all
  <2>1. \A e \in Device \ devices : physical_keys'[e] = physical_keys[e]
    BY <1>1 DEF SwitchKey, update_physical_key, RefInv, IInv, TypeInv
  <2>2. ASSUME NEW r \in Outlet, NEW e \in Device
        PROVE  dispatch(received, todo')[r][e] =
                  IF r \in available_routes /\ e \in devices
                  THEN IF r = current' THEN handoff_keys(e)' ELSE {}
                  ELSE dispatch(received, t)[r][e]
    <3>1. dispatch(received, todo')[r][e] = dispatch(dispatch(received, t), h)[r][e]
      BY <1>8
    <3> QED BY <1>5, <3>1
  <2>3. ASSUME NEW r \in Outlet, NEW e \in Device \ devices
        PROVE  value(r, e)' = value(r, e)
    <3>1. e # d /\ ready(r, e) = <<>>
      BY <1>1 DEF ready
    <3>2. dispatch(received, t)[r][e] = dispatch(received, todo)[r][e]
      BY <1>4, <1>7, <3>1
    <3>3. value(r, e)' = dispatch(received', todo')[r][e]
      BY <1>9, UnreadyIs
    <3>4. value(r, e) = dispatch(received, todo)[r][e]
      BY <3>1, NothingReady DEF value
    <3> QED BY <1>2, <2>2, <3>2, <3>3, <3>4
  <2>4. \A r \in Outlet, e \in devices :
           r \in available_routes =>
              dispatch(received, todo')[r][e] = IF r = current' THEN handoff_keys(e)' ELSE {}
    BY <2>2 DEF RefInv, IInv, TypeInv
  <2> QED BY <1>1, <1>9, <2>1, <2>3, <2>4, Reconciled
<1>12. Outputs!Switch(d, k)
  BY <1>1, <1>2, <1>11, SameRouter DEF Outputs!Switch, Outputs!Settled, Live
<1>13. Implemented
  BY <1>1, <1>12, AbstractStep DEF Outputs!KeyEvent, Registered
<1>14. Kept
  BY <1>8, <1>10, KeyPressKept
<1> QED BY <1>13, <1>14

LEMMA KeyPressImplements ==
    ASSUME RefInv, NEW k \in Key, KeyPress(k)
    PROVE  Implemented /\ Kept
<1> DEFINE d == frame.device
<1>1. /\ frame \in Frame /\ frame.pending \in Seq(KeyEvent)
      /\ \A n, p : [frame EXCEPT !.events = n, !.pending = p].pending = p
      /\ \A n : [frame EXCEPT !.events = n].pending = frame.pending
      /\ press(k) \in KeyEvent
  <2>1. frame \in Frame /\ frame.pending \in Seq(KeyEvent)
    BY FrameSteps DEF KeyPress, RefInv
  <2>2. DOMAIN frame = {"device", "events", "pending"}
    BY <2>1 DEF Frame
  <2>3. /\ \A n, p : [frame EXCEPT !.events = n, !.pending = p].pending = p
        /\ \A n : [frame EXCEPT !.events = n].pending = frame.pending
    BY <2>2
  <2> QED BY <2>1, <2>3 DEF press, KeyEvent
<1>2. CASE /\ BlockedKey(d, k) \/ ActiveTriggerKey(d, k) \/ WithheldKey(d, k)
           /\ frame' = [frame EXCEPT !.events = @ + 1]
           /\ UNCHANGED todo
  <2>1. UNCHANGED current
    BY <1>2 DEF BlockedKey, ActiveTriggerKey, WithheldKey, OrdinaryEvent
  <2> QED BY <1>1, <1>2, <2>1, SilentKeyImplements
<1>3. CASE /\ ForwardedKey(d, k)
           /\ frame' = [frame EXCEPT !.events = @ + 1, !.pending = Append(@, event(d, k))]
           /\ UNCHANGED todo
  <2>1. UNCHANGED current
    BY <1>3 DEF ForwardedKey, OrdinaryEvent
  <2> QED BY <1>1, <1>3, <2>1, ForwardImplements
<1>4. CASE /\ SwitchKey(d, k, available_routes)
           /\ frame' = [frame EXCEPT !.events = @ + 1, !.pending = <<>>]
           /\ \E others \in BOOLEAN :
                todo' = todo
                    \o flush_events(current, d,
                                    IF k \in withheld THEN frame.pending
                                    ELSE Append(frame.pending, press(k)), others)
                    \o handoff_actions
  <2> DEFINE p == IF k \in withheld THEN frame.pending ELSE Append(frame.pending, press(k))
  <2>1. PICK others \in BOOLEAN :
           todo' = (todo \o flush_events(current, d, p, others)) \o handoff_actions
    BY <1>4
  <2>2. p \in Seq(KeyEvent)
    BY <1>1
  <2> HIDE DEF p
  <2> QED BY <1>1, <1>4, <2>1, <2>2, SwitchImplements
<1> QED BY <1>2, <1>3, <1>4 DEF KeyPress

LEMMA FrameEndImplements ==
    ASSUME RefInv, FrameEnd
    PROVE  Implemented /\ Kept
<1> DEFINE z == step("stabilize")
<1>1. /\ frame # NoFrame /\ frame' = NoFrame
      /\ UNCHANGED Undisturbed /\ UNCHANGED router /\ devices' = devices
  BY DEF FrameEnd, Undisturbed, tasks, sessions
<1>2. PICK d : d = frame.device
  OBVIOUS
<1>3. PICK q : q = current
  OBVIOUS
<1>4. /\ d \in devices /\ d \in Device /\ frame.pending \in Seq(KeyEvent)
      /\ RoutingTo(todo, devices)
  BY <1>1, <1>2, FrameSteps DEF RefInv
<1>5. PICK others \in BOOLEAN :
          todo' = (todo \o flush_events(q, d, frame.pending, others)) \o stabilize
  BY <1>2, <1>3 DEF FrameEnd
<1> DEFINE f == flush_events(q, d, frame.pending, others)
           t == todo \o f
<1>6. q \in Outlet /\ q \in Client \cup {0}
  BY <1>3 DEF RefInv, IInv, TypeInv, Outlet
<1>7. /\ f \in Batches /\ EachOnce(f)
      /\ \A held : \A r \in Outlet, e \in Device :
            dispatch(held, f)[r][e] =
               IF r = q /\ e = d THEN keys_after(held[r][e], frame.pending) ELSE held[r][e]
  BY <1>4, <1>6, FlushMakes
<1>8. RoutingTo(f, {d})
  BY <1>4, <1>6, FlushSteps
<1>9. todo' = t \o stabilize
  BY <1>5
<1> HIDE DEF f
<1>10. /\ t \in Batches /\ EachOnce(t) /\ Steps(t) = Steps(todo) \cup Steps(f)
       /\ dispatch(received, t) = dispatch(dispatch(received, todo), f)
  BY <1>4, <1>7, StepsOfConcat, OnceBoth, DispatchBoth DEF RefInv, RoutingTo
<1> HIDE DEF t
<1>11. stabilize \in Batches /\ Steps(stabilize) = {z} /\ kind_of(z) = "stabilize"
  BY StabilizeStep DEF Does
<1> HIDE DEF z
<1>12. /\ t \o stabilize \in Batches /\ EachOnce(t \o stabilize)
       /\ \A held : \A r \in Outlet, e \in Device :
             dispatch(held, t \o stabilize)[r][e] = dispatch(held, t)[r][e]
  <2>1. \A s \in Steps(stabilize) : kind_of(s) \notin {"routing", "create", "destroy"}
    BY <1>11
  <2> QED BY <1>10, <1>11, <2>1, ThenQuiet
<1>13. \A s \in Steps(todo') : kind_of(s) \in {"routing", "stabilize"}
  <2>1. Steps(todo') = (Steps(todo) \cup Steps(f)) \cup {z}
    BY <1>9, <1>10, <1>11, StepsOfConcat
  <2> QED BY <1>4, <1>8, <1>11, <2>1 DEF RoutingTo
<1>14. Suspended = {} /\ Suspended' = {}
  BY <1>4, <1>13, NoneSuspended DEF RoutingTo
<1>15. /\ received' = received /\ available_routes' = available_routes /\ Live' = Live
       /\ \A r, e : Copied(r, e)' <=> Copied(r, e)
  BY <1>1, SameOutlets
<1>16. ASSUME NEW r \in Outlet, NEW e \in Device
       PROVE  value(r, e)' = value(r, e)
  <2>1. value(r, e)' = dispatch(received', todo')[r][e]
    BY <1>1, ValueWithoutFrame
  <2>2. dispatch(received, todo')[r][e] = dispatch(received, t \o stabilize)[r][e]
    BY <1>9, Zenon
  <2>3. dispatch(received, t \o stabilize)[r][e] = dispatch(dispatch(received, todo), f)[r][e]
    BY <1>10, <1>12
  <2>4. value(r, e)' = dispatch(dispatch(received, todo), f)[r][e]
    BY <1>15, <2>1, <2>2, <2>3
  <2>5. CASE r = q /\ e = d
    <3>1. ready(r, e) = frame.pending
      BY <1>1, <1>2, <1>3, <2>5 DEF ready
    <3> QED BY <1>7, <2>4, <2>5, <3>1 DEF value
  <2>6. CASE ~(r = q /\ e = d)
    <3>1. ready(r, e) = <<>>
      BY <1>2, <1>3, <2>6 DEF ready
    <3> QED BY <1>7, <2>4, <2>6, <3>1, NothingReady DEF value
  <2> QED BY <2>5, <2>6
<1>17. effective' = effective
  BY <1>15, <1>16, SameOutputs
<1>18. Implemented
  BY <1>1, <1>14, <1>15, <1>17, Stutters
<1>19. EachOnce(todo')
  BY <1>9, <1>12, Zenon
<1>20. Forgotten' /\ FrameRouted'
  BY <1>1, <1>13, Kinds DEF Forgotten, FrameRouted, Pending
<1> QED BY <1>18, <1>19, <1>20 DEF Kept

-----------------------------------------------------------------------------
(* The steps of handlers.                                                   *)

\* What is known when step s is done and rest is left.
Doing(s, rest) ==
    RefInv /\ frame = NoFrame /\ frame' = NoFrame /\ Popped(todo, s, rest)

LEMMA AfterDoing ==
    ASSUME NEW s, NEW rest, Doing(s, rest)
    PROVE  /\ s \in HandlerSteps /\ rest \in Batches /\ EachOnce(rest)
           /\ Steps(todo) = Steps(rest) \cup {s}
           /\ todo \in Batches /\ EachOnce(todo)
           /\ \A t \in Steps(rest) : t \in HandlerSteps
           /\ Unready /\ Unready'
           /\ \A r, d : value(r, d) = dispatch(received, todo)[r][d]
           /\ \A r, d : value(r, d)' = dispatch(received', todo')[r][d]
           /\ FrameRouted'
<1>1. /\ s \in HandlerSteps /\ rest \in Batches /\ Steps(todo) = Steps(rest) \cup {s}
      /\ \A t \in Steps(rest) : t \in HandlerSteps
  BY AfterStep DEF Doing, RefInv, IInv
<1>2. todo \in Batches /\ EachOnce(todo)
  BY DEF Doing, RefInv, IInv, TypeInv, Batches
<1>3. EachOnce(rest)
  BY <1>2, OncePopped DEF Doing
<1>4. Unready /\ Unready'
  BY UnreadyIs DEF Doing
<1> QED BY <1>1, <1>2, <1>3, <1>4, UnreadyIs DEF Doing, FrameRouted

(* A step that updates no copy, and what it leaves.                         *)
LEMMA QuietStep ==
    ASSUME NEW s, NEW rest, Doing(s, rest), kind_of(s) \notin {"routing", "create", "destroy"}
    PROVE  \A held : \A r \in Outlet, d \in Device :
              dispatch(held, rest)[r][d] = dispatch(held, todo)[r][d]
<1>1. s \in HandlerSteps /\ todo \in Batches /\ EachOnce(todo) /\ Popped(todo, s, rest)
  BY AfterDoing DEF Doing
<1>2. \A r, d : ~updates(s, r, d)
  BY <1>1, UpdateKinds
<1>3. ASSUME NEW held, NEW r \in Outlet, NEW d \in Device
      PROVE  dispatch(held, rest)[r][d] = dispatch(held, todo)[r][d]
  <2>1. held[r][d] = IF updates(s, r, d) THEN written(held[r][d], s.update) ELSE held[r][d]
    BY <1>2
  <2> QED BY <1>1, <2>1, DispatchPopped
<1> QED BY <1>3

(* A step that is carried out on the copy it is about, if that is there.    *)
LEMMA StepCarriedOut ==
    ASSUME NEW s, NEW rest, Doing(s, rest), todo' = rest,
           kind_of(s) \notin {"reset", "abort", "forget"},
           UNCHANGED router, devices' = devices, available_routes' = available_routes,
           Live' = Live,
           \A r \in Outlet, d \in Device :
              /\ Copied(r, d)' <=> Copied(r, d)
              /\ Copied(r, d) => received'[r][d] =
                    IF updates(s, r, d) THEN written(received[r][d], s.update) ELSE received[r][d]
    PROVE  Implemented /\ Kept
<1>1. /\ Steps(todo) = Steps(rest) \cup {s} /\ EachOnce(rest)
      /\ todo \in Batches /\ EachOnce(todo) /\ Popped(todo, s, rest)
      /\ \A r, d : value(r, d) = dispatch(received, todo)[r][d]
      /\ \A r, d : value(r, d)' = dispatch(received', todo')[r][d]
      /\ FrameRouted'
  BY AfterDoing DEF Doing
<1>2. \A t : kind_of(t) \in {"reset", "abort", "forget"} =>
              (t \in Steps(todo') <=> t \in Steps(todo))
  BY <1>1
<1>3. Suspended' = Suspended
  BY <1>2, SameSuspended
<1>4. ASSUME NEW r \in Outlet, NEW d \in Device, Copied(r, d)
      PROVE  value(r, d)' = value(r, d)
  <2>1. dispatch(received', rest)[r][d] = dispatch(received, todo)[r][d]
    BY <1>1, <1>4, DispatchPopped
  <2> QED BY <1>1, <2>1
<1>5. effective' = effective
  BY <1>4, SameOutputs
<1>6. Implemented
  BY <1>3, <1>5, Stutters
<1>7. Forgotten'
  <2>1. \A d \in Device : /\ Pending(about("abort", d))' <=> Pending(about("abort", d))
                          /\ Pending(about("forget", d))' <=> Pending(about("forget", d))
    BY <1>2, Kinds DEF Pending
  <2> QED BY <2>1 DEF Forgotten, Doing, RefInv
<1>8. EachOnce(todo')
  BY <1>1
<1> QED BY <1>1, <1>6, <1>7, <1>8 DEF Kept

\* A step that changes nothing the outputs depend on.
LEMMA StepDone ==
    ASSUME NEW s, NEW rest, Doing(s, rest), todo' = rest,
           kind_of(s) \notin {"routing", "create", "destroy", "reset", "abort", "forget"},
           UNCHANGED router, devices' = devices, UNCHANGED Undisturbed
    PROVE  Implemented /\ Kept
<1>1. s \in HandlerSteps
  BY AfterDoing
<1>2. \A r, d : ~updates(s, r, d)
  BY <1>1, UpdateKinds
<1>3. /\ received' = received /\ available_routes' = available_routes /\ Live' = Live
      /\ \A r, d : Copied(r, d)' <=> Copied(r, d)
  BY SameOutlets
<1>4. \A r \in Outlet, d \in Device :
         /\ Copied(r, d)' <=> Copied(r, d)
         /\ Copied(r, d) => received'[r][d] =
               IF updates(s, r, d) THEN written(received[r][d], s.update) ELSE received[r][d]
  BY <1>2, <1>3
<1> QED BY <1>3, <1>4, StepCarriedOut

LEMMA ReleaseImplements ==
    ASSUME NEW s, NEW rest, Doing(s, rest), s.op = "release", Release(s.activation_id, rest)
    PROVE  Implemented /\ Kept
<1>1. kind_of(s) = "release"
  BY DEF kind_of
<1>2. /\ UNCHANGED router /\ devices' = devices /\ UNCHANGED Undisturbed /\ todo' = rest
  BY DEF Release, tasks, sessions, Undisturbed
<1> QED BY <1>1, <1>2, StepDone

LEMMA OverflowImplements ==
    ASSUME RefInv, NEW u, Overflow(u)
    PROVE  Implemented /\ Kept
<1>1. /\ UNCHANGED <<router, devices, todo, frame>> /\ UNCHANGED Undisturbed
  BY DEF Overflow, tasks, sessions, Undisturbed
<1>2. /\ received' = received /\ available_routes' = available_routes /\ Live' = Live
      /\ \A r, d : Copied(r, d)' <=> Copied(r, d)
  BY <1>1, SameOutlets
<1>3. UNCHANGED current
  BY <1>1 DEF router
<1>4. Kept /\ Suspended' = Suspended
  BY <1>1, <1>2, <1>3, SameSteps
<1>5. \A r \in Outlet, d \in Device : value(r, d)' = value(r, d)
  BY <1>1, <1>2, <1>3, SameValue DEF RefInv, IInv
<1>6. effective' = effective
  BY <1>2, <1>5, SameOutputs
<1> QED BY <1>1, <1>2, <1>4, <1>6, Stutters

LEMMA SweepImplements ==
    ASSUME NEW s, NEW rest, Doing(s, rest), s.op = "sweep", Sweep(rest)
    PROVE  Implemented /\ Kept
<1> DEFINE X == {[op |-> "remove", client |-> c] : c \in closed_clients}
<1>1. /\ todo' = batch(X) \o rest
      /\ UNCHANGED Undisturbed /\ UNCHANGED router /\ devices' = devices
  BY DEF Sweep, tasks, sessions, Undisturbed
<1>2. kind_of(s) = "sweep"
  BY DEF kind_of
<1>3. /\ rest \in Batches /\ Steps(todo) = Steps(rest) \cup {s} /\ todo \in Batches
      /\ Unready /\ Unready' /\ FrameRouted'
  BY AfterDoing
<1>4. \A t \in Steps(rest) : kind_of(t) \in {"stabilize", "insert"}
  BY <1>2, AfterStep DEF Doing, RefInv, IInv
<1>5. \A t \in X : t \in HandlerSteps /\ kind_of(t) = "remove"
  BY Typed, Kinds DEF removal, closed_clients
<1> HIDE DEF X
<1>6. todo' \in Batches /\ Steps(todo') = X \cup Steps(rest)
  <2>1. batch(X) \in Batches /\ Steps(batch(X)) = X
    BY <1>5, StepsOfBatch, X \in SUBSET HandlerSteps
  <2> QED BY <1>1, <1>3, <2>1, StepsOfConcat
<1>7. /\ \A t \in Steps(todo) : kind_of(t) \in {"sweep", "stabilize", "insert"}
      /\ \A t \in Steps(todo') : kind_of(t) \in {"remove", "stabilize", "insert"}
  BY <1>2, <1>3, <1>4, <1>5, <1>6
<1>8. /\ EachOnce(todo')
      /\ \A held : \A r \in Outlet, d \in Device : dispatch(held, todo')[r][d] = held[r][d]
      /\ \A held : \A r \in Outlet, d \in Device : dispatch(held, todo)[r][d] = held[r][d]
  <2>1. /\ \A t \in Steps(todo) : kind_of(t) \notin {"routing", "create", "destroy"}
        /\ \A t \in Steps(todo') : kind_of(t) \notin {"routing", "create", "destroy"}
    BY <1>7
  <2> QED BY <1>3, <1>6, <2>1, QuietOnly
<1>9. Suspended = {} /\ Suspended' = {}
  BY <1>7, NoneSuspended
<1>10. Implemented
  BY <1>1, <1>3, <1>8, <1>9, StepsAlter
<1>11. Forgotten'
  BY <1>7, Kinds DEF Forgotten, Pending
<1> QED BY <1>3, <1>8, <1>10, <1>11 DEF Kept

(* A client is dropped, unless its slot is vacant already.                  *)
LEMMA ClientGoneImplements ==
    ASSUME NEW s, NEW rest, Doing(s, rest), todo' = rest,
           kind_of(s) \notin {"reset", "abort", "forget"}, NEW c \in Client,
           \A r \in Outlet \ {c}, d \in Device : ~updates(s, r, d),
           remove_clients({c}), UNCHANGED router, UNCHANGED tasks, devices' = devices
    PROVE  Implemented /\ Kept
<1>1. /\ session' = [e \in Client |-> IF e = c THEN "vacant" ELSE session[e]]
      /\ queue' = [e \in Client |-> IF e = c THEN <<>> ELSE queue[e]]
      /\ writers' = [e \in Client |-> IF e = c THEN none ELSE writers[e]]
      /\ UNCHANGED <<task, commands, local_keys>>
  BY DEF remove_clients, tasks
<1>2. c # 0 /\ 0 \notin Client /\ c \in Outlet
  BY ClientAssumption DEF Outlet
<1>3. Live' = Live
  BY <1>1 DEF Live, handles_commands
<1>4. ASSUME NEW r \in Outlet \ {c}, NEW d \in Device
      PROVE  (Copied(r, d)' <=> Copied(r, d)) /\ received'[r][d] = received[r][d]
  <2>1. CASE r = 0
    BY <1>1, <2>1, CopiedIs, ReceivedAt DEF handles_commands
  <2>2. CASE r \in Client
    BY <1>1, <2>2, CopiedIs, ReceivedAt
  <2> QED BY <2>1, <2>2 DEF Outlet
<1>5. available_routes' = available_routes \ {c}
  BY <1>1, <1>2 DEF available_routes
<1>6. CASE session[c] = "vacant"
  <2>1. available_routes' = available_routes
    BY <1>2, <1>5, <1>6 DEF available_routes
  <2>2. \A d : ~Copied(c, d) /\ ~Copied(c, d)'
    BY <1>1, <1>6, CopiedIs
  <2>3. \A r \in Outlet, d \in Device :
           /\ Copied(r, d)' <=> Copied(r, d)
           /\ Copied(r, d) => received'[r][d] =
                 IF updates(s, r, d) THEN written(received[r][d], s.update) ELSE received[r][d]
    BY <1>4, <2>2
  <2> QED BY <1>3, <2>1, <2>3, StepCarriedOut
<1>7. CASE session[c] # "vacant"
  <2>1. /\ Steps(todo) = Steps(rest) \cup {s} /\ EachOnce(rest)
        /\ todo \in Batches /\ EachOnce(todo) /\ Popped(todo, s, rest)
        /\ \A r, d : value(r, d) = dispatch(received, todo)[r][d]
        /\ \A r, d : value(r, d)' = dispatch(received', todo')[r][d]
        /\ FrameRouted'
    BY AfterDoing DEF Doing
  <2>2. \A t : kind_of(t) \in {"reset", "abort", "forget"} =>
                (t \in Steps(todo') <=> t \in Steps(todo))
    BY <2>1
  <2>3. Suspended' = Suspended
    BY <2>2, SameSuspended
  <2>4. ASSUME NEW r \in Outlet \ {c}, NEW d \in Device
        PROVE  value(r, d)' = value(r, d)
    <3>1. received'[r][d] =
             IF updates(s, r, d) THEN written(received[r][d], s.update) ELSE received[r][d]
      BY <1>4
    <3>2. dispatch(received', rest)[r][d] = dispatch(received, todo)[r][d]
      BY <2>1, <3>1, DispatchPopped
    <3> QED BY <2>1, <3>2
  <2>5. \A d : ~Copied(c, d)'
    BY <1>1, CopiedIs
  <2>6. effective' = [effective EXCEPT ![c] = [d \in Device |-> {}]]
    <3>1. ASSUME NEW r \in Outlet, NEW d \in Device
          PROVE  (IF Copied(r, d)' THEN value(r, d)' ELSE {}) =
                    IF r = c THEN {} ELSE IF Copied(r, d) THEN value(r, d) ELSE {}
      BY <1>4, <2>4, <2>5
    <3>2. effective' = [r \in Outlet |-> [d \in Device |->
                          IF r = c THEN {} ELSE IF Copied(r, d) THEN value(r, d) ELSE {}]]
      BY <3>1, EffectiveIs
    <3> QED BY <1>2, <3>2, EffectiveIs
  <2>7. c \in available_routes \ {0}
    BY <1>2, <1>7 DEF available_routes
  <2>8. Outputs!LoseRoute(c)
    BY <1>3, <1>5, <2>3, <2>6, <2>7 DEF Outputs!LoseRoute, Outputs!router, router, Live
  <2>9. Implemented
    BY <1>2, <2>8, AbstractStep
  <2>10. Forgotten'
    <3>1. \A d \in Device : /\ Pending(about("abort", d))' <=> Pending(about("abort", d))
                            /\ Pending(about("forget", d))' <=> Pending(about("forget", d))
      BY <2>2, Kinds DEF Pending
    <3> QED BY <3>1 DEF Forgotten, Doing, RefInv
  <2> QED BY <2>1, <2>9, <2>10 DEF Kept
<1> QED BY <1>6, <1>7

LEMMA RemoveClientImplements ==
    ASSUME NEW s, NEW rest, Doing(s, rest), s.op = "remove", RemoveClient(s.client, rest)
    PROVE  Implemented /\ Kept
<1> DEFINE c == s.client
<1>1. kind_of(s) = "remove"
  BY DEF kind_of
<1>2. s \in HandlerSteps /\ c \in Client
  BY AfterDoing, StepKinds
<1>3. \A r, d : ~updates(s, r, d)
  BY <1>1, <1>2, UpdateKinds
<1>4. /\ remove_clients({c}) /\ todo' = rest
      /\ UNCHANGED router /\ UNCHANGED tasks /\ devices' = devices
  BY DEF RemoveClient
<1> HIDE DEF c
<1> QED BY <1>1, <1>2, <1>3, <1>4, ClientGoneImplements

LEMMA SendImplements ==
    ASSUME NEW s, NEW rest, Doing(s, rest), s.op = "send", Send(s.route, s.update, rest)
    PROVE  Implemented /\ Kept
<1> DEFINE c == s.route
           u == s.update
<1>1. s \in HandlerSteps /\ c \in Client /\ u \in ToClient
  BY AfterDoing, StepKinds
<1>2. /\ kind_of(s) \in {"routing", "create", "destroy"} /\ device_of(s) = u.device
      /\ u.device \in Device
      /\ kind_of(s) = "routing" \/ u.kind \in {"create", "destroy"}
  BY <1>1 DEF kind_of, device_of, ToClient, Update
<1>3. \A r, d : updates(s, r, d) <=> r = c /\ d = u.device
  BY DEF updates
<1>4. /\ try_send_update(c, u) /\ todo' = rest
      /\ UNCHANGED router /\ UNCHANGED tasks /\ devices' = devices
  BY DEF Send
<1>5. CASE session[c] = "open" /\ Len(queue[c]) < QUEUE
  <2>1. queue' = [queue EXCEPT ![c] = Append(@, u)] /\ UNCHANGED <<session, writers>>
    BY <1>4, <1>5 DEF try_send_update
  <2>2. UNCHANGED <<task, commands, local_keys>>
    BY <1>4 DEF tasks
  <2>3. /\ queue \in [Client -> Seq(ToClient)] /\ KnownInv /\ DeviceInv
        /\ Steps(todo) = Steps(rest) \cup {s}
    BY AfterDoing DEF Doing, RefInv, IInv, TypeInv
  <2>4. u.kind \in {"create", "destroy"} \/ u.device \in told(c)
    <3>1. SUFFICES ASSUME kind_of(s) = "routing" PROVE u.device \in told(c)
      BY <1>2
    <3>2. \A t \in Steps(todo) : kind_of(t) \in {"routing", "stabilize", "insert", "release"}
      BY <2>3, <3>1, AfterStep DEF Doing, RefInv, IInv
    <3>3. u.device \in devices
      BY <1>2, <2>3, <3>1 DEF DeviceInv
    <3>4. /\ ~Pending(send(c, DestroyDevice(u.device)))
          /\ ~Pending(send(c, CreateDevice(u.device)))
      BY <3>2, Kinds DEF Pending
    <3> HIDE DEF c, u
    <3> QED BY <1>1, <1>2, <1>5, <2>3, <3>3, <3>4 DEF KnownInv
  <2>5. ASSUME NEW r \in Outlet, NEW d \in Device
        PROVE  received'[r][d] =
                  IF updates(s, r, d) THEN written(received[r][d], s.update) ELSE received[r][d]
    <3>1. CASE r = 0
      <4>1. ~updates(s, r, d)
        BY <1>1, <1>3, <3>1, ClientAssumption
      <4> QED BY <2>2, <3>1, <4>1, ReceivedAt
    <3>2. CASE r \in Client /\ r # c
      <4>1. queue'[r] = queue[r] /\ writers'[r] = writers[r]
        BY <2>1, <2>3, <3>2
      <4> QED BY <1>3, <3>2, <4>1, ReceivedAt
    <3>3. CASE r = c
      <4>1. queue'[c] = Append(queue[c], u) /\ writers'[c] = writers[c] /\ queue[c] \in Seq(ToClient)
        BY <1>1, <2>1, <2>3
      <4>2. shown(carry(writers[c], Append(queue[c], u)), d) =
               IF u.device = d THEN written(shown(carry(writers[c], queue[c]), d), u)
                               ELSE shown(carry(writers[c], queue[c]), d)
        BY <1>1, <2>4, <4>1, ShownAppend DEF told
      <4>3. /\ received'[c][d] = shown(carry(writers[c], Append(queue[c], u)), d)
            /\ received[c][d] = shown(carry(writers[c], queue[c]), d)
        BY <1>1, <4>1, ReceivedAt
      <4> QED BY <1>3, <3>3, <4>2, <4>3
    <3> QED BY <3>1, <3>2, <3>3 DEF Outlet
  <2>6. /\ available_routes' = available_routes /\ Live' = Live
        /\ \A r, d : Copied(r, d)' <=> Copied(r, d)
    BY <2>1, <2>2 DEF available_routes, Live, handles_commands, Copied
  <2>7. kind_of(s) \notin {"reset", "abort", "forget"}
    BY <1>2
  <2> HIDE DEF c, u
  <2> QED BY <1>4, <2>5, <2>6, <2>7, StepCarriedOut
<1>6. CASE ~(session[c] = "open" /\ Len(queue[c]) < QUEUE)
  <2>1. remove_clients({c})
    BY <1>4, <1>6 DEF try_send_update
  <2>2. \A r \in Outlet \ {c}, d \in Device : ~updates(s, r, d)
    BY <1>3
  <2>3. kind_of(s) \notin {"reset", "abort", "forget"}
    BY <1>2
  <2> HIDE DEF c
  <2> QED BY <1>1, <1>4, <2>1, <2>2, <2>3, ClientGoneImplements
<1> QED BY <1>5, <1>6

LEMMA LocalImplements ==
    ASSUME NEW s, NEW rest, Doing(s, rest), s.op = "local", Local(s.update, rest)
    PROVE  Implemented /\ Kept
<1> DEFINE u == s.update
           e == u.device
<1>1. s \in HandlerSteps /\ u \in Routing /\ kind_of(s) = "routing" /\ device_of(s) = e
  BY AfterDoing, StepKinds DEF device_of
<1>2. s.route = 0
  BY <1>1 DEF HandlerSteps
<1>3. e \in Device /\ u \in Command
  BY <1>1 DEF Routing, Command, Update
<1>4. e \in devices
  <2>1. s \in Steps(todo)
    BY AfterDoing
  <2> QED BY <1>1, <2>1 DEF Doing, RefInv, IInv, DeviceInv
<1>5. \A r, d : updates(s, r, d) <=> r = 0 /\ d = e
  BY <1>2 DEF updates
<1>6. /\ commands' = IF ~is_closed(e) THEN [commands EXCEPT ![e] = Append(@, u)] ELSE commands
      /\ UNCHANGED <<task, local_keys, session, queue, writers>>
      /\ UNCHANGED router /\ devices' = devices /\ todo' = rest
  BY <1>4 DEF Local, sessions
<1>7. commands \in [Device -> Seq(Command)]
  BY DEF Doing, RefInv, IInv, TypeInv
<1>8. ASSUME NEW r \in Outlet, NEW d \in Device, Copied(r, d)
      PROVE  received'[r][d] =
                IF updates(s, r, d) THEN written(received[r][d], s.update) ELSE received[r][d]
  <2>1. CASE r \in Client
    <3>1. ~updates(s, r, d)
      BY <1>5, <2>1, ClientAssumption
    <3> QED BY <1>6, <2>1, <3>1, ReceivedAt
  <2>2. CASE r = 0 /\ d # e
    <3>1. commands'[d] = commands[d]
      BY <1>6, <1>7, <2>2
    <3> QED BY <1>5, <1>6, <2>2, <3>1, ReceivedAt
  <2>3. CASE r = 0 /\ d = e
    <3>1. ~is_closed(e)
      BY <1>8, <2>3, CopiedIs DEF handles_commands, is_closed
    <3>2. commands'[e] = Append(commands[e], u) /\ commands[e] \in Seq(Command)
      BY <1>3, <1>6, <1>7, <3>1
    <3>3. drained(local_keys[e], Append(commands[e], u)) = written(drained(local_keys[e], commands[e]), u)
      BY <1>3, <3>2, DrainedAppend
    <3>4. /\ received'[0][e] = drained(local_keys[e], Append(commands[e], u))
          /\ received[0][e] = drained(local_keys[e], commands[e])
      BY <1>3, <1>6, <3>2, ReceivedAt
    <3> QED BY <1>5, <2>3, <3>3, <3>4
  <2> QED BY <2>1, <2>2, <2>3 DEF Outlet
<1>9. /\ available_routes' = available_routes /\ Live' = Live
      /\ \A r, d : Copied(r, d)' <=> Copied(r, d)
  BY <1>6 DEF available_routes, Live, handles_commands, Copied
<1> HIDE DEF u, e
<1> QED BY <1>1, <1>6, <1>8, <1>9, StepCarriedOut

LEMMA StabilizeImplements ==
    ASSUME NEW s, NEW rest, Doing(s, rest), s.op = "stabilize", Stabilize(rest)
    PROVE  Implemented /\ Kept
<1> DEFINE z == step("stabilize")
           h == handoff_actions
<1>1. /\ UNCHANGED Undisturbed /\ devices' = devices
  BY DEF Stabilize, tasks, sessions, Undisturbed
<1>2. kind_of(s) = "stabilize"
  BY DEF kind_of
<1>3. CASE todo' = rest /\ UNCHANGED router
  BY <1>1, <1>2, <1>3, StepDone
<1>4. CASE retain_routes(available_routes) /\ todo' = handoff_actions \o stabilize \o rest
  <2>1. /\ rest \in Batches /\ Steps(todo) = Steps(rest) \cup {s} /\ todo \in Batches
        /\ Unready /\ Unready' /\ FrameRouted' /\ RefInv /\ TypeInv
        /\ \A r, d : value(r, d) = dispatch(received, todo)[r][d]
        /\ \A r, d : value(r, d)' = dispatch(received', todo')[r][d]
    BY AfterDoing DEF Doing, RefInv, IInv
  <2>2. \A t \in Steps(rest) : kind_of(t) \in {"insert", "release"}
    BY <1>2, AfterStep DEF Doing, RefInv, IInv
  <2>3. /\ h \in Batches /\ EachOnce(h)
        /\ \A held : \A r \in Outlet, e \in Device :
              dispatch(held, h)[r][e] =
                 IF r \in available_routes /\ e \in devices
                 THEN IF r = current' THEN handoff_keys(e)' ELSE {}
                 ELSE held[r][e]
    BY <2>1, HandoffMakes
  <2>4. RoutingTo(h, devices)
    BY <2>1, HandoffSteps
  <2>5. stabilize \in Batches /\ Steps(stabilize) = {z} /\ kind_of(z) = "stabilize"
    BY StabilizeStep DEF Does
  <2> HIDE DEF h, z
  <2> DEFINE t == h \o stabilize
  <2>6. /\ t \in Batches /\ EachOnce(t)
        /\ \A held : \A r \in Outlet, e \in Device : dispatch(held, t)[r][e] = dispatch(held, h)[r][e]
    <3>1. \A v \in Steps(stabilize) : kind_of(v) \notin {"routing", "create", "destroy"}
      BY <2>5
    <3> QED BY <2>3, <2>5, <3>1, ThenQuiet
  <2>7. Steps(t) = Steps(h) \cup {z}
    BY <2>3, <2>5, StepsOfConcat
  <2>8. todo' = t \o rest
    BY <1>4 DEF h
  <2> HIDE DEF t
  <2>9. /\ EachOnce(t \o rest)
        /\ \A held : \A r \in Outlet, e \in Device :
              dispatch(held, t \o rest)[r][e] = dispatch(held, t)[r][e]
    <3>1. \A v \in Steps(rest) : kind_of(v) \notin {"routing", "create", "destroy"}
      BY <2>2
    <3> QED BY <2>1, <2>6, <3>1, ThenQuiet
  <2>10. Steps(todo') = (Steps(h) \cup {z}) \cup Steps(rest)
    BY <2>1, <2>6, <2>7, <2>8, StepsOfConcat
  <2>11. /\ \A v \in Steps(todo') : kind_of(v) \in {"routing", "stabilize", "insert", "release"}
         /\ \A v \in Steps(todo) : kind_of(v) \in {"stabilize", "insert", "release"}
    BY <1>2, <2>1, <2>2, <2>4, <2>5, <2>10 DEF RoutingTo
  <2>12. Suspended = {} /\ Suspended' = {}
    BY <2>11, NoneSuspended
  <2>13. ASSUME NEW r \in Outlet, NEW e \in Device
         PROVE  dispatch(received, todo')[r][e] =
                   IF r \in available_routes /\ e \in devices
                   THEN IF r = current' THEN handoff_keys(e)' ELSE {}
                   ELSE received[r][e]
    <3>1. dispatch(received, todo')[r][e] = dispatch(received, t \o rest)[r][e]
      BY <2>8, Zenon
    <3> QED BY <2>3, <2>6, <2>9, <3>1
  <2>14. \A held : \A r \in Outlet, e \in Device : dispatch(held, todo)[r][e] = held[r][e]
    <3>1. \A v \in Steps(todo) : kind_of(v) \notin {"routing", "create", "destroy"}
      BY <2>11
    <3> QED BY <2>1, <3>1, QuietOnly
  <2>15. /\ received' = received /\ available_routes' = available_routes /\ Live' = Live
         /\ \A r, e : Copied(r, e)' <=> Copied(r, e)
    BY <1>1, SameOutlets
  <2>16. Outputs!reconcile_all
    <3>1. \A e \in Device \ devices : physical_keys'[e] = physical_keys[e]
      BY <1>4 DEF retain_routes
    <3>2. \A r \in Outlet, e \in devices :
             r \in available_routes =>
                dispatch(received, todo')[r][e] = IF r = current' THEN handoff_keys(e)' ELSE {}
      BY <2>1, <2>13 DEF TypeInv
    <3>3. \A r \in Outlet, e \in Device \ devices : value(r, e)' = value(r, e)
      <4>1. ASSUME NEW r \in Outlet, NEW e \in Device \ devices
            PROVE  value(r, e)' = value(r, e)
        <5>1. value(r, e)' = dispatch(received', todo')[r][e]
          BY <2>1
        <5>2. dispatch(received, todo')[r][e] = received[r][e]
          BY <2>13
        <5> QED BY <2>1, <2>14, <2>15, <5>1, <5>2
      <4> QED BY <4>1
    <3> QED BY <1>1, <2>1, <2>12, <3>1, <3>2, <3>3, Reconciled
  <2>17. Outputs!RetainRoutes
    BY <1>1, <1>4, <2>12, <2>15, <2>16, SameRouter DEF Outputs!RetainRoutes, Live
  <2>18. Implemented
    BY <2>17, AbstractStep
  <2>19. EachOnce(todo')
    BY <2>8, <2>9, Zenon
  <2>20. Forgotten'
    BY <2>11, Kinds DEF Forgotten, Pending
  <2> QED BY <2>1, <2>18, <2>19, <2>20 DEF Kept
<1> QED BY <1>3, <1>4 DEF Stabilize

LEMMA InsertImplements ==
    ASSUME NEW s, NEW rest, Doing(s, rest), s.op = "insert", Insert(rest)
    PROVE  Implemented /\ Kept
<1> DEFINE z == step("stabilize")
<1>1. PICK c \in Client :
         /\ insert_client(c)
         /\ todo' = (batch({send(c, CreateDevice(d)) : d \in devices}) \o stabilize) \o rest
  BY DEF Insert
<1>2. /\ UNCHANGED router /\ UNCHANGED tasks /\ devices' = devices
      /\ UNCHANGED <<task, commands, local_keys, current>>
  BY DEF Insert, tasks, router
<1>3. kind_of(s) = "insert"
  BY DEF kind_of
<1>4. /\ rest \in Batches /\ Steps(todo) = Steps(rest) \cup {s} /\ todo \in Batches
      /\ Unready /\ Unready' /\ FrameRouted' /\ RefInv /\ TypeInv /\ BoundInv
      /\ \A r, d : value(r, d) = dispatch(received, todo)[r][d]
      /\ \A r, d : value(r, d)' = dispatch(received', todo')[r][d]
  BY AfterDoing DEF Doing, RefInv, IInv
<1>5. Steps(rest) = {}
  BY <1>3, AfterStep DEF Doing, RefInv, IInv
<1> DEFINE X == {send(c, CreateDevice(d)) : d \in devices}
<1>6. /\ batch(X) \in Batches /\ EachOnce(batch(X)) /\ Steps(batch(X)) = X
      /\ \A held : \A r \in Outlet, d \in Device :
            dispatch(held, batch(X))[r][d] = IF r = c /\ d \in devices THEN {} ELSE held[r][d]
  <2>1. X = {send(q, CreateDevice(d)) : q \in {c}, d \in devices}
    OBVIOUS
  <2>2. Renews(X, {c}, devices)
    BY <1>4, <2>1 DEF Renews, TypeInv
  <2> HIDE DEF X
  <2>3. /\ X \in SUBSET HandlerSteps /\ Single(X)
        /\ \A held : \A r \in Outlet, d \in Device :
              dispatch(held, batch(X))[r][d] =
                 IF r \in {c} /\ d \in devices THEN {} ELSE held[r][d]
    BY <2>2, RenewalMakes
  <2> QED BY <2>3, StepsOfBatch, OnceBatch
<1>7. \A v \in X : kind_of(v) = "create"
  BY Kinds
<1>8. stabilize \in Batches /\ Steps(stabilize) = {z} /\ kind_of(z) = "stabilize"
  BY StabilizeStep DEF Does
<1> DEFINE t == batch(X) \o stabilize
<1>9. todo' = t \o rest
  BY <1>1
<1> HIDE DEF X, z
<1>10. /\ t \in Batches /\ EachOnce(t)
       /\ \A held : \A r \in Outlet, e \in Device :
             dispatch(held, t)[r][e] = dispatch(held, batch(X))[r][e]
  <2>1. \A v \in Steps(stabilize) : kind_of(v) \notin {"routing", "create", "destroy"}
    BY <1>8
  <2> QED BY <1>6, <1>8, <2>1, ThenQuiet
<1>11. Steps(t) = X \cup {z}
  BY <1>6, <1>8, StepsOfConcat
<1> HIDE DEF t
<1>12. /\ EachOnce(t \o rest)
       /\ \A held : \A r \in Outlet, e \in Device :
             dispatch(held, t \o rest)[r][e] = dispatch(held, t)[r][e]
  BY <1>4, <1>5, <1>10, ThenQuiet
<1>13. Steps(todo') = X \cup {z}
  BY <1>4, <1>5, <1>9, <1>10, <1>11, StepsOfConcat
<1>14. /\ \A v \in Steps(todo') : kind_of(v) \in {"create", "stabilize"}
       /\ \A v \in Steps(todo) : kind_of(v) = "insert"
  BY <1>3, <1>4, <1>5, <1>7, <1>8, <1>13
<1>15. Suspended = {} /\ Suspended' = {}
  BY <1>14, NoneSuspended
<1>16. \A held : \A r \in Outlet, e \in Device : dispatch(held, todo)[r][e] = held[r][e]
  <2>1. \A v \in Steps(todo) : kind_of(v) \notin {"routing", "create", "destroy"}
    BY <1>14
  <2> QED BY <1>4, <2>1, QuietOnly
<1>17. /\ session[c] = "vacant" /\ queue[c] = <<>> /\ writers[c] = none
       /\ session'[c] # "vacant" /\ UNCHANGED <<queue, writers>>
       /\ \A q \in Client : q # c => session'[q] = session[q]
  BY <1>1, <1>4 DEF insert_client, BoundInv, TypeInv
<1>18. received' = received /\ Live' = Live
  BY <1>2, <1>17 DEF received, Live, handles_commands
<1>19. c # 0 /\ c \in Outlet /\ available_routes' = available_routes \cup {c}
       /\ c \notin available_routes
  BY <1>17, ClientAssumption DEF Outlet, available_routes
<1>20. ASSUME NEW r \in Outlet, NEW e \in Device
       PROVE  (IF Copied(r, e)' THEN value(r, e)' ELSE {}) =
                 IF Copied(r, e) THEN value(r, e) ELSE {}
  <2>1. dispatch(received, todo')[r][e] = IF r = c /\ e \in devices THEN {} ELSE received[r][e]
    <3>1. dispatch(received, todo')[r][e] = dispatch(received, t \o rest)[r][e]
      BY <1>9, Zenon
    <3> QED BY <1>6, <1>10, <1>12, <3>1
  <2>2. value(r, e)' = IF r = c /\ e \in devices THEN {} ELSE received[r][e]
    BY <1>4, <1>18, <2>1
  <2>3. value(r, e) = received[r][e]
    BY <1>4, <1>16
  <2>4. CASE r = c
    <3>1. ~Copied(c, e)
      BY <1>17, CopiedIs
    <3>2. received[c][e] = {}
      <4>1. carry(writers[c], queue[c]) = none
        BY <1>17, ToldEmpty
      <4> QED BY <4>1, ReceivedAt DEF shown, none
    <3> QED BY <2>2, <2>4, <3>1, <3>2
  <2>5. CASE r # c
    <3>1. Copied(r, e)' <=> Copied(r, e)
      BY <1>2, <1>17, <2>5, CopiedIs DEF Outlet, handles_commands
    <3> QED BY <2>2, <2>3, <2>5, <3>1
  <2> QED BY <2>4, <2>5
<1>21. effective' = effective
  BY <1>20, EffectiveIs
<1>22. current \in available_routes
  <2>1. s \in HandlerSteps /\ s \in Steps(todo)
    BY AfterDoing
  <2>2. \A v \in Steps(todo) : v = s
    BY <1>4, <1>5
  <2> QED BY <2>2 DEF Doing, RefInv, IInv, RouteInv
<1>23. Outputs!GainRoute(c)
  BY <1>2, <1>15, <1>18, <1>19, <1>21, <1>22
     DEF Outputs!GainRoute, Outputs!Settled, Outputs!router, router, Live
<1>24. Implemented
  BY <1>19, <1>23, AbstractStep
<1>25. EachOnce(todo')
  BY <1>9, <1>12, Zenon
<1>26. Forgotten'
  BY <1>14, Kinds DEF Forgotten, Pending
<1> QED BY <1>4, <1>24, <1>25, <1>26 DEF Kept

(* What a device that was added or reset holds is restored on the current   *)
(* route.                                                                   *)
LEMMA Recovered ==
    ASSUME NEW s, NEW rest, Doing(s, rest), kind_of(s) \in {"add", "reset"}, NEW d \in Device,
           todo' = recovery_actions(d) \o stabilize \o rest, recovery_keys(d)' \in SUBSET Key,
           available_routes' = available_routes,
           \A r \in Outlet, e \in Device :
              e # d => /\ Copied(r, e)' <=> Copied(r, e)
                       /\ received'[r][e] = received[r][e]
    PROVE  Outputs!reconcile_device(d) /\ Kept /\ Suspended' = {}
<1> DEFINE z == step("stabilize")
           h == recovery_actions(d)
<1>1. /\ rest \in Batches /\ Steps(todo) = Steps(rest) \cup {s} /\ todo \in Batches
      /\ Unready /\ Unready' /\ FrameRouted' /\ RefInv /\ TypeInv
      /\ \A r, e : value(r, e) = dispatch(received, todo)[r][e]
      /\ \A r, e : value(r, e)' = dispatch(received', todo')[r][e]
  BY AfterDoing DEF Doing, RefInv, IInv
<1>2. Steps(rest) = {}
  BY AfterStep DEF Doing, RefInv, IInv
<1>3. /\ h \in Batches /\ EachOnce(h)
      /\ \A held : \A r \in Outlet, e \in Device :
            dispatch(held, h)[r][e] =
               IF r \in available_routes /\ e = d
               THEN IF r = current THEN recovery_keys(d)' ELSE {}
               ELSE held[r][e]
  BY <1>1, RecoveryMakes
<1>4. stabilize \in Batches /\ Steps(stabilize) = {z} /\ kind_of(z) = "stabilize"
  BY StabilizeStep DEF Does
<1>5. \A v \in Steps(h) : kind_of(v) = "routing"
  BY <1>1, RecoverySteps DEF RoutingTo
<1> DEFINE t == h \o stabilize
<1>6. todo' = t \o rest
  OBVIOUS
<1> HIDE DEF h, z
<1>7. /\ t \in Batches /\ EachOnce(t) /\ Steps(t) = Steps(h) \cup {z}
      /\ \A held : \A r \in Outlet, e \in Device : dispatch(held, t)[r][e] = dispatch(held, h)[r][e]
  <2>1. \A v \in Steps(stabilize) : kind_of(v) \notin {"routing", "create", "destroy"}
    BY <1>4
  <2> QED BY <1>3, <1>4, <2>1, ThenQuiet, StepsOfConcat
<1> HIDE DEF t
<1>8. /\ EachOnce(t \o rest)
      /\ \A held : \A r \in Outlet, e \in Device :
            dispatch(held, t \o rest)[r][e] = dispatch(held, t)[r][e]
  BY <1>1, <1>2, <1>7, ThenQuiet
<1>9. Steps(todo') = Steps(h) \cup {z}
  BY <1>1, <1>2, <1>6, <1>7, StepsOfConcat
<1>10. \A v \in Steps(todo') : kind_of(v) \in {"routing", "stabilize"}
  BY <1>4, <1>5, <1>9
<1>11. Suspended' = {}
  BY <1>10, NoneSuspended
<1>12. \A held : \A r \in Outlet, e \in Device : dispatch(held, todo)[r][e] = held[r][e]
  <2>1. \A v \in Steps(todo) : kind_of(v) \notin {"routing", "create", "destroy"}
    BY <1>1, <1>2
  <2> QED BY <1>1, <2>1, QuietOnly
<1>13. ASSUME NEW r \in Outlet, NEW e \in Device
       PROVE  value(r, e)' = IF r \in available_routes /\ e = d
                             THEN IF r = current THEN recovery_keys(d)' ELSE {}
                             ELSE received'[r][e]
  <2>1. dispatch(received', todo')[r][e] = dispatch(received', t \o rest)[r][e]
    BY <1>6, Zenon
  <2>2. dispatch(received', t \o rest)[r][e] = dispatch(received', h)[r][e]
    BY <1>7, <1>8
  <2> QED BY <1>1, <1>3, <2>1, <2>2
<1>14. ASSUME NEW r \in Outlet, NEW e \in Device
       PROVE  (IF Copied(r, e)' THEN value(r, e)' ELSE {}) =
                 IF e = d
                 THEN IF r = current /\ Outputs!Wired(r, d)' THEN recovery_keys(d)' ELSE {}
                 ELSE IF Copied(r, e) THEN value(r, e) ELSE {}
  <2>1. CASE e = d
    <3>1. Outputs!Wired(r, d)' <=> Copied(r, d)'
      BY <1>11, PresentIs
    <3>2. Copied(r, d)' => r \in available_routes
      BY PresentIs DEF Outputs!Present
    <3> QED BY <1>13, <2>1, <3>1, <3>2
  <2>2. CASE e # d
    <3>1. value(r, e)' = received[r][e] /\ value(r, e) = received[r][e]
      BY <1>1, <1>12, <1>13, <2>2
    <3> QED BY <2>2, <3>1
  <2> QED BY <2>1, <2>2
<1>15. effective' = [r \in Outlet |-> [effective[r] EXCEPT
                      ![d] = IF r = current /\ Outputs!Wired(r, d)' THEN recovery_keys(d)' ELSE {}]]
  <2>1. effective' = [r \in Outlet |-> [e \in Device |->
                         IF e = d
                         THEN IF r = current /\ Outputs!Wired(r, d)' THEN recovery_keys(d)' ELSE {}
                         ELSE effective[r][e]]]
    BY <1>14, EffectiveIs
  <2>2. effective = [r \in Outlet |-> [e \in Device |-> effective[r][e]]]
    BY EffectiveIs
  <2> QED BY <2>1, <2>2
<1>16. Outputs!reconcile_device(d)
  BY <1>15, SameRouter DEF Outputs!reconcile_device
<1>17. EachOnce(todo')
  BY <1>6, <1>8, Zenon
<1>18. Forgotten'
  BY <1>10, Kinds DEF Forgotten, Pending
<1> QED BY <1>1, <1>11, <1>16, <1>17, <1>18 DEF Kept

LEMMA AddImplements ==
    ASSUME NEW s, NEW rest, Doing(s, rest), s.op = "add", Add(s.device, rest)
    PROVE  Implemented /\ Kept
<1> DEFINE d == s.device
<1>1. kind_of(s) = "add" /\ device_of(s) = d
  BY DEF kind_of, device_of
<1>2. s \in HandlerSteps /\ Steps(todo) = Steps(rest) \cup {s} /\ RefInv
  BY AfterDoing DEF Doing
<1>3. d \in Device
  BY <1>1, <1>2, StepKinds
<1>4. PICK pressed \in SUBSET Key : add_device(d, pressed)
  BY DEF Add
<1>5. /\ task' = [task EXCEPT ![d] = "reading"]
      /\ devices' = devices \cup {d}
      /\ todo' = recovery_actions(d) \o stabilize \o rest
      /\ UNCHANGED <<commands, local_keys, session, queue, writers>>
  BY DEF Add, spawn, sessions
<1> HIDE DEF d
<1>6. /\ task \in [Device -> TaskState] /\ physical_keys \in [Device -> SUBSET Key]
      /\ d \notin devices
  BY <1>1, <1>2 DEF RefInv, IInv, TypeInv, DeviceInv
<1>7. recovery_keys(d)' \in SUBSET Key
  BY <1>3, <1>4, <1>6 DEF recovery_keys, add_device
<1>8. Suspended = {}
  <2>1. Steps(rest) = {}
    BY <1>1, AfterStep DEF Doing, RefInv, IInv
  <2> QED BY <1>1, <1>2, <2>1, NoneSuspended
<1>9. /\ received' = received /\ available_routes' = available_routes
      /\ Live' = Live \cup {d}
      /\ \A r : \A e \in Device : e # d => (Copied(r, e)' <=> Copied(r, e))
  <2>1. /\ \A e \in Device : e # d => (handles_commands(e)' <=> handles_commands(e))
        /\ handles_commands(d)'
    BY <1>3, <1>5, <1>6 DEF handles_commands
  <2>2. received' = received /\ available_routes' = available_routes
    BY <1>5 DEF received, available_routes
  <2>3. \A r : \A e \in Device : e # d => (Copied(r, e)' <=> Copied(r, e))
    BY <1>5, <2>1 DEF Copied
  <2> QED BY <1>3, <2>1, <2>2, <2>3 DEF Live
<1>10. Outputs!reconcile_device(d) /\ Kept /\ Suspended' = {}
  BY <1>1, <1>3, <1>5, <1>7, <1>9, Recovered
<1>11. Outputs!AddDevice(d, pressed)
  BY <1>4, <1>5, <1>6, <1>8, <1>9, <1>10, SameRouter DEF Outputs!AddDevice, Live
<1> QED BY <1>3, <1>10, <1>11, AbstractStep

(* The device that a reset is about is the only one suspended.              *)
LEMMA ResetSuspends ==
    ASSUME NEW s, NEW rest, Doing(s, rest), s.op = "reset"
    PROVE  Suspended = {s.device} /\ s.device \in devices
<1> DEFINE d == s.device
<1>1. kind_of(s) = "reset" /\ device_of(s) = d
  BY DEF kind_of, device_of
<1>2. s \in HandlerSteps /\ Steps(todo) = Steps(rest) \cup {s} /\ RefInv
  BY AfterDoing DEF Doing
<1>3. Steps(rest) = {}
  BY <1>1, AfterStep DEF Doing, RefInv, IInv
<1>4. d \in Device /\ s = about("reset", d)
  BY <1>1, <1>2, StepKinds
<1>5. d \in devices
  BY <1>1, <1>2 DEF RefInv, IInv, DeviceInv
<1> HIDE DEF d
<1>6. \A t : Pending(t) <=> t = s
  BY <1>2, <1>3 DEF Pending
<1>7. \A e : kind_of(about("abort", e)) = "abort" /\ kind_of(about("forget", e)) = "forget"
  BY Kinds
<1>8. \A e : about("reset", e) = s <=> e = d
  BY <1>4 DEF about
<1>9. \A e \in Device : e \in Suspended <=> e = d
  BY <1>1, <1>6, <1>7, <1>8, SuspendedIs
<1>10. Suspended = {d}
  BY <1>4, <1>9, SuspendedIs
<1> QED BY <1>5, <1>10 DEF d

\* Of a task that has ended, the device is removed.
LEMMA EndedImplements ==
    ASSUME NEW s, NEW rest, Doing(s, rest), s.op = "reset", NEW d \in devices, d = s.device,
           devices' = devices \ {d}, todo' = destroy_device(d) \o rest,
           UNCHANGED <<router, tasks, sessions>>
    PROVE  Implemented /\ Kept
<1>1. kind_of(s) = "reset"
  BY DEF kind_of
<1>2. /\ s \in HandlerSteps /\ Steps(todo) = Steps(rest) \cup {s} /\ RefInv
      /\ rest \in Batches /\ Unready /\ Unready' /\ FrameRouted'
      /\ \A r, e : value(r, e) = dispatch(received, todo)[r][e]
  BY AfterDoing DEF Doing
<1>3. Steps(rest) = {}
  BY <1>1, AfterStep DEF Doing, RefInv, IInv
<1>4. d \in Device /\ s = about("reset", d)
  BY <1>2, StepKinds DEF RefInv, IInv, TypeInv
<1>5. todo' = destroy_device(d)
  <2>1. activation_id[d] \in 1 .. activations /\ activations \in 0 .. ACTIVATIONS
    BY <1>2, <1>4 DEF RefInv, IInv, DeviceInv, ActivationInv, TypeInv
  <2>2. activation_id[d] \in 1 .. ACTIVATIONS
    BY <2>1, BoundAssumption
  <2>3. destroy_device(d) \in Batches
    BY <1>2, <1>4, <2>2, DestroyMakes DEF RefInv, IInv
  <2>4. rest = <<>>
    BY <1>2, <1>3, NoStepsLeft
  <2> HIDE DEF destroy_device
  <2> QED BY <2>3, <2>4 DEF Batches
<1>6. /\ EachOnce(todo') /\ Suspended' = {d} /\ Forgotten'
      /\ \A held : \A q \in Outlet, e \in Device :
            dispatch(held, todo')[q][e] = IF q \in Clients /\ e = d THEN {} ELSE held[q][e]
  BY <1>2, <1>5, DestroyPending
<1>7. Suspended = {d}
  BY ResetSuspends
<1>8. \A held : \A r \in Outlet, e \in Device : dispatch(held, todo)[r][e] = held[r][e]
  <2>1. \A v \in Steps(todo) : kind_of(v) \notin {"routing", "create", "destroy"}
    BY <1>1, <1>2, <1>3
  <2>2. todo \in Batches
    BY AfterDoing
  <2> QED BY <2>1, <2>2, QuietOnly
<1>9. ASSUME NEW r \in Outlet, NEW e \in Device, Copied(r, e)
      PROVE  dispatch(received, todo')[r][e] = dispatch(received, todo)[r][e]
  <2>1. CASE r \in Clients /\ e = d
    <3>1. r \in Client
      BY <1>2, <2>1, RoutesType DEF RefInv, IInv
    <3>2. effective[r][d] = {}
      BY <1>2, <1>7, <3>1 DEF RefInv, Silent
    <3>3. value(r, d) = {}
      BY <1>4, <1>9, <2>1, <3>2, EffectiveIs
    <3> QED BY <1>2, <1>6, <2>1, <3>3
  <2>2. CASE ~(r \in Clients /\ e = d)
    BY <1>6, <1>8, <2>2
  <2> QED BY <2>1, <2>2
<1>10. UNCHANGED Undisturbed
  BY DEF tasks, sessions, Undisturbed
<1>11. Implemented
  <2>1. Suspended' = Suspended /\ devices' \cup Suspended' = devices \cup Suspended
    BY <1>6, <1>7
  <2> QED BY <1>2, <1>9, <1>10, <2>1, StepsAlter
<1> QED BY <1>2, <1>6, <1>11 DEF Kept

LEMMA ResetImplements ==
    ASSUME NEW s, NEW rest, Doing(s, rest), s.op = "reset", ResetTask(s.device, rest)
    PROVE  Implemented /\ Kept
<1> DEFINE d == s.device
<1>1. kind_of(s) = "reset" /\ device_of(s) = d
  BY DEF kind_of, device_of
<1>2. s \in HandlerSteps /\ Steps(todo) = Steps(rest) \cup {s} /\ RefInv
  BY AfterDoing DEF Doing
<1>3. d \in devices /\ d \in Device /\ s = about("reset", d)
  <2>1. d \in Device /\ s = about("reset", d)
    BY <1>1, <1>2, StepKinds
  <2> QED BY <1>1, <1>2, <2>1 DEF RefInv, IInv, DeviceInv
<1> HIDE DEF d
<1>4. CASE /\ devices' = devices \ {d} /\ todo' = destroy_device(d) \o rest
           /\ UNCHANGED <<router, tasks, sessions>>
  BY <1>3, <1>4, EndedImplements DEF d
<1>5. CASE /\ commands' = [commands EXCEPT ![d] = Append(@, Reset(d))]
           /\ \E pressed \in SUBSET Key : reset_device(d, pressed)
           /\ todo' = recovery_actions(d) \o stabilize \o rest
           /\ UNCHANGED <<task, activation_id, local_keys, events, sessions, devices>>
  <2>1. PICK pressed \in SUBSET Key : reset_device(d, pressed)
    BY <1>5
  <2>2. /\ physical_keys \in [Device -> SUBSET Key]
        /\ commands = [e \in Device |-> commands[e]]
    BY <1>2 DEF RefInv, IInv, TypeInv
  <2>3. recovery_keys(d)' \in SUBSET Key
    BY <1>3, <2>1, <2>2 DEF recovery_keys, reset_device
  <2>4. UNCHANGED <<task, local_keys, session, queue, writers, devices>>
    BY <1>5 DEF sessions
  <2>5. /\ available_routes' = available_routes /\ Live' = Live
        /\ \A r, e : Copied(r, e)' <=> Copied(r, e)
    BY <2>4 DEF available_routes, Live, handles_commands, Copied
  <2>6. \A e \in Device : e # d => commands'[e] = commands[e]
    BY <1>5, <2>2
  <2>7. ASSUME NEW r \in Outlet, NEW e \in Device, e # d
        PROVE  received'[r][e] = received[r][e]
    <3>1. CASE r = 0
      BY <2>4, <2>6, <2>7, <3>1, ReceivedAt
    <3>2. CASE r \in Client
      BY <2>4, <3>2, ReceivedAt
    <3> QED BY <3>1, <3>2 DEF Outlet
  <2>8. Outputs!reconcile_device(d) /\ Kept /\ Suspended' = {}
    BY <1>1, <1>3, <1>5, <2>3, <2>5, <2>7, Recovered
  <2>9. Suspended = {d}
    BY ResetSuspends DEF d
  <2>10. devices' \cup Suspended' = devices \cup Suspended
    BY <1>3, <2>4, <2>8, <2>9
  <2>11. Outputs!ResetDevice(d, pressed)
    BY <2>1, <2>5, <2>8, <2>9, <2>10, SameRouter DEF Outputs!ResetDevice, Live
  <2> QED BY <1>3, <2>8, <2>11, AbstractStep
<1> QED BY <1>4, <1>5 DEF ResetTask, d

LEMMA AbortImplements ==
    ASSUME NEW s, NEW rest, Doing(s, rest), s.op = "abort", Abort(s.device, rest)
    PROVE  Implemented /\ Kept
<1> DEFINE d == s.device
<1>1. kind_of(s) = "abort" /\ device_of(s) = d
  BY DEF kind_of, device_of
<1>2. /\ s \in HandlerSteps /\ Steps(todo) = Steps(rest) \cup {s} /\ RefInv
      /\ rest \in Batches /\ EachOnce(rest) /\ todo \in Batches /\ FrameRouted'
      /\ \A r, e : value(r, e) = dispatch(received, todo)[r][e]
      /\ \A r, e : value(r, e)' = dispatch(received', todo')[r][e]
  BY AfterDoing DEF Doing
<1>3. d \in Device /\ s = about("abort", d)
  BY <1>1, <1>2, StepKinds
<1>4. \A t \in Steps(rest) : kind_of(t) \in {"stabilize", "release", "forget"}
  BY <1>1, AfterStep DEF Doing, RefInv, IInv
<1> HIDE DEF d
<1>5. /\ task' = [task EXCEPT ![d] = "none"] /\ todo' = rest
      /\ commands' = [commands EXCEPT ![d] = <<>>]
      /\ local_keys' = [local_keys EXCEPT ![d] = {}]
      /\ UNCHANGED router /\ UNCHANGED <<session, queue, writers, devices>>
  BY DEF Abort, abort, sessions, d
<1>6. /\ task \in [Device -> TaskState]
      /\ commands = [e \in Device |-> commands[e]]
      /\ local_keys = [e \in Device |-> local_keys[e]]
  BY <1>2 DEF RefInv, IInv, TypeInv
<1>7. /\ available_routes' = available_routes
      /\ ~handles_commands(d)'
      /\ \A e \in Device : e # d => (handles_commands(e)' <=> handles_commands(e))
  BY <1>3, <1>5, <1>6 DEF available_routes, handles_commands
<1>8. Suspended' = Suspended
  <2>1. \A e : /\ \A op \in {"abort", "forget", "reset"} : kind_of(about(op, e)) = op
               /\ device_of(about("abort", e)) = e
    BY Kinds
  <2>2. ASSUME NEW e \in Device, e \in Suspended PROVE e \in Suspended'
    <3>1. CASE Pending(about("abort", e))
      <4>1. about("abort", e) = s
        BY <1>2, <1>4, <2>1, <3>1 DEF Pending
      <4>2. e = d
        BY <1>1, <2>1, <4>1
      <4>3. Pending(about("forget", d))
        BY <1>2, <3>1, <4>2 DEF RefInv, Forgotten
      <4>4. Pending(about("forget", d))'
        BY <1>1, <1>2, <1>5, <2>1, <4>3 DEF Pending
      <4> QED BY <4>2, <4>4, SuspendedIs
    <3>2. CASE Pending(about("reset", e)) \/ Pending(about("forget", e))
      <4>1. Pending(about("reset", e))' \/ Pending(about("forget", e))'
        BY <1>1, <1>2, <1>5, <2>1, <3>2 DEF Pending
      <4> QED BY <4>1, SuspendedIs
    <3> QED BY <2>2, <3>1, <3>2, SuspendedIs
  <2>3. ASSUME NEW e \in Device, e \in Suspended' PROVE e \in Suspended
    <3>1. \A t : Pending(t)' => Pending(t)
      BY <1>2, <1>5 DEF Pending
    <3>2. \/ Pending(about("reset", e))' \/ Pending(about("abort", e))'
          \/ Pending(about("forget", e))'
      BY <2>3, SuspendedIs
    <3>3. \/ Pending(about("reset", e)) \/ Pending(about("abort", e))
          \/ Pending(about("forget", e))
      BY <3>2, <1>2, <1>5 DEF Pending
    <3> QED BY <3>3, SuspendedIs
  <2>4. Suspended \subseteq Device /\ Suspended' \subseteq Device
    BY SuspendedIs
  <2> QED BY <2>2, <2>3, <2>4
<1>9. ASSUME NEW r \in Outlet, NEW e \in Device, ~(r = 0 /\ e = d)
      PROVE  /\ Copied(r, e)' <=> Copied(r, e)
             /\ value(r, e)' = value(r, e)
  <2>1. Copied(r, e)' <=> Copied(r, e)
    BY <1>5, <1>7, <1>9 DEF Copied
  <2>2. received'[r][e] = received[r][e]
    <3>1. CASE r = 0
      BY <1>5, <1>6, <1>9, <3>1, ReceivedAt
    <3>2. CASE r \in Client
      BY <1>5, <3>2, ReceivedAt
    <3> QED BY <3>1, <3>2 DEF Outlet
  <2>3. \A held : dispatch(held, todo)[r][e] = held[r][e]
    <3>1. \A v \in Steps(todo) : kind_of(v) \notin {"routing", "create", "destroy"}
      BY <1>1, <1>2, <1>4
    <3> QED BY <1>2, <3>1, QuietOnly
  <2>4. \A held : dispatch(held, rest)[r][e] = held[r][e]
    <3>1. \A v \in Steps(rest) : kind_of(v) \notin {"routing", "create", "destroy"}
      BY <1>4
    <3> QED BY <1>2, <3>1, QuietOnly
  <2>5. dispatch(received', todo')[r][e] = received'[r][e]
    BY <1>5, <2>4
  <2> QED BY <1>2, <2>1, <2>2, <2>3, <2>5
<1>10. 0 \in Outlet /\ ~Copied(0, d)'
  BY <1>7, CopiedIs DEF Outlet
<1>11. effective' = [r \in Outlet |-> [e \in Device |->
                       IF r = 0 /\ e = d THEN {} ELSE effective[r][e]]]
  <2>1. ASSUME NEW r \in Outlet, NEW e \in Device
        PROVE  (IF Copied(r, e)' THEN value(r, e)' ELSE {}) =
                  IF r = 0 /\ e = d THEN {}
                  ELSE IF Copied(r, e) THEN value(r, e) ELSE {}
    BY <1>9, <1>10
  <2> QED BY <2>1, EffectiveIs
<1>12. effective = [r \in Outlet |-> [e \in Device |-> effective[r][e]]]
  BY EffectiveIs
<1>13. Implemented
  <2>1. CASE d \in Live
    <3>1. Live' = Live \ {d}
      BY <1>3, <1>7, LiveIs
    <3>2. effective' = [effective EXCEPT ![0][d] = {}]
      BY <1>3, <1>10, <1>11, <1>12
    <3>3. Outputs!FailDevice(d)
      BY <1>5, <1>7, <1>8, <2>1, <3>1, <3>2
         DEF Outputs!FailDevice, Outputs!router, router, Live
    <3> QED BY <1>3, <3>3, AbstractStep
  <2>2. CASE d \notin Live
    <3>1. Live' = Live
      BY <1>3, <1>7, <2>2, LiveIs
    <3>2. ~Copied(0, d)
      BY <1>3, <2>2, LiveIs, CopiedIs
    <3>3. effective[0][d] = {}
      BY <1>3, <1>10, <3>2, EffectiveIs
    <3>4. effective' = effective
      BY <1>11, <1>12, <3>3
    <3> QED BY <1>5, <1>7, <1>8, <3>1, <3>4, Stutters
  <2> QED BY <2>1, <2>2
<1>14. Forgotten'
  BY <1>4, <1>5, Kinds DEF Forgotten, Pending
<1> QED BY <1>2, <1>5, <1>13, <1>14 DEF Kept

LEMMA ForgetImplements ==
    ASSUME NEW s, NEW rest, Doing(s, rest), s.op = "forget", Forget(s.device, rest)
    PROVE  Implemented /\ Kept
<1> DEFINE d == s.device
<1>1. kind_of(s) = "forget" /\ device_of(s) = d
  BY DEF kind_of, device_of
<1>2. /\ s \in HandlerSteps /\ Steps(todo) = Steps(rest) \cup {s} /\ RefInv
      /\ EachOnce(rest) /\ Unready /\ Unready' /\ FrameRouted'
      /\ \A r, e : value(r, e) = dispatch(received, todo)[r][e]
      /\ \A r, e : value(r, e)' = dispatch(received', todo')[r][e]
  BY AfterDoing DEF Doing
<1>3. d \in Device /\ s = about("forget", d)
  BY <1>1, <1>2, StepKinds
<1>4. \A t \in Steps(rest) : kind_of(t) \in {"stabilize", "release"}
  BY <1>1, AfterStep DEF Doing, RefInv, IInv
<1>5. d \notin devices
  BY <1>1, <1>2 DEF RefInv, IInv, DeviceInv
<1> HIDE DEF d
<1>6. /\ remove_device(d) /\ todo' = rest
      /\ UNCHANGED devices /\ UNCHANGED Undisturbed
  BY DEF Forget, tasks, sessions, Undisturbed, d
<1>7. Suspended = {d} /\ Suspended' = {}
  <2>1. \A e : /\ \A op \in {"abort", "forget", "reset"} : kind_of(about(op, e)) = op
               /\ device_of(about("forget", e)) = e
    BY Kinds
  <2>2. \A e : Pending(about("forget", e)) <=> e = d
    BY <1>1, <1>2, <1>3, <1>4, <2>1 DEF Pending
  <2>3. \A e : ~Pending(about("abort", e)) /\ ~Pending(about("reset", e))
    BY <1>1, <1>2, <1>4, <2>1 DEF Pending
  <2>4. \A e \in Device : e \in Suspended <=> e = d
    BY <2>2, <2>3, SuspendedIs
  <2>5. Suspended' = {}
    BY <1>4, <1>6, NoneSuspended
  <2> QED BY <1>3, <2>4, <2>5, SuspendedIs
<1>8. ~handles_commands(d)
  <2>1. ~Pending(about("abort", d))
    BY <1>1, <1>2, <1>4, Kinds DEF Pending
  <2>2. task[d] = "none"
    BY <1>2, <1>3, <1>5, <2>1 DEF RefInv, IInv, DeviceInv
  <2> QED BY <2>2 DEF handles_commands
<1>9. /\ received' = received /\ available_routes' = available_routes /\ Live' = Live
      /\ \A r, e : Copied(r, e)' <=> Copied(r, e)
  BY <1>6, SameOutlets
<1>10. effective' = effective
  <2>1. ASSUME NEW r \in Outlet, NEW e \in Device
        PROVE  value(r, e)' = value(r, e)
    <3>1. dispatch(received, rest)[r][e] = dispatch(received, todo)[r][e]
      BY <1>1, QuietStep
    <3> QED BY <1>2, <1>6, <1>9, <3>1
  <2> QED BY <1>9, <2>1, SameOutputs
<1>11. \A r \in Outlet : effective[r][d] = {}
  <2>1. ~Copied(0, d)
    BY <1>8, CopiedIs
  <2>2. \A c \in Client : effective[c][d] = {}
    BY <1>2, <1>7 DEF RefInv, Silent
  <2> QED BY <1>3, <2>1, <2>2, EffectiveIs DEF Outlet
<1>12. effective' = [r \in Outlet |-> [effective[r] EXCEPT ![d] = {}]]
  <2>1. effective = [r \in Outlet |-> [e \in Device |-> effective[r][e]]]
    BY EffectiveIs
  <2> QED BY <1>10, <1>11, <2>1
<1>13. Outputs!RemoveDevice(d)
  <2>1. Live' = Live \ {d}
    BY <1>8, <1>9, LiveIs
  <2> QED BY <1>5, <1>6, <1>7, <1>9, <1>12, <2>1, SameRouter DEF Outputs!RemoveDevice, Live
<1>14. Forgotten'
  BY <1>4, <1>6, Kinds DEF Forgotten, Pending
<1> QED BY <1>2, <1>3, <1>6, <1>13, <1>14, AbstractStep DEF Kept

-----------------------------------------------------------------------------
(* The loop implements RoutedOutputs.                                       *)

LEMMA HandlerImplements ==
    ASSUME RefInv, HandlerStep
    PROVE  Implemented /\ Kept
<1>1. frame = NoFrame /\ todo # <<>>
  BY DEF HandlerStep
<1>2. PICK s \in Head(todo) :
          LET rest == batch(Head(todo) \ {s}) \o Tail(todo) IN
          \/ /\ \/ s.op = "sweep" /\ Sweep(rest)
                \/ s.op = "remove" /\ RemoveClient(s.client, rest)
                \/ s.op = "stabilize" /\ Stabilize(rest)
                \/ s.op = "insert" /\ Insert(rest)
                \/ s.op = "send" /\ Send(s.route, s.update, rest)
                \/ s.op = "local" /\ Local(s.update, rest)
                \/ s.op = "add" /\ Add(s.device, rest)
                \/ s.op = "reset" /\ ResetTask(s.device, rest)
                \/ s.op = "abort" /\ Abort(s.device, rest)
                \/ s.op = "forget" /\ Forget(s.device, rest)
             /\ UNCHANGED <<frame, activations, released, running>>
          \/ /\ s.op = "release"
             /\ Release(s.activation_id, rest)
             /\ UNCHANGED <<frame, activations, running>>
          \/ s.op = "local" /\ Overflow(s.update)
  BY DEF HandlerStep
<1> DEFINE rest == batch(Head(todo) \ {s}) \o Tail(todo)
<1>3. Popped(todo, s, rest)
  BY <1>1 DEF Popped
<1> HIDE DEF rest
<1>4. CASE UNCHANGED frame
  <2>1. Doing(s, rest)
    BY <1>1, <1>3, <1>4 DEF Doing
  <2>2. CASE s.op = "sweep" /\ Sweep(rest)
    BY <2>1, <2>2, SweepImplements
  <2>3. CASE s.op = "remove" /\ RemoveClient(s.client, rest)
    BY <2>1, <2>3, RemoveClientImplements
  <2>4. CASE s.op = "stabilize" /\ Stabilize(rest)
    BY <2>1, <2>4, StabilizeImplements
  <2>5. CASE s.op = "insert" /\ Insert(rest)
    BY <2>1, <2>5, InsertImplements
  <2>6. CASE s.op = "send" /\ Send(s.route, s.update, rest)
    BY <2>1, <2>6, SendImplements
  <2>7. CASE s.op = "local" /\ Local(s.update, rest)
    BY <2>1, <2>7, LocalImplements
  <2>8. CASE s.op = "add" /\ Add(s.device, rest)
    BY <2>1, <2>8, AddImplements
  <2>9. CASE s.op = "reset" /\ ResetTask(s.device, rest)
    BY <2>1, <2>9, ResetImplements
  <2>10. CASE s.op = "abort" /\ Abort(s.device, rest)
    BY <2>1, <2>10, AbortImplements
  <2>11. CASE s.op = "forget" /\ Forget(s.device, rest)
    BY <2>1, <2>11, ForgetImplements
  <2>12. CASE s.op = "release" /\ Release(s.activation_id, rest)
    BY <2>1, <2>12, ReleaseImplements
  <2>13. CASE s.op = "local" /\ Overflow(s.update)
    BY <2>13, OverflowImplements
  <2> QED BY <1>2, <2>2, <2>3, <2>4, <2>5, <2>6, <2>7, <2>8, <2>9, <2>10, <2>11, <2>12, <2>13
          DEF rest
<1>5. CASE s.op = "local" /\ Overflow(s.update)
  BY <1>5, OverflowImplements
<1> QED BY <1>2, <1>4, <1>5

LEMMA NextImplements == RefInv /\ [Next]_vars => Implemented /\ RefInv'
<1> SUFFICES ASSUME RefInv, [Next]_vars PROVE Implemented /\ RefInv'
  OBVIOUS
<1>1. Implemented /\ Kept
  <2>1. CASE running' = running /\ ServerStep
    <3>1. CASE \E k \in Key : KeyPress(k)
      BY <3>1, KeyPressImplements
    <3> QED BY <2>1, <3>1, AcceptImplements, ActivatedImplements, RemovedImplements,
               ReceiveImplements, FrameEndImplements DEF ServerStep
  <2>2. CASE HandlerStep
    BY <2>2, HandlerImplements
  <2>3. CASE /\ (\E d \in Device : TaskStep(d)) /\ UNCHANGED sessions
             /\ UNCHANGED <<router, devices, todo, frame, activations, released, running>>
    BY <2>3, TaskImplements DEF Elsewhere
  <2>4. CASE /\ (\E c \in Client : ClientStep(c)) /\ UNCHANGED tasks
             /\ UNCHANGED <<router, devices, todo, frame, activations, released, running>>
    BY <2>4, ClientImplements
  <2>5. CASE UNCHANGED vars
    <3>1. /\ UNCHANGED <<router, devices, todo, frame>> /\ UNCHANGED Undisturbed
      BY <2>5 DEF vars, tasks, sessions, Undisturbed
    <3>2. /\ received' = received /\ available_routes' = available_routes /\ Live' = Live
          /\ \A r, d : Copied(r, d)' <=> Copied(r, d)
      BY <3>1, SameOutlets
    <3>3. UNCHANGED current
      BY <3>1 DEF router
    <3>4. Kept /\ Suspended' = Suspended
      BY <3>1, <3>2, <3>3, SameSteps
    <3>5. \A r \in Outlet, d \in Device : value(r, d)' = value(r, d)
      BY <3>1, <3>2, <3>3, SameValue DEF RefInv, IInv
    <3>6. effective' = effective
      BY <3>2, <3>5, SameOutputs
    <3> QED BY <3>1, <3>2, <3>4, <3>6, Stutters
  <2> QED BY <2>1, <2>2, <2>3, <2>4, <2>5 DEF Next, Stopped
<1>2. IInv'
  BY StepInvariant DEF RefInv
<1>3. Silent'
  BY <1>1, SilentKept DEF RefInv, IInv
<1> QED BY <1>1, <1>2, <1>3 DEF RefInv, Kept

LEMMA InitImplements == Init => RefInv /\ Outputs!Init
<1> SUFFICES ASSUME Init PROVE RefInv /\ Outputs!Init
  OBVIOUS
<1>1. /\ RouterInit /\ physical_keys = [d \in Device |-> {}]
      /\ task = [d \in Device |-> "none"] /\ session = [c \in Client |-> "vacant"]
      /\ devices = {} /\ todo = <<>> /\ frame = NoFrame
  BY DEF Init, RouterInit, TaskInit, ClientInit
<1>2. Suspended = {} /\ Live = {} /\ available_routes = {0}
  BY <1>1 DEF Suspended, Live, handles_commands, available_routes
<1>3. \A r \in Outlet, d \in Device : ~Copied(r, d)
  BY <1>1 DEF Copied, Outlet, handles_commands
<1>4. effective = [r \in Outlet |-> [d \in Device |-> {}]]
  BY <1>3, EffectiveIs
<1>5. EachOnce(todo) /\ Forgotten /\ FrameRouted
  BY <1>1, NoSteps DEF EachOnce, Forgotten, Pending, FrameRouted
<1>6. Silent
  BY <1>1, <1>2, <1>4 DEF Silent, Outlet
<1>7. RefInv
  BY <1>5, <1>6, InitInvariant DEF RefInv
<1>8. Outputs!RouterInit
  BY <1>1 DEF RouterInit, Outputs!RouterInit, Outputs!NoBinding, NoBinding
<1>9. Outputs!Init
  BY <1>1, <1>2, <1>4, <1>8 DEF Outputs!Init, Live
<1> QED BY <1>7, <1>9

(* The loop, its tasks and its channels do what RoutedOutputs says: what    *)
(* the outputs will show once everything sent and still to be sent is       *)
(* carried out follows the router's actions, whole and in order, whichever  *)
(* clients and tasks are lost on the way (server.rs run).                   *)
THEOREM RoutedOutputsImplemented == Spec => ImplementsRoutedOutputs
<1>1. Init => RefInv /\ Outputs!Init
  BY InitImplements
<1>2. RefInv /\ [Next]_vars => Implemented /\ RefInv'
  BY NextImplements
<1>3. Spec => Outputs!Init /\ [][Outputs!Next]_(Outputs!vars)
  BY <1>1, <1>2, PTL DEF Spec, Implemented
<1> QED BY <1>3 DEF ImplementsRoutedOutputs, Outputs!Spec
=============================================================================
