--------------------------- MODULE InterceptorProofs ---------------------------
(* Proofs about Interceptor, and the Writer it contains, for all keys,      *)
(* updates and capacities of buffers and channels.                          *)
EXTENDS Interceptor, FiniteSetTheorems, SequenceTheorems, TLAPS

Keys == INSTANCE FoldProofs WITH op <- update_key_state
Raws == INSTANCE FoldProofs WITH op <- follow

-----------------------------------------------------------------------------
(* Types. *)

KeyEvent == [key : Key, down : BOOLEAN]
Known    == KeyEvent \cup {SYN}
Unknown  == {raw(n) : n \in 1 .. RAWS}
SourceEvent   == Known \cup Unknown \cup {DROPPED, REPEAT}

Answer == ServerUpdate \cup {Reset(device)}

TypeInv ==
    /\ held \in SUBSET Key /\ key_state \in SUBSET Key /\ seen \in SUBSET Key
    /\ raws \in 1 .. RAWS /\ passed \in 1 .. RAWS /\ writing \in 0 .. RAWS
    /\ kernel \in Seq(SourceEvent) /\ libevdev \in Seq(SourceEvent) /\ Len(libevdev) <= LIBEVDEV
    /\ events \in Seq(Known) /\ frame \in Seq(Known)
    /\ pressed_keys \in SUBSET Key /\ node_keys \in SUBSET Key
    /\ writing_frame \in [events : Seq(Known), cursor : Nat]
    /\ task \in {"reading", "sending", "lost", "resetting", "failed", "ended"}
    /\ commands \in Seq(Answer) /\ command \in Answer \cup {NoCommand}
    /\ channel \in Seq({"sending", "lost", "failed"})
    /\ resets \in Nat

-----------------------------------------------------------------------------
(* Events. *)

LEMMA Marks ==
    /\ ~IsKey(SYN) /\ ~IsRaw(SYN) /\ SYN # DROPPED /\ SYN # REPEAT
    /\ ~IsKey(DROPPED) /\ ~IsRaw(DROPPED) /\ ~IsKey(REPEAT) /\ ~IsRaw(REPEAT)
    /\ REPEAT # DROPPED
<1>1. /\ DOMAIN SYN = {"mark"} /\ DOMAIN DROPPED = {"mark"} /\ DOMAIN REPEAT = {"mark"}
      /\ SYN.mark = "report" /\ DROPPED.mark = "dropped" /\ REPEAT.mark = "repeat"
  BY DEF SYN, DROPPED, REPEAT
<1> QED BY <1>1 DEF IsKey, IsRaw

LEMMA Raw ==
    ASSUME NEW n
    PROVE  IsRaw(raw(n)) /\ raw(n).raw = n /\ ~IsKey(raw(n)) /\ raw(n) # DROPPED /\ raw(n) # REPEAT
<1>1. DOMAIN raw(n) = {"raw"} /\ raw(n).raw = n
  BY DEF raw
<1> QED BY <1>1, Marks DEF IsKey, IsRaw

LEMMA KeyEvents ==
    ASSUME NEW e \in KeyEvent
    PROVE  IsKey(e) /\ ~IsRaw(e) /\ e # SYN /\ e # DROPPED /\ e # REPEAT
<1>1. DOMAIN e = {"key", "down"}
  BY DEF KeyEvent
<1> QED BY <1>1, Marks DEF IsKey, IsRaw

LEMMA InputKinds ==
    ASSUME NEW e \in SourceEvent
    PROVE  /\ IsRaw(e) => e.raw \in 1 .. RAWS /\ e = raw(e.raw) /\ ~IsKey(e)
           /\ ~IsRaw(e) /\ e # DROPPED /\ e # REPEAT => e \in Known
           /\ e \in Known => ~IsRaw(e)
<1>1. CASE e \in Known
  BY <1>1, KeyEvents, Marks DEF Known
<1>2. CASE e \in Unknown
  <2>1. PICK n \in 1 .. RAWS : e = raw(n)
    BY <1>2 DEF Unknown
  <2>2. IsRaw(e) /\ e.raw = n /\ ~IsKey(e) /\ e # SYN
    BY <2>1, Raw, Marks
  <2> QED BY <2>1, <2>2, KeyEvents DEF Known
<1>3. CASE e \in {DROPPED, REPEAT}
  BY <1>3, Marks, KeyEvents DEF Known
<1> QED BY <1>1, <1>2, <1>3 DEF SourceEvent

LEMMA KnownIsInput == Known \subseteq SourceEvent
BY DEF SourceEvent

-----------------------------------------------------------------------------
(* Keys after events. *)

LEMMA KeysFold ==
    ASSUME NEW keys, NEW evs
    PROVE  keys_after(keys, evs) = Keys!Fold(keys, evs)
BY DEF keys_after, Keys!Fold, Keys!FoldLeft, FoldLeft, Keys!MapThenFoldSet, MapThenFoldSet,
       Keys!Max, Max

LEMMA UpdatedKeys ==
    ASSUME NEW keys \in SUBSET Key, NEW e \in SourceEvent
    PROVE  update_key_state(keys, e) \in SUBSET Key
<1>1. CASE e \in KeyEvent
  BY <1>1 DEF update_key_state, KeyEvent
<1>2. CASE e \notin KeyEvent
  BY <1>2, InputKinds, Marks DEF update_key_state, Known, SourceEvent
<1> QED BY <1>1, <1>2

LEMMA KeysType ==
    ASSUME NEW keys \in SUBSET Key, NEW evs \in Seq(SourceEvent)
    PROVE  keys_after(keys, evs) \in SUBSET Key
BY KeysFold, UpdatedKeys, Keys!FoldKeeps

LEMMA KeysEmpty ==
    ASSUME NEW keys
    PROVE  keys_after(keys, <<>>) = keys
BY KeysFold, Keys!FoldEmpty

LEMMA KeysAppend ==
    ASSUME NEW keys, NEW evs \in Seq(SourceEvent), NEW e \in SourceEvent
    PROVE  keys_after(keys, Append(evs, e)) = update_key_state(keys_after(keys, evs), e)
<1>1. Keys!Fold(keys, Append(evs, e)) = update_key_state(Keys!Fold(keys, evs), e)
  BY Keys!FoldAppend
<1> QED BY <1>1, KeysFold

LEMMA KeysHead ==
    ASSUME NEW keys, NEW evs \in Seq(SourceEvent), evs # <<>>
    PROVE  keys_after(keys, evs) = keys_after(update_key_state(keys, Head(evs)), Tail(evs))
<1>1. Keys!Fold(keys, evs) = Keys!Fold(update_key_state(keys, Head(evs)), Tail(evs))
  BY Keys!FoldHead
<1> QED BY <1>1, KeysFold

LEMMA KeysConcat ==
    ASSUME NEW keys, NEW s \in Seq(SourceEvent), NEW t \in Seq(SourceEvent)
    PROVE  keys_after(keys, s \o t) = keys_after(keys_after(keys, s), t)
<1>1. Keys!Fold(keys, s \o t) = Keys!Fold(Keys!Fold(keys, s), t)
  BY Keys!FoldConcat
<1> QED BY <1>1, KeysFold

-----------------------------------------------------------------------------
(* Numbers of unknown events. *)

LastRaw(n, evs) == FoldLeft(follow, n, evs)

LEMMA RawsFold ==
    ASSUME NEW n, NEW evs
    PROVE  LastRaw(n, evs) = Raws!Fold(n, evs)
BY DEF LastRaw, Raws!Fold, Raws!FoldLeft, FoldLeft, Raws!MapThenFoldSet, MapThenFoldSet,
       Raws!Max, Max

LEMMA RawsEmpty ==
    ASSUME NEW n
    PROVE  LastRaw(n, <<>>) = n
BY RawsFold, Raws!FoldEmpty

LEMMA RawsAppend ==
    ASSUME NEW n, NEW evs \in Seq(SourceEvent), NEW e \in SourceEvent
    PROVE  LastRaw(n, Append(evs, e)) = follow(LastRaw(n, evs), e)
<1>1. Raws!Fold(n, Append(evs, e)) = follow(Raws!Fold(n, evs), e)
  BY Raws!FoldAppend
<1> QED BY <1>1, RawsFold

LEMMA RawsHead ==
    ASSUME NEW n, NEW evs \in Seq(SourceEvent), evs # <<>>
    PROVE  LastRaw(n, evs) = LastRaw(follow(n, Head(evs)), Tail(evs))
<1>1. Raws!Fold(n, evs) = Raws!Fold(follow(n, Head(evs)), Tail(evs))
  BY Raws!FoldHead
<1> QED BY <1>1, RawsFold

LEMMA RawsConcat ==
    ASSUME NEW n, NEW s \in Seq(SourceEvent), NEW t \in Seq(SourceEvent)
    PROVE  LastRaw(n, s \o t) = LastRaw(LastRaw(n, s), t)
<1>1. Raws!Fold(n, s \o t) = Raws!Fold(Raws!Fold(n, s), t)
  BY Raws!FoldConcat
<1> QED BY <1>1, RawsFold

\* Nothing follows an event out of order.
LEMMA RawsDisordered ==
    ASSUME NEW evs \in Seq(SourceEvent)
    PROVE  LastRaw(NoRaw, evs) = NoRaw
<1>1. \A x \in {NoRaw}, e \in SourceEvent : follow(x, e) \in {NoRaw}
  BY DEF follow
<1>2. Raws!Fold(NoRaw, evs) \in {NoRaw}
  BY <1>1, Raws!FoldKeeps
<1> QED BY <1>2, RawsFold


-----------------------------------------------------------------------------
(* What the writer makes of a key state.                                    *)

\* A set is listed without repetition.
LEMMA Listed ==
    ASSUME NEW S \in SUBSET Key
    PROVE  /\ SetToSeq(S) \in Seq(S)
           /\ \A k \in S : \E i \in DOMAIN SetToSeq(S) : SetToSeq(S)[i] = k
<1> DEFINE n == Cardinality(S)
           f == SetToSeq(S)
<1>1. IsFiniteSet(S)
  BY FS_Subset, WriterAssumption
<1>2. n \in Nat /\ \E g : g \in Bijection(1 .. n, S)
  BY <1>1, FS_CardinalityType DEF ExistsBijection
<1>3. \E g \in [1 .. n -> S] : IsInjective(g)
  BY <1>2 DEF Bijection, Injection
<1>4. f \in [1 .. n -> S] /\ IsInjective(f)
  BY <1>3 DEF SetToSeq
<1> HIDE DEF f
<1>5. f \in Injection(1 .. n, S)
  BY <1>4 DEF Injection
<1>6. IsFiniteSet(1 .. n) /\ Cardinality(1 .. n) = n
  BY <1>2, FS_Interval
<1>7. f \in Surjection(1 .. n, S)
  BY <1>1, <1>5, <1>6, FS_Injection
<1>8. \A k \in S : \E i \in 1 .. n : f[i] = k
  BY <1>7 DEF Surjection
<1>9. DOMAIN f = 1 .. n /\ f \in Seq(S)
  BY <1>2, <1>4
<1> QED BY <1>8, <1>9 DEF f

(* The place of an event among those of a key state.                        *)
rank(e) ==
    IF ~IsKey(e) THEN 4
    ELSE IF e.down THEN IF e.key \in Modifier THEN 2 ELSE 3
         ELSE IF e.key \in Modifier THEN 1 ELSE 0

Lists(s, X) ==
    /\ s \in Seq(Known)
    /\ \A i \in DOMAIN s : s[i] \in X
    /\ \A e \in X : \E i \in DOMAIN s : s[i] = e
    /\ \A i, j \in DOMAIN s : i < j => rank(s[i]) <= rank(s[j])

LEMMA ListsBoth ==
    ASSUME NEW s, NEW X, NEW t, NEW Y, Lists(s, X), Lists(t, Y),
           \A x \in X, y \in Y : rank(x) <= rank(y)
    PROVE  Lists(s \o t, X \cup Y)
<1> DEFINE st == s \o t
<1>1. /\ s \in Seq(Known) /\ t \in Seq(Known) /\ st \in Seq(Known)
      /\ Len(s) \in Nat /\ Len(t) \in Nat
      /\ DOMAIN s = 1 .. Len(s) /\ DOMAIN t = 1 .. Len(t) /\ DOMAIN st = 1 .. Len(s) + Len(t)
  BY DEF Lists
<1>2. /\ \A i \in 1 .. Len(s) : st[i] = s[i] /\ i \in DOMAIN st
      /\ \A i \in 1 .. Len(t) : st[Len(s) + i] = t[i] /\ Len(s) + i \in DOMAIN st
  BY <1>1
<1>3. \A i \in DOMAIN st : \/ i \in DOMAIN s /\ st[i] = s[i]
                           \/ i > Len(s) /\ i - Len(s) \in DOMAIN t /\ st[i] = t[i - Len(s)]
  BY <1>1
<1> HIDE DEF st
<1>4. \A i \in DOMAIN st : st[i] \in X \cup Y
  BY <1>3 DEF Lists
<1>5. \A e \in X \cup Y : \E i \in DOMAIN st : st[i] = e
  <2>1. ASSUME NEW e \in X PROVE \E i \in DOMAIN st : st[i] = e
    BY <1>1, <1>2 DEF Lists
  <2>2. ASSUME NEW e \in Y PROVE \E i \in DOMAIN st : st[i] = e
    BY <1>1, <1>2 DEF Lists
  <2> QED BY <2>1, <2>2
<1>6. ASSUME NEW i \in DOMAIN st, NEW j \in DOMAIN st, i < j
      PROVE  rank(st[i]) <= rank(st[j])
  <2>1. CASE j \in DOMAIN s /\ st[j] = s[j]
    <3>1. i \in DOMAIN s /\ st[i] = s[i]
      BY <1>1, <1>2, <1>6, <2>1
    <3> QED BY <1>6, <2>1, <3>1 DEF Lists
  <2>2. CASE /\ i > Len(s) /\ i - Len(s) \in DOMAIN t /\ st[i] = t[i - Len(s)]
             /\ j > Len(s) /\ j - Len(s) \in DOMAIN t /\ st[j] = t[j - Len(s)]
    <3>1. i - Len(s) < j - Len(s)
      BY <1>1, <1>6
    <3> QED BY <2>2, <3>1 DEF Lists
  <2>3. CASE /\ i \in DOMAIN s /\ st[i] = s[i]
             /\ j > Len(s) /\ j - Len(s) \in DOMAIN t /\ st[j] = t[j - Len(s)]
    <3>1. st[i] \in X /\ st[j] \in Y
      BY <2>3 DEF Lists
    <3> QED BY <3>1
  <2> QED BY <1>3, <2>1, <2>2, <2>3
<1> QED BY <1>1, <1>4, <1>5, <1>6 DEF Lists, st

LEMMA KeyOf ==
    ASSUME NEW k \in Key
    PROVE  /\ press(k) \in KeyEvent /\ press(k).key = k /\ press(k).down
           /\ release(k) \in KeyEvent /\ release(k).key = k /\ ~release(k).down
           /\ rank(press(k)) = IF k \in Modifier THEN 2 ELSE 3
           /\ rank(release(k)) = IF k \in Modifier THEN 1 ELSE 0
<1>1. /\ press(k) \in KeyEvent /\ press(k).key = k /\ press(k).down
      /\ release(k) \in KeyEvent /\ release(k).key = k /\ ~release(k).down
  BY DEF press, release, KeyEvent
<1> QED BY <1>1, KeyEvents DEF rank

LEMMA AllUp ==
    ASSUME NEW S \in SUBSET Key, S \subseteq Modifier \/ S \cap Modifier = {}
    PROVE  Lists(all_up(S), {release(k) : k \in S})
<1> DEFINE s == SetToSeq(S)
           u == all_up(S)
<1>1. s \in Seq(S) /\ \A k \in S : \E i \in DOMAIN s : s[i] = k
  BY Listed
<1>2. u = [i \in DOMAIN s |-> release(s[i])]
  BY DEF all_up
<1> HIDE DEF s, u
<1>3. \A i \in DOMAIN s : s[i] \in S /\ s[i] \in Key /\ release(s[i]) \in Known
  BY <1>1, KeyOf DEF Known
<1>4. DOMAIN u = DOMAIN s /\ u \in Seq(Known)
  BY <1>1, <1>2, <1>3
<1>5. \A i, j \in DOMAIN u : rank(u[i]) = rank(u[j])
  BY <1>2, <1>3, <1>4, KeyOf
<1>6. \A i \in DOMAIN u : rank(u[i]) \in Int
  BY <1>2, <1>3, <1>4, KeyOf
<1>7. \A e \in {release(k) : k \in S} : \E i \in DOMAIN u : u[i] = e
  BY <1>1, <1>2, <1>4
<1>8. \A i \in DOMAIN u : u[i] \in {release(k) : k \in S}
  BY <1>2, <1>3, <1>4
<1>9. \A i, j \in DOMAIN u : rank(u[i]) <= rank(u[j])
  BY <1>5, <1>6
<1> QED BY <1>4, <1>7, <1>8, <1>9 DEF Lists, u

LEMMA AllDown ==
    ASSUME NEW S \in SUBSET Key, S \subseteq Modifier \/ S \cap Modifier = {}
    PROVE  Lists(all_down(S), {press(k) : k \in S})
<1> DEFINE s == SetToSeq(S)
           u == all_down(S)
<1>1. s \in Seq(S) /\ \A k \in S : \E i \in DOMAIN s : s[i] = k
  BY Listed
<1>2. u = [i \in DOMAIN s |-> press(s[i])]
  BY DEF all_down
<1> HIDE DEF s, u
<1>3. \A i \in DOMAIN s : s[i] \in S /\ s[i] \in Key /\ press(s[i]) \in Known
  BY <1>1, KeyOf DEF Known
<1>4. DOMAIN u = DOMAIN s /\ u \in Seq(Known)
  BY <1>1, <1>2, <1>3
<1>5. \A i, j \in DOMAIN u : rank(u[i]) = rank(u[j])
  BY <1>2, <1>3, <1>4, KeyOf
<1>6. \A i \in DOMAIN u : rank(u[i]) \in Int
  BY <1>2, <1>3, <1>4, KeyOf
<1>7. \A e \in {press(k) : k \in S} : \E i \in DOMAIN u : u[i] = e
  BY <1>1, <1>2, <1>4
<1>8. \A i \in DOMAIN u : u[i] \in {press(k) : k \in S}
  BY <1>2, <1>3, <1>4
<1>9. \A i, j \in DOMAIN u : rank(u[i]) <= rank(u[j])
  BY <1>5, <1>6
<1> QED BY <1>4, <1>7, <1>8, <1>9 DEF Lists, u

(* The events that lead from one key state to another, in four blocks.      *)
ups(from, to)   == {release(k) : k \in from \ to}
downs(from, to) == {press(k) : k \in to \ from}

LEMMA KeyStateEvents ==
    ASSUME NEW from \in SUBSET Key, NEW to \in SUBSET Key
    PROVE  /\ from = to => key_state_events(from, to) = <<>>
           /\ from # to => Lists(key_state_events(from, to),
                                 ups(from, to) \cup downs(from, to) \cup {SYN})
<1>1. CASE from = to
  BY <1>1 DEF key_state_events
<1>2. CASE from # to
  <2> DEFINE A == (from \ to) \ Modifier
             B == (from \ to) \cap Modifier
             C == (to \ from) \cap Modifier
             D == (to \ from) \ Modifier
             RA == {release(k) : k \in A}
             RB == {release(k) : k \in B}
             PC == {press(k) : k \in C}
             PD == {press(k) : k \in D}
  <2>1. Lists(all_up(A), RA) /\ Lists(all_up(B), RB)
    BY AllUp
  <2>2. Lists(all_down(C), PC) /\ Lists(all_down(D), PD)
    BY AllDown
  <2>3. Lists(<<SYN>>, {SYN})
    BY DEF Lists, Known
  <2>4. /\ \A e \in RA : rank(e) = 0
        /\ \A e \in RB : rank(e) = 1
        /\ \A e \in PC : rank(e) = 2
        /\ \A e \in PD : rank(e) = 3
        /\ \A e \in {SYN} : rank(e) = 4
    <3>1. rank(SYN) = 4
      BY Marks DEF rank
    <3> QED BY <3>1, KeyOf
  <2>5. key_state_events(from, to)
          = all_up(A) \o all_up(B) \o all_down(C) \o all_down(D) \o <<SYN>>
    BY <1>2 DEF key_state_events
  <2>6. ups(from, to) \cup downs(from, to) \cup {SYN}
          = RA \cup RB \cup PC \cup PD \cup {SYN}
    BY DEF ups, downs
  <2> HIDE DEF A, B, C, D, RA, RB, PC, PD
  <2>7. Lists(all_up(A) \o all_up(B), RA \cup RB)
    <3>1. \A x \in RA, y \in RB : rank(x) <= rank(y)
      BY <2>4
    <3> QED BY <2>1, <3>1, ListsBoth
  <2>8. Lists(all_up(A) \o all_up(B) \o all_down(C), RA \cup RB \cup PC)
    <3>1. \A x \in RA \cup RB, y \in PC : rank(x) <= rank(y)
      BY <2>4
    <3> QED BY <2>2, <2>7, <3>1, ListsBoth
  <2>9. Lists(all_up(A) \o all_up(B) \o all_down(C) \o all_down(D), RA \cup RB \cup PC \cup PD)
    <3>1. \A x \in RA \cup RB \cup PC, y \in PD : rank(x) <= rank(y)
      BY <2>4
    <3> QED BY <2>2, <2>8, <3>1, ListsBoth
  <2>10. Lists(all_up(A) \o all_up(B) \o all_down(C) \o all_down(D) \o <<SYN>>,
               RA \cup RB \cup PC \cup PD \cup {SYN})
    <3>1. \A x \in RA \cup RB \cup PC \cup PD, y \in {SYN} : rank(x) <= rank(y)
      BY <2>4
    <3> QED BY <2>3, <2>9, <3>1, ListsBoth
  <2> QED BY <1>2, <2>5, <2>6, <2>10
<1> QED BY <1>1, <1>2


\* Which keys are down after the first n events.
Settled(from, evs, n) ==
    \A k \in Key : k \in keys_after(from, SubSeq(evs, 1, n)) <=>
        \/ \E i \in 1 .. n : evs[i] = press(k)
        \/ k \in from /\ \A i \in 1 .. n : evs[i] # release(k)

LEMMA KnownKinds ==
    ASSUME NEW e \in Known
    PROVE  \/ ~IsKey(e) /\ \A k \in Key : e # press(k) /\ e # release(k)
           \/ \E k \in Key : e = press(k) /\ \A l \in Key : e # release(l) /\ (l # k => e # press(l))
           \/ \E k \in Key : e = release(k) /\ \A l \in Key : e # press(l) /\ (l # k => e # release(l))
<1>1. CASE e = SYN
  BY <1>1, Marks, KeyOf, KeyEvents
<1>2. CASE e \in KeyEvent
  <2>1. e.key \in Key /\ (e = press(e.key) \/ e = release(e.key))
    BY <1>2 DEF KeyEvent, press, release
  <2> QED BY <2>1, KeyOf
<1> QED BY <1>1, <1>2 DEF Known

LEMMA KeysSettled ==
    ASSUME NEW from \in SUBSET Key, NEW evs \in Seq(Known),
           \A k \in Key : \A i, j \in DOMAIN evs : ~ (evs[i] = press(k) /\ evs[j] = release(k)),
           NEW n \in 0 .. Len(evs)
    PROVE  Settled(from, evs, n)
<1> DEFINE A == {m \in Nat : m <= Len(evs) => Settled(from, evs, m)}
<1>1. 0 \in A
  <2>1. SubSeq(evs, 1, 0) = <<>> /\ 1 .. 0 = {}
    OBVIOUS
  <2> QED BY <2>1, KeysEmpty DEF Settled
<1>2. ASSUME NEW m \in A PROVE m + 1 \in A
  <2>1. SUFFICES ASSUME m + 1 <= Len(evs) PROVE Settled(from, evs, m + 1)
    OBVIOUS
  <2> DEFINE u == SubSeq(evs, 1, m)
             e == evs[m + 1]
             K == keys_after(from, u)
  <2>2. u \in Seq(Known) /\ e \in Known /\ SubSeq(evs, 1, m + 1) = Append(u, e)
    BY <2>1
  <2>3. Settled(from, evs, m)
    BY <2>1
  <2>4. /\ m + 1 \in DOMAIN evs /\ 1 .. m + 1 = (1 .. m) \cup {m + 1}
        /\ \A i \in 1 .. m : i \in DOMAIN evs
    BY <2>1
  <2>5. keys_after(from, Append(u, e)) = update_key_state(K, e)
    <3>1. u \in Seq(SourceEvent) /\ e \in SourceEvent
      BY <2>2, KnownIsInput
    <3> HIDE DEF u, e
    <3> QED BY <3>1, KeysAppend
  <2>6. \A k \in Key : k \in K <=>
          \/ \E i \in 1 .. m : evs[i] = press(k)
          \/ k \in from /\ \A i \in 1 .. m : evs[i] # release(k)
    BY <2>3 DEF Settled
  <2>7. \A k \in Key : k \in update_key_state(K, e) <=>
          \/ \E i \in 1 .. m + 1 : evs[i] = press(k)
          \/ k \in from /\ \A i \in 1 .. m + 1 : evs[i] # release(k)
    <3> HIDE DEF K
    <3>1. CASE ~IsKey(e) /\ \A k \in Key : e # press(k) /\ e # release(k)
      BY <2>4, <2>6, <3>1 DEF update_key_state
    <3>2. CASE \E k \in Key : e = press(k) /\ \A l \in Key : e # release(l) /\ (l # k => e # press(l))
      <4>1. PICK k \in Key : e = press(k) /\ \A l \in Key : e # release(l) /\ (l # k => e # press(l))
        BY <3>2
      <4>2. update_key_state(K, e) = K \cup {k}
        BY <4>1, KeyOf, KeyEvents DEF update_key_state
      <4> QED BY <2>4, <2>6, <4>1, <4>2
    <3>3. CASE \E k \in Key : e = release(k) /\ \A l \in Key : e # press(l) /\ (l # k => e # release(l))
      <4>1. PICK k \in Key : e = release(k) /\ \A l \in Key : e # press(l) /\ (l # k => e # release(l))
        BY <3>3
      <4>2. update_key_state(K, e) = K \ {k}
        BY <4>1, KeyOf, KeyEvents DEF update_key_state
      <4>3. \A i \in 1 .. m : evs[i] # press(k)
        BY <2>4, <4>1
      <4> QED BY <2>4, <2>6, <4>1, <4>2, <4>3
    <3> QED BY <2>2, <3>1, <3>2, <3>3, KnownKinds
  <2> QED BY <2>2, <2>5, <2>7 DEF Settled
<1> HIDE DEF A
<1>3. A = Nat
  BY <1>1, <1>2, Keys!Inductive, A \subseteq Nat DEF A
<1>4. n \in A /\ n <= Len(evs)
  BY <1>3
<1> QED BY <1>4 DEF A

\* No modifier is late and no ordinary key early.
LEMMA KeyStateOrder ==
    ASSUME NEW from \in SUBSET Key, NEW to \in SUBSET Key, from # to,
           NEW evs, evs = key_state_events(from, to)
    PROVE  /\ evs \in Seq(Known) /\ evs # <<>>
           /\ keys_after(from, evs) = to
           /\ \A n \in 0 .. Len(evs) - 1 :
                 LET before == keys_after(from, SubSeq(evs, 1, n))
                     after  == update_key_state(before, evs[n + 1])
                 IN  /\ after \ before \subseteq Modifier
                           \/ before \cap Modifier = to \cap Modifier
                     /\ before \cap Modifier \subseteq after
                           \/ before \ Modifier \subseteq to
<1> DEFINE X == ups(from, to) \cup downs(from, to) \cup {SYN}
<1>1. Lists(evs, X)
  BY KeyStateEvents
<1>2. /\ evs \in Seq(Known)
      /\ \A i \in DOMAIN evs : evs[i] \in X
      /\ \A e \in X : \E i \in DOMAIN evs : evs[i] = e
      /\ \A i, j \in DOMAIN evs : i < j => rank(evs[i]) <= rank(evs[j])
  BY <1>1 DEF Lists
<1>3. \A k \in Key : /\ press(k) \in X <=> k \in to \ from
                     /\ release(k) \in X <=> k \in from \ to
  <2> SUFFICES ASSUME NEW k \in Key
               PROVE  /\ press(k) \in X <=> k \in to \ from
                      /\ release(k) \in X <=> k \in from \ to
    OBVIOUS
  <2>1. press(k) # SYN /\ release(k) # SYN
    BY KeyOf, KeyEvents
  <2>2. /\ press(k) \notin ups(from, to) /\ release(k) \notin downs(from, to)
    BY KeyOf DEF ups, downs
  <2>3. press(k) \in downs(from, to) <=> k \in to \ from
    BY KeyOf DEF downs
  <2>4. release(k) \in ups(from, to) <=> k \in from \ to
    BY KeyOf DEF ups
  <2> QED BY <2>1, <2>2, <2>3, <2>4
<1>4. \A e \in X : \/ e = SYN
                   \/ \E k \in to \ from : e = press(k)
                   \/ \E k \in from \ to : e = release(k)
  BY DEF ups, downs
<1>5. SYN \in X
  OBVIOUS
<1> HIDE DEF X
<1>6. evs # <<>>
  BY <1>2, <1>5
<1>7. \A k \in Key : \A i, j \in DOMAIN evs : ~ (evs[i] = press(k) /\ evs[j] = release(k))
  BY <1>2, <1>3
<1>8. \A n \in 0 .. Len(evs) : Settled(from, evs, n)
  BY <1>2, <1>7, KeysSettled
<1>9. DOMAIN evs = 1 .. Len(evs) /\ Len(evs) \in Nat
  BY <1>2
<1>10. \A n \in 0 .. Len(evs) : keys_after(from, SubSeq(evs, 1, n)) \in SUBSET Key
  <2> SUFFICES ASSUME NEW n \in 0 .. Len(evs)
               PROVE  keys_after(from, SubSeq(evs, 1, n)) \in SUBSET Key
    OBVIOUS
  <2>1. SubSeq(evs, 1, n) \in Seq(Known)
    BY <1>2, <1>9
  <2>2. SubSeq(evs, 1, n) \in Seq(SourceEvent)
    BY <2>1, KnownIsInput
  <2> QED BY <2>2, KeysType
<1>11. keys_after(from, evs) = to
  <2>1. SubSeq(evs, 1, Len(evs)) = evs
    BY <1>2
  <2>2. Settled(from, evs, Len(evs)) /\ keys_after(from, evs) \in SUBSET Key
    <3>1. Len(evs) \in 0 .. Len(evs)
      BY <1>9
    <3>2. Settled(from, evs, Len(evs))
      BY <1>8, <3>1
    <3>3. keys_after(from, SubSeq(evs, 1, Len(evs))) \in SUBSET Key
      BY <1>10, <3>1
    <3> QED BY <2>1, <3>2, <3>3
  <2>3. \A k \in Key : k \in keys_after(from, evs) <=>
            \/ \E i \in DOMAIN evs : evs[i] = press(k)
            \/ k \in from /\ \A i \in DOMAIN evs : evs[i] # release(k)
    BY <1>9, <2>1, <2>2 DEF Settled
  <2>4. ASSUME NEW k \in Key PROVE k \in keys_after(from, evs) <=> k \in to
    <3>1. press(k) \in X <=> \E i \in DOMAIN evs : evs[i] = press(k)
      BY <1>2
    <3>2. release(k) \in X <=> \E i \in DOMAIN evs : evs[i] = release(k)
      BY <1>2
    <3> QED BY <1>3, <2>3, <3>1, <3>2
  <2> QED BY <2>2, <2>4
<1>12. ASSUME NEW n \in 0 .. Len(evs) - 1
       PROVE  LET before == keys_after(from, SubSeq(evs, 1, n))
                  after  == update_key_state(before, evs[n + 1])
              IN  /\ after \ before \subseteq Modifier
                        \/ before \cap Modifier = to \cap Modifier
                  /\ before \cap Modifier \subseteq after
                        \/ before \ Modifier \subseteq to
  <2> DEFINE before == keys_after(from, SubSeq(evs, 1, n))
             e == evs[n + 1]
  <2>1. n \in 0 .. Len(evs) /\ n + 1 \in DOMAIN evs /\ \A i \in 1 .. n : i \in DOMAIN evs
    BY <1>9
  <2>2. before \in SUBSET Key
    BY <1>10, <2>1
  <2>3. \A k \in Key : k \in before <=>
            \/ \E i \in 1 .. n : evs[i] = press(k)
            \/ k \in from /\ \A i \in 1 .. n : evs[i] # release(k)
    BY <1>8, <2>1 DEF Settled
  <2>4. e \in X
    BY <1>2, <2>1
  <2>5. \A x \in X : rank(x) \in Int
    <3>1. rank(SYN) \in Int
      BY Marks DEF rank
    <3> QED BY <1>4, <3>1, KeyOf
  <2>6. ASSUME NEW x \in X, rank(x) < rank(e) PROVE \E i \in 1 .. n : evs[i] = x
    <3>1. PICK i \in DOMAIN evs : evs[i] = x
      BY <1>2
    <3>2. ~ (n + 1 < i)
      <4>1. SUFFICES ASSUME n + 1 < i PROVE FALSE
        OBVIOUS
      <4>2. rank(e) <= rank(x)
        BY <1>2, <2>1, <3>1, <4>1
      <4> QED BY <2>4, <2>5, <2>6, <4>2
    <3>3. i # n + 1
      <4>1. SUFFICES ASSUME i = n + 1 PROVE FALSE
        OBVIOUS
      <4>2. x = e
        BY <3>1, <4>1
      <4> QED BY <2>4, <2>5, <2>6, <4>2
    <3>4. i \in 1 .. n
      BY <1>9, <3>2, <3>3
    <3> QED BY <3>1, <3>4
  <2> HIDE DEF before, e
  <2>7. ASSUME NEW k \in to \ from, e = press(k)
        PROVE  /\ update_key_state(before, e) = before \cup {k}
               /\ k \in Modifier \/ before \cap Modifier = to \cap Modifier
    <3>1. k \in Key /\ update_key_state(before, e) = before \cup {k}
      BY <2>7, KeyOf, KeyEvents DEF update_key_state
    <3>2. ASSUME k \notin Modifier, NEW m \in Modifier PROVE m \in before <=> m \in to
      <4>1. m \in Key /\ rank(e) = 3 /\ rank(press(m)) = 2 /\ rank(release(m)) = 1
        BY <2>7, <3>1, <3>2, KeyOf, InputAssumption
      <4>2. press(m) \in X => \E i \in 1 .. n : evs[i] = press(m)
        BY <2>6, <4>1
      <4>3. release(m) \in X => \E i \in 1 .. n : evs[i] = release(m)
        BY <2>6, <4>1
      <4> QED BY <1>2, <1>3, <2>1, <2>3, <4>1, <4>2, <4>3
    <3> QED BY <3>1, <3>2
  <2>8. ASSUME NEW k \in from \ to, e = release(k)
        PROVE  /\ update_key_state(before, e) = before \ {k}
               /\ k \notin Modifier \/ before \ Modifier \subseteq to
    <3>1. k \in Key /\ update_key_state(before, e) = before \ {k}
      BY <2>8, KeyOf, KeyEvents DEF update_key_state
    <3>2. ASSUME k \in Modifier, NEW m \in before \ Modifier PROVE m \in to
      <4>1. m \in Key /\ rank(e) = 1 /\ rank(release(m)) = 0
        BY <2>2, <2>8, <3>1, <3>2, KeyOf
      <4>2. release(m) \in X => \E i \in 1 .. n : evs[i] = release(m)
        BY <2>6, <4>1
      <4> QED BY <1>2, <1>3, <2>1, <2>3, <4>1, <4>2
    <3> QED BY <3>1, <3>2
  <2>9. \/ e = SYN
        \/ \E k \in to \ from : e = press(k)
        \/ \E k \in from \ to : e = release(k)
    BY <1>4, <2>4
  <2>10. LET after == update_key_state(before, e)
         IN  /\ after \ before \subseteq Modifier
                   \/ before \cap Modifier = to \cap Modifier
             /\ before \cap Modifier \subseteq after
                   \/ before \ Modifier \subseteq to
    <3>1. CASE e = SYN
      BY <3>1, Marks DEF update_key_state
    <3>2. CASE \E k \in to \ from : e = press(k)
      <4>1. PICK k \in to \ from : e = press(k)
        BY <3>2
      <4> QED BY <2>7, <4>1
    <3>3. CASE \E k \in from \ to : e = release(k)
      <4>1. PICK k \in from \ to : e = release(k)
        BY <3>3
      <4> QED BY <2>8, <4>1
    <3> QED BY <2>9, <3>1, <3>2, <3>3
  <2> QED BY <2>10 DEF before, e
<1> QED BY <1>2, <1>6, <1>11, <1>12


-----------------------------------------------------------------------------
(* What is buffered.                                                        *)

\* What stands in front keeps the head and what stands behind the tail.
LEMMA HeadTailConcat ==
    ASSUME NEW S, NEW s \in Seq(S), NEW t \in Seq(S), s # <<>>
    PROVE  /\ s \o t # <<>>
           /\ Head(s \o t) = Head(s) /\ Tail(s \o t) = Tail(s) \o t
<1> DEFINE st == s \o t
           rest == Tail(s)
           joined == rest \o t
           tail == Tail(st)
<1>1. /\ Len(s) \in Nat /\ Len(t) \in Nat /\ Len(s) > 0
      /\ st \in Seq(S) /\ Len(st) = Len(s) + Len(t)
      /\ \A i \in 1 .. Len(s) + Len(t) : st[i] = IF i <= Len(s) THEN s[i] ELSE t[i - Len(s)]
  BY ConcatProperties, LenProperties, EmptySeq
<1>2. /\ rest \in Seq(S) /\ Len(rest) = Len(s) - 1
      /\ \A i \in 1 .. Len(rest) : rest[i] = s[i + 1]
  BY HeadTailProperties
<1> HIDE DEF st, rest
<1>3. /\ joined \in Seq(S) /\ Len(joined) = Len(rest) + Len(t)
      /\ \A i \in 1 .. Len(rest) + Len(t) :
            joined[i] = IF i <= Len(rest) THEN rest[i] ELSE t[i - Len(rest)]
  BY <1>2, ConcatProperties
<1>4. st # <<>>
  <2>1. Len(st) # 0
    BY <1>1
  <2> QED BY <2>1, EmptySeq
<1>5. /\ tail \in Seq(S) /\ Len(tail) = Len(st) - 1
      /\ \A i \in 1 .. Len(tail) : tail[i] = st[i + 1]
  BY <1>1, <1>4, HeadTailProperties
<1>6. Head(st) = Head(s)
  <2>1. st[1] = s[1]
    BY <1>1
  <2> QED BY <2>1
<1> HIDE DEF joined, tail
<1>7. Len(joined) = Len(tail) /\ Len(joined) = Len(s) + Len(t) - 1
  BY <1>1, <1>2, <1>3, <1>5
<1>8. ASSUME NEW i \in 1 .. Len(joined) PROVE joined[i] = tail[i]
  <2>1. i \in Nat /\ i \in 1 .. Len(rest) + Len(t) /\ i + 1 \in 1 .. Len(s) + Len(t)
    BY <1>1, <1>2, <1>7
  <2>2. tail[i] = IF i + 1 <= Len(s) THEN s[i + 1] ELSE t[(i + 1) - Len(s)]
    BY <1>1, <1>5, <1>7, <2>1
  <2>3. CASE i <= Len(rest)
    <3>1. i + 1 <= Len(s) /\ i \in 1 .. Len(rest)
      BY <1>1, <1>2, <2>1, <2>3
    <3>2. joined[i] = rest[i] /\ rest[i] = s[i + 1]
      BY <1>2, <1>3, <2>1, <2>3, <3>1
    <3> QED BY <2>2, <3>1, <3>2
  <2>4. CASE ~ (i <= Len(rest))
    <3>1. ~ (i + 1 <= Len(s)) /\ i - Len(rest) = (i + 1) - Len(s)
      BY <1>1, <1>2, <2>1, <2>4
    <3>2. joined[i] = t[i - Len(rest)]
      BY <1>3, <2>1, <2>4
    <3> QED BY <2>2, <3>1, <3>2
  <2> QED BY <2>3, <2>4
<1>9. joined = tail
  BY <1>3, <1>5, <1>7, <1>8, SeqEqual
<1> QED BY <1>4, <1>6, <1>9 DEF st, rest, joined, tail

\* A part of what follows l has moved to l.
LEMMA Moved ==
    ASSUME NEW l \in Seq(SourceEvent), NEW u \in Seq(SourceEvent), NEW rest \in Seq(SourceEvent),
           l \o u # <<>>
    PROVE  /\ l \o (u \o rest) # <<>>
           /\ Head(l \o u) = Head(l \o (u \o rest))
           /\ Tail(l \o u) \o rest = Tail(l \o (u \o rest))
<1> DEFINE r == l \o u
<1>1. r \in Seq(SourceEvent)
  BY ConcatProperties
<1>2. l \o (u \o rest) = r \o rest
  BY ConcatAssociative
<1> HIDE DEF r
<1>3. r \o rest # <<>> /\ Head(r \o rest) = Head(r) /\ Tail(r \o rest) = Tail(r) \o rest
  <2>1. r # <<>>
    BY DEF r
  <2> QED BY <1>1, <2>1, HeadTailConcat
<1> QED BY <1>2, <1>3 DEF r

LEMMA Parts ==
    ASSUME NEW k \in Seq(SourceEvent), NEW n \in 0 .. Len(k)
    PROVE  /\ SubSeq(k, 1, n) \in Seq(SourceEvent) /\ SubSeq(k, n + 1, Len(k)) \in Seq(SourceEvent)
           /\ Len(SubSeq(k, 1, n)) = n
           /\ SubSeq(k, 1, n) \o SubSeq(k, n + 1, Len(k)) = k
<1>1. Len(k) \in Nat /\ n \in Nat /\ n <= Len(k)
  BY LenProperties
<1>2. SubSeq(k, 1, n) \in Seq(SourceEvent) /\ Len(SubSeq(k, 1, n)) = n
  <2>1. \A i \in 1 .. n : k[i] \in SourceEvent
    BY <1>1, ElementOfSeq
  <2> QED BY <1>1, <2>1, SubSeqProperties
<1>3. SubSeq(k, n + 1, Len(k)) \in Seq(SourceEvent)
  <2>1. \A i \in n + 1 .. Len(k) : k[i] \in SourceEvent
    BY <1>1, ElementOfSeq
  <2> QED BY <1>1, <2>1, SubSeqProperties
<1>4. SubSeq(k, 1, n) \o SubSeq(k, n + 1, Len(k)) = k
  <2>1. 1 \in 1 .. Len(k) + 1 /\ n \in 1 - 1 .. Len(k) /\ Len(k) \in n .. Len(k)
    BY <1>1
  <2>2. SubSeq(k, 1, n) \o SubSeq(k, n + 1, Len(k)) = SubSeq(k, 1, Len(k))
    BY <2>1, ConcatAdjacentSubSeq
  <2> QED BY <2>2, SubSeqFull
<1> QED BY <1>2, <1>3, <1>4

LEMMA Capacities ==
    /\ KERNEL \in Nat \ {0} /\ LIBEVDEV \in Nat \ {0} /\ RAWS \in Nat \ {0}
    /\ COMMANDS \in Nat \ {0} /\ EVENTS \in Nat \ {0}
BY InterceptorAssumption

\* The event that is read is the oldest one that is buffered.
LEMMA Readable ==
    ASSUME TypeInv, has_event
    PROVE  /\ readable \in Seq(SourceEvent) /\ unread \in Seq(SourceEvent)
           /\ Tail(readable) \in Seq(SourceEvent) /\ Head(readable) \in SourceEvent
           /\ Len(Tail(readable)) <= LIBEVDEV
           /\ buffered \in Seq(SourceEvent) /\ buffered # <<>>
           /\ Head(readable) = Head(buffered) /\ Tail(readable) \o unread = Tail(buffered)
<1> DEFINE room == LIBEVDEV - Len(libevdev)
<1>1. /\ libevdev \in Seq(SourceEvent) /\ kernel \in Seq(SourceEvent)
      /\ Len(libevdev) \in Nat /\ Len(kernel) \in Nat /\ Len(libevdev) <= LIBEVDEV
  BY DEF TypeInv
<1>2. room \in Nat /\ LIBEVDEV \in Nat \ {0}
  BY <1>1, Capacities
<1>3. taken_in \in {room, Len(kernel)} /\ taken_in <= room /\ taken_in <= Len(kernel)
  <2>1. \E x \in {room, Len(kernel)} : \A y \in {room, Len(kernel)} : x <= y
    BY <1>1, <1>2
  <2>2. taken_in = CHOOSE x \in {room, Len(kernel)} : \A y \in {room, Len(kernel)} : x <= y
    BY DEF taken_in, Min
  <2> HIDE DEF room
  <2> QED BY <2>1, <2>2
<1>4. taken_in \in 0 .. Len(kernel)
  BY <1>1, <1>2, <1>3
<1>5. libevdev # <<>> \/ taken_in > 0
  <2>1. SUFFICES ASSUME libevdev = <<>> PROVE taken_in > 0
    OBVIOUS
  <2>2. kernel # <<>> /\ Len(kernel) > 0 /\ Len(libevdev) = 0
    BY <1>1, <2>1 DEF has_event
  <2> QED BY <1>2, <1>3, <2>2
<1>6. /\ readable \in Seq(SourceEvent) /\ unread \in Seq(SourceEvent) /\ buffered \in Seq(SourceEvent)
      /\ readable # <<>> /\ buffered # <<>> /\ Len(readable) = Len(libevdev) + taken_in
      /\ Head(readable) = Head(buffered) /\ Tail(readable) \o unread = Tail(buffered)
  <2> HIDE DEF room
  <2> DEFINE u == SubSeq(kernel, 1, taken_in)
             rest == unread
  <2>1. /\ u \in Seq(SourceEvent) /\ rest \in Seq(SourceEvent) /\ Len(u) = taken_in
        /\ u \o rest = kernel
    BY <1>1, <1>4, Parts DEF unread
  <2>2. readable = libevdev \o u /\ buffered = libevdev \o kernel
    BY DEF readable, buffered
  <2> HIDE DEF u, rest
  <2>3. readable \in Seq(SourceEvent) /\ Len(readable) = Len(libevdev) + taken_in
    <3>1. libevdev \o u \in Seq(SourceEvent) /\ Len(libevdev \o u) = Len(libevdev) + Len(u)
      BY <1>1, <2>1, ConcatProperties
    <3> QED BY <2>1, <2>2, <3>1
  <2>4. readable # <<>>
    <3>1. Len(libevdev) # 0 \/ taken_in # 0
      BY <1>1, <1>4, <1>5, EmptySeq
    <3>2. Len(readable) # 0
      BY <1>1, <1>4, <2>3, <3>1
    <3> QED BY <3>2, EmptySeq
  <2>5. /\ buffered # <<>> /\ Head(readable) = Head(buffered)
        /\ Tail(readable) \o rest = Tail(buffered)
    <3>1. libevdev \o u # <<>>
      BY <2>2, <2>4
    <3>2. /\ libevdev \o (u \o rest) # <<>>
          /\ Head(libevdev \o u) = Head(libevdev \o (u \o rest))
          /\ Tail(libevdev \o u) \o rest = Tail(libevdev \o (u \o rest))
      BY <1>1, <2>1, <3>1, Moved, Zenon
    <3> QED BY <2>1, <2>2, <3>2, Zenon
  <2>6. buffered \in Seq(SourceEvent)
    BY <1>1, <2>2
  <2> QED BY <2>1, <2>3, <2>4, <2>5, <2>6 DEF rest
<1>7. /\ Tail(readable) \in Seq(SourceEvent) /\ Head(readable) \in SourceEvent
      /\ Len(Tail(readable)) = Len(readable) - 1
  BY <1>6
<1>8. Len(Tail(readable)) <= LIBEVDEV
  BY <1>1, <1>2, <1>3, <1>4, <1>6, <1>7
<1> QED BY <1>6, <1>7, <1>8


LEMMA Lost ==
    ASSUME NEW s \in Seq(SourceEvent), NEW t \in Seq(SourceEvent)
    PROVE  /\ Contains(s, DROPPED) => Contains(s \o t, DROPPED)
           /\ Contains(s \o <<DROPPED, SYN>>, DROPPED)
           /\ s # <<>> /\ Head(s) # DROPPED /\ Contains(s, DROPPED) => Contains(Tail(s), DROPPED)
<1>1. ASSUME NEW i \in 1 .. Len(s), s[i] = DROPPED PROVE Contains(s \o t, DROPPED)
  <2>1. i \in 1 .. Len(s \o t) /\ (s \o t)[i] = s[i]
    OBVIOUS
  <2> QED BY <1>1, <2>1 DEF Contains
<1>2. Contains(s \o <<DROPPED, SYN>>, DROPPED)
  <2> DEFINE mark == <<DROPPED, SYN>>
  <2>1. mark \in Seq(SourceEvent) /\ Len(mark) = 2 /\ mark[1] = DROPPED
    BY DEF SourceEvent, Known
  <2> HIDE DEF mark
  <2>2. Len(s) + 1 \in 1 .. Len(s \o mark) /\ (s \o mark)[Len(s) + 1] = DROPPED
    <3> DEFINE joined == s \o mark
    <3>1. /\ Len(s) \in Nat /\ Len(joined) = Len(s) + 2
          /\ \A i \in 1 .. Len(s) + 2 :
                joined[i] = IF i <= Len(s) THEN s[i] ELSE mark[i - Len(s)]
      <4>1. /\ Len(joined) = Len(s) + Len(mark)
            /\ \A i \in 1 .. Len(s) + Len(mark) :
                  joined[i] = IF i <= Len(s) THEN s[i] ELSE mark[i - Len(s)]
        BY <2>1, ConcatProperties, Zenon
      <4>2. Len(s) \in Nat
        BY LenProperties
      <4> HIDE DEF joined
      <4> QED BY <2>1, <4>1, <4>2
    <3> HIDE DEF joined
    <3>2. /\ Len(s) + 1 \in 1 .. Len(s) + 2 /\ ~ (Len(s) + 1 <= Len(s))
          /\ (Len(s) + 1) - Len(s) = 1
      BY <3>1
    <3>3. Len(s) + 1 \in 1 .. Len(joined) /\ joined[Len(s) + 1] = DROPPED
      BY <2>1, <3>1, <3>2
    <3> QED BY <3>3 DEF joined
  <2>3. Contains(s \o mark, DROPPED)
    BY <2>2 DEF Contains
  <2> QED BY <2>3 DEF mark
<1>3. ASSUME s # <<>>, Head(s) # DROPPED, NEW i \in 1 .. Len(s), s[i] = DROPPED
      PROVE  Contains(Tail(s), DROPPED)
  <2>1. i # 1 /\ Len(s) \in Nat /\ Len(Tail(s)) = Len(s) - 1
    BY <1>3
  <2>2. i - 1 \in 1 .. Len(Tail(s)) /\ Tail(s)[i - 1] = s[i]
    BY <1>3, <2>1
  <2> QED BY <1>3, <2>2 DEF Contains
<1> QED BY <1>1, <1>2, <1>3 DEF Contains

\* The numbers of unknown events go round.
LEMMA Numbers ==
    ASSUME NEW n \in 1 .. RAWS
    PROVE  /\ next(n) \in 1 .. RAWS /\ n # NoRaw
           /\ raw(next(n)) \in SourceEvent /\ follow(n, raw(next(n))) = next(n)
<1>1. n % RAWS \in 0 .. RAWS - 1
  BY Capacities
<1>2. next(n) \in 1 .. RAWS /\ n # NoRaw
  BY <1>1, Capacities DEF next, NoRaw
<1>3. raw(next(n)) \in SourceEvent
  BY <1>2 DEF SourceEvent, Unknown
<1>4. follow(n, raw(next(n))) = next(n)
  BY <1>2, Raw DEF follow
<1> QED BY <1>2, <1>3, <1>4

LEMMA OneRaw ==
    ASSUME NEW n, NEW x \in SourceEvent
    PROVE  LastRaw(n, <<x>>) = follow(n, x)
<1> DEFINE s == <<x>>
<1>1. s \in Seq(SourceEvent) /\ s # <<>> /\ Head(s) = x /\ Tail(s) = <<>>
  OBVIOUS
<1> HIDE DEF s
<1>2. LastRaw(n, s) = LastRaw(follow(n, x), <<>>)
  BY <1>1, RawsHead
<1> QED BY <1>2, RawsEmpty DEF s

LEMMA TwoRaws ==
    ASSUME NEW n, NEW x \in SourceEvent, NEW y \in SourceEvent
    PROVE  LastRaw(n, <<x, y>>) = follow(follow(n, x), y)
<1> DEFINE s == <<x, y>>
<1>1. s \in Seq(SourceEvent) /\ s # <<>> /\ Head(s) = x /\ Tail(s) = <<y>>
  OBVIOUS
<1> HIDE DEF s
<1>2. LastRaw(n, s) = LastRaw(follow(n, x), <<y>>)
  BY <1>1, RawsHead
<1> QED BY <1>2, OneRaw DEF s

LEMMA ThreeRaws ==
    ASSUME NEW n, NEW x \in SourceEvent, NEW y \in SourceEvent, NEW z \in SourceEvent
    PROVE  LastRaw(n, <<x, y, z>>) = follow(follow(follow(n, x), y), z)
<1> DEFINE s == <<x, y, z>>
<1>1. s \in Seq(SourceEvent) /\ s # <<>> /\ Head(s) = x /\ Tail(s) = <<y, z>>
  OBVIOUS
<1> HIDE DEF s
<1>2. LastRaw(n, s) = LastRaw(follow(n, x), <<y, z>>)
  BY <1>1, RawsHead
<1> QED BY <1>2, TwoRaws DEF s

\* What the source writes to the kernel's buffer at once.
LEMMA Packets ==
    ASSUME TypeInv, NEW packet \in packets
    PROVE  /\ packet \in Seq(SourceEvent)
           /\ LastRaw(raws, packet)
                = IF \E i \in DOMAIN packet : IsRaw(packet[i]) THEN next(raws) ELSE raws
           /\ next(raws) \in 1 .. RAWS
<1>1. raws \in 1 .. RAWS /\ UserKey \subseteq Key
  BY InterceptorAssumption DEF TypeInv
<1> DEFINE r == raw(next(raws))
<1>2. /\ next(raws) \in 1 .. RAWS /\ r \in SourceEvent /\ follow(raws, r) = next(raws)
      /\ IsRaw(r)
  BY <1>1, Numbers, Raw
<1>3. /\ SYN \in SourceEvent /\ REPEAT \in SourceEvent
      /\ \A n : follow(n, SYN) = n /\ follow(n, REPEAT) = n
  BY Marks DEF SourceEvent, Known, follow
<1> HIDE DEF r
<1>4. CASE packet = <<REPEAT, SYN>>
  <2>1. packet \in Seq(SourceEvent) /\ DOMAIN packet = {1, 2} /\ packet[1] = REPEAT /\ packet[2] = SYN
    BY <1>3, <1>4
  <2>2. LastRaw(raws, packet) = raws
    BY <1>3, <1>4, TwoRaws
  <2> QED BY <1>2, <2>1, <2>2, Marks
<1>5. ASSUME NEW k \in UserKey,
             packet \in {<<toggle(k), SYN>>, <<r, toggle(k), SYN>>, <<toggle(k), r, SYN>>}
      PROVE  /\ packet \in Seq(SourceEvent)
             /\ LastRaw(raws, packet)
                  = IF \E i \in DOMAIN packet : IsRaw(packet[i]) THEN next(raws) ELSE raws
  <2> DEFINE e == toggle(k)
  <2>1. e \in SourceEvent /\ ~IsRaw(e) /\ \A n : follow(n, e) = n
    <3>1. e \in KeyEvent
      BY <1>1, <1>5, KeyOf DEF toggle
    <3> HIDE DEF e
    <3> QED BY <3>1, KeyEvents DEF SourceEvent, Known, follow
  <2> HIDE DEF e
  <2>2. CASE packet = <<e, SYN>>
    <3>1. packet \in Seq(SourceEvent) /\ DOMAIN packet = {1, 2} /\ packet[1] = e /\ packet[2] = SYN
      BY <1>3, <2>1, <2>2
    <3>2. LastRaw(raws, packet) = raws
      BY <1>3, <2>1, <2>2, TwoRaws
    <3> QED BY <2>1, <3>1, <3>2, Marks
  <2>3. CASE packet = <<r, e, SYN>>
    <3>1. packet \in Seq(SourceEvent) /\ 1 \in DOMAIN packet /\ packet[1] = r
      BY <1>2, <1>3, <2>1, <2>3
    <3>2. LastRaw(raws, <<r, e, SYN>>) = follow(follow(follow(raws, r), e), SYN)
      BY <1>2, <1>3, <2>1, ThreeRaws
    <3>3. LastRaw(raws, packet) = next(raws)
      BY <1>2, <1>3, <2>1, <2>3, <3>2
    <3> QED BY <1>2, <3>1, <3>3
  <2>4. CASE packet = <<e, r, SYN>>
    <3>1. packet \in Seq(SourceEvent) /\ 2 \in DOMAIN packet /\ packet[2] = r
      BY <1>2, <1>3, <2>1, <2>4
    <3>2. LastRaw(raws, <<e, r, SYN>>) = follow(follow(follow(raws, e), r), SYN)
      BY <1>2, <1>3, <2>1, ThreeRaws
    <3>3. LastRaw(raws, packet) = next(raws)
      BY <1>2, <1>3, <2>1, <2>4, <3>2
    <3> QED BY <1>2, <3>1, <3>3
  <2> QED BY <1>5, <2>2, <2>3, <2>4 DEF e
<1>6. \/ packet = <<REPEAT, SYN>>
      \/ \E k \in UserKey :
            packet \in {<<toggle(k), SYN>>, <<r, toggle(k), SYN>>, <<toggle(k), r, SYN>>}
  BY DEF packets, r
<1> QED BY <1>2, <1>4, <1>5, <1>6


-----------------------------------------------------------------------------
(* Commands. *)

LEMMA Answers ==
    ASSUME NEW u \in Answer
    PROVE  /\ u # NoCommand /\ u.kind \in {"keys", "events", "reset"}
           /\ u.kind = "keys" => u.keys \in SUBSET Key
           /\ u.kind = "events" => u.events \in Seq(KeyEvent)
<1>1. NoCommand.kind = "none"
  BY DEF NoCommand
<1>2. CASE u \in [kind : {"keys"}, device : {device}, keys : SUBSET Key]
  BY <1>1, <1>2
<1>3. CASE u \in [kind : {"events"}, device : {device}, events : Seq([key : Key, down : BOOLEAN])]
  BY <1>1, <1>3 DEF KeyEvent
<1>4. CASE u = Reset(device)
  BY <1>1, <1>4 DEF Reset
<1> QED BY <1>2, <1>3, <1>4, InterceptorAssumption DEF Answer

LEMMA KeyStateReached ==
    ASSUME NEW from \in SUBSET Key, NEW to \in SUBSET Key, from # to
    PROVE  /\ key_state_events(from, to) \in Seq(Known)
           /\ key_state_events(from, to) # <<>>
           /\ keys_after(from, key_state_events(from, to)) = to
<1> DEFINE evs == key_state_events(from, to)
<1>1. evs = key_state_events(from, to)
  OBVIOUS
<1> HIDE DEF evs
<1>2. evs \in Seq(Known) /\ evs # <<>> /\ keys_after(from, evs) = to
  BY <1>1, KeyStateOrder, Zenon
<1> QED BY <1>2 DEF evs

\* The frame of an update leads to the keys the update says.
LEMMA FrameOf ==
    ASSUME NEW u \in Answer, u.kind # "reset", pressed_keys \in SUBSET Key
    PROVE  /\ frame_of(u) \in Seq(Known)
           /\ keys_after(pressed_keys, frame_of(u)) = written(pressed_keys, u)
           /\ frame_of(u) = <<>> => written(pressed_keys, u) = pressed_keys
<1>1. CASE u.kind = "keys"
  <2>1. u.keys \in SUBSET Key /\ written(pressed_keys, u) = u.keys
    BY <1>1, Answers DEF written
  <2> DEFINE evs == frame_of(u)
             to  == u.keys
  <2>2. evs = key_state_events(pressed_keys, to) /\ to \in SUBSET Key
    BY <1>1, <2>1 DEF frame_of
  <2> HIDE DEF evs, to
  <2>3. CASE pressed_keys = to
    <3>1. key_state_events(pressed_keys, to) = <<>>
      BY <2>3 DEF key_state_events
    <3>2. evs = <<>> /\ <<>> \in Seq(Known)
      BY <2>2, <3>1
    <3> QED BY <2>1, <2>3, <3>2, KeysEmpty DEF evs, to
  <2>4. CASE pressed_keys # to
    <3>1. evs \in Seq(Known) /\ evs # <<>> /\ keys_after(pressed_keys, evs) = to
      BY <2>2, <2>4, KeyStateReached
    <3> QED BY <2>1, <3>1 DEF evs, to
  <2> QED BY <2>3, <2>4
<1>2. CASE u.kind = "events"
  <2> DEFINE s == u.events
             evs == Append(s, SYN)
  <2>1. s \in Seq(KeyEvent) /\ written(pressed_keys, u) = keys_after(pressed_keys, s)
    BY <1>2, Answers DEF written
  <2>2. frame_of(u) = evs
    BY <1>2 DEF frame_of
  <2>3. SYN \in Known /\ SYN \in SourceEvent /\ s \in Seq(Known)
    BY <2>1 DEF Known, SourceEvent
  <2>4. s \in Seq(SourceEvent)
    BY <2>3, KnownIsInput
  <2> HIDE DEF s
  <2>5. evs \in Seq(Known) /\ evs # <<>>
    <3>1. evs \in Seq(Known) /\ Len(evs) = Len(s) + 1 /\ Len(s) \in Nat
      BY <2>3, AppendProperties, LenProperties
    <3>2. Len(evs) # 0
      BY <3>1
    <3> QED BY <3>1, <3>2, EmptySeq
  <2>6. keys_after(pressed_keys, evs) = update_key_state(keys_after(pressed_keys, s), SYN)
    BY <2>3, <2>4, KeysAppend
  <2>7. keys_after(pressed_keys, evs) = keys_after(pressed_keys, s)
    BY <2>6, Marks DEF update_key_state
  <2> QED BY <2>1, <2>2, <2>5, <2>7 DEF s
<1> QED BY <1>1, <1>2, Answers

-----------------------------------------------------------------------------
(* The inductive invariant. *)

(* read_frame has a part of a frame only while the Interceptor has the rest *)
(* of it; an unknown event waits to be written only while it has no whole   *)
(* frame; commands are carried out between frames.                          *)
FrameInv ==
    /\ frame # <<>> => is_complete
    /\ writing # NoRaw => ~is_complete
    /\ task # "reading" => frame = <<>>
    /\ command # NoCommand => frame = <<>>
    /\ command # NoCommand => task \in {"reading", "resetting"}

(* What is down at the copy is what pressed_keys and the written part of    *)
(* the current frame say.                                                   *)
WriteInv ==
    task \notin {"failed", "ended"} =>
        /\ command.kind \in {"keys", "events"} =>
              /\ writing_frame.events = frame_of(command)
              /\ \/ writing_frame = NoWrite
                 \/ writing_frame.cursor < Len(writing_frame.events)
              /\ node_keys = keys_after(pressed_keys,
                                 SubSeq(writing_frame.events, 1, writing_frame.cursor))
        /\ command.kind \notin {"keys", "events"} => pressed_keys = node_keys

IInv == TypeInv /\ FrameInv /\ InputAccounted /\ RawPassedOnce /\ WriteInv

LEMMA InitIInv == Init => IInv
<1> SUFFICES ASSUME Init PROVE IInv
  OBVIOUS
<1>1. TypeInv
  <2>1. held \in SUBSET Key
    BY InterceptorAssumption DEF Init
  <2>2. RAWS \in 1 .. RAWS /\ 0 \in 0 .. RAWS /\ 0 <= LIBEVDEV
    BY Capacities
  <2>3. Len(<<>>) = 0 /\ \A S : <<>> \in Seq(S)
    BY EmptySeq
  <2>4. NoWrite \in [events : Seq(Known), cursor : Nat]
    BY <2>3 DEF NoWrite
  <2> QED BY <2>1, <2>2, <2>3, <2>4 DEF Init, WriterInit, NoRaw, TypeInv
<1>2. FrameInv
  BY DEF Init, FrameInv, NoRaw, NoCommand
<1>3. InputAccounted
  <2>1. frame \o events = <<>> /\ buffered = <<>>
    BY DEF Init, buffered
  <2> QED BY <2>1, KeysEmpty DEF Init, InputAccounted
<1>4. RawPassedOnce
  <2>1. unwritten \o buffered = <<>>
    BY DEF Init, buffered, unwritten
  <2>2. LastRaw(passed, unwritten \o buffered) = raws
    BY <2>1, RawsEmpty DEF Init
  <2> QED BY <2>2 DEF RawPassedOnce, LastRaw
<1>5. WriteInv
  BY DEF Init, WriterInit, NoCommand, WriteInv
<1> QED BY <1>1, <1>2, <1>3, <1>4, <1>5 DEF IInv

\* A step of the writer keeps its types.
LEMMA WriteEventType ==
    ASSUME TypeInv, write_event
    PROVE  /\ pressed_keys' \in SUBSET Key /\ node_keys' \in SUBSET Key
           /\ writing_frame' \in [events : Seq(Known), cursor : Nat]
<1> DEFINE evs == writing_frame.events
           n == writing_frame.cursor
           e == evs[n + 1]
<1>1. evs \in Seq(Known) /\ n \in Nat /\ pressed_keys \in SUBSET Key /\ node_keys \in SUBSET Key
  BY DEF TypeInv
<1>2. n + 1 <= Len(evs)
  BY DEF write_event
<1>3. n + 1 \in 1 .. Len(evs)
  BY <1>1, <1>2
<1>4. e \in SourceEvent /\ evs \in Seq(SourceEvent)
  BY <1>1, <1>3, KnownIsInput
<1>5. node_keys' = update_key_state(node_keys, e)
  BY DEF write_event
<1>6. \/ pressed_keys' = keys_after(pressed_keys, evs) /\ writing_frame' = NoWrite
      \/ pressed_keys' = pressed_keys /\ writing_frame' = [writing_frame EXCEPT !.cursor = n + 1]
  BY DEF write_event
<1> HIDE DEF e
<1>7. node_keys' \in SUBSET Key
  BY <1>1, <1>4, <1>5, UpdatedKeys
<1>8. CASE pressed_keys' = keys_after(pressed_keys, evs) /\ writing_frame' = NoWrite
  <2>1. keys_after(pressed_keys, evs) \in SUBSET Key
    <3> HIDE DEF evs
    <3> QED BY <1>1, <1>4, KeysType
  <2>2. NoWrite \in [events : Seq(Known), cursor : Nat]
    BY DEF NoWrite
  <2> QED BY <1>7, <1>8, <2>1, <2>2
<1>9. CASE pressed_keys' = pressed_keys /\ writing_frame' = [writing_frame EXCEPT !.cursor = n + 1]
  <2>1. writing_frame = [events |-> evs, cursor |-> n]
    BY DEF TypeInv
  <2>2. writing_frame' = [events |-> evs, cursor |-> n + 1]
    <3>1. DOMAIN writing_frame = {"events", "cursor"}
      BY <2>1
    <3> QED BY <1>9, <3>1
  <2> HIDE DEF evs, n
  <2>3. writing_frame' \in [events : Seq(Known), cursor : Nat]
    BY <1>1, <2>2
  <2> QED BY <1>1, <1>7, <1>9, <2>3
<1> QED BY <1>6, <1>8, <1>9


LEMMA TypeKept ==
    ASSUME TypeInv, [Next]_vars
    PROVE  TypeInv'
<1>1. CASE UNCHANGED vars
  BY <1>1 DEF TypeInv, vars, source, reader, writer
<1>2. CASE Emit
  <2>1. PICK packet \in packets :
          /\ held' = keys_after(held, packet)
          /\ raws' = IF \E i \in DOMAIN packet : IsRaw(packet[i]) THEN next(raws) ELSE raws
          /\ kernel' = IF Len(kernel \o packet) <= KERNEL THEN kernel \o packet
                       ELSE <<DROPPED, SYN>>
    BY <1>2 DEF Emit
  <2>2. packet \in Seq(SourceEvent) /\ next(raws) \in 1 .. RAWS
    BY Packets
  <2>3. held' \in SUBSET Key
    BY <2>1, <2>2, KeysType DEF TypeInv
  <2>4. raws' \in 1 .. RAWS
    BY <2>1, <2>2 DEF TypeInv
  <2>5. kernel' \in Seq(SourceEvent)
    <3>1. <<DROPPED, SYN>> \in Seq(SourceEvent)
      BY DEF SourceEvent, Known
    <3>2. kernel \o packet \in Seq(SourceEvent)
      BY <2>2 DEF TypeInv
    <3> QED BY <2>1, <3>1, <3>2
  <2> QED BY <1>2, <2>3, <2>4, <2>5 DEF Emit, TypeInv, reader, writer
<1>3. CASE ReadEvent
  <2> DEFINE e == Head(readable)
  <2>1. /\ unread \in Seq(SourceEvent) /\ Tail(readable) \in Seq(SourceEvent)
        /\ e \in SourceEvent /\ Len(Tail(readable)) <= LIBEVDEV
    BY <1>3, Readable DEF ReadEvent
  <2>2. /\ e # DROPPED /\ libevdev' = Tail(readable) /\ kernel' = unread
        /\ key_state' = update_key_state(key_state, e)
        /\ events' = IF IsRaw(e) \/ e = REPEAT THEN events ELSE Append(events, e)
        /\ writing' = IF IsRaw(e) THEN e.raw ELSE NoRaw
    BY <1>3 DEF ReadEvent
  <2> HIDE DEF e
  <2>3. /\ IsRaw(e) => e.raw \in 1 .. RAWS
        /\ ~IsRaw(e) /\ e # REPEAT => e \in Known
    BY <2>1, <2>2, InputKinds
  <2>4. key_state' \in SUBSET Key
    BY <2>1, <2>2, UpdatedKeys DEF TypeInv
  <2>5. events' \in Seq(Known)
    BY <2>2, <2>3 DEF TypeInv
  <2>6. writing' \in 0 .. RAWS
    BY <2>2, <2>3, Capacities DEF NoRaw
  <2> QED BY <1>3, <2>1, <2>2, <2>4, <2>5, <2>6 DEF ReadEvent, TypeInv, writer
<1>4. CASE PassRaw
  <2>1. writing \in 1 .. RAWS /\ 0 \in 0 .. RAWS
    BY <1>4, Capacities DEF PassRaw, TypeInv, NoRaw
  <2> QED BY <1>4, <2>1 DEF PassRaw, TypeInv, NoRaw, source, writer
<1>5. CASE TakeEvent
  <2>1. events # <<>> /\ events \in Seq(Known)
    BY <1>5 DEF TakeEvent, is_complete, TypeInv
  <2>2. Head(events) \in Known /\ Tail(events) \in Seq(Known) /\ frame \in Seq(Known)
        /\ frame \in Seq(SourceEvent)
    BY <2>1, KnownIsInput DEF TypeInv
  <2>3. keys_after(seen, frame) \in SUBSET Key
    BY <2>2, KeysType DEF TypeInv
  <2>4. CASE Head(events) = SYN
    <3>1. /\ events' = Tail(events) /\ task' = "sending" /\ channel' = Append(channel, "sending")
          /\ seen' = keys_after(seen, frame) /\ frame' = <<>>
      BY <1>5, <2>4 DEF TakeEvent, report
    <3> QED BY <1>5, <2>2, <2>3, <3>1 DEF TakeEvent, TypeInv, source, writer
  <2>5. CASE Head(events) # SYN
    <3>1. /\ events' = Tail(events) /\ frame' = Append(frame, Head(events))
          /\ UNCHANGED <<task, channel, seen>>
      BY <1>5, <2>5 DEF TakeEvent
    <3> QED BY <1>5, <2>2, <3>1 DEF TakeEvent, TypeInv, source, writer
  <2> QED BY <2>4, <2>5
<1>6. CASE InputLost
  <2>1. Len(<<>>) = 0 /\ 0 \in 0 .. RAWS /\ 0 <= LIBEVDEV
    BY Capacities
  <2> QED BY <1>6, <2>1 DEF InputLost, recover_input_loss, report, TypeInv, NoRaw, writer
<1>7. CASE ReadFails
  BY <1>7 DEF ReadFails, report, TypeInv, source, writer
<1>8. CASE Sent
  <2>1. task' \in {"reading", "resetting", "ended"}
    BY <1>8 DEF Sent, after_send
  <2>2. CASE task = "failed"
    <3>1. commands' = <<>> /\ new_writer
      BY <1>8, <2>2 DEF Sent
    <3>2. /\ pressed_keys' \in SUBSET Key /\ node_keys' \in SUBSET Key
          /\ writing_frame' \in [events : Seq(Known), cursor : Nat]
      BY <3>1 DEF new_writer, NoWrite
    <3> QED BY <1>8, <2>1, <3>1, <3>2 DEF Sent, TypeInv, source, reader
  <2>3. CASE task # "failed"
    BY <1>8, <2>1, <2>3 DEF Sent, TypeInv, source, reader, writer
  <2> QED BY <2>2, <2>3
<1>9. CASE TakeCommand
  <2> DEFINE u == Head(commands)
  <2>1. u \in Answer /\ Tail(commands) \in Seq(Answer)
    BY <1>9 DEF TakeCommand, TypeInv
  <2>2. /\ command' = u /\ commands' = Tail(commands) /\ frame' = <<>>
        /\ writing' = writing
    BY <1>9 DEF TakeCommand, drop_read
  <2>3. IF u.kind = "reset" THEN UNCHANGED writer ELSE start_write(u)
    BY <1>9 DEF TakeCommand
  <2> HIDE DEF u
  <2>4. /\ pressed_keys' \in SUBSET Key /\ node_keys' \in SUBSET Key
        /\ writing_frame' \in [events : Seq(Known), cursor : Nat]
    <3>1. CASE u.kind = "reset"
      BY <2>3, <3>1 DEF TypeInv, writer
    <3>2. CASE u.kind # "reset"
      <4>1. frame_of(u) \in Seq(Known)
        BY <2>1, <3>2, FrameOf DEF TypeInv
      <4> QED BY <2>3, <3>2, <4>1 DEF TypeInv, start_write
    <3> QED BY <3>1, <3>2
  <2> QED BY <1>9, <2>1, <2>2, <2>4 DEF TakeCommand, TypeInv, source
<1>10. CASE WriteCommand
  <2>1. /\ pressed_keys' \in SUBSET Key /\ node_keys' \in SUBSET Key
        /\ writing_frame' \in [events : Seq(Known), cursor : Nat]
    <3>1. CASE write_event
      BY <3>1, WriteEventType
    <3>2. CASE UNCHANGED writer
      BY <3>2 DEF TypeInv, writer
    <3> QED BY <1>10, <3>1, <3>2 DEF WriteCommand
  <2>2. command' \in Answer \cup {NoCommand}
    BY <1>10 DEF WriteCommand, TypeInv
  <2> QED BY <1>10, <2>1, <2>2 DEF WriteCommand, TypeInv, source, reader
<1>11. CASE ResetWriter
  BY <1>11 DEF ResetWriter, new_writer, NoWrite, TypeInv, source, reader
<1>12. CASE CommandFails
  <2>1. /\ pressed_keys' \in SUBSET Key /\ node_keys' \in SUBSET Key
        /\ writing_frame' \in [events : Seq(Known), cursor : Nat]
    <3>1. NoWrite \in [events : Seq(Known), cursor : Nat]
      BY DEF NoWrite
    <3> QED BY <1>12, <3>1 DEF CommandFails, new_writer, TypeInv
  <2>2. task' = "failed" /\ channel' = Append(channel, "failed") /\ command' = NoCommand
    BY <1>12 DEF CommandFails, report
  <2> QED BY <1>12, <2>1, <2>2 DEF CommandFails, TypeInv, source, reader
<1>13. CASE Receive
  <2>1. Tail(channel) \in Seq({"sending", "lost", "failed"})
    BY <1>13 DEF Receive, TypeInv
  <2> QED BY <1>13, <2>1 DEF Receive, TypeInv, source, reader, writer
<1>14. CASE Command
  <2>1. commands' \in Seq(Answer)
    BY <1>14 DEF Command, TypeInv, Answer
  <2> QED BY <1>14, <2>1 DEF Command, TypeInv, source, reader, writer
<1>15. CASE AnswerLoss
  <2>1. commands' \in Seq(Answer)
    <3>1. Reset(device) \in Answer /\ commands \in Seq(Answer)
      BY DEF Answer, TypeInv
    <3>2. CASE commands' = commands
      BY <3>1, <3>2
    <3>3. CASE commands' = Append(commands, Reset(device))
      BY <3>1, <3>3, AppendProperties
    <3> QED BY <1>15, <3>2, <3>3 DEF AnswerLoss
  <2>2. resets' \in Nat
    BY <1>15 DEF AnswerLoss, TypeInv
  <2> QED BY <1>15, <2>1, <2>2 DEF AnswerLoss, TypeInv, source, reader, writer
<1> QED BY <1>1, <1>2, <1>3, <1>4, <1>5, <1>6, <1>7, <1>8, <1>9, <1>10, <1>11, <1>12, <1>13,
           <1>14, <1>15 DEF Next, ReadStep


\* Steps that leave the reader and the source alone.
Elsewhere ==
    \/ UNCHANGED vars
    \/ ReadFails \/ Sent \/ TakeCommand \/ WriteCommand \/ ResetWriter \/ CommandFails
    \/ Receive \/ Command \/ AnswerLoss

LEMMA ReaderKept ==
    ASSUME FrameInv, Elsewhere
    PROVE  /\ UNCHANGED <<held, raws, kernel, libevdev, key_state, events, writing, passed, seen>>
           /\ task' \notin {"failed", "ended"} => task \notin {"failed", "ended"} /\ frame' = frame
           /\ frame' \in {frame, <<>>}
<1>1. CASE UNCHANGED vars
  BY <1>1 DEF vars, source, reader
<1>2. CASE ReadFails
  BY <1>2 DEF ReadFails, report, source
<1>3. CASE Sent
  BY <1>3 DEF Sent, after_send, source, reader
<1>4. CASE TakeCommand
  <2>1. frame = <<>>
    <3>1. CASE task = "reading" /\ yields
      BY <3>1 DEF yields, FrameInv
    <3>2. CASE task = "resetting"
      BY <3>2 DEF FrameInv
    <3> QED BY <1>4, <3>1, <3>2 DEF TakeCommand
  <2> QED BY <1>4, <2>1 DEF TakeCommand, drop_read, source
<1>5. CASE WriteCommand
  BY <1>5 DEF WriteCommand, source, reader
<1>6. CASE ResetWriter
  <2>1. task \in {"reading", "resetting"}
    BY <1>6 DEF ResetWriter, FrameInv, NoCommand
  <2> QED BY <1>6, <2>1 DEF ResetWriter, source, reader
<1>7. CASE CommandFails
  BY <1>7 DEF CommandFails, report, source, reader
<1>8. CASE Receive \/ Command \/ AnswerLoss
  BY <1>8 DEF Receive, Command, AnswerLoss, source, reader
<1> QED BY <1>1, <1>2, <1>3, <1>4, <1>5, <1>6, <1>7, <1>8 DEF Elsewhere

\* Between a frame's first event and its last, its rest is in events.
LEMMA RestOfFrame ==
    ASSUME events \in Seq(Known), is_complete, Head(events) # SYN
    PROVE  Tail(events) # <<>> /\ Last(Tail(events)) = SYN
<1>1. events # <<>> /\ events[Len(events)] = SYN /\ Head(events) = events[1]
  BY DEF is_complete, Last
<1>2. Len(events) \in Nat /\ Len(events) # 1 /\ Len(events) # 0
  BY <1>1
<1> DEFINE rest == Tail(events)
<1>3. /\ rest \in Seq(Known) /\ Len(rest) = Len(events) - 1
      /\ \A i \in 1 .. Len(rest) : rest[i] = events[i + 1]
  BY <1>1, HeadTailProperties
<1> HIDE DEF rest
<1>4. Len(rest) \in 1 .. Len(rest) /\ Len(rest) + 1 = Len(events) /\ Len(rest) # 0
  BY <1>2, <1>3
<1>5. rest[Len(rest)] = SYN
  BY <1>1, <1>3, <1>4
<1>6. rest # <<>>
  BY <1>4, EmptySeq
<1> QED BY <1>5, <1>6 DEF rest, Last

LEMMA FrameKept ==
    ASSUME TypeInv, FrameInv, [Next]_vars
    PROVE  FrameInv'
<1>1. CASE Emit
  BY <1>1 DEF Emit, reader, FrameInv, is_complete
<1>2. CASE ReadEvent
  <2>1. frame = <<>> /\ frame' = <<>> /\ command' = NoCommand
    BY <1>2 DEF ReadEvent, Reads, FrameInv
  <2>2. writing' # NoRaw => events' = events
    BY <1>2 DEF ReadEvent
  <2> QED BY <1>2, <2>1, <2>2 DEF ReadEvent, Reads, FrameInv, is_complete
<1>3. CASE PassRaw
  BY <1>3 DEF PassRaw, Reads, FrameInv, is_complete
<1>4. CASE TakeEvent
  <2>1. command' = NoCommand /\ writing' = NoRaw
    BY <1>4 DEF TakeEvent, Reads, FrameInv
  <2>2. CASE Head(events) = SYN
    BY <1>4, <2>1, <2>2 DEF TakeEvent, FrameInv
  <2>3. CASE Head(events) # SYN
    <3>1. Tail(events) # <<>> /\ Last(Tail(events)) = SYN
      BY <1>4, <2>3, RestOfFrame DEF TakeEvent, TypeInv
    <3>2. events' = Tail(events) /\ task' = "reading"
      BY <1>4, <2>3 DEF TakeEvent, Reads
    <3> QED BY <2>1, <3>1, <3>2 DEF FrameInv, is_complete
  <2> QED BY <2>2, <2>3
<1>5. CASE InputLost
  BY <1>5 DEF InputLost, Reads, recover_input_loss, FrameInv
<1>6. CASE Elsewhere
  <2>1. UNCHANGED <<events, writing>> /\ frame' \in {frame, <<>>}
    BY <1>6, ReaderKept
  <2>2. task' # "reading" => frame' = <<>>
    <3>1. frame' = frame \/ frame' = <<>>
      BY <2>1
    <3>2. CASE task' = task
      BY <3>1, <3>2 DEF FrameInv
    <3>3. CASE Sent
      BY <3>1, <3>3 DEF Sent, FrameInv
    <3>4. CASE CommandFails
      <4>1. frame = <<>>
        BY <3>4 DEF CommandFails, FrameInv
      <4> QED BY <3>1, <4>1
    <3>5. CASE ReadFails
      BY <3>5 DEF ReadFails
    <3>6. task' = task \/ Sent \/ CommandFails \/ ReadFails \/ task' = "reading"
      BY <1>6 DEF Elsewhere, vars, TakeCommand, WriteCommand, ResetWriter, Receive, Command,
                  AnswerLoss
    <3> QED BY <3>2, <3>3, <3>4, <3>5, <3>6
  <2>3. command' # NoCommand => frame' = <<>>
    <3>1. CASE TakeCommand
      BY <3>1 DEF TakeCommand, drop_read
    <3>2. CASE command' \in {command, NoCommand}
      BY <2>1, <3>2 DEF FrameInv
    <3> QED BY <1>6, <3>1, <3>2
            DEF Elsewhere, vars, ReadFails, Sent, WriteCommand, ResetWriter, CommandFails, Receive,
                Command, AnswerLoss
  <2>4. command' # NoCommand => task' \in {"reading", "resetting"}
    BY <1>6 DEF Elsewhere, vars, FrameInv, ReadFails, Reads, Sent, TakeCommand,
                WriteCommand, ResetWriter, CommandFails, Receive, Command, AnswerLoss
  <2> QED BY <2>1, <2>2, <2>3, <2>4 DEF FrameInv, is_complete
<1> QED BY <1>1, <1>2, <1>3, <1>4, <1>5, <1>6 DEF Next, ReadStep, Elsewhere

\* An event from outside adds to what is buffered, unless it pushes the rest out.
LEMMA Emitted ==
    ASSUME TypeInv, Emit, intact'
    PROVE  /\ intact
           /\ \E packet \in packets :
                 /\ buffered' = buffered \o packet
                 /\ held' = keys_after(held, packet)
                 /\ raws' = LastRaw(raws, packet)
<1>1. PICK packet \in packets :
        /\ held' = keys_after(held, packet)
        /\ raws' = IF \E i \in DOMAIN packet : IsRaw(packet[i]) THEN next(raws) ELSE raws
        /\ kernel' = IF Len(kernel \o packet) <= KERNEL THEN kernel \o packet
                     ELSE <<DROPPED, SYN>>
  BY DEF Emit
<1>2. packet \in Seq(SourceEvent) /\ raws' = LastRaw(raws, packet)
  BY <1>1, Packets
<1>3. kernel \in Seq(SourceEvent) /\ libevdev \in Seq(SourceEvent) /\ buffered \in Seq(SourceEvent)
  BY DEF TypeInv, buffered
<1>4. libevdev' = libevdev /\ task' = task
  BY DEF Emit, reader
<1>5. kernel' # <<DROPPED, SYN>>
  <2>1. SUFFICES ASSUME kernel' = <<DROPPED, SYN>> PROVE Contains(buffered', DROPPED)
    BY DEF intact
  <2> QED BY <1>3, <1>4, <2>1, Lost DEF buffered
<1>6. buffered' = buffered \o packet
  <2>1. kernel' = kernel \o packet
    BY <1>1, <1>5
  <2>2. libevdev \o (kernel \o packet) = (libevdev \o kernel) \o packet
    BY <1>2, <1>3
  <2> QED BY <1>4, <2>1, <2>2 DEF buffered
<1>7. intact
  <2> DEFINE all == buffered
             allnext == buffered'
  <2>1. all \in Seq(SourceEvent) /\ allnext = all \o packet
    BY <1>3, <1>6
  <2>2. ~Contains(allnext, DROPPED) /\ task' \notin {"failed", "ended"}
    BY DEF intact
  <2> HIDE DEF all, allnext
  <2>3. ~Contains(all, DROPPED)
    BY <1>2, <2>1, <2>2, Lost
  <2> QED BY <1>4, <2>2, <2>3 DEF intact, all
<1> QED BY <1>1, <1>2, <1>6, <1>7

\* The Interceptor takes the oldest event that is buffered.
LEMMA Taken ==
    ASSUME TypeInv, ReadEvent
    PROVE  /\ buffered \in Seq(SourceEvent) /\ buffered # <<>>
           /\ Head(readable) = Head(buffered) /\ Head(buffered) \in SourceEvent
           /\ buffered' = Tail(buffered) /\ (intact' => intact)
<1>1. /\ buffered \in Seq(SourceEvent) /\ buffered # <<>>
      /\ Head(readable) = Head(buffered) /\ Tail(readable) \o unread = Tail(buffered)
      /\ Head(readable) \in SourceEvent
  BY Readable DEF ReadEvent
<1>2. /\ buffered' = Tail(buffered) /\ Head(buffered) # DROPPED /\ task' = task
  BY <1>1 DEF ReadEvent, buffered
<1>3. intact' => intact
  <2> DEFINE all == buffered
             allnext == buffered'
  <2>1. all \in Seq(SourceEvent) /\ all # <<>> /\ Head(all) # DROPPED /\ allnext = Tail(all)
    BY <1>1, <1>2
  <2> HIDE DEF all, allnext
  <2>2. Contains(all, DROPPED) => Contains(allnext, DROPPED)
    BY <2>1, Lost
  <2> QED BY <1>2, <2>2 DEF intact, all, allnext
<1> QED BY <1>1, <1>2, <1>3


LEMMA InputKept ==
    ASSUME TypeInv, FrameInv, InputAccounted, [Next]_vars
    PROVE  InputAccounted'
<1> SUFFICES ASSUME intact'
             PROVE  /\ keys_after(seen', frame' \o events') = key_state'
                    /\ keys_after(key_state', buffered') = held'
  BY DEF InputAccounted
<1>1. /\ frame \in Seq(Known) /\ events \in Seq(Known) /\ buffered \in Seq(SourceEvent)
      /\ frame \in Seq(SourceEvent) /\ events \in Seq(SourceEvent)
  BY KnownIsInput DEF TypeInv, buffered
<1>2. CASE Emit
  <2>1. UNCHANGED <<key_state, seen, frame, events>>
    BY <1>2 DEF Emit, reader
  <2>2. PICK packet \in packets : buffered' = buffered \o packet /\ held' = keys_after(held, packet)
    BY <1>2, Emitted
  <2>3. keys_after(seen, frame \o events) = key_state /\ keys_after(key_state, buffered) = held
    BY <1>2, Emitted DEF InputAccounted
  <2>4. keys_after(key_state, buffered \o packet) = keys_after(keys_after(key_state, buffered), packet)
    BY <1>1, Packets, KeysConcat
  <2> QED BY <2>1, <2>2, <2>3, <2>4
<1>3. CASE ReadEvent
  <2> DEFINE e == Head(buffered)
  <2>1. /\ buffered # <<>> /\ e \in SourceEvent /\ e # DROPPED /\ buffered' = Tail(buffered)
        /\ key_state' = update_key_state(key_state, e)
        /\ events' = IF IsRaw(e) \/ e = REPEAT THEN events ELSE Append(events, e)
        /\ UNCHANGED <<held, seen, frame>>
    BY <1>3, Taken DEF ReadEvent
  <2>2. keys_after(seen, frame \o events) = key_state /\ keys_after(key_state, buffered) = held
    BY <1>3, Taken DEF InputAccounted
  <2> HIDE DEF e
  <2>3. keys_after(key_state', buffered') = held'
    <3>1. keys_after(key_state, buffered) = keys_after(update_key_state(key_state, e), Tail(buffered))
      BY <1>1, <2>1, KeysHead DEF e
    <3> QED BY <2>1, <2>2, <3>1
  <2>4. CASE IsRaw(e) \/ e = REPEAT
    <3>1. ~IsKey(e)
      BY <2>1, <2>4, InputKinds, Marks
    <3>2. key_state' = key_state /\ events' = events
      BY <2>1, <2>4, <3>1 DEF update_key_state
    <3> QED BY <2>1, <2>2, <2>3, <3>2
  <2>5. CASE ~ (IsRaw(e) \/ e = REPEAT)
    <3> DEFINE s == frame \o events
    <3>1. s \in Seq(SourceEvent) /\ frame' \o events' = Append(s, e)
      BY <1>1, <2>1, <2>5
    <3>2. keys_after(seen, s) = key_state
      BY <2>2
    <3> HIDE DEF s
    <3>3. keys_after(seen, Append(s, e)) = update_key_state(keys_after(seen, s), e)
      BY <2>1, <3>1, KeysAppend
    <3> QED BY <2>1, <2>3, <3>1, <3>2, <3>3
  <2> QED BY <2>4, <2>5
<1>4. CASE PassRaw
  BY <1>4 DEF PassRaw, source, InputAccounted, intact, buffered
<1>5. CASE TakeEvent
  <2>1. /\ UNCHANGED <<libevdev, kernel, key_state, held>> /\ events # <<>> /\ events' = Tail(events)
        /\ buffered' = buffered /\ intact
    BY <1>5 DEF TakeEvent, Reads, is_complete, source, intact, buffered
  <2>2. keys_after(seen, frame \o events) = key_state /\ keys_after(key_state, buffered) = held
    BY <2>1 DEF InputAccounted
  <2>3. CASE Head(events) = SYN
    <3>1. seen' = keys_after(seen, frame) /\ frame' = <<>>
      BY <1>5, <2>3 DEF TakeEvent
    <3>2. keys_after(seen, frame \o events) = keys_after(seen', events)
      BY <1>1, <3>1, KeysConcat
    <3>3. keys_after(seen', events) = keys_after(update_key_state(seen', SYN), Tail(events))
      <4> DEFINE s == seen'
      <4>1. events \in Seq(SourceEvent) /\ events # <<>>
        BY <1>1, <2>1
      <4> HIDE DEF s
      <4>2. keys_after(s, events) = keys_after(update_key_state(s, Head(events)), Tail(events))
        BY <4>1, KeysHead
      <4> QED BY <2>3, <4>2 DEF s
    <3>4. update_key_state(seen', SYN) = seen'
      BY Marks DEF update_key_state
    <3>5. <<>> \o events' = events'
      BY <1>1, <2>1
    <3> QED BY <2>1, <2>2, <3>1, <3>2, <3>3, <3>4, <3>5
  <2>4. CASE Head(events) # SYN
    <3>1. frame' = Append(frame, Head(events)) /\ seen' = seen
      BY <1>5, <2>4 DEF TakeEvent
    <3>2. Append(frame, Head(events)) \o Tail(events) = frame \o events
      BY <1>1, <2>1
    <3> QED BY <2>1, <2>2, <3>1, <3>2
  <2> QED BY <2>3, <2>4
<1>6. CASE InputLost
  <2>1. /\ seen' = held /\ key_state' = held /\ held' = held
        /\ frame' \o events' = <<>> /\ buffered' = <<>>
    BY <1>6 DEF InputLost, recover_input_loss, buffered
  <2> QED BY <2>1, KeysEmpty
<1>7. CASE Elsewhere
  <2>1. /\ UNCHANGED <<held, raws, kernel, libevdev, key_state, events, writing, passed, seen>>
        /\ task' \notin {"failed", "ended"} => task \notin {"failed", "ended"} /\ frame' = frame
    BY <1>7, ReaderKept
  <2>2. task' \notin {"failed", "ended"}
    BY DEF intact
  <2> QED BY <2>1, <2>2 DEF InputAccounted, intact, buffered
<1> QED BY <1>2, <1>3, <1>4, <1>5, <1>6, <1>7 DEF Next, ReadStep, Elsewhere

LEMMA RawsKept ==
    ASSUME TypeInv, FrameInv, RawPassedOnce, [Next]_vars
    PROVE  RawPassedOnce'
<1> SUFFICES ASSUME intact'
             PROVE  LastRaw(passed', unwritten' \o buffered') = raws'
  BY DEF RawPassedOnce, LastRaw
<1>1. intact => LastRaw(passed, unwritten \o buffered) = raws
  BY DEF RawPassedOnce, LastRaw
<1>2. buffered \in Seq(SourceEvent) /\ raws \in 1 .. RAWS /\ passed \in 1 .. RAWS
  BY DEF TypeInv, buffered
<1>3. /\ writing = NoRaw => unwritten = <<>>
      /\ writing # NoRaw => unwritten = <<raw(writing)>> /\ raw(writing) \in SourceEvent
      /\ unwritten \in Seq(SourceEvent)
  <2>1. writing # NoRaw => raw(writing) \in SourceEvent
    BY DEF TypeInv, NoRaw, SourceEvent, Unknown
  <2> QED BY <2>1 DEF unwritten
<1>4. CASE Emit
  <2>1. UNCHANGED <<passed, writing>> /\ unwritten' = unwritten
    BY <1>4 DEF Emit, reader, unwritten
  <2>2. PICK packet \in packets : buffered' = buffered \o packet /\ raws' = LastRaw(raws, packet)
    BY <1>4, Emitted
  <2> DEFINE s == unwritten \o buffered
  <2>3. packet \in Seq(SourceEvent)
    BY Packets
  <2>4. s \in Seq(SourceEvent) /\ unwritten \o (buffered \o packet) = s \o packet
    BY <1>2, <1>3, <2>3
  <2>5. LastRaw(passed, s) = raws
    BY <1>1, <1>4, Emitted
  <2> HIDE DEF s
  <2>6. LastRaw(passed, s \o packet) = LastRaw(LastRaw(passed, s), packet)
    BY <2>3, <2>4, RawsConcat
  <2> QED BY <2>1, <2>2, <2>4, <2>5, <2>6
<1>5. CASE ReadEvent
  <2> DEFINE e == Head(buffered)
             s == buffered
  <2>1. /\ s # <<>> /\ e \in SourceEvent /\ buffered' = Tail(s) /\ writing = NoRaw
        /\ writing' = IF IsRaw(e) THEN e.raw ELSE NoRaw
        /\ UNCHANGED <<passed, raws>> /\ intact
    BY <1>5, Taken DEF ReadEvent
  <2>2. LastRaw(passed, s) = raws
    <3>1. unwritten \o buffered = buffered
      BY <1>2, <1>3, <2>1
    <3> QED BY <1>1, <2>1, <3>1
  <2>3. s \in Seq(SourceEvent) /\ e = Head(s)
    BY <1>2
  <2> HIDE DEF e, s
  <2>4. CASE IsRaw(e)
    <3>1. e = raw(e.raw) /\ e.raw # NoRaw
      BY <2>1, <2>4, InputKinds, Capacities DEF NoRaw
    <3>2. unwritten' = <<e>>
      BY <2>1, <2>4, <3>1 DEF unwritten
    <3>3. <<e>> \o Tail(s) = s
      BY <2>1, <2>3
    <3> QED BY <2>1, <2>2, <3>2, <3>3
  <2>5. CASE ~IsRaw(e)
    <3>1. unwritten' = <<>> /\ follow(passed, e) = passed
      BY <2>1, <2>5 DEF unwritten, follow
    <3>2. LastRaw(passed, s) = LastRaw(follow(passed, e), Tail(s))
      BY <2>1, <2>3, RawsHead
    <3>3. <<>> \o Tail(s) = Tail(s)
      BY <2>1, <2>3
    <3> QED BY <2>1, <2>2, <3>1, <3>2, <3>3
  <2> QED BY <2>4, <2>5
<1>6. CASE PassRaw
  <2>1. /\ writing # NoRaw /\ passed' = writing /\ unwritten' = <<>> /\ buffered' = buffered
        /\ raws' = raws /\ intact
    BY <1>6 DEF PassRaw, unwritten, source, buffered, intact
  <2> DEFINE s == unwritten \o buffered
             r == raw(writing)
  <2>2. s \in Seq(SourceEvent) /\ s # <<>> /\ Head(s) = r /\ Tail(s) = buffered
    <3> DEFINE l == <<r>>
    <3>1. /\ unwritten = l /\ l \in Seq(SourceEvent) /\ l # <<>>
          /\ Head(l) = r /\ Tail(l) = <<>>
      BY <1>3, <2>1
    <3>2. <<>> \o buffered = buffered
      BY <1>2, ConcatEmptySeq
    <3> HIDE DEF l
    <3>3. /\ l \o buffered # <<>> /\ Head(l \o buffered) = Head(l)
          /\ Tail(l \o buffered) = Tail(l) \o buffered
      BY <1>2, <3>1, HeadTailConcat
    <3>4. l \o buffered \in Seq(SourceEvent)
      BY <1>2, <3>1, ConcatProperties
    <3> QED BY <3>1, <3>2, <3>3, <3>4
  <2>3. LastRaw(passed, s) = raws
    BY <1>1, <2>1
  <2> HIDE DEF s
  <2>4. LastRaw(passed, s) = LastRaw(follow(passed, r), buffered)
    BY <2>2, RawsHead
  <2>5. follow(passed, r) = writing
    <3>1. follow(passed, r) \in {writing, NoRaw}
      BY Raw DEF follow
    <3>2. CASE follow(passed, r) = NoRaw
      <4>1. LastRaw(passed, s) = NoRaw
        BY <1>2, <2>4, <3>2, RawsDisordered
      <4> QED BY <1>2, <2>3, <4>1, Numbers
    <3> QED BY <3>1, <3>2
  <2>6. <<>> \o buffered = buffered
    BY <1>2
  <2> QED BY <2>1, <2>3, <2>4, <2>5, <2>6
<1>7. CASE TakeEvent
  <2>1. UNCHANGED <<libevdev, kernel, writing, passed, raws>> /\ intact
    BY <1>7 DEF TakeEvent, Reads, source, intact, buffered
  <2> QED BY <1>1, <2>1 DEF unwritten, buffered
<1>8. CASE InputLost
  <2>1. passed' = raws /\ raws' = raws /\ unwritten' \o buffered' = <<>>
    BY <1>8 DEF InputLost, recover_input_loss, unwritten, buffered
  <2> QED BY <2>1, RawsEmpty
<1>9. CASE Elsewhere
  <2>1. /\ UNCHANGED <<held, raws, kernel, libevdev, key_state, events, writing, passed, seen>>
        /\ task' \notin {"failed", "ended"} => task \notin {"failed", "ended"}
    BY <1>9, ReaderKept
  <2>2. intact
    BY <2>1 DEF intact, buffered
  <2> QED BY <1>1, <2>1, <2>2 DEF unwritten, buffered
<1> QED BY <1>4, <1>5, <1>6, <1>7, <1>8, <1>9 DEF Next, ReadStep, Elsewhere


LEMMA KeysNext ==
    ASSUME NEW keys, NEW evs \in Seq(Known), NEW n \in Nat, n + 1 <= Len(evs)
    PROVE  keys_after(keys, SubSeq(evs, 1, n + 1))
             = update_key_state(keys_after(keys, SubSeq(evs, 1, n)), evs[n + 1])
<1> DEFINE u == SubSeq(evs, 1, n)
           e == evs[n + 1]
<1>1. u \in Seq(Known) /\ e \in Known /\ SubSeq(evs, 1, n + 1) = Append(u, e)
  OBVIOUS
<1>2. u \in Seq(SourceEvent) /\ e \in SourceEvent
  BY <1>1, KnownIsInput
<1> HIDE DEF u, e
<1>3. keys_after(keys, Append(u, e)) = update_key_state(keys_after(keys, u), e)
  BY <1>2, KeysAppend
<1> QED BY <1>1, <1>3 DEF u, e

LEMMA WriteKept ==
    ASSUME TypeInv, FrameInv, WriteInv, [Next]_vars
    PROVE  WriteInv'
<1>1. CASE UNCHANGED <<writer, command>> /\ (task' \notin {"failed", "ended"} =>
                                             task \notin {"failed", "ended"})
  BY <1>1 DEF WriteInv, writer, frame_of
<1>2. CASE UNCHANGED vars \/ Emit \/ ReadStep \/ ReadFails \/ Receive \/ Command \/ AnswerLoss
  <2>1. UNCHANGED <<writer, command>>
    BY <1>2 DEF vars, Emit, ReadStep, ReadEvent, PassRaw, TakeEvent, InputLost, ReadFails,
                Receive, Command, AnswerLoss
  <2>2. task' \notin {"failed", "ended"} => task \notin {"failed", "ended"}
    BY <1>2 DEF vars, Emit, ReadStep, ReadEvent, PassRaw, TakeEvent, InputLost, ReadFails, Reads,
                Receive, Command, AnswerLoss
  <2> QED BY <1>1, <2>1, <2>2
<1>3. CASE Sent
  <2>1. CASE task = "failed"
    BY <1>3, <2>1 DEF Sent, after_send, WriteInv
  <2>2. CASE task # "failed"
    BY <1>1, <1>3, <2>2 DEF Sent
  <2> QED BY <2>1, <2>2
<1>4. CASE TakeCommand
  <2> DEFINE u == Head(commands)
  <2>1. /\ command = NoCommand /\ command' = u /\ u \in Answer
        /\ task \notin {"failed", "ended"}
        /\ IF u.kind = "reset" THEN UNCHANGED writer ELSE start_write(u)
    BY <1>4 DEF TakeCommand, TypeInv
  <2> HIDE DEF u
  <2>2. pressed_keys = node_keys /\ UNCHANGED <<pressed_keys, node_keys>>
    BY <2>1 DEF WriteInv, NoCommand, writer, start_write
  <2>3. CASE u.kind = "reset"
    BY <2>1, <2>2, <2>3 DEF WriteInv
  <2>4. CASE u.kind # "reset"
    <3> DEFINE evs == frame_of(u)
    <3>1. writing_frame' = [events |-> evs, cursor |-> 0] /\ evs \in Seq(Known)
      BY <2>1, <2>4, FrameOf DEF start_write, TypeInv
    <3>2. frame_of(command)' = evs
      BY <2>1, <2>2 DEF frame_of
    <3> HIDE DEF evs
    <3>3. /\ writing_frame'.events = evs /\ writing_frame'.cursor = 0
          /\ writing_frame' = NoWrite \/ 0 < Len(evs)
      BY <3>1 DEF NoWrite
    <3>4. SubSeq(evs, 1, 0) = <<>>
      BY <3>1
    <3>5. node_keys' = keys_after(pressed_keys', SubSeq(evs, 1, 0))
      BY <2>2, <3>4, KeysEmpty
    <3> QED BY <2>1, <2>4, <3>2, <3>3, <3>5, Answers DEF WriteInv
  <2> QED BY <2>3, <2>4
<1>5. CASE WriteCommand
  <2> DEFINE evs == writing_frame.events
             n == writing_frame.cursor
  <2>1. /\ evs \in Seq(Known) /\ n \in Nat /\ Len(evs) \in Nat
        /\ command.kind \in {"keys", "events"} /\ task \in {"reading", "resetting"}
        /\ writing_frame = [events |-> evs, cursor |-> n]
    <3>1. command # NoCommand
      BY <1>5 DEF WriteCommand, NoCommand
    <3> QED BY <1>5, <3>1 DEF WriteCommand, TypeInv, FrameInv
  <2>2. /\ evs = frame_of(command)
        /\ node_keys = keys_after(pressed_keys, SubSeq(evs, 1, n))
    BY <2>1 DEF WriteInv
  <2>3. task' = task /\ command' = IF writing_frame' = NoWrite THEN NoCommand ELSE command
    BY <1>5 DEF WriteCommand
  <2>4. NoCommand.kind = "none"
    BY DEF NoCommand
  <2>5. CASE write_event
    <3>1. /\ n + 1 <= Len(evs) /\ node_keys' = update_key_state(node_keys, evs[n + 1])
          /\ IF n + 1 = Len(evs)
             THEN pressed_keys' = keys_after(pressed_keys, evs) /\ writing_frame' = NoWrite
             ELSE writing_frame' = [writing_frame EXCEPT !.cursor = n + 1]
                  /\ pressed_keys' = pressed_keys
      BY <2>5 DEF write_event
    <3>2. node_keys' = keys_after(pressed_keys, SubSeq(evs, 1, n + 1))
      <4> HIDE DEF evs, n
      <4> QED BY <2>1, <2>2, <3>1, KeysNext
    <3>3. CASE n + 1 = Len(evs)
      <4>1. SubSeq(evs, 1, n + 1) = evs
        BY <2>1, <3>3
      <4>2. node_keys' = pressed_keys' /\ command' = NoCommand
        BY <2>3, <3>1, <3>2, <3>3, <4>1
      <4> QED BY <2>4, <4>2 DEF WriteInv
    <3>4. CASE n + 1 # Len(evs)
      <4>1. writing_frame' = [events |-> evs, cursor |-> n + 1] /\ pressed_keys' = pressed_keys
        <5>1. writing_frame' = [writing_frame EXCEPT !.cursor = n + 1] /\ pressed_keys' = pressed_keys
          BY <3>1, <3>4
        <5> HIDE DEF evs, n
        <5> QED BY <2>1, <5>1
      <4> HIDE DEF evs, n
      <4>2. /\ writing_frame'.events = evs /\ writing_frame'.cursor = n + 1
            /\ writing_frame' # NoWrite /\ n + 1 < Len(evs)
        <5>1. writing_frame'.cursor = n + 1 /\ writing_frame'.events = evs
          BY <4>1
        <5>2. NoWrite.cursor = 0 /\ n + 1 # 0
          BY <2>1 DEF NoWrite
        <5>3. n + 1 < Len(evs)
          BY <2>1, <3>1, <3>4
        <5> QED BY <5>1, <5>2, <5>3
      <4>3. command' = command
        BY <2>3, <4>2
      <4>4. frame_of(command)' = evs
        BY <2>2, <4>1, <4>3 DEF frame_of
      <4> QED BY <2>1, <3>2, <4>1, <4>2, <4>3, <4>4 DEF WriteInv
    <3> QED BY <3>3, <3>4
  <2>6. CASE writing_frame = NoWrite /\ UNCHANGED writer
    <3>1. SubSeq(evs, 1, n) = <<>>
      BY <2>6 DEF NoWrite
    <3>2. node_keys = pressed_keys
      BY <2>2, <3>1, KeysEmpty
    <3> QED BY <2>3, <2>4, <2>6, <3>2 DEF WriteInv, writer
  <2> QED BY <1>5, <2>5, <2>6 DEF WriteCommand
<1>6. CASE ResetWriter
  BY <1>6 DEF ResetWriter, new_writer, NoCommand, WriteInv
<1>7. CASE CommandFails
  BY <1>7 DEF CommandFails, report, WriteInv
<1> QED BY <1>2, <1>3, <1>4, <1>5, <1>6, <1>7 DEF Next

-----------------------------------------------------------------------------
(* The theorems. *)

LEMMA Step == IInv /\ [Next]_vars => IInv'
BY TypeKept, FrameKept, InputKept, RawsKept, WriteKept DEF IInv

(* In every reachable state the task, its reader and its writer are as      *)
(* the invariant says (Interceptor, server.rs run, Writer).                 *)
THEOREM Safety == Spec => []IInv
BY InitIInv, Step, PTL DEF Spec

(* No known event is lost, doubled or overtaken between the source and the  *)
(* server, however often select! drops read_frame and whatever the          *)
(* capacities of the buffers (interceptor.rs read, read_frame).             *)
THEOREM NoInputLost == Spec => []InputAccounted
<1>1. IInv => InputAccounted
  BY DEF IInv
<1> QED BY <1>1, Safety, PTL

(* An event rkvm does not know is passed on once and in order, also when    *)
(* read is dropped while it waits to write it (interceptor.rs write_raw).   *)
THEOREM RawsInOrder == Spec => []RawPassedOnce
<1>1. IInv => RawPassedOnce
  BY DEF IInv
<1> QED BY <1>1, Safety, PTL

(* pressed_keys and the device node agree between commands, so that a key   *)
(* state is worked out from what is down (writer.rs write_frame and         *)
(* set_key_state).                                                          *)
THEOREM PressedIsDown == Spec => []KeysMirrorNode
<1>1. IInv => KeysMirrorNode
  BY DEF IInv, WriteInv, KeysMirrorNode, NoCommand
<1> QED BY <1>1, Safety, PTL


(* While a key state is written, an ordinary key goes down only under the   *)
(* modifiers it is to have, and a modifier goes up only after the ordinary  *)
(* keys that are to go up (writer.rs key_state_events, for every key state  *)
(* and every split of the write).                                           *)
THEOREM ShortcutsAreTyped == Spec => NoAccidentalShortcut
<1> DEFINE Ordered ==
        command.kind = "keys" =>
          /\ node_keys' \ node_keys \subseteq Modifier
                \/ node_keys \cap Modifier = command.keys \cap Modifier
          /\ node_keys \cap Modifier \subseteq node_keys'
                \/ node_keys \ Modifier \subseteq command.keys
<1>1. IInv /\ [Next]_vars => Ordered
  <2> SUFFICES ASSUME IInv, [Next]_vars, command.kind = "keys" PROVE Ordered
    OBVIOUS
  <2>1. /\ command # NoCommand /\ command \in Answer /\ command.keys \in SUBSET Key
        /\ pressed_keys \in SUBSET Key /\ task \in {"reading", "resetting"}
    <3>1. command # NoCommand
      BY DEF NoCommand
    <3> QED BY <3>1, Answers DEF IInv, TypeInv, FrameInv
  <2>2. CASE node_keys' = node_keys
    BY <2>2
  <2>3. CASE WriteCommand /\ write_event
    <3> DEFINE evs == writing_frame.events
               n == writing_frame.cursor
               to == command.keys
    <3>1. /\ evs = key_state_events(pressed_keys, to)
          /\ node_keys = keys_after(pressed_keys, SubSeq(evs, 1, n))
      BY <2>1 DEF IInv, WriteInv, frame_of
    <3>2. n \in Nat /\ n + 1 <= Len(evs) /\ node_keys' = update_key_state(node_keys, evs[n + 1])
      BY <2>3 DEF write_event, IInv, TypeInv
    <3>3. evs \in Seq(Known)
      BY DEF IInv, TypeInv
    <3> HIDE DEF evs, n
    <3>4. pressed_keys # to
      <4>1. SUFFICES ASSUME pressed_keys = to PROVE FALSE
        OBVIOUS
      <4>2. evs = <<>>
        BY <2>1, <3>1, <4>1, KeyStateEvents
      <4> QED BY <3>2, <4>2
    <3> HIDE DEF to
    <3>5. n \in 0 .. Len(evs) - 1
      BY <3>2, <3>3
    <3>6. to \in SUBSET Key
      BY <2>1 DEF to
    <3> DEFINE before == keys_after(pressed_keys, SubSeq(evs, 1, n))
               after  == update_key_state(before, evs[n + 1])
    <3>7. /\ after \ before \subseteq Modifier
                \/ before \cap Modifier = to \cap Modifier
          /\ before \cap Modifier \subseteq after
                \/ before \ Modifier \subseteq to
      BY <2>1, <3>1, <3>4, <3>5, <3>6, KeyStateOrder
    <3>8. node_keys = before /\ node_keys' = after
      BY <3>1, <3>2
    <3> HIDE DEF before, after
    <3> QED BY <3>7, <3>8 DEF to
  <2>4. node_keys' = node_keys \/ (WriteCommand /\ write_event)
    <3>1. ~TakeCommand /\ ~ResetWriter /\ ~Sent
      BY <2>1 DEF TakeCommand, ResetWriter, Sent
    <3>2. CASE WriteCommand
      BY <3>2 DEF WriteCommand, writer
    <3>3. CASE CommandFails
      BY <3>3 DEF CommandFails
    <3>4. CASE UNCHANGED vars \/ Emit \/ ReadStep \/ ReadFails \/ Receive \/ Command \/ AnswerLoss
      BY <3>4 DEF vars, writer, Emit, ReadStep, ReadEvent, PassRaw, TakeEvent, InputLost,
                  ReadFails, Receive, Command, AnswerLoss
    <3> QED BY <3>1, <3>2, <3>3, <3>4 DEF Next
  <2> QED BY <2>2, <2>3, <2>4
<1> HIDE DEF Ordered
<1>2. IInv /\ [Next]_vars => [Ordered]_vars
  BY <1>1
<1>3. Spec => [][Ordered]_vars
  BY <1>2, Safety, PTL DEF Spec
<1> QED BY <1>3 DEF NoAccidentalShortcut, Ordered

-----------------------------------------------------------------------------
(* The task, event by event, is the one of DeviceTask. *)

message(result) == [device |-> device, activation_id |-> 1, result |-> result]

messages(s) == [i \in DOMAIN s |-> message(s[i])]

for_device(x) == [d \in {device} |-> x]

under_way == (IF command = NoCommand THEN <<>> ELSE <<command>>) \o commands

LEMMA TaskIs ==
    Task!tasks = <<for_device(task), for_device(1), for_device(under_way),
                   for_device(pressed_keys), messages(channel)>>
BY DEF Task!tasks, for_device, under_way, messages, message

LEMMA OneDevice ==
    ASSUME NEW x, NEW y
    PROVE  for_device(x)[device] = x /\ [for_device(x) EXCEPT ![device] = y] = for_device(y)
BY DEF for_device

LEMMA MessageSent ==
    ASSUME NEW S, NEW s \in Seq(S), NEW e
    PROVE  messages(Append(s, e)) = Append(messages(s), message(e))
<1> DEFINE t == messages(s)
           longer == messages(Append(s, e))
           sent == Append(t, message(e))
<1>1. /\ DOMAIN Append(s, e) = 1 .. Len(s) + 1 /\ DOMAIN s = 1 .. Len(s) /\ Len(s) \in Nat
      /\ Append(s, e)[Len(s) + 1] = e /\ \A i \in 1 .. Len(s) : Append(s, e)[i] = s[i]
  OBVIOUS
<1> DEFINE M == {message(s[i]) : i \in DOMAIN s} \cup {message(e)}
<1>2. /\ t \in Seq(M) /\ Len(t) = Len(s)
      /\ \A i \in 1 .. Len(s) : t[i] = message(s[i])
  BY <1>1 DEF messages
<1>3. /\ longer \in Seq(M) /\ Len(longer) = Len(s) + 1
      /\ \A i \in 1 .. Len(s) : longer[i] = message(s[i])
      /\ longer[Len(s) + 1] = message(e)
  <2>1. longer = [i \in 1 .. Len(s) + 1 |-> message(Append(s, e)[i])]
    BY <1>1 DEF messages
  <2>2. \A i \in 1 .. Len(s) + 1 : message(Append(s, e)[i]) \in M
    BY <1>1
  <2> HIDE DEF M
  <2>3. longer \in Seq(M) /\ Len(longer) = Len(s) + 1
    BY <1>1, <2>1, <2>2
  <2> QED BY <1>1, <2>1, <2>3
<1> HIDE DEF t
<1>4. message(e) \in M
  OBVIOUS
<1> HIDE DEF longer, M
<1>5. /\ sent \in Seq(M) /\ Len(sent) = Len(s) + 1
      /\ \A i \in 1 .. Len(s) : sent[i] = t[i]
      /\ sent[Len(s) + 1] = message(e)
  BY <1>1, <1>2, <1>4
<1> HIDE DEF sent
<1>6. \A i \in 1 .. Len(s) + 1 : longer[i] = sent[i]
  BY <1>1, <1>2, <1>3, <1>5
<1>7. longer = sent
  BY <1>1, <1>3, <1>5, <1>6
<1> QED BY <1>7 DEF longer, sent, t


LEMMA FrameRead ==
    ASSUME TypeInv, NEW result \in {"sending", "lost", "failed"},
           task = "reading", task' = result, channel' = Append(channel, result),
           UNCHANGED <<commands, command, pressed_keys>>
    PROVE  Task!read_frame(device)
<1>1. messages(channel') = Append(messages(channel), message(result))
  BY MessageSent DEF TypeInv
<1>2. /\ for_device(task)[device] = "reading"
      /\ for_device(task') = [for_device(task) EXCEPT ![device] = result]
      /\ for_device(1)[device] = 1
  BY OneDevice
<1>3. for_device(under_way)' = for_device(under_way) /\ for_device(pressed_keys)' = for_device(pressed_keys)
  BY DEF for_device, under_way
<1>4. messages(channel)' = Append(messages(channel), [device |-> device,
                              activation_id |-> for_device(1)[device], result |-> result])
  BY <1>1, <1>2 DEF message
<1>5. /\ for_device(task)[device] = "reading"
      /\ \E r \in {"sending", "lost", "failed"} :
           /\ for_device(task)' = [for_device(task) EXCEPT ![device] = r]
           /\ messages(channel)' = Append(messages(channel), [device |-> device,
                              activation_id |-> for_device(1)[device], result |-> r])
      /\ UNCHANGED <<for_device(1), for_device(under_way), for_device(pressed_keys)>>
  BY <1>2, <1>3, <1>4 DEF for_device
<1> QED BY <1>5 DEF Task!read_frame, Task!report, for_device, under_way, messages, message

LEMMA SendReturns ==
    ASSUME TypeInv, FrameInv, Sent
    PROVE  Task!sent(device)
<1>1. /\ task \in {"sending", "lost", "failed"} /\ Len(channel) <= EVENTS
      /\ task' = after_send(task) /\ UNCHANGED <<command, channel>> /\ command = NoCommand
      /\ task = "failed" => commands' = <<>> /\ pressed_keys' = {}
      /\ task # "failed" => UNCHANGED <<commands, pressed_keys>>
  <2>1. Len(channel) \in Nat
    BY DEF TypeInv
  <2>2. Len(channel) <= EVENTS
    BY <2>1, Capacities DEF Sent, waiting
  <2> QED BY <2>2 DEF Sent, FrameInv, new_writer, writer
<1>2. ~Task!waits(device)
  <2>1. SUFFICES ASSUME NEW i \in DOMAIN messages(channel), i > EVENTS PROVE FALSE
    BY DEF Task!waits, Task!waits_at, messages, message
  <2>2. i \in 1 .. Len(channel)
    BY DEF messages, TypeInv
  <2> QED BY <1>1, <2>1, <2>2, Capacities
<1>3. under_way = commands /\ under_way' = commands'
  BY <1>1 DEF under_way, TypeInv
<1>4. /\ for_device(task)[device] = task
      /\ for_device(task)' = [for_device(task) EXCEPT ![device] = after_send(task)]
      /\ task = "failed" =>
            /\ for_device(under_way)' = [for_device(under_way) EXCEPT ![device] = <<>>]
            /\ for_device(pressed_keys)' = [for_device(pressed_keys) EXCEPT ![device] = {}]
      /\ task # "failed" =>
            /\ for_device(under_way)'
                 = [for_device(under_way) EXCEPT ![device] = for_device(under_way)[device]]
            /\ for_device(pressed_keys)'
                 = [for_device(pressed_keys) EXCEPT ![device] = for_device(pressed_keys)[device]]
  <2>1. /\ for_device(task)' = for_device(task') /\ for_device(under_way)' = for_device(under_way')
        /\ for_device(pressed_keys)' = for_device(pressed_keys')
    BY DEF for_device
  <2>2. under_way' = (IF task = "failed" THEN <<>> ELSE under_way)
    BY <1>1, <1>3
  <2> HIDE DEF under_way
  <2> QED BY <1>1, <2>1, <2>2, OneDevice
<1>5. for_device(1)' = for_device(1) /\ messages(channel)' = messages(channel)
  BY <1>1 DEF for_device, messages, message
<1> QED BY <1>1, <1>2, <1>4, <1>5
        DEF Task!sent, after_send, for_device, under_way, messages, message


LEMMA Written ==
    ASSUME NEW pressed, NEW u
    PROVE  Task!written(pressed, u) = written(pressed, u)
<1>1. Task!keys_after(pressed, u.events) = keys_after(pressed, u.events)
  BY DEF Task!keys_after, keys_after, Task!FoldLeft, FoldLeft, Task!MapThenFoldSet, MapThenFoldSet,
         Task!Max, Max, Task!update_key_state, update_key_state, Task!IsKey, IsKey
<1> QED BY <1>1 DEF Task!written, written

LEMMA UnderWay ==
    ASSUME TypeInv, command # NoCommand
    PROVE  under_way # <<>> /\ Head(under_way) = command /\ Tail(under_way) = commands
<1>1. under_way = <<command>> \o commands /\ commands \in Seq(Answer) /\ command \in Answer
  BY DEF under_way, TypeInv
<1> QED BY <1>1

\* A command has been carried out: it leaves what DeviceTask says.
LEMMA CommandDone ==
    ASSUME TypeInv, FrameInv, command # NoCommand, command' = NoCommand,
           commands' = commands, channel' = channel, pressed_keys' = written(pressed_keys, command),
           task' = IF command.kind = "reset" THEN "reading" ELSE task
    PROVE  Task!handle_device_command(device)
<1>1. under_way # <<>> /\ Head(under_way) = command /\ Tail(under_way) = commands
  BY UnderWay
<1>2. under_way' = commands
  BY DEF under_way, TypeInv
<1>3. task \in {"reading", "resetting"}
  BY DEF FrameInv
<1> DEFINE w == under_way
           fw == for_device(under_way)
           fp == for_device(pressed_keys)
           ft == for_device(task)
<1>4. /\ ft[device] = task /\ fw[device] = w /\ fp[device] = pressed_keys
      /\ ft' = for_device(task') /\ fw' = for_device(w') /\ fp' = for_device(pressed_keys')
  BY DEF for_device
<1>5. /\ ft' = [ft EXCEPT ![device] = IF command.kind = "reset" THEN "reading" ELSE ft[device]]
      /\ fw' = [fw EXCEPT ![device] = Tail(fw[device])]
      /\ fp' = [fp EXCEPT ![device] = Task!written(fp[device], command)]
  <2>1. w' = Tail(w)
    BY <1>1, <1>2
  <2> HIDE DEF w
  <2>2. fw' = [fw EXCEPT ![device] = Tail(w)]
    BY <1>4, <2>1, OneDevice DEF w
  <2>3. fp' = [fp EXCEPT ![device] = written(pressed_keys, command)]
    BY <1>4, OneDevice
  <2>4. ft' = [ft EXCEPT ![device] = IF command.kind = "reset" THEN "reading" ELSE task]
    BY <1>4, OneDevice
  <2> QED BY <1>4, <2>2, <2>3, <2>4, Written
<1>6. UNCHANGED <<for_device(1), messages(channel)>>
  BY DEF for_device, messages, message
<1>7. /\ ft[device] \in {"reading", "resetting"} /\ fw[device] # <<>> /\ Head(fw[device]) = command
  BY <1>1, <1>3, <1>4
<1>8. /\ ft[device] \in {"reading", "resetting"}
      /\ fw[device] # <<>>
      /\ fw' = [fw EXCEPT ![device] = Tail(fw[device])]
      /\ fp' = [fp EXCEPT ![device] = Task!written(fp[device], Head(fw[device]))]
      /\ ft' = [ft EXCEPT ![device] = IF Head(fw[device]).kind = "reset"
                                      THEN "reading" ELSE ft[device]]
      /\ UNCHANGED <<for_device(1), messages(channel)>>
  BY <1>5, <1>6, <1>7
<1> QED BY <1>8 DEF Task!handle_device_command, for_device, under_way, messages, message

LEMMA CommandFailed ==
    ASSUME TypeInv, FrameInv, CommandFails
    PROVE  Task!handle_device_command(device)
<1>1. /\ command # NoCommand /\ command' = NoCommand /\ task' = "failed"
      /\ channel' = Append(channel, "failed") /\ commands' = commands
      /\ pressed_keys' = IF command.kind = "reset" THEN {} ELSE pressed_keys
  BY DEF CommandFails, report, new_writer
<1>2. under_way # <<>> /\ Head(under_way) = command /\ Tail(under_way) = commands
  BY <1>1, UnderWay
<1>3. under_way' = commands
  BY <1>1 DEF under_way, TypeInv
<1>4. task \in {"reading", "resetting"}
  BY <1>1 DEF FrameInv
<1> DEFINE w == under_way
           fw == for_device(under_way)
           fp == for_device(pressed_keys)
           ft == for_device(task)
<1>5. /\ ft[device] = task /\ fw[device] = w /\ fp[device] = pressed_keys
      /\ ft' = for_device(task') /\ fw' = for_device(w') /\ fp' = for_device(pressed_keys')
      /\ for_device(1)[device] = 1
  BY DEF for_device
<1>6. /\ ft' = [ft EXCEPT ![device] = "failed"]
      /\ fw' = [fw EXCEPT ![device] = Tail(fw[device])]
      /\ fp' = [fp EXCEPT ![device] = IF command.kind = "reset" THEN {} ELSE fp[device]]
  <2>1. w' = Tail(w)
    BY <1>2, <1>3
  <2> HIDE DEF w
  <2>2. fw' = [fw EXCEPT ![device] = Tail(w)]
    BY <1>5, <2>1, OneDevice DEF w
  <2>3. fp' = [fp EXCEPT ![device] = IF command.kind = "reset" THEN {} ELSE pressed_keys]
    BY <1>1, <1>5, OneDevice
  <2>4. ft' = [ft EXCEPT ![device] = "failed"]
    BY <1>1, <1>5, OneDevice
  <2> QED BY <1>5, <2>2, <2>3, <2>4
<1>7. messages(channel') = Append(messages(channel), message("failed"))
  BY <1>1, MessageSent DEF TypeInv
<1>8. messages(channel)' = Append(messages(channel), [device |-> device,
                              activation_id |-> for_device(1)[device], result |-> "failed"])
  BY <1>5, <1>7 DEF message
<1>9. /\ ft[device] \in {"reading", "resetting"}
      /\ fw[device] # <<>>
      /\ ft' = [ft EXCEPT ![device] = "failed"]
      /\ messages(channel)' = Append(messages(channel), [device |-> device,
                              activation_id |-> for_device(1)[device], result |-> "failed"])
      /\ fw' = [fw EXCEPT ![device] = Tail(fw[device])]
      /\ fp' = [fp EXCEPT ![device] = IF Head(fw[device]).kind = "reset" THEN {} ELSE fp[device]]
      /\ UNCHANGED for_device(1)
  BY <1>2, <1>4, <1>5, <1>6, <1>8 DEF for_device
<1> QED BY <1>9 DEF Task!handle_device_command, Task!command_fails, Task!report, for_device,
                    under_way, messages, message

(* Event by event, the task does what DeviceTask says a task does: what the *)
(* server's proofs take for one step is reading a frame over many, carrying *)
(* out a command write by write (server.rs run).                            *)
THEOREM TaskImplemented == Spec => ImplementsDeviceTask
<1> DEFINE Allowed ==
               \/ Task!read_frame(device) \/ Task!sent(device) \/ Task!handle_device_command(device)
               \/ ServerOfTask
           Same == Task!tasks' = Task!tasks
<1>1. ASSUME UNCHANGED <<task, pressed_keys, channel>>, under_way' = under_way PROVE Same
  <2>1. Task!tasks' = <<for_device(task)', for_device(1)', for_device(under_way)',
                        for_device(pressed_keys)', messages(channel)'>>
    BY DEF Task!tasks, for_device, under_way, messages, message
  <2>2. /\ for_device(task)' = for_device(task) /\ for_device(1)' = for_device(1)
        /\ for_device(under_way)' = for_device(under_way)
        /\ for_device(pressed_keys)' = for_device(pressed_keys)
        /\ messages(channel)' = messages(channel)
    <3> HIDE DEF under_way
    <3> QED BY <1>1 DEF for_device, messages, message
  <2> QED BY <2>1, <2>2, TaskIs
<1>2. IInv /\ [Next]_vars => Allowed \/ Same
  <2> SUFFICES ASSUME IInv, [Next]_vars PROVE Allowed \/ Same
    OBVIOUS
  <2> USE DEF IInv
  <2>1. CASE UNCHANGED vars \/ Emit \/ ReadEvent \/ PassRaw
    <3>1. UNCHANGED <<task, pressed_keys, channel, command, commands>>
      BY <2>1 DEF vars, writer, Emit, ReadEvent, PassRaw
    <3> HIDE DEF Same
    <3> QED BY <1>1, <3>1 DEF under_way
  <2>2. CASE TakeEvent
    <3>1. UNCHANGED <<pressed_keys, commands, command>>
      BY <2>2 DEF TakeEvent, writer
    <3>2. CASE Head(events) = SYN
      <4>1. task = "reading" /\ task' = "sending" /\ channel' = Append(channel, "sending")
        BY <2>2, <3>2 DEF TakeEvent, Reads, report
      <4> QED BY <3>1, <4>1, FrameRead
    <3>3. CASE Head(events) # SYN
      <4>1. UNCHANGED <<task, channel>>
        BY <2>2, <3>3 DEF TakeEvent
      <4> HIDE DEF Same
      <4> QED BY <1>1, <3>1, <4>1 DEF under_way
    <3> QED BY <3>2, <3>3
  <2>3. CASE InputLost
    <3>1. /\ task = "reading" /\ task' = "lost" /\ channel' = Append(channel, "lost")
          /\ UNCHANGED <<pressed_keys, commands, command>>
      BY <2>3 DEF InputLost, Reads, report, writer
    <3> QED BY <3>1, FrameRead
  <2>4. CASE ReadFails
    <3>1. /\ task = "reading" /\ task' = "failed" /\ channel' = Append(channel, "failed")
          /\ UNCHANGED <<pressed_keys, commands, command>>
      BY <2>4 DEF ReadFails, Reads, report, writer
    <3> QED BY <3>1, FrameRead
  <2>5. CASE Sent
    BY <2>5, SendReturns
  <2>6. CASE TakeCommand
    <3>1. /\ command = NoCommand /\ commands # <<>> /\ commands \in Seq(Answer)
          /\ command' = Head(commands) /\ commands' = Tail(commands)
          /\ UNCHANGED <<task, channel, pressed_keys>>
      BY <2>6 DEF TakeCommand, TypeInv, start_write, writer
    <3>2. Head(commands) # NoCommand
      BY <3>1, Answers
    <3>3. under_way = commands /\ under_way' = <<Head(commands)>> \o Tail(commands)
      BY <3>1, <3>2 DEF under_way
    <3>4. <<Head(commands)>> \o Tail(commands) = commands
      BY <3>1
    <3> HIDE DEF Same
    <3> QED BY <1>1, <3>1, <3>3, <3>4
  <2>7. CASE WriteCommand
    <3>1. /\ command # NoCommand /\ command \in Answer /\ command.kind \in {"keys", "events"}
          /\ task \in {"reading", "resetting"} /\ writing_frame.events = frame_of(command)
          /\ UNCHANGED <<task, channel, commands>>
      <4>1. command # NoCommand
        BY <2>7 DEF WriteCommand, NoCommand
      <4> QED BY <2>7, <4>1 DEF WriteCommand, TypeInv, FrameInv, WriteInv
    <3>2. /\ keys_after(pressed_keys, frame_of(command)) = written(pressed_keys, command)
          /\ frame_of(command) = <<>> => written(pressed_keys, command) = pressed_keys
      BY <3>1, FrameOf DEF TypeInv
    <3>3. CASE writing_frame' = NoWrite
      <4>1. pressed_keys' = written(pressed_keys, command)
        <5>1. CASE write_event
          <6>1. writing_frame.cursor + 1 = Len(writing_frame.events)
            <7>1. SUFFICES ASSUME writing_frame' = [writing_frame EXCEPT !.cursor
                                                      = writing_frame.cursor + 1]
                           PROVE  FALSE
              BY <5>1 DEF write_event
            <7>2. writing_frame'.cursor = writing_frame.cursor + 1 /\ writing_frame.cursor \in Nat
              BY <7>1 DEF TypeInv
            <7> QED BY <3>3, <7>2 DEF NoWrite
          <6> QED BY <3>1, <3>2, <5>1, <6>1 DEF write_event
        <5>2. CASE writing_frame = NoWrite /\ UNCHANGED writer
          BY <3>1, <3>2, <5>2 DEF NoWrite, writer
        <5> QED BY <2>7, <5>1, <5>2 DEF WriteCommand
      <4>2. command' = NoCommand /\ command.kind # "reset"
        BY <2>7, <3>1, <3>3 DEF WriteCommand
      <4> QED BY <3>1, <4>1, <4>2, CommandDone
    <3>4. CASE writing_frame' # NoWrite
      <4>1. command' = command /\ pressed_keys' = pressed_keys
        BY <2>7, <3>4 DEF WriteCommand, write_event, writer
      <4> HIDE DEF Same
      <4> QED BY <1>1, <3>1, <4>1 DEF under_way
    <3> QED BY <3>3, <3>4
  <2>8. CASE ResetWriter
    <3>1. /\ command # NoCommand /\ command.kind = "reset" /\ command' = NoCommand
          /\ task' = "reading" /\ pressed_keys' = {} /\ UNCHANGED <<commands, channel>>
      BY <2>8 DEF ResetWriter, new_writer, NoCommand
    <3>2. written(pressed_keys, command) = {}
      BY <3>1 DEF written
    <3> QED BY <3>1, <3>2, CommandDone
  <2>9. CASE CommandFails
    BY <2>9, CommandFailed
  <2>10. CASE Receive \/ Command \/ AnswerLoss
    BY <2>10 DEF ServerOfTask
  <2> QED BY <2>1, <2>2, <2>3, <2>4, <2>5, <2>6, <2>7, <2>8, <2>9, <2>10 DEF Next, ReadStep
<1> HIDE DEF Allowed
<1>3. IInv /\ [Next]_vars => [Allowed]_(Task!tasks)
  BY <1>2
<1> HIDE DEF Same
<1>4. Spec => [][Allowed]_(Task!tasks)
  BY <1>3, Safety, PTL DEF Spec
<1> QED BY <1>4 DEF ImplementsDeviceTask, Allowed
=============================================================================
