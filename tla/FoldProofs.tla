----------------------------- MODULE FoldProofs -----------------------------
(* What a fold over a sequence computes, whatever is folded: its value for  *)
(* the empty sequence, and for one that is made longer at either end.  A    *)
(* module that folds with an operator instantiates op by it and cites the   *)
(* theorems; they are all that its proofs have to know of FoldLeft.         *)
EXTENDS SequencesExt, Integers, WellFoundedInduction, NaturalsInduction, TLAPS

CONSTANT op(_, _)

Fold(b, seq) == FoldLeft(op, b, seq)

-----------------------------------------------------------------------------
(* Induction over the natural numbers, as a statement about sets.           *)
LEMMA Inductive ==
    ASSUME NEW A \in SUBSET Nat, 0 \in A, \A n \in A : n + 1 \in A
    PROVE  A = Nat
<1> DEFINE R == OpToRel(<, Nat)
           T == Nat \ A
<1>1. IsWellFoundedOn(R, Nat)
  BY NatLessThanWellFounded
<1>2. \A x, y \in Nat : y < x => <<y, x>> \in R
  BY DEF OpToRel
<1> HIDE DEF R
<1>3. ASSUME T # {} PROVE FALSE
  <2>1. PICK m \in T : \A n \in T : ~ (<<n, m>> \in R)
    BY <1>1, <1>3, WFMin
  <2>2. m \in Nat /\ m # 0 /\ m - 1 \in Nat /\ m - 1 < m /\ (m - 1) + 1 = m
    BY <2>1
  <2>3. m - 1 \notin T
    BY <1>2, <2>1, <2>2
  <2> QED BY <2>1, <2>2, <2>3
<1> QED BY <1>3

(* The last of a set of indices, which is the one folded last.              *)
LEMMA LastIndex ==
    ASSUME NEW n \in Nat, NEW s \in SUBSET (1 .. n), s # {}
    PROVE  Max(s) \in s /\ \A i \in s : i <= Max(s)
<1> DEFINE A == {k \in Nat : s \subseteq 1 .. k => \E m \in s : \A i \in s : m >= i}
<1>1. 0 \in A
  BY 1 .. 0 = {}
<1>2. ASSUME NEW k \in A PROVE k + 1 \in A
  <2>1. SUFFICES ASSUME s \subseteq 1 .. k + 1
                 PROVE  \E m \in s : \A i \in s : m >= i
    OBVIOUS
  <2>2. CASE k + 1 \in s
    BY <2>1, <2>2
  <2>3. CASE k + 1 \notin s
    BY <1>2, <2>1, <2>3
  <2> QED BY <2>2, <2>3
<1> HIDE DEF A
<1>3. n \in A
  BY <1>1, <1>2, Inductive, A \subseteq Nat DEF A
<1>4. \E m \in s : \A i \in s : m >= i
  BY <1>3 DEF A
<1> QED BY <1>4 DEF Max

(* A function over the sets of indices that computes the fold is what       *)
(* FoldLeft chooses; f is its value at the first k indices.                 *)
Computes(I, n, b, seq) ==
    I = [s \in SUBSET (1 .. n) |->
            IF s = {} THEN b ELSE op(I[s \ {Max(s)}], seq[Max(s)])]

LEMMA ComputationExists ==
    ASSUME NEW b, NEW seq, NEW n \in Nat
    PROVE  \E I : Computes(I, n, b, seq)
<1> DEFINE A == {k \in Nat : \E I : Computes(I, k, b, seq)}
<1>1. 0 \in A
  <2>1. Computes([s \in SUBSET (1 .. 0) |-> b], 0, b, seq)
    BY SUBSET (1 .. 0) = {{}} DEF Computes
  <2> QED BY <2>1
<1>2. ASSUME NEW k \in A PROVE k + 1 \in A
  <2>1. PICK I : Computes(I, k, b, seq)
    BY <1>2
  <2> DEFINE J == [s \in SUBSET (1 .. k + 1) |->
                     IF k + 1 \in s THEN op(I[s \ {k + 1}], seq[k + 1]) ELSE I[s]]
  <2>2. ASSUME NEW s \in SUBSET (1 .. k + 1)
        PROVE  J[s] = IF s = {} THEN b ELSE op(J[s \ {Max(s)}], seq[Max(s)])
    <3>1. CASE k + 1 \in s
      <4>1. Max(s) \in s /\ \A i \in s : i <= Max(s)
        BY <3>1, k + 1 \in Nat, s # {}, LastIndex
      <4>2. Max(s) = k + 1
        BY <3>1, <4>1, Max(s) \in 1 .. k + 1
      <4>3. s \ {k + 1} \in SUBSET (1 .. k + 1) /\ k + 1 \notin s \ {k + 1}
        OBVIOUS
      <4> QED BY <3>1, <4>2, <4>3
    <3>2. CASE k + 1 \notin s
      <4>1. s \in SUBSET (1 .. k)
        BY <3>2
      <4>2. I[s] = IF s = {} THEN b ELSE op(I[s \ {Max(s)}], seq[Max(s)])
        BY <2>1, <4>1 DEF Computes
      <4>3. J[s] = I[s] /\ J[s \ {Max(s)}] = I[s \ {Max(s)}]
        BY <3>2
      <4> QED BY <4>2, <4>3
    <3> QED BY <3>1, <3>2
  <2>3. Computes(J, k + 1, b, seq)
    BY <2>2 DEF Computes
  <2> QED BY <2>3
<1> HIDE DEF A
<1>3. n \in A
  BY <1>1, <1>2, Inductive, A \subseteq Nat DEF A
<1> QED BY <1>3 DEF A

LEMMA FoldComputes ==
    ASSUME NEW b, NEW S, NEW seq \in Seq(S)
    PROVE  \E I : Computes(I, Len(seq), b, seq) /\ Fold(b, seq) = I[1 .. Len(seq)]
<1> DEFINE I == CHOOSE iter :
                   iter = [s \in SUBSET (1 .. Len(seq)) |->
                             IF s = {} THEN b ELSE op(iter[s \ {Max(s)}], seq[Max(s)])]
<1>1. DOMAIN seq = 1 .. Len(seq)
  OBVIOUS
<1>2. Fold(b, seq) = (CHOOSE iter :
                   iter = [s \in SUBSET (DOMAIN seq) |->
                             IF s = {} THEN b ELSE op(iter[s \ {Max(s)}], seq[Max(s)])])[DOMAIN seq]
  BY Zenon DEF Fold, FoldLeft, MapThenFoldSet
<1>3. Fold(b, seq) = I[1 .. Len(seq)]
  BY <1>1, <1>2, Zenon
<1>4. \E J : Computes(J, Len(seq), b, seq)
  BY ComputationExists
<1>5. Computes(I, Len(seq), b, seq)
  BY <1>4, Zenon DEF Computes
<1> QED BY <1>3, <1>5

(* The values a fold goes through.                                          *)
Goes(f, n, b, seq) ==
    f[0] = b /\ \A k \in 1 .. n : f[k] = op(f[k - 1], seq[k])

LEMMA FoldGoes ==
    ASSUME NEW b, NEW S, NEW seq \in Seq(S)
    PROVE  \E f : Goes(f, Len(seq), b, seq) /\ Fold(b, seq) = f[Len(seq)]
<1>1. PICK I : Computes(I, Len(seq), b, seq) /\ Fold(b, seq) = I[1 .. Len(seq)]
  BY FoldComputes
<1> DEFINE f == [k \in 0 .. Len(seq) |-> I[1 .. k]]
<1>2. Len(seq) \in Nat
  OBVIOUS
<1>3. f[0] = b
  BY <1>1, <1>2, 1 .. 0 = {} DEF Computes
<1>4. ASSUME NEW k \in 1 .. Len(seq) PROVE f[k] = op(f[k - 1], seq[k])
  <2>1. Max(1 .. k) = k
    <3>1. k \in Nat /\ 1 .. k \in SUBSET (1 .. k) /\ k \in 1 .. k
      BY <1>2
    <3>2. Max(1 .. k) \in 1 .. k /\ \A i \in 1 .. k : i <= Max(1 .. k)
      BY <3>1, 1 .. k # {}, LastIndex
    <3> QED BY <3>1, <3>2
  <2>2. (1 .. k) \ {k} = 1 .. k - 1
    OBVIOUS
  <2>3. I[1 .. k] = op(I[(1 .. k) \ {Max(1 .. k)}], seq[Max(1 .. k)])
    BY <1>1, 1 .. k # {}, 1 .. k \in SUBSET (1 .. Len(seq)) DEF Computes
  <2>4. f[k] = I[1 .. k] /\ f[k - 1] = I[1 .. k - 1]
    BY <1>2, k \in 0 .. Len(seq), k - 1 \in 0 .. Len(seq)
  <2> QED BY <2>1, <2>2, <2>3, <2>4
<1>5. f[Len(seq)] = I[1 .. Len(seq)]
  BY <1>2, Len(seq) \in 0 .. Len(seq)
<1> HIDE DEF f
<1>6. Goes(f, Len(seq), b, seq) /\ Fold(b, seq) = f[Len(seq)]
  BY <1>1, <1>3, <1>4, <1>5 DEF Goes
<1> QED BY <1>6

LEMMA SameWay ==
    ASSUME NEW n \in Nat, NEW b, NEW s, NEW t, NEW f, NEW g,
           Goes(f, n, b, s), Goes(g, n, b, t), \A k \in 1 .. n : s[k] = t[k]
    PROVE  f[n] = g[n]
<1> DEFINE A == {k \in Nat : k <= n => f[k] = g[k]}
<1>1. 0 \in A
  BY DEF Goes
<1>2. ASSUME NEW k \in A PROVE k + 1 \in A
  <2>1. SUFFICES ASSUME k + 1 <= n PROVE f[k + 1] = g[k + 1]
    OBVIOUS
  <2>2. k + 1 \in 1 .. n /\ (k + 1) - 1 = k
    BY <2>1
  <2> QED BY <1>2, <2>1, <2>2 DEF Goes
<1> HIDE DEF A
<1>3. n \in A
  BY <1>1, <1>2, Inductive, A \subseteq Nat DEF A
<1> QED BY <1>3 DEF A

-----------------------------------------------------------------------------
(* Nothing is folded.                                                       *)
LEMMA FoldEmpty == \A b : Fold(b, <<>>) = b
<1> TAKE b
<1>1. PICK f : Goes(f, Len(<<>>), b, <<>>) /\ Fold(b, <<>>) = f[Len(<<>>)]
  BY FoldGoes, <<>> \in Seq({})
<1> QED BY <1>1, Len(<<>>) = 0 DEF Goes

(* The last element is folded last.                                         *)
LEMMA FoldAppend ==
    \A b, S : \A seq \in Seq(S), e \in S :
        Fold(b, Append(seq, e)) = op(Fold(b, seq), e)
<1> SUFFICES ASSUME NEW b, NEW S, NEW seq \in Seq(S), NEW e \in S
             PROVE  Fold(b, Append(seq, e)) = op(Fold(b, seq), e)
  OBVIOUS
<1> DEFINE n == Len(seq)
           longer == Append(seq, e)
<1>1. /\ longer \in Seq(S) /\ Len(longer) = n + 1 /\ n \in Nat
      /\ longer[n + 1] = e /\ \A k \in 1 .. n : seq[k] = longer[k]
  OBVIOUS
<1>2. PICK f : Goes(f, n, b, seq) /\ Fold(b, seq) = f[n]
  BY FoldGoes
<1>3. PICK g : Goes(g, n + 1, b, longer) /\ Fold(b, longer) = g[n + 1]
  BY <1>1, FoldGoes
<1> HIDE DEF n, longer
<1>4. Goes(g, n, b, longer)
  BY <1>1, <1>3 DEF Goes
<1>5. f[n] = g[n]
  BY <1>1, <1>2, <1>4, SameWay
<1>6. g[n + 1] = op(g[(n + 1) - 1], longer[n + 1])
  BY <1>1, <1>3 DEF Goes
<1>7. (n + 1) - 1 = n
  BY <1>1
<1> QED BY <1>1, <1>2, <1>3, <1>5, <1>6, <1>7 DEF longer

(* The first element is folded first.                                       *)
LEMMA FoldHead ==
    \A b, S : \A seq \in Seq(S) :
        seq # <<>> => Fold(b, seq) = Fold(op(b, Head(seq)), Tail(seq))
<1> SUFFICES ASSUME NEW b, NEW S, NEW seq \in Seq(S), seq # <<>>
             PROVE  Fold(b, seq) = Fold(op(b, Head(seq)), Tail(seq))
  OBVIOUS
<1> DEFINE rest == Tail(seq)
           m == Len(rest)
           c == op(b, Head(seq))
<1>1. /\ rest \in Seq(S) /\ m \in Nat /\ Len(seq) = m + 1
      /\ Head(seq) = seq[1] /\ \A k \in 1 .. m : rest[k] = seq[k + 1]
  OBVIOUS
<1>2. PICK f : Goes(f, m + 1, b, seq) /\ Fold(b, seq) = f[m + 1]
  BY <1>1, FoldGoes
<1>3. PICK g : Goes(g, m, c, rest) /\ Fold(c, rest) = g[m]
  BY <1>1, FoldGoes
<1> DEFINE h == [k \in 0 .. m |-> f[k + 1]]
<1> HIDE DEF rest, m, c
<1>4. Goes(h, m, c, rest)
  <2>1. 1 \in 1 .. m + 1 /\ 1 - 1 = 0 /\ h[0] = f[1]
    BY <1>1
  <2>2. h[0] = c
    BY <1>1, <1>2, <2>1 DEF Goes, c
  <2>3. ASSUME NEW k \in 1 .. m PROVE h[k] = op(h[k - 1], rest[k])
    <3>1. k + 1 \in 1 .. m + 1 /\ (k + 1) - 1 = k /\ h[k] = f[k + 1] /\ h[k - 1] = f[k]
      BY <1>1
    <3> QED BY <1>1, <1>2, <3>1 DEF Goes
  <2> QED BY <2>2, <2>3 DEF Goes
<1>5. h[m] = g[m]
  BY <1>1, <1>3, <1>4, SameWay
<1>6. h[m] = f[m + 1]
  BY <1>1
<1> QED BY <1>2, <1>3, <1>5, <1>6 DEF rest, c

(* What every step keeps, the fold keeps.                                   *)
LEMMA FoldKeeps ==
    \A S, T : (\A x \in T, e \in S : op(x, e) \in T) =>
        \A b \in T : \A seq \in Seq(S) : Fold(b, seq) \in T
<1> SUFFICES ASSUME NEW S, NEW T, \A x \in T, e \in S : op(x, e) \in T,
                    NEW b \in T, NEW seq \in Seq(S)
             PROVE  Fold(b, seq) \in T
  OBVIOUS
<1>1. PICK f : Goes(f, Len(seq), b, seq) /\ Fold(b, seq) = f[Len(seq)]
  BY FoldGoes
<1> DEFINE A == {n \in Nat : n <= Len(seq) => f[n] \in T}
<1>2. 0 \in A
  BY <1>1 DEF Goes
<1>3. ASSUME NEW n \in A PROVE n + 1 \in A
  <2>1. SUFFICES ASSUME n + 1 <= Len(seq) PROVE f[n + 1] \in T
    OBVIOUS
  <2>2. f[n] \in T /\ n \in Nat /\ n + 1 \in 1 .. Len(seq)
    BY <2>1
  <2>3. f[n + 1] = op(f[n], seq[n + 1])
    BY <1>1, <2>2 DEF Goes
  <2>4. seq[n + 1] \in S
    BY <2>2
  <2> QED BY <2>2, <2>3, <2>4
<1> HIDE DEF A
<1>4. A = Nat
  BY <1>2, <1>3, Inductive, A \subseteq Nat DEF A
<1>5. Len(seq) \in A
  BY <1>4
<1> QED BY <1>1, <1>5 DEF A

(* Two sequences are folded one after the other.                            *)
LEMMA FoldConcat ==
    \A b, S : \A s, t \in Seq(S) : Fold(b, s \o t) = Fold(Fold(b, s), t)
<1> SUFFICES ASSUME NEW b, NEW S, NEW s \in Seq(S), NEW t \in Seq(S)
             PROVE  Fold(b, s \o t) = Fold(Fold(b, s), t)
  OBVIOUS
<1> DEFINE first(n) == SubSeq(t, 1, n)
           A == {n \in Nat : n <= Len(t) =>
                    Fold(b, s \o first(n)) = Fold(Fold(b, s), first(n))}
<1>1. 0 \in A
  <2>1. first(0) = <<>> /\ s \o <<>> = s
    OBVIOUS
  <2> QED BY <2>1, FoldEmpty
<1>2. ASSUME NEW n \in A PROVE n + 1 \in A
  <2>1. SUFFICES ASSUME n + 1 <= Len(t)
                 PROVE  Fold(b, s \o first(n + 1)) = Fold(Fold(b, s), first(n + 1))
    OBVIOUS
  <2> DEFINE u == first(n)
             e == t[n + 1]
  <2>2. u \in Seq(S) /\ e \in S /\ first(n + 1) = Append(u, e)
    BY <2>1
  <2>3. Fold(b, s \o u) = Fold(Fold(b, s), u)
    BY <2>1
  <2> HIDE DEF u, e
  <2> DEFINE joined == s \o u
  <2>4. joined \in Seq(S) /\ s \o Append(u, e) = Append(joined, e)
    BY <2>2
  <2> HIDE DEF joined
  <2>5. Fold(b, Append(joined, e)) = op(Fold(b, joined), e)
    BY <2>2, <2>4, FoldAppend
  <2>6. Fold(Fold(b, s), Append(u, e)) = op(Fold(Fold(b, s), u), e)
    BY <2>2, FoldAppend
  <2> QED BY <2>2, <2>3, <2>4, <2>5, <2>6 DEF joined
<1> HIDE DEF A
<1>3. A = Nat
  BY <1>1, <1>2, Inductive, A \subseteq Nat DEF A
<1>4. Len(t) \in A
  BY <1>3
<1>5. Fold(b, s \o first(Len(t))) = Fold(Fold(b, s), first(Len(t)))
  BY <1>4 DEF A
<1> QED BY <1>5, first(Len(t)) = t
=============================================================================
