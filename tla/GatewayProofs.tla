----------------------------- MODULE GatewayProofs -----------------------------
(***************************************************************************)
(* Proofs about GatewayStream, for every value of the constants: what the  *)
(* browser is shown of a turn is in order and is the model's text without  *)
(* its tags, and what is spoken is what is shown, each piece in its style.  *)
(* The tokens of a text go through on_stream and feed one at a time, so    *)
(* the invariant, StreamInv, speaks of what has gone through them and of   *)
(* what is still held back, buffered or waiting.  The last section puts    *)
(* this together with the other scenes of MCStream.                        *)
(***************************************************************************)
EXTENDS StreamProofs, WellFoundedInduction

(***************************************************************************)
(* Sequences: what is built step by step, folds, and one after the other.  *)
(***************************************************************************)
\* A set of numbers with 0 that goes on from each of its numbers holds all.
LEMMA Climbing ==
    ASSUME NEW S, 0 \in S, \A n \in Nat : n \in S => n + 1 \in S
    PROVE  \A n \in Nat : n \in S
  <1> DEFINE T == {n \in Nat : n \notin S}
  <1> SUFFICES ASSUME T # {} PROVE FALSE
    OBVIOUS
  <1>1. T \subseteq Nat
    OBVIOUS
  <1> HIDE DEF T
  <1>2. PICK n \in T : \A m \in T : ~(<<m, n>> \in OpToRel(<, Nat))
    BY <1>1, NatLessThanWellFounded, WFMin, Zenon
  <1>3. n \in Nat /\ n \notin S /\ \A m \in T : ~(m < n)
    BY <1>1, <1>2 DEF T, OpToRel
  <1>4. n - 1 \in Nat /\ n - 1 \notin T /\ n = (n - 1) + 1
    BY <1>3
  <1> QED BY <1>3, <1>4 DEF T

Chains(T, a, N, G) ==
    {f \in [0 .. N -> T] : f[0] = a /\ \A n \in 1 .. N : f[n] = G[n][f[n - 1]]}

\* Whatever the steps, they can be taken one after the other.
LEMMA ChainExists ==
    ASSUME NEW T, NEW a \in T, NEW N \in Nat, NEW G \in [1 .. N -> [T -> T]]
    PROVE  Chains(T, a, N, G) # {}
  <1> DEFINE P(n) == \E f \in [0 .. n -> T] : f[0] = a /\ \A i \in 1 .. n : f[i] = G[i][f[i - 1]]
             S == {n \in Nat : n <= N => P(n)}
  <1>1. 0 \in S
    <2>1. [i \in 0 .. 0 |-> a] \in [0 .. 0 -> T] /\ [i \in 0 .. 0 |-> a][0] = a
      OBVIOUS
    <2>2. \A i \in 1 .. 0 : FALSE
      OBVIOUS
    <2> QED BY <2>1, <2>2
  <1>2. ASSUME NEW n \in Nat, n \in S PROVE n + 1 \in S
    <2> SUFFICES ASSUME n + 1 <= N PROVE P(n + 1)
      OBVIOUS
    <2>1. PICK f \in [0 .. n -> T] : f[0] = a /\ \A i \in 1 .. n : f[i] = G[i][f[i - 1]]
      BY <1>2
    <2> DEFINE g == [i \in 0 .. n + 1 |-> IF i = n + 1 THEN G[n + 1][f[n]] ELSE f[i]]
    <2>2. G[n + 1][f[n]] \in T
      OBVIOUS
    <2>3. g \in [0 .. n + 1 -> T]
      BY <2>2
    <2>4. g[0] = a
      BY <2>1
    <2>5. ASSUME NEW i \in 1 .. n + 1 PROVE g[i] = G[i][g[i - 1]]
      <3>1. CASE i = n + 1
        BY <3>1
      <3>2. CASE i # n + 1
        <4>1. i \in 1 .. n /\ i - 1 \in 0 .. n /\ i - 1 # n + 1
          BY <3>2
        <4> QED BY <2>1, <4>1
      <3> QED BY <3>1, <3>2
    <2> HIDE DEF g
    <2> QED BY <2>3, <2>4, <2>5
  <1> HIDE DEF P
  <1>3. \A n \in Nat : n \in S
    <2> HIDE DEF S
    <2> QED BY <1>1, <1>2, Climbing
  <1>4. P(N)
    BY <1>3
  <1>5. \E f \in [0 .. N -> T] : f[0] = a /\ \A n \in 1 .. N : f[n] = G[n][f[n - 1]]
    BY <1>4 DEF P
  <1> QED BY <1>5 DEF Chains

\* The functions that solve the equation of a fold over 1 .. N.
FoldsOf(T, a, N, G) ==
    {h \in [SUBSET (1 .. N) -> T] :
        \A K \in SUBSET (1 .. N) : h[K] = IF K = {} THEN a ELSE G[Max(K)][h[K \ {Max(K)}]]}

LEMMA HasMax ==
    ASSUME NEW N \in Nat, NEW K \in SUBSET (1 .. N), K # {}
    PROVE  Max(K) \in K /\ Max(K) \in Nat /\ \A y \in K : y <= Max(K)
  <1> DEFINE P(n) == \A X \in SUBSET (1 .. n) : X # {} => \E x \in X : \A y \in X : x >= y
             S == {n \in Nat : P(n)}
  <1>0. \A X \in SUBSET (1 .. 0) : X = {}
    OBVIOUS
  <1>1. 0 \in S
    BY <1>0
  <1>2. ASSUME NEW n \in Nat, n \in S PROVE n + 1 \in S
    <2> SUFFICES ASSUME NEW X \in SUBSET (1 .. n + 1), X # {}
                 PROVE  \E x \in X : \A y \in X : x >= y
      OBVIOUS
    <2>1. CASE n + 1 \in X
      BY <2>1
    <2>2. CASE n + 1 \notin X
      <3>1. X \in SUBSET (1 .. n)
        BY <2>2
      <3> QED BY <3>1, <1>2
    <2> QED BY <2>1, <2>2
  <1>3. \A n \in Nat : n \in S
    <2> HIDE DEF S
    <2> QED BY <1>1, <1>2, Climbing
  <1>4. \E x \in K : \A y \in K : x >= y
    BY <1>3
  <1>5. Max(K) \in K /\ \A y \in K : Max(K) >= y
    BY <1>4 DEF Max
  <1>6. \A y \in K : y \in Nat
    OBVIOUS
  <1>7. Max(K) \in Nat
    BY <1>5, <1>6
  <1> QED BY <1>5, <1>6, <1>7

LEMMA MaxOfFirst ==
    ASSUME NEW N \in Nat, NEW n \in 1 .. N
    PROVE  /\ 1 .. n \in SUBSET (1 .. N) /\ 1 .. n # {}
           /\ Max(1 .. n) = n /\ (1 .. n) \ {Max(1 .. n)} = 1 .. n - 1
  <1>1. 1 .. n \in SUBSET (1 .. N) /\ n \in 1 .. n
    OBVIOUS
  <1>2. Max(1 .. n) \in 1 .. n /\ n <= Max(1 .. n)
    BY <1>1, HasMax
  <1>3. Max(1 .. n) = n
    BY <1>2
  <1> QED BY <1>1, <1>3

LEMMA FoldExists ==
    ASSUME NEW T, NEW a \in T, NEW N \in Nat, NEW G \in [1 .. N -> [T -> T]]
    PROVE  FoldsOf(T, a, N, G) # {}
  <1> DEFINE Eq(h, K) == h[K] = IF K = {} THEN a ELSE G[Max(K)][h[K \ {Max(K)}]]
             P(n) == \E h \in [SUBSET (1 .. n) -> T] : \A K \in SUBSET (1 .. n) : Eq(h, K)
             S == {n \in Nat : n <= N => P(n)}
  <1>1. 0 \in S
    <2> DEFINE h == [K \in SUBSET (1 .. 0) |-> a]
    <2>1. \A K \in SUBSET (1 .. 0) : K = {}
      OBVIOUS
    <2>2. h \in [SUBSET (1 .. 0) -> T] /\ \A K \in SUBSET (1 .. 0) : Eq(h, K)
      BY <2>1
    <2> QED BY <2>2
  <1>2. ASSUME NEW n \in Nat, n \in S PROVE n + 1 \in S
    <2> SUFFICES ASSUME n + 1 <= N PROVE P(n + 1)
      <3> HIDE DEF P
      <3> QED OBVIOUS
    <2>0. P(n)
      <3> HIDE DEF P
      <3> QED BY <1>2
    <2>1. PICK h \in [SUBSET (1 .. n) -> T] : \A K \in SUBSET (1 .. n) : Eq(h, K)
      BY <2>0
    <2> DEFINE g == [K \in SUBSET (1 .. n + 1) |-> IF n + 1 \in K THEN G[n + 1][h[K \ {n + 1}]] ELSE h[K]]
    <2>2. G[n + 1] \in [T -> T]
      OBVIOUS
    <2>3. \A K \in SUBSET (1 .. n + 1) : K \ {n + 1} \in SUBSET (1 .. n)
      OBVIOUS
    <2>4. \A K \in SUBSET (1 .. n + 1) : n + 1 \notin K => K \in SUBSET (1 .. n)
      OBVIOUS
    <2>5. g \in [SUBSET (1 .. n + 1) -> T]
      BY <2>2, <2>3, <2>4
    <2>6. ASSUME NEW K \in SUBSET (1 .. n + 1) PROVE Eq(g, K)
      <3>1. CASE n + 1 \in K
        <4>a. n + 1 \in Nat /\ K # {}
          BY <3>1
        <4>b. Max(K) \in K /\ Max(K) \in Nat /\ \A y \in K : y <= Max(K)
          BY <4>a, HasMax
        <4>1. Max(K) \in 1 .. n + 1 /\ n + 1 <= Max(K)
          BY <3>1, <4>b
        <4>2. Max(K) = n + 1
          BY <4>1
        <4>3. K \ {n + 1} \in SUBSET (1 .. n + 1) /\ n + 1 \notin K \ {n + 1}
          OBVIOUS
        <4>4. g[K \ {n + 1}] = h[K \ {n + 1}]
          BY <4>3
        <4>5. g[K] = G[n + 1][h[K \ {n + 1}]]
          BY <3>1
        <4> QED BY <3>1, <4>2, <4>4, <4>5
      <3>2. CASE n + 1 \notin K
        <4>1. g[K] = h[K] /\ Eq(h, K)
          BY <3>2, <2>1, <2>4
        <4>2. CASE K = {}
          BY <4>1, <4>2
        <4>3. CASE K # {}
          <5>1. K \ {Max(K)} \in SUBSET (1 .. n + 1) /\ n + 1 \notin K \ {Max(K)}
            BY <3>2
          <5>2. g[K \ {Max(K)}] = h[K \ {Max(K)}]
            BY <5>1
          <5> QED BY <4>1, <4>3, <5>2
        <4> QED BY <4>2, <4>3
      <3> QED BY <3>1, <3>2
    <2> HIDE DEF g, Eq
    <2> QED BY <2>5, <2>6
  <1> HIDE DEF P
  <1>3. \A n \in Nat : n \in S
    <2> HIDE DEF S
    <2> QED BY <1>1, <1>2, Climbing
  <1>4. P(N)
    BY <1>3
  <1> QED BY <1>4 DEF P, FoldsOf

\* A list of texts.
IsList(T, s) == Len(s) \in Nat /\ \A n \in 1 .. Len(s) : s[n] \in Seq(T)

\* What FlattenSeq has put together when it has come to each place.
Flattenings(T, s) ==
    {f \in [0 .. Len(s) -> Seq(T)] : f[0] = <<>> /\ \A n \in 1 .. Len(s) : f[n] = f[n - 1] \o s[n]}

LEMMA FlattenExists ==
    ASSUME NEW T, NEW s, IsList(T, s)
    PROVE  Flattenings(T, s) # {}
  <1> DEFINE G == [n \in 1 .. Len(s) |-> [x \in Seq(T) |-> x \o s[n]]]
  <1>1. Len(s) \in Nat /\ <<>> \in Seq(T) /\ \A n \in 1 .. Len(s) : s[n] \in Seq(T)
    BY DEF IsList
  <1>2. G \in [1 .. Len(s) -> [Seq(T) -> Seq(T)]]
    BY <1>1
  <1>3. \A n \in 1 .. Len(s) : \A x \in Seq(T) : G[n][x] = x \o s[n]
    OBVIOUS
  <1> HIDE DEF G
  <1>4. Chains(Seq(T), <<>>, Len(s), G) # {}
    BY <1>1, <1>2, ChainExists
  <1>5. PICK f \in [0 .. Len(s) -> Seq(T)] : f[0] = <<>> /\ \A n \in 1 .. Len(s) : f[n] = G[n][f[n - 1]]
    BY <1>4 DEF Chains
  <1>6. ASSUME NEW n \in 1 .. Len(s) PROVE f[n] = f[n - 1] \o s[n]
    <2>1. n - 1 \in 0 .. Len(s)
      BY <1>1
    <2>2. f[n - 1] \in Seq(T)
      BY <1>5, <2>1
    <2> QED BY <1>3, <1>5, <2>2
  <1> QED BY <1>5, <1>6 DEF Flattenings

LEMMA FlatteningGives ==
    ASSUME NEW T, NEW s, IsList(T, s), NEW f \in Flattenings(T, s)
    PROVE  FlattenSeq(s) = f[Len(s)]
  <1>1. Len(s) \in Nat /\ \A n \in 1 .. Len(s) : s[n] \in Seq(T)
    BY DEF IsList
  <1>2. f \in [0 .. Len(s) -> Seq(T)] /\ f[0] = <<>> /\ \A n \in 1 .. Len(s) : f[n] = f[n - 1] \o s[n]
    BY DEF Flattenings
  <1>3. CASE Len(s) = 0
    BY <1>2, <1>3 DEF FlattenSeq
  <1>4. CASE Len(s) # 0
    <2> DEFINE Eq(h) == h = [i \in 1 .. Len(s) |-> IF i = 1 THEN s[i] ELSE h[i - 1] \o s[i]]
               it == CHOOSE h : Eq(h)
               g == [n \in 1 .. Len(s) |-> f[n]]
    <2>1. FlattenSeq(s) = it[Len(s)]
      BY <1>4 DEF FlattenSeq
    <2>2. \A n \in 1 .. Len(s) : g[n] = IF n = 1 THEN s[n] ELSE g[n - 1] \o s[n]
      <3> SUFFICES ASSUME NEW n \in 1 .. Len(s) PROVE g[n] = IF n = 1 THEN s[n] ELSE g[n - 1] \o s[n]
        OBVIOUS
      <3>1. CASE n = 1
        <4>0. 1 \in 1 .. Len(s) /\ 1 - 1 = 0
          BY <1>1, <3>1
        <4>1. f[1] = f[0] \o s[1]
          BY <1>2, <4>0
        <4>2. s[1] \in Seq(T)
          BY <1>1, <4>0
        <4>3. <<>> \o s[1] = s[1]
          BY <4>2, ConcatEmptySeq
        <4> QED BY <1>2, <3>1, <4>1, <4>3
      <3>2. CASE n # 1
        <4>1. n - 1 \in 1 .. Len(s)
          BY <1>1, <3>2
        <4> QED BY <1>2, <3>2, <4>1
      <3> QED BY <3>1, <3>2
    <2>3. Eq(g)
      BY <2>2
    <2>4. Eq(it)
      <3> HIDE DEF Eq, g
      <3> QED BY <2>3
    <2>5. \A n \in 1 .. Len(s) : it[n] = IF n = 1 THEN s[n] ELSE it[n - 1] \o s[n]
      <3> HIDE DEF it
      <3> QED BY <2>4
    <2> HIDE DEF it, Eq
    <2> DEFINE S == {n \in Nat : n < Len(s) => it[n + 1] = f[n + 1]}
    <2>6. 0 \in S
      <3>0. 1 \in 1 .. Len(s) /\ 1 - 1 = 0 /\ 0 + 1 = 1
        BY <1>1, <1>4
      <3>1. it[1] = s[1] /\ f[1] = f[0] \o s[1]
        BY <1>2, <2>5, <3>0
      <3>2. s[1] \in Seq(T)
        BY <1>1, <3>0
      <3>3. <<>> \o s[1] = s[1]
        BY <3>2, ConcatEmptySeq
      <3> QED BY <1>2, <3>0, <3>1, <3>3
    <2>7. ASSUME NEW n \in Nat, n \in S PROVE n + 1 \in S
      <3> SUFFICES ASSUME n + 1 < Len(s) PROVE it[(n + 1) + 1] = f[(n + 1) + 1]
        OBVIOUS
      <3>0. (n + 1) + 1 \in 1 .. Len(s) /\ ((n + 1) + 1) - 1 = n + 1 /\ (n + 1) + 1 # 1
        BY <1>1
      <3>1. it[n + 1] = f[n + 1]
        BY <1>1, <2>7
      <3>2. it[(n + 1) + 1] = it[n + 1] \o s[(n + 1) + 1]
        BY <2>5, <3>0
      <3>3. f[(n + 1) + 1] = f[n + 1] \o s[(n + 1) + 1]
        BY <1>2, <3>0
      <3> QED BY <3>1, <3>2, <3>3
    <2>8. \A n \in Nat : n \in S
      <3> HIDE DEF S
      <3> QED BY <2>6, <2>7, Climbing
    <2>9. Len(s) - 1 \in S /\ (Len(s) - 1) + 1 = Len(s) /\ Len(s) - 1 < Len(s)
      BY <1>1, <1>4, <2>8
    <2>10. it[Len(s)] = f[Len(s)]
      BY <2>9
    <2> QED BY <2>1, <2>10
  <1> QED BY <1>3, <1>4

LEMMA FlattenType ==
    ASSUME NEW T, NEW s, IsList(T, s)
    PROVE  FlattenSeq(s) \in Seq(T)
  <1>1. PICK f : f \in Flattenings(T, s)
    BY FlattenExists
  <1>2. FlattenSeq(s) = f[Len(s)]
    BY <1>1, FlatteningGives
  <1>3. f \in [0 .. Len(s) -> Seq(T)]
    BY <1>1 DEF Flattenings
  <1>4. Len(s) \in 0 .. Len(s)
    BY DEF IsList
  <1> QED BY <1>2, <1>3, <1>4

LEMMA FlattenEmpty == FlattenSeq(<<>>) = <<>>
  BY DEF FlattenSeq

\* One text more.
LEMMA FlattenAppend ==
    ASSUME NEW T, NEW s, IsList(T, s), NEW x \in Seq(T), NEW t, Len(t) = Len(s) + 1, t[Len(s) + 1] = x,
           \A n \in 1 .. Len(s) : t[n] = s[n]
    PROVE  FlattenSeq(t) = FlattenSeq(s) \o x /\ IsList(T, t)
  <1> DEFINE N == Len(s)
  <1>1. N \in Nat /\ Len(t) = N + 1 /\ t[N + 1] = x /\ \A n \in 1 .. N : t[n] = s[n]
    BY DEF IsList
  <1>2. PICK f : f \in Flattenings(T, s)
    BY FlattenExists
  <1>3. f \in [0 .. N -> Seq(T)] /\ f[0] = <<>> /\ \A n \in 1 .. N : f[n] = f[n - 1] \o s[n]
    BY <1>2 DEF Flattenings
  <1>4. IsList(T, t)
    BY <1>1 DEF IsList
  <1> HIDE DEF N
  <1> DEFINE g == [n \in 0 .. N + 1 |-> IF n = N + 1 THEN f[N] \o x ELSE f[n]]
  <1>5. g \in Flattenings(T, t)
    <2>0. f[N] \in Seq(T)
      BY <1>1, <1>3
    <2>1. f[N] \o x \in Seq(T)
      BY <2>0
    <2>2. g \in [0 .. N + 1 -> Seq(T)] /\ g[0] = <<>>
      BY <1>1, <1>3, <2>1
    <2>3. ASSUME NEW n \in 1 .. N + 1 PROVE g[n] = g[n - 1] \o t[n]
      <3>1. CASE n = N + 1
        <4>1. g[n] = f[N] \o x /\ g[n - 1] = f[N] /\ t[n] = x
          BY <1>1, <3>1
        <4> QED BY <4>1
      <3>2. CASE n # N + 1
        <4>1. n \in 1 .. N /\ n - 1 \in 0 .. N /\ n - 1 # N + 1 /\ n \in 0 .. N + 1 /\ n - 1 \in 0 .. N + 1
          BY <1>1, <3>2
        <4>2. g[n] = f[n] /\ g[n - 1] = f[n - 1] /\ t[n] = s[n]
          BY <1>1, <3>2, <4>1
        <4> QED BY <1>3, <4>1, <4>2
      <3> QED BY <3>1, <3>2
    <2> HIDE DEF g
    <2> QED BY <1>1, <2>2, <2>3 DEF Flattenings
  <1>6. FlattenSeq(t) = g[N + 1] /\ FlattenSeq(s) = f[N]
    BY <1>1, <1>2, <1>4, <1>5, FlatteningGives DEF N
  <1>7. g[N + 1] = f[N] \o x
    BY <1>1
  <1> QED BY <1>4, <1>6, <1>7

Joined(a, b) == a \o b

LEMMA JoinedThree ==
    ASSUME NEW T, NEW a \in Seq(T), NEW b \in Seq(T), NEW c \in Seq(T)
    PROVE  Joined(Joined(a, b), c) = Joined(a, Joined(b, c))
  BY ConcatAssociative DEF Joined

\* The first of the texts, and the others.
LEMMA FlattenTail ==
    ASSUME NEW T, NEW s, IsList(T, s), NEW t, Len(s) = Len(t) + 1, Len(t) \in Nat,
           \A n \in 1 .. Len(t) : t[n] = s[n + 1]
    PROVE  FlattenSeq(s) = s[1] \o FlattenSeq(t) /\ IsList(T, t)
  <1> DEFINE N == Len(s)
  <1>1. /\ N \in Nat \ {0} /\ Len(t) = N - 1 /\ s[1] \in Seq(T)
        /\ \A n \in 1 .. N - 1 : t[n] = s[n + 1]
        /\ \A n \in 1 .. N : s[n] \in Seq(T)
    BY DEF IsList
  <1>2. PICK f : f \in Flattenings(T, s)
    BY FlattenExists
  <1>3. f \in [0 .. N -> Seq(T)] /\ f[0] = <<>> /\ \A n \in 1 .. N : f[n] = f[n - 1] \o s[n]
    BY <1>2 DEF Flattenings
  <1>b. IsList(T, t)
    BY <1>1 DEF IsList
  <1>4. PICK g : g \in Flattenings(T, t)
    BY <1>b, FlattenExists
  <1>5. g \in [0 .. N - 1 -> Seq(T)] /\ g[0] = <<>> /\ \A n \in 1 .. N - 1 : g[n] = g[n - 1] \o t[n]
    BY <1>1, <1>4 DEF Flattenings
  <1>a. FlattenSeq(s) = f[N] /\ FlattenSeq(t) = g[N - 1]
    BY <1>1, <1>2, <1>4, <1>b, FlatteningGives
  <1> PICK h : h = s[1]
    OBVIOUS
  <1> HIDE DEF N
  <1> DEFINE P(n) == f[n + 1] = h \o g[n]
             S == {n \in Nat : n < N => P(n)}
  <1>6. 0 \in S
    <2>0. 1 \in 1 .. N /\ 1 - 1 = 0 /\ 0 + 1 = 1
      BY <1>1
    <2>1. f[1] = f[0] \o s[1]
      BY <1>3, <2>0
    <2>2. h \in Seq(T)
      BY <1>1
    <2>3. <<>> \o h = h /\ h \o <<>> = h
      BY <2>2, ConcatEmptySeq
    <2> QED BY <1>3, <1>5, <2>0, <2>1, <2>3
  <1>7. ASSUME NEW n \in Nat, n \in S PROVE n + 1 \in S
    <2> SUFFICES ASSUME n + 1 < N PROVE P(n + 1)
      <3> HIDE DEF P
      <3> QED OBVIOUS
    <2>0. n < N
      BY <1>1
    <2>a. P(n)
      <3> HIDE DEF P
      <3> QED BY <1>7, <2>0
    <2>1. f[n + 1] = h \o g[n]
      BY <2>a
    <2>2. (n + 1) + 1 \in 1 .. N /\ ((n + 1) + 1) - 1 = n + 1 /\ n + 1 \in 1 .. N - 1 /\ (n + 1) - 1 = n /\ n \in 0 .. N - 1
      BY <1>1
    <2>3. f[(n + 1) + 1] = f[n + 1] \o s[(n + 1) + 1] /\ g[n + 1] = g[n] \o t[n + 1] /\ t[n + 1] = s[(n + 1) + 1]
      BY <1>1, <1>3, <1>5, <2>2
    <2>4. g[n] \in Seq(T) /\ s[(n + 1) + 1] \in Seq(T) /\ h \in Seq(T)
      <3>1. g[n] \in Seq(T)
        BY <1>5, <2>2
      <3>2. s[(n + 1) + 1] \in Seq(T)
        BY <1>1, <2>2
      <3>3. h \in Seq(T)
        BY <1>1
      <3> QED BY <3>1, <3>2, <3>3
    <2>5. (h \o g[n]) \o s[(n + 1) + 1] = h \o (g[n] \o s[(n + 1) + 1])
      <3> PICK u, v : u = s[(n + 1) + 1] /\ v = g[n]
        OBVIOUS
      <3>1. u \in Seq(T) /\ v \in Seq(T) /\ h \in Seq(T)
        BY <2>4
      <3>2. Joined(Joined(h, v), u) = Joined(h, Joined(v, u))
        BY <3>1, JoinedThree, SMT
      <3> QED BY <3>2 DEF Joined
    <2> QED BY <2>1, <2>3, <2>5
  <1>8. \A n \in Nat : n \in S
    <2> HIDE DEF S
    <2> QED BY <1>6, <1>7, Climbing
  <1>9. N - 1 \in S /\ (N - 1) + 1 = N /\ N - 1 < N
    BY <1>1, <1>8
  <1>10. f[N] = h \o g[N - 1]
    BY <1>9
  <1> QED BY <1>a, <1>b, <1>10
-----------------------------------------------------------------------------
(***************************************************************************)
(* GatewayStream: what on_stream keeps, and what it makes of an event.     *)
(***************************************************************************)
PlainKinds ==
    {"emotion_plan", "assistant_start", "tool_requested", "tool_started", "tool_output", "tool_finished"}
VoiceKinds == {"tts_started", "tts_audio", "tts_segment", "tts_error", "tts_finished"}
LastKinds == {"result", "error"}

\* The events of the turn, and all messages to the client.
Events ==
    [kind : PlainKinds] \cup [kind : {"assistant_delta"}, text : Seq(Tokens)]
        \cup [kind : {"assistant_done"}, calls : BOOLEAN]
ClientMessages == Events \cup [kind : VoiceKinds \cup LastKinds]

SpeechStyles == VoiceTags \cup {"none"} \cup ToSet(Schedule)
SegmentTexts == {s \in Seq(Tokens) : s # <<>> /\ Len(s) <= MaxChars}
Segments == [style : SpeechStyles, text : SegmentTexts]
Inputs == Segments \cup {CloseMark}

\* A listener whose buffer has at most n tokens.
ListenersUpTo(n) ==
    [held : Seq(Tokens), buffer : {b \in Seq(Tokens) : Len(b) <= n}, style : VoiceTags \cup {"none"},
     styles : {<<>>, Schedule}, index : Nat, input : Seq(Inputs), closed : BOOLEAN, wanted : BOOLEAN,
     out : Seq(ClientMessages)]
Listeners == ListenersUpTo(MaxChars - 1)

LEMMA StreamConstants ==
    /\ MaxChars \in Nat /\ MinSoft \in 1 .. MaxChars /\ MaxChars \in 1 .. MaxChars
    /\ MaxChars - 1 \in Nat /\ MaxChars - 1 <= MaxChars
    /\ Len(Schedule) \in Nat \ {0} /\ \A i \in 1 .. Len(Schedule) : Schedule[i] \in ToSet(Schedule)
    /\ PlainTokens \cap VoiceTags = {} /\ "none" \notin VoiceTags /\ "face" \notin VoiceTags
    /\ PlainTokens \cap Tags = {} /\ Tags \cup PlainTokens = Tokens /\ VoiceTags \subseteq Tags
    /\ LimitReply \in Seq(Tokens) /\ LimitReply # <<>>
    /\ \A i \in 1 .. Len(LimitReply) : LimitReply[i] \in PlainTokens \ {"half"}
  <1>1. MaxChars \in Nat /\ MinSoft \in 1 .. MaxChars /\ MaxChars - 1 \in Nat /\ MaxChars - 1 <= MaxChars
        /\ MaxChars \in 1 .. MaxChars
    BY StreamAssumption
  <1>2. Len(Schedule) \in Nat \ {0} /\ \A i \in 1 .. Len(Schedule) : Schedule[i] \in ToSet(Schedule)
    <2>1. Schedule \in Seq(STRING) /\ Schedule # <<>>
      BY StreamAssumption
    <2>2. DOMAIN Schedule = 1 .. Len(Schedule) /\ Len(Schedule) \in Nat \ {0}
      BY <2>1, EmptySeq
    <2> QED BY <2>2 DEF ToSet
  <1>3. PlainTokens \cap VoiceTags = {} /\ "none" \notin VoiceTags /\ "face" \notin VoiceTags
    BY StreamAssumption
  <1>4. PlainTokens \cap Tags = {} /\ Tags \cup PlainTokens = Tokens /\ VoiceTags \subseteq Tags
    BY <1>3 DEF Tags, Tokens, PlainTokens
  <1>5. LimitReply \in Seq(PlainTokens \ {"half"}) /\ LimitReply # <<>>
    BY StreamAssumption
  <1>6. PlainTokens \ {"half"} \subseteq Tokens
    BY <1>4
  <1>7. LimitReply \in Seq(Tokens)
    BY <1>5, <1>6, SeqMonotonic
  <1>8. \A i \in 1 .. Len(LimitReply) : LimitReply[i] \in PlainTokens \ {"half"}
    BY <1>5, ElementOfSeq
  <1> QED BY <1>1, <1>2, <1>3, <1>4, <1>5, <1>7, <1>8

LEMMA NextStyleType ==
    ASSUME NEW n, NEW l \in ListenersUpTo(n)
    PROVE  /\ NextStyle(l) \in SpeechStyles
           /\ l.style # "none" => NextStyle(l) = l.style
           /\ l.style = "none" /\ l.styles # <<>> => NextStyle(l) \in ToSet(Schedule)
  <1>1. l.style \in VoiceTags \cup {"none"} /\ l.styles \in {<<>>, Schedule} /\ l.index \in Nat
    BY DEF ListenersUpTo
  <1>2. CASE l.style # "none" \/ l.styles = <<>>
    BY <1>1, <1>2 DEF NextStyle, SpeechStyles
  <1>3. CASE l.style = "none" /\ l.styles # <<>>
    <2>1. l.styles = Schedule
      BY <1>1, <1>3
    <2>2. (IF l.index < Len(Schedule) THEN l.index + 1 ELSE Len(Schedule)) \in 1 .. Len(Schedule)
      BY <1>1, StreamConstants
    <2>3. NextStyle(l) \in ToSet(Schedule)
      BY <1>3, <2>1, <2>2, StreamConstants DEF NextStyle
    <2> QED BY <1>3, <2>3 DEF SpeechStyles
  <1> QED BY <1>2, <1>3

\* What a cut and an addition leave alone.
SameLine(l, c) ==
    c.held = l.held /\ c.style = l.style /\ c.styles = l.styles /\ c.closed = l.closed /\ c.out = l.out

SegmentOf(l, n) == [style |-> NextStyle(l), text |-> SubSeq(l.buffer, 1, n)]

\* A segment is cut from the buffer.
LEMMA CutGives ==
    ASSUME NEW N \in Nat, N <= MaxChars, NEW l \in ListenersUpTo(N), NEW n \in 1 .. Len(l.buffer)
    PROVE  /\ CutAt(l, n) \in ListenersUpTo(N - 1)
           /\ SegmentOf(l, n) \in Segments /\ SegmentOf(l, n).style = NextStyle(l)
           /\ SegmentOf(l, n).text = SubSeq(l.buffer, 1, n) /\ Len(SegmentOf(l, n).text) = n
           /\ SameLine(l, CutAt(l, n)) /\ CutAt(l, n).wanted
           /\ CutAt(l, n).buffer = SubSeq(l.buffer, n + 1, Len(l.buffer)) /\ Len(CutAt(l, n).buffer) = Len(l.buffer) - n
           /\ CutAt(l, n).input = Append(l.input, SegmentOf(l, n))
           /\ l.buffer = SegmentOf(l, n).text \o CutAt(l, n).buffer
  <1> PICK s, c : s = SegmentOf(l, n) /\ c = CutAt(l, n)
    OBVIOUS
  <1> DEFINE b == SubSeq(l.buffer, n + 1, Len(l.buffer))
  <1>1. l.buffer \in Seq(Tokens) /\ Len(l.buffer) \in Nat /\ Len(l.buffer) <= N
    BY DEF ListenersUpTo
  <1>2. l.input \in Seq(Inputs) /\ l.index + 1 \in Nat
    BY DEF ListenersUpTo
  <1>3. NextStyle(l) \in SpeechStyles
    BY NextStyleType
  <1>4. SubSeq(l.buffer, 1, n) \in Seq(Tokens) /\ Len(SubSeq(l.buffer, 1, n)) = n
    BY <1>1
  <1>5. b \in Seq(Tokens) /\ Len(b) = Len(l.buffer) - n /\ Len(b) <= N - 1
    BY <1>1
  <1>6. SubSeq(l.buffer, 1, n) \in SegmentTexts
    <2>1. SubSeq(l.buffer, 1, n) # <<>>
      BY <1>4
    <2>2. n <= MaxChars
      BY <1>1, StreamConstants
    <2> QED BY <1>4, <2>1, <2>2 DEF SegmentTexts
  <1>7. s \in Segments /\ s.style = NextStyle(l) /\ s.text = SubSeq(l.buffer, 1, n) /\ Len(s.text) = n
    BY <1>3, <1>4, <1>6 DEF Segments, SegmentOf
  <1>8. Append(l.input, s) \in Seq(Inputs)
    <2>1. s \in Inputs
      BY <1>7 DEF Inputs
    <2> QED BY <1>2, <2>1, AppendProperties
  <1>9. c = [l EXCEPT !.input = Append(l.input, s), !.index = l.index + 1, !.wanted = TRUE, !.buffer = b]
    BY DEF CutAt, SegmentOf
  <1> HIDE DEF b
  <1> PICK a, k, M : a = Append(l.input, s) /\ k = l.index + 1 /\ M = N - 1
    OBVIOUS
  <1>0. b \in Seq(Tokens) /\ Len(b) <= M /\ a \in Seq(Inputs) /\ k \in Nat
        /\ c = [l EXCEPT !.input = a, !.index = k, !.wanted = TRUE, !.buffer = b]
    BY <1>2, <1>5, <1>8, <1>9
  <1>t. c \in ListenersUpTo(M) /\ SameLine(l, c) /\ c.buffer = b /\ c.input = a /\ c.wanted
    BY <1>0 DEF ListenersUpTo, SameLine
  <1>10. c \in ListenersUpTo(N - 1) /\ SameLine(l, c) /\ c.buffer = b /\ c.input = Append(l.input, s) /\ c.wanted
    BY <1>t
  <1>11. l.buffer = SubSeq(l.buffer, 1, n) \o b
    <2>1. SubSeq(l.buffer, 1, Len(l.buffer)) = l.buffer
      BY <1>1, SubSeqFull
    <2>2. SubSeq(l.buffer, 1, n) \o SubSeq(l.buffer, n + 1, Len(l.buffer)) = SubSeq(l.buffer, 1, Len(l.buffer))
      BY <1>1, ConcatAdjacentSubSeq
    <2> QED BY <2>1, <2>2 DEF b
  <1> QED BY <1>5, <1>7, <1>10, <1>11 DEF b

\* A full buffer is cut where something remains of it.
LEMMA SoftCutIsInside ==
    ASSUME NEW b
    PROVE  SoftCut(b) \in 1 .. MaxChars
  <1> DEFINE breaks == {i \in MinSoft + 1 .. MaxChars : b[i] = "pause"}
  <1>1. CASE breaks = {}
    BY <1>1, StreamConstants DEF SoftCut
  <1>2. CASE breaks # {}
    <2>1. breaks \in SUBSET (1 .. MaxChars)
      BY StreamConstants
    <2>2. \E i \in breaks : \A j \in breaks : j <= i
      <3> HIDE DEF breaks
      <3> QED BY <1>2, <2>1, HasMax, StreamConstants
    <2>3. (CHOOSE i \in breaks : \A j \in breaks : j <= i) \in breaks
      <3> HIDE DEF breaks
      <3> QED BY <2>2
    <2>4. SoftCut(b) = CHOOSE i \in breaks : \A j \in breaks : j <= i
      BY <1>2 DEF SoftCut
    <2> QED BY <2>1, <2>3, <2>4
  <1> QED BY <1>1, <1>2

\* A token is added to the buffer.
Buffered(l, t) == [l EXCEPT !.buffer = Append(@, t), !.wanted = TRUE]

LEMMA BufferedGives ==
    ASSUME NEW l \in Listeners, NEW t \in Tokens, NEW c, c = Buffered(l, t)
    PROVE  /\ c \in ListenersUpTo(MaxChars) /\ SameLine(l, c) /\ c.input = l.input /\ c.wanted
           /\ c.buffer = Append(l.buffer, t) /\ Len(c.buffer) = Len(l.buffer) + 1 /\ Len(l.buffer) \in Nat
  <1> PICK b : b = Append(l.buffer, t)
    OBVIOUS
  <1>1. l.buffer \in Seq(Tokens) /\ Len(l.buffer) \in Nat /\ Len(l.buffer) <= MaxChars - 1
    BY DEF Listeners, ListenersUpTo
  <1>2. b \in Seq(Tokens) /\ Len(b) = Len(l.buffer) + 1
    BY <1>1, AppendProperties
  <1>3. Len(b) <= MaxChars
    BY <1>1, <1>2, StreamConstants
  <1>4. c = [l EXCEPT !.buffer = b, !.wanted = TRUE]
    BY DEF Buffered
  <1>5. c \in ListenersUpTo(MaxChars) /\ SameLine(l, c) /\ c.buffer = b /\ c.input = l.input /\ c.wanted
    BY <1>2, <1>3, <1>4 DEF Listeners, ListenersUpTo, SameLine
  <1> QED BY <1>1, <1>2, <1>5

\* What the segmenter makes of a token.
LEMMA FeedTextCases ==
    ASSUME NEW l \in Listeners, NEW t \in Tokens
    PROVE  \/ FeedText(l, t) = Buffered(l, t) /\ Buffered(l, t) \in Listeners
           \/ \E n \in 1 .. Len(Buffered(l, t).buffer) :
                 FeedText(l, t) = CutAt(Buffered(l, t), n) /\ CutAt(Buffered(l, t), n) \in Listeners
  <1> DEFINE m == Buffered(l, t)
  <1>1. m \in ListenersUpTo(MaxChars) /\ Len(m.buffer) \in Nat /\ Len(m.buffer) # 0 /\ Len(m.buffer) <= MaxChars
    <2>1. m \in ListenersUpTo(MaxChars) /\ Len(m.buffer) = Len(l.buffer) + 1 /\ Len(l.buffer) \in Nat
      BY BufferedGives
    <2> QED BY <2>1 DEF ListenersUpTo
  <1>2. FeedText(l, t) = IF t = "stop" THEN CutAt(m, Len(m.buffer))
                         ELSE IF Len(m.buffer) = MaxChars THEN CutAt(m, SoftCut(m.buffer)) ELSE m
    BY DEF FeedText, Buffered
  <1>3. \A n \in 1 .. Len(m.buffer) : CutAt(m, n) \in Listeners
    <2> HIDE DEF m
    <2> SUFFICES ASSUME NEW n \in 1 .. Len(m.buffer) PROVE CutAt(m, n) \in Listeners
      OBVIOUS
    <2> PICK M : M = MaxChars
      OBVIOUS
    <2>1. M \in Nat /\ M <= MaxChars /\ m \in ListenersUpTo(M)
      BY <1>1, StreamConstants
    <2>2. CutAt(m, n) \in ListenersUpTo(M - 1)
      BY <2>1, CutGives
    <2> QED BY <2>2 DEF Listeners
  <1> HIDE DEF m
  <1>4. CASE t = "stop"
    <2>1. Len(m.buffer) \in 1 .. Len(m.buffer)
      BY <1>1
    <2>2. FeedText(l, t) = CutAt(m, Len(m.buffer))
      BY <1>2, <1>4
    <2>3. \E n \in 1 .. Len(m.buffer) : FeedText(l, t) = CutAt(m, n) /\ CutAt(m, n) \in Listeners
      BY <1>3, <2>1, <2>2
    <2> QED BY <2>3 DEF m
  <1>5. CASE t # "stop" /\ Len(m.buffer) = MaxChars
    <2>1. SoftCut(m.buffer) \in 1 .. Len(m.buffer)
      BY <1>5, SoftCutIsInside
    <2>2. FeedText(l, t) = CutAt(m, SoftCut(m.buffer))
      BY <1>2, <1>5
    <2>3. \E n \in 1 .. Len(m.buffer) : FeedText(l, t) = CutAt(m, n) /\ CutAt(m, n) \in Listeners
      BY <1>3, <2>1, <2>2
    <2> QED BY <2>3 DEF m
  <1>6. CASE t # "stop" /\ Len(m.buffer) # MaxChars
    <2>1. Len(m.buffer) <= MaxChars - 1
      BY <1>1, <1>6, StreamConstants
    <2>2. m \in Listeners
      BY <1>1, <2>1 DEF Listeners, ListenersUpTo
    <2> QED BY <1>2, <1>6, <2>2 DEF m
  <1> QED BY <1>4, <1>5, <1>6

LEMMA FlushKeeps ==
    ASSUME NEW l \in Listeners
    PROVE  FlushText(l) \in Listeners /\ FlushText(l).buffer = <<>>
  <1>1. l.buffer \in Seq(Tokens) /\ Len(l.buffer) \in Nat
    BY DEF Listeners, ListenersUpTo
  <1>2. CASE l.buffer = <<>>
    BY <1>2 DEF FlushText
  <1>3. CASE l.buffer # <<>>
    <2>1. Len(l.buffer) \in 1 .. Len(l.buffer) /\ FlushText(l) = CutAt(l, Len(l.buffer))
      BY <1>1, <1>3, EmptySeq DEF FlushText
    <2> PICK n, c : n = Len(l.buffer) /\ c = CutAt(l, n)
      OBVIOUS
    <2> PICK M : M = MaxChars - 1
      OBVIOUS
    <2>a. l \in ListenersUpTo(M) /\ M \in Nat /\ M <= MaxChars
      BY StreamConstants DEF Listeners
    <2>b. c \in ListenersUpTo(M - 1) /\ c.buffer = SubSeq(l.buffer, Len(l.buffer) + 1, Len(l.buffer))
      BY <2>1, <2>a, CutGives
    <2>2. c \in ListenersUpTo((MaxChars - 1) - 1) /\ c.buffer = SubSeq(l.buffer, Len(l.buffer) + 1, Len(l.buffer))
      BY <2>b
    <2>3. ListenersUpTo((MaxChars - 1) - 1) \subseteq Listeners
      BY StreamConstants DEF Listeners, ListenersUpTo
    <2>4. SubSeq(l.buffer, Len(l.buffer) + 1, Len(l.buffer)) = <<>>
      BY <1>1
    <2> QED BY <2>1, <2>2, <2>3, <2>4
  <1> QED BY <1>2, <1>3

LEMMA FeedKeeps ==
    ASSUME NEW l \in Listeners, NEW t \in Tokens
    PROVE  Feed(l, t) \in Listeners
  <1>1. CASE t \in VoiceTags
    <2>1. FlushText(l) \in Listeners
      BY FlushKeeps
    <2> PICK f : f = FlushText(l)
      OBVIOUS
    <2>2. [f EXCEPT !.style = t] \in Listeners
      BY <1>1, <2>1 DEF Listeners, ListenersUpTo
    <2> QED BY <1>1, <2>2 DEF Feed, SetStyle
  <1>2. CASE t = "face"
    BY <1>2, StreamConstants DEF Feed
  <1>3. CASE t \notin VoiceTags /\ t # "face"
    BY <1>3, FeedTextCases DEF Feed
  <1> QED BY <1>1, <1>2, <1>3
-----------------------------------------------------------------------------
\* What is shown and what is spoken, piece by piece.
AllStyles == SpeechStyles \cup {"close"}

Pieces(s) ==
    /\ Len(s) \in Nat /\ DOMAIN s = 1 .. Len(s)
    /\ \A i \in 1 .. Len(s) : s[i].text \in Seq(Tokens) /\ s[i].style \in AllStyles

AllOf(style, text) == [j \in DOMAIN text |-> style]

TextList(s) == [i \in DOMAIN s |-> s[i].text]
StyleList(s) == [i \in DOMAIN s |-> AllOf(s[i].style, s[i].text)]

LEMMA TextsAreFlat == ASSUME NEW s PROVE Texts(s) = FlattenSeq(TextList(s)) /\ StyleOf(s) = FlattenSeq(StyleList(s))
  BY DEF Texts, StyleOf, TextList, StyleList, AllOf

LEMMA AllOfType ==
    ASSUME NEW S, NEW style \in S, NEW text \in Seq(Tokens)
    PROVE  /\ AllOf(style, text) \in Seq(S) /\ Len(AllOf(style, text)) = Len(text)
           /\ \A j \in 1 .. Len(text) : AllOf(style, text)[j] = style
  <1>1. DOMAIN text = 1 .. Len(text) /\ Len(text) \in Nat
    OBVIOUS
  <1>2. AllOf(style, text) = [j \in 1 .. Len(text) |-> style]
    BY <1>1 DEF AllOf
  <1> PICK n \in Nat : n = Len(text)
    BY <1>1
  <1>3. [j \in 1 .. n |-> style] \in Seq(S) /\ Len([j \in 1 .. n |-> style]) = n
        /\ \A k \in 1 .. n : [j \in 1 .. n |-> style][k] = style
    OBVIOUS
  <1> QED BY <1>2, <1>3

LEMMA ListsOfPieces ==
    ASSUME NEW s, Pieces(s)
    PROVE  /\ Len(TextList(s)) = Len(s) /\ \A n \in 1 .. Len(s) : TextList(s)[n] = s[n].text
           /\ Len(StyleList(s)) = Len(s) /\ \A n \in 1 .. Len(s) : StyleList(s)[n] = AllOf(s[n].style, s[n].text)
           /\ IsList(Tokens, TextList(s)) /\ IsList(AllStyles, StyleList(s))
  <1> PICK N \in Nat : N = Len(s)
    BY DEF Pieces
  <1>1. DOMAIN s = 1 .. N /\ \A n \in 1 .. N : s[n].text \in Seq(Tokens) /\ s[n].style \in AllStyles
    BY DEF Pieces
  <1>2. TextList(s) = [i \in 1 .. N |-> s[i].text] /\ StyleList(s) = [i \in 1 .. N |-> AllOf(s[i].style, s[i].text)]
    BY <1>1 DEF TextList, StyleList
  <1>3. Len([i \in 1 .. N |-> s[i].text]) = N /\ Len([i \in 1 .. N |-> AllOf(s[i].style, s[i].text)]) = N
    OBVIOUS
  <1>4. Len(TextList(s)) = N /\ \A n \in 1 .. N : TextList(s)[n] = s[n].text
    BY <1>2, <1>3
  <1>5. Len(StyleList(s)) = N /\ \A n \in 1 .. N : StyleList(s)[n] = AllOf(s[n].style, s[n].text)
    BY <1>2, <1>3
  <1>6. \A n \in 1 .. N : AllOf(s[n].style, s[n].text) \in Seq(AllStyles)
    BY <1>1, AllOfType
  <1>7. IsList(Tokens, TextList(s))
    BY <1>1, <1>4 DEF IsList
  <1>8. IsList(AllStyles, StyleList(s))
    BY <1>5, <1>6 DEF IsList
  <1> QED BY <1>4, <1>5, <1>7, <1>8

LEMMA TextsType ==
    ASSUME NEW s, Pieces(s)
    PROVE  Texts(s) \in Seq(Tokens) /\ StyleOf(s) \in Seq(AllStyles)
  BY ListsOfPieces, FlattenType, TextsAreFlat

LEMMA TextsOfNone == Texts(<<>>) = <<>> /\ StyleOf(<<>>) = <<>> /\ Pieces(<<>>)
  <1>1. TextList(<<>>) = <<>> /\ StyleList(<<>>) = <<>>
    BY DEF TextList, StyleList
  <1>2. Pieces(<<>>)
    BY DEF Pieces
  <1> QED BY <1>1, <1>2, TextsAreFlat, FlattenEmpty

LEMMA FlattenMore ==
    ASSUME NEW T, NEW s, IsList(T, s), NEW t, IsList(T, t), Len(t) = Len(s) + 1,
           \A n \in 1 .. Len(s) : t[n] = s[n]
    PROVE  FlattenSeq(t) = FlattenSeq(s) \o t[Len(t)]
  <1>0. Len(t) \in 1 .. Len(t) /\ \A n \in 1 .. Len(t) : t[n] \in Seq(T)
    BY DEF IsList
  <1> PICK x \in Seq(T) : x = t[Len(t)]
    BY <1>0
  <1>1. t[Len(s) + 1] = x
    OBVIOUS
  <1> QED BY <1>1, FlattenAppend

\* One piece more.
LEMMA TextsAppend ==
    ASSUME NEW S, NEW s \in Seq(S), Pieces(s), NEW x \in S, x.text \in Seq(Tokens), x.style \in AllStyles
    PROVE  /\ Pieces(Append(s, x))
           /\ Texts(Append(s, x)) = Texts(s) \o x.text
           /\ StyleOf(Append(s, x)) = StyleOf(s) \o AllOf(x.style, x.text)
  <1> PICK t, N : t = Append(s, x) /\ N = Len(s)
    OBVIOUS
  <1>1. N \in Nat /\ DOMAIN s = 1 .. N /\ \A n \in 1 .. N : s[n].text \in Seq(Tokens) /\ s[n].style \in AllStyles
    BY DEF Pieces
  <1>2. t \in Seq(S) /\ Len(t) = N + 1 /\ t[N + 1] = x /\ \A n \in 1 .. N : t[n] = s[n]
    BY <1>1, AppendProperties
  <1>3. Len(t) = N + 1 /\ DOMAIN t = 1 .. N + 1 /\ t[N + 1] = x /\ \A n \in 1 .. N : t[n] = s[n]
    BY <1>1, <1>2
  <1>4. \A n \in 1 .. N + 1 : n \in 1 .. N \/ n = N + 1
    BY <1>1
  <1>5. Pieces(t)
    BY <1>1, <1>3, <1>4 DEF Pieces
  <1>6. /\ Len(TextList(s)) = N /\ \A n \in 1 .. N : TextList(s)[n] = s[n].text
        /\ Len(StyleList(s)) = N /\ \A n \in 1 .. N : StyleList(s)[n] = AllOf(s[n].style, s[n].text)
        /\ IsList(Tokens, TextList(s)) /\ IsList(AllStyles, StyleList(s))
    BY ListsOfPieces
  <1>7. /\ Len(TextList(t)) = N + 1 /\ \A n \in 1 .. N + 1 : TextList(t)[n] = t[n].text
        /\ Len(StyleList(t)) = N + 1 /\ \A n \in 1 .. N + 1 : StyleList(t)[n] = AllOf(t[n].style, t[n].text)
        /\ IsList(Tokens, TextList(t)) /\ IsList(AllStyles, StyleList(t))
    BY <1>3, <1>5, ListsOfPieces
  <1>8. N + 1 \in 1 .. N + 1 /\ \A n \in 1 .. N : n \in 1 .. N + 1
    BY <1>1
  <1> PICK a, b, c, d, y : /\ a = TextList(s) /\ b = TextList(t) /\ c = StyleList(s) /\ d = StyleList(t)
                           /\ y = AllOf(x.style, x.text)
    OBVIOUS
  <1>9. y \in Seq(AllStyles)
    BY AllOfType
  <1>10. FlattenSeq(b) = FlattenSeq(a) \o x.text
    <2>1. IsList(Tokens, a) /\ Len(b) = Len(a) + 1 /\ b[Len(b)] = x.text /\ IsList(Tokens, b)
          /\ \A n \in 1 .. Len(a) : b[n] = a[n]
      BY <1>3, <1>6, <1>7, <1>8
    <2>2. FlattenSeq(b) = FlattenSeq(a) \o b[Len(b)]
      BY <2>1, FlattenMore
    <2>3. b[Len(b)] = x.text
      BY <2>1
    <2> QED BY <2>2, <2>3, Zenon
  <1>11. FlattenSeq(d) = FlattenSeq(c) \o y
    <2>1. IsList(AllStyles, c) /\ Len(d) = Len(c) + 1 /\ d[Len(d)] = y /\ IsList(AllStyles, d)
          /\ \A n \in 1 .. Len(c) : d[n] = c[n]
      BY <1>3, <1>6, <1>7, <1>8, <1>9
    <2>2. FlattenSeq(d) = FlattenSeq(c) \o d[Len(d)]
      BY <2>1, FlattenMore
    <2>3. d[Len(d)] = y
      BY <2>1
    <2> QED BY <2>2, <2>3, Zenon
  <1> QED BY <1>5, <1>10, <1>11, TextsAreFlat

\* The first piece, and the others.
LEMMA TextsTail ==
    ASSUME NEW S, NEW s \in Seq(S), Pieces(s), s # <<>>
    PROVE  /\ Pieces(Tail(s)) /\ s[1].text \in Seq(Tokens) /\ s[1].style \in AllStyles /\ Head(s) = s[1]
           /\ Texts(s) = s[1].text \o Texts(Tail(s))
           /\ StyleOf(s) = AllOf(s[1].style, s[1].text) \o StyleOf(Tail(s))
  <1> PICK t, N : t = Tail(s) /\ N = Len(s)
    OBVIOUS
  <1>1. N \in Nat /\ DOMAIN s = 1 .. N /\ \A n \in 1 .. N : s[n].text \in Seq(Tokens) /\ s[n].style \in AllStyles
    BY DEF Pieces
  <1>2. N # 0 /\ Len(t) = N - 1 /\ DOMAIN t = 1 .. N - 1 /\ \A n \in 1 .. N - 1 : t[n] = s[n + 1]
    OBVIOUS
  <1>3. 1 \in 1 .. N /\ N - 1 \in Nat /\ \A n \in 1 .. N - 1 : n + 1 \in 1 .. N
    BY <1>1, <1>2
  <1>4. Pieces(t)
    BY <1>1, <1>2, <1>3 DEF Pieces
  <1>5. /\ Len(TextList(s)) = N /\ \A n \in 1 .. N : TextList(s)[n] = s[n].text
        /\ Len(StyleList(s)) = N /\ \A n \in 1 .. N : StyleList(s)[n] = AllOf(s[n].style, s[n].text)
        /\ IsList(Tokens, TextList(s)) /\ IsList(AllStyles, StyleList(s))
    BY ListsOfPieces
  <1>6. /\ Len(TextList(t)) = N - 1 /\ \A n \in 1 .. N - 1 : TextList(t)[n] = t[n].text
        /\ Len(StyleList(t)) = N - 1 /\ \A n \in 1 .. N - 1 : StyleList(t)[n] = AllOf(t[n].style, t[n].text)
    BY <1>2, <1>4, ListsOfPieces
  <1> PICK a, b, c, d : a = TextList(s) /\ b = TextList(t) /\ c = StyleList(s) /\ d = StyleList(t)
    OBVIOUS
  <1>7. FlattenSeq(a) = a[1] \o FlattenSeq(b)
    <2>1. IsList(Tokens, a) /\ Len(a) = Len(b) + 1 /\ Len(b) \in Nat /\ \A n \in 1 .. Len(b) : b[n] = a[n + 1]
      BY <1>1, <1>2, <1>3, <1>5, <1>6
    <2> QED BY <2>1, FlattenTail
  <1>8. FlattenSeq(c) = c[1] \o FlattenSeq(d)
    <2>1. IsList(AllStyles, c) /\ Len(c) = Len(d) + 1 /\ Len(d) \in Nat /\ \A n \in 1 .. Len(d) : d[n] = c[n + 1]
      BY <1>1, <1>2, <1>3, <1>5, <1>6
    <2> QED BY <2>1, FlattenTail
  <1>9. a[1] = s[1].text /\ c[1] = AllOf(s[1].style, s[1].text)
    BY <1>3, <1>5
  <1>10. Head(s) = s[1]
    OBVIOUS
  <1> QED BY <1>1, <1>3, <1>4, <1>7, <1>8, <1>9, <1>10, TextsAreFlat
-----------------------------------------------------------------------------
\* A text and its tags, token by token.
TagStyles == VoiceTags \cup {"none"}

CleanList(text) == [i \in DOMAIN text |-> IF text[i] \in Tags THEN <<>> ELSE <<text[i]>>]
TagList(text) == [i \in DOMAIN text |-> IF text[i] \in Tags THEN <<>> ELSE <<TagAt(text, i)>>]

LEMMA TextIsFlat ==
    ASSUME NEW text PROVE Clean(text) = FlattenSeq(CleanList(text)) /\ TagsOf(text) = FlattenSeq(TagList(text))
  BY DEF Clean, TagsOf, CleanList, TagList

\* The tags before a token.
VoiceTagsIn(text, i) == {j \in 1 .. i : text[j] \in VoiceTags}

LastOf(S) == CHOOSE j \in S : \A k \in S : k <= j

LEMMA LastOfGives ==
    ASSUME NEW N \in Nat, NEW S \in SUBSET (1 .. N)
    PROVE  /\ S # {} => LastOf(S) \in S
           /\ \A k \in S : (\A j \in S : j <= k) => LastOf(S) = k
  <1>1. ASSUME S # {} PROVE LastOf(S) \in S /\ \A j \in S : j <= LastOf(S)
    <2>1. \E j \in S : \A k \in S : k <= j
      BY <1>1, HasMax
    <2> QED BY <2>1 DEF LastOf
  <1>2. ASSUME NEW k \in S, \A j \in S : j <= k PROVE LastOf(S) = k
    <2>1. LastOf(S) \in S /\ LastOf(S) <= k /\ k <= LastOf(S)
      BY <1>1, <1>2
    <2> PICK m : m = LastOf(S)
      OBVIOUS
    <2>a. m \in S /\ m <= k /\ k <= m
      BY <2>1
    <2>b. \A j \in S : j \in Nat
      OBVIOUS
    <2>2. m \in Nat /\ k \in Nat /\ m <= k /\ k <= m
      BY <2>a, <2>b
    <2> QED BY <2>2
  <1> QED BY <1>1, <1>2

LEMMA TagAtIs ==
    ASSUME NEW text, NEW i
    PROVE  TagAt(text, i) = IF VoiceTagsIn(text, i) = {} THEN "none" ELSE text[LastOf(VoiceTagsIn(text, i))]
  BY DEF TagAt, VoiceTagsIn, LastOf

LEMMA TagAtGives ==
    ASSUME NEW text \in Seq(Tokens), NEW i \in 0 .. Len(text)
    PROVE  /\ VoiceTagsIn(text, i) = {} => TagAt(text, i) = "none"
           /\ \A k \in 1 .. i : text[k] \in VoiceTags /\ (\A j \in VoiceTagsIn(text, i) : j <= k) => TagAt(text, i) = text[k]
           /\ TagAt(text, i) \in TagStyles
  <1> PICK tags : tags = VoiceTagsIn(text, i)
    OBVIOUS
  <1>1. TagAt(text, i) = IF tags = {} THEN "none" ELSE text[LastOf(tags)]
    BY TagAtIs
  <1>2. tags \in SUBSET (1 .. i) /\ i \in Nat /\ \A k \in 1 .. i : k \in tags <=> text[k] \in VoiceTags
    BY DEF VoiceTagsIn
  <1>3. ASSUME NEW k \in 1 .. i, text[k] \in VoiceTags, \A j \in tags : j <= k
        PROVE  TagAt(text, i) = text[k]
    <2>1. k \in tags
      BY <1>2, <1>3
    <2>2. LastOf(tags) = k
      BY <1>2, <1>3, <2>1, LastOfGives
    <2> QED BY <1>1, <2>1, <2>2
  <1>4. TagAt(text, i) \in TagStyles
    <2>1. CASE tags = {}
      BY <1>1, <2>1 DEF TagStyles
    <2>2. CASE tags # {}
      <3>1. LastOf(tags) \in tags
        BY <1>2, <2>2, LastOfGives
      <3>2. text[LastOf(tags)] \in VoiceTags
        BY <1>2, <3>1
      <3> QED BY <1>1, <2>2, <3>2 DEF TagStyles
    <2> QED BY <2>1, <2>2
  <1> QED BY <1>1, <1>3, <1>4

\* The tag of a token stays when the text goes on.
LEMMA TagAtStays ==
    ASSUME NEW text, NEW more, NEW i \in Nat, \A j \in 1 .. i : more[j] = text[j]
    PROVE  TagAt(more, i) = TagAt(text, i)
  <1>1. VoiceTagsIn(more, i) = VoiceTagsIn(text, i)
    BY DEF VoiceTagsIn
  <1> PICK tags : tags = VoiceTagsIn(text, i)
    OBVIOUS
  <1>2. TagAt(text, i) = IF tags = {} THEN "none" ELSE text[LastOf(tags)]
    BY TagAtIs
  <1>3. TagAt(more, i) = IF tags = {} THEN "none" ELSE more[LastOf(tags)]
    BY <1>1, TagAtIs
  <1>4. CASE tags = {}
    BY <1>2, <1>3, <1>4
  <1>5. CASE tags # {}
    <2>1. tags \in SUBSET (1 .. i)
      BY DEF VoiceTagsIn
    <2>2. LastOf(tags) \in tags
      BY <1>5, <2>1, LastOfGives
    <2> QED BY <1>2, <1>3, <1>5, <2>1, <2>2
  <1> QED BY <1>4, <1>5

LEMMA TagAtNext ==
    ASSUME NEW text \in Seq(Tokens), NEW t \in Tokens, NEW n, n = Len(text)
    PROVE  /\ t \in VoiceTags => TagAt(Append(text, t), n + 1) = t
           /\ t \notin VoiceTags => TagAt(Append(text, t), n + 1) = TagAt(text, n)
  <1> PICK more : more = Append(text, t)
    OBVIOUS
  <1>1. n \in Nat /\ more \in Seq(Tokens) /\ Len(more) = n + 1 /\ more[n + 1] = t /\ \A j \in 1 .. n : more[j] = text[j]
    BY AppendProperties
  <1>2. ASSUME t \in VoiceTags PROVE TagAt(more, n + 1) = t
    <2>1. n + 1 \in 0 .. Len(more) /\ n + 1 \in 1 .. n + 1 /\ \A j \in VoiceTagsIn(more, n + 1) : j <= n + 1
      BY <1>1 DEF VoiceTagsIn
    <2> QED BY <1>1, <1>2, <2>1, TagAtGives
  <1>3. ASSUME t \notin VoiceTags PROVE TagAt(more, n + 1) = TagAt(text, n)
    <2>1. VoiceTagsIn(more, n + 1) = VoiceTagsIn(more, n)
      <3>1. \A j \in 1 .. n + 1 : j \in 1 .. n \/ j = n + 1
        BY <1>1
      <3>2. \A j \in 1 .. n : j \in 1 .. n + 1
        BY <1>1
      <3> QED BY <1>1, <1>3, <3>1, <3>2 DEF VoiceTagsIn
    <2>2. TagAt(more, n + 1) = TagAt(more, n)
      BY <2>1, TagAtIs
    <2>3. TagAt(more, n) = TagAt(text, n)
      BY <1>1, TagAtStays
    <2> QED BY <2>2, <2>3
  <1> QED BY <1>2, <1>3

LEMMA ListsOfText ==
    ASSUME NEW text \in Seq(Tokens)
    PROVE  /\ IsList(Tokens, CleanList(text)) /\ IsList(TagStyles, TagList(text))
           /\ Len(CleanList(text)) = Len(text) /\ Len(TagList(text)) = Len(text)
           /\ \A n \in 1 .. Len(text) : CleanList(text)[n] = IF text[n] \in Tags THEN <<>> ELSE <<text[n]>>
           /\ \A n \in 1 .. Len(text) : TagList(text)[n] = IF text[n] \in Tags THEN <<>> ELSE <<TagAt(text, n)>>
  <1> PICK N \in Nat : N = Len(text)
    OBVIOUS
  <1>1. DOMAIN text = 1 .. N /\ \A n \in 1 .. N : text[n] \in Tokens
    OBVIOUS
  <1>2. /\ CleanList(text) = [i \in 1 .. N |-> IF text[i] \in Tags THEN <<>> ELSE <<text[i]>>]
        /\ TagList(text) = [i \in 1 .. N |-> IF text[i] \in Tags THEN <<>> ELSE <<TagAt(text, i)>>]
    BY <1>1 DEF CleanList, TagList
  <1>3. Len(CleanList(text)) = N /\ Len(TagList(text)) = N
    BY <1>2
  <1>4. /\ \A n \in 1 .. N : CleanList(text)[n] = IF text[n] \in Tags THEN <<>> ELSE <<text[n]>>
        /\ \A n \in 1 .. N : TagList(text)[n] = IF text[n] \in Tags THEN <<>> ELSE <<TagAt(text, n)>>
    BY <1>2
  <1>5. \A n \in 1 .. N : n \in 0 .. Len(text)
    OBVIOUS
  <1>6. \A n \in 1 .. N : TagAt(text, n) \in TagStyles
    BY <1>5, TagAtGives
  <1>7. \A n \in 1 .. N : (IF text[n] \in Tags THEN <<>> ELSE <<text[n]>>) \in Seq(Tokens)
    BY <1>1
  <1>8. \A n \in 1 .. N : (IF text[n] \in Tags THEN <<>> ELSE <<TagAt(text, n)>>) \in Seq(TagStyles)
    BY <1>6
  <1>9. IsList(Tokens, CleanList(text))
    BY <1>3, <1>4, <1>7 DEF IsList
  <1>10. IsList(TagStyles, TagList(text))
    BY <1>3, <1>4, <1>8 DEF IsList
  <1> QED BY <1>3, <1>4, <1>9, <1>10

LEMMA CleanType ==
    ASSUME NEW text \in Seq(Tokens)
    PROVE  Clean(text) \in Seq(Tokens) /\ TagsOf(text) \in Seq(TagStyles)
  BY ListsOfText, FlattenType, TextIsFlat

LEMMA CleanOfNone == Clean(<<>>) = <<>> /\ TagsOf(<<>>) = <<>> /\ TagAt(<<>>, 0) = "none"
  <1>1. CleanList(<<>>) = <<>> /\ TagList(<<>>) = <<>>
    BY DEF CleanList, TagList
  <1>2. TagAt(<<>>, 0) = "none"
    <2>1. VoiceTagsIn(<<>>, 0) = {}
      BY DEF VoiceTagsIn
    <2> QED BY <2>1 DEF TagAt, VoiceTagsIn
  <1> QED BY <1>1, <1>2, TextIsFlat, FlattenEmpty

\* A token more: a tag is not shown and sets the style of what follows.
LEMMA CleanAppend ==
    ASSUME NEW text \in Seq(Tokens), NEW t \in Tokens, NEW n, n = Len(text)
    PROVE  /\ Append(text, t) \in Seq(Tokens) /\ Len(Append(text, t)) = n + 1
           /\ Clean(Append(text, t)) = Clean(text) \o (IF t \in Tags THEN <<>> ELSE <<t>>)
           /\ TagsOf(Append(text, t)) = TagsOf(text) \o (IF t \in Tags THEN <<>> ELSE <<TagAt(text, n)>>)
  <1> PICK more : more = Append(text, t)
    OBVIOUS
  <1>1. n \in Nat /\ more \in Seq(Tokens) /\ Len(more) = n + 1 /\ more[n + 1] = t /\ \A j \in 1 .. n : more[j] = text[j]
    BY AppendProperties
  <1>2. n + 1 \in 1 .. n + 1 /\ \A j \in 1 .. n : j \in 1 .. n + 1
    BY <1>1
  <1> PICK a, b, c, d : a = CleanList(text) /\ b = CleanList(more) /\ c = TagList(text) /\ d = TagList(more)
    OBVIOUS
  <1>3. /\ IsList(Tokens, a) /\ IsList(TagStyles, c) /\ Len(a) = n /\ Len(c) = n
        /\ \A i \in 1 .. n : a[i] = IF text[i] \in Tags THEN <<>> ELSE <<text[i]>>
        /\ \A i \in 1 .. n : c[i] = IF text[i] \in Tags THEN <<>> ELSE <<TagAt(text, i)>>
    BY ListsOfText
  <1>4. /\ IsList(Tokens, b) /\ IsList(TagStyles, d) /\ Len(b) = n + 1 /\ Len(d) = n + 1
        /\ \A i \in 1 .. n + 1 : b[i] = IF more[i] \in Tags THEN <<>> ELSE <<more[i]>>
        /\ \A i \in 1 .. n + 1 : d[i] = IF more[i] \in Tags THEN <<>> ELSE <<TagAt(more, i)>>
    BY <1>1, ListsOfText
  <1>5. \A i \in 1 .. n : TagAt(more, i) = TagAt(text, i)
    <2> SUFFICES ASSUME NEW i \in 1 .. n PROVE TagAt(more, i) = TagAt(text, i)
      OBVIOUS
    <2>1. i \in Nat /\ \A j \in 1 .. i : j \in 1 .. n
      BY <1>1
    <2>2. \A j \in 1 .. i : more[j] = text[j]
      BY <1>1, <2>1
    <2> QED BY <2>1, <2>2, TagAtStays
  <1>6. \A i \in 1 .. n : b[i] = a[i] /\ d[i] = c[i]
    BY <1>1, <1>2, <1>3, <1>4, <1>5
  <1>7. FlattenSeq(b) = FlattenSeq(a) \o b[Len(b)]
    <2>1. IsList(Tokens, a) /\ IsList(Tokens, b) /\ Len(b) = Len(a) + 1 /\ \A i \in 1 .. Len(a) : b[i] = a[i]
      BY <1>3, <1>4, <1>6
    <2> QED BY <2>1, FlattenMore
  <1>8. FlattenSeq(d) = FlattenSeq(c) \o d[Len(d)]
    <2>1. IsList(TagStyles, c) /\ IsList(TagStyles, d) /\ Len(d) = Len(c) + 1 /\ \A i \in 1 .. Len(c) : d[i] = c[i]
      BY <1>3, <1>4, <1>6
    <2> QED BY <2>1, FlattenMore
  <1>9. b[Len(b)] = (IF t \in Tags THEN <<>> ELSE <<t>>)
    BY <1>1, <1>2, <1>4
  <1>10. d[Len(d)] = (IF t \in Tags THEN <<>> ELSE <<TagAt(text, n)>>)
    <2>1. d[Len(d)] = (IF t \in Tags THEN <<>> ELSE <<TagAt(more, n + 1)>>)
      BY <1>1, <1>2, <1>4
    <2>2. CASE t \in Tags
      BY <2>1, <2>2
    <2>3. CASE t \notin Tags
      <3>1. t \notin VoiceTags
        BY <2>3, StreamConstants
      <3>2. TagAt(more, n + 1) = TagAt(text, n)
        BY <3>1, TagAtNext
      <3> QED BY <2>1, <2>3, <3>2
    <2> QED BY <2>2, <2>3
  <1>11. Clean(more) = Clean(text) \o (IF t \in Tags THEN <<>> ELSE <<t>>)
    <2>1. Clean(more) = FlattenSeq(b) /\ Clean(text) = FlattenSeq(a)
      BY TextIsFlat
    <2> QED BY <1>7, <1>9, <2>1, Zenon
  <1>12. TagsOf(more) = TagsOf(text) \o (IF t \in Tags THEN <<>> ELSE <<TagAt(text, n)>>)
    <2>1. TagsOf(more) = FlattenSeq(d) /\ TagsOf(text) = FlattenSeq(c)
      BY TextIsFlat
    <2> QED BY <1>8, <1>10, <2>1, Zenon
  <1> QED BY <1>1, <1>11, <1>12
-----------------------------------------------------------------------------
\* The styles t are the styles s, with the schedule where s has none.
Dresses(s, t) ==
    Len(s) = Len(t) /\ \A i \in 1 .. Len(s) : t[i] = s[i] \/ (s[i] = "none" /\ t[i] \in ToSet(Schedule))

LEMMA DressesItself == ASSUME NEW S, NEW s \in Seq(S) PROVE Dresses(s, s)
  BY DEF Dresses

LEMMA DressesOn == ASSUME NEW s, NEW t, NEW u, Dresses(s, t), Dresses(t, u) PROVE Dresses(s, u)
  BY DEF Dresses

LEMMA DressesBoth ==
    ASSUME NEW S, NEW a \in Seq(S), NEW b \in Seq(S), NEW c \in Seq(S), NEW d \in Seq(S),
           Dresses(a, b), Dresses(c, d)
    PROVE  Dresses(a \o c, b \o d)
  <1> PICK m \in Nat, n \in Nat : m = Len(a) /\ n = Len(c)
    OBVIOUS
  <1>1. /\ m = Len(b) /\ \A i \in 1 .. m : b[i] = a[i] \/ (a[i] = "none" /\ b[i] \in ToSet(Schedule))
        /\ n = Len(d) /\ \A i \in 1 .. n : d[i] = c[i] \/ (c[i] = "none" /\ d[i] \in ToSet(Schedule))
    BY DEF Dresses
  <1> PICK x, y : x = a \o c /\ y = b \o d
    OBVIOUS
  <1>a. Len(a \o c) = Len(a) + Len(c) /\ Len(b \o d) = Len(b) + Len(d)
    OBVIOUS
  <1>2. Len(x) = m + n /\ Len(y) = m + n
    BY <1>1, <1>a
  <1>3. \A i \in 1 .. m + n : x[i] = IF i <= m THEN a[i] ELSE c[i - m]
    OBVIOUS
  <1>4. \A i \in 1 .. m + n : y[i] = IF i <= m THEN b[i] ELSE d[i - m]
    BY <1>1
  <1>5. ASSUME NEW i \in 1 .. m + n PROVE y[i] = x[i] \/ (x[i] = "none" /\ y[i] \in ToSet(Schedule))
    <2>1. CASE i <= m
      <3>1. i \in 1 .. m
        BY <2>1
      <3> QED BY <1>1, <1>3, <1>4, <2>1, <3>1
    <2>2. CASE ~(i <= m)
      <3>1. i - m \in 1 .. n
        BY <2>2
      <3> QED BY <1>1, <1>3, <1>4, <2>2, <3>1
    <2> QED BY <2>1, <2>2
  <1> QED BY <1>2, <1>5 DEF Dresses

LEMMA AllOfJoined ==
    ASSUME NEW S, NEW style \in S, NEW a \in Seq(Tokens), NEW b \in Seq(Tokens)
    PROVE  AllOf(style, a \o b) = AllOf(style, a) \o AllOf(style, b)
  <1> PICK x, y, z, w : x = a \o b /\ y = AllOf(style, a) /\ z = AllOf(style, b) /\ w = AllOf(style, a \o b)
    OBVIOUS
  <1>1. x \in Seq(Tokens) /\ Len(x) = Len(a) + Len(b) /\ Len(a) \in Nat /\ Len(b) \in Nat
    OBVIOUS
  <1>2. /\ y \in Seq(S) /\ Len(y) = Len(a) /\ \A j \in 1 .. Len(a) : y[j] = style
        /\ z \in Seq(S) /\ Len(z) = Len(b) /\ \A j \in 1 .. Len(b) : z[j] = style
        /\ w \in Seq(S) /\ Len(w) = Len(a) + Len(b) /\ \A j \in 1 .. Len(a) + Len(b) : w[j] = style
    BY <1>1, AllOfType
  <1>3. y \o z \in Seq(S) /\ Len(y \o z) = Len(a) + Len(b)
    <2>0. y \in Seq(S) /\ z \in Seq(S)
      BY <1>2
    <2>1. y \o z \in Seq(S) /\ Len(y \o z) = Len(y) + Len(z)
      BY <2>0
    <2> QED BY <1>2, <2>1
  <1> PICK v : v = y \o z
    OBVIOUS
  <1> PICK m \in Nat, n \in Nat : m = Len(a) /\ n = Len(b)
    BY <1>1
  <1>b. v \in Seq(S) /\ Len(v) = m + n /\ \A j \in 1 .. m + n : v[j] = IF j <= m THEN y[j] ELSE z[j - m]
    BY <1>2, <1>3, ConcatProperties
  <1>4. \A j \in 1 .. Len(v) : v[j] = style
    <2> SUFFICES ASSUME NEW j \in 1 .. m + n PROVE v[j] = style
      BY <1>b
    <2>1. CASE j <= m
      <3>1. j \in 1 .. m
        BY <2>1
      <3> QED BY <1>2, <1>b, <2>1, <3>1
    <2>2. CASE ~(j <= m)
      <3>1. j - m \in 1 .. n
        BY <2>2
      <3> QED BY <1>2, <1>b, <2>2, <3>1
    <2> QED BY <2>1, <2>2
  <1> QED BY <1>1, <1>2, <1>3, <1>4, SeqEqual

\* What the segmenter has been given and has not been lost: the segments, and
\* the buffer with the style of the last tag.
TextLine(l) == Texts(l.input) \o l.buffer
StyleLine(l) == StyleOf(l.input) \o AllOf(l.style, l.buffer)

LEMMA InputsArePieces ==
    ASSUME NEW s \in Seq(Inputs)
    PROVE  Pieces(s)
  <1>1. CloseMark.text \in Seq(Tokens) /\ CloseMark.style \in AllStyles
    BY DEF CloseMark, AllStyles
  <1>2. \A x \in Segments : x.text \in Seq(Tokens) /\ x.style \in AllStyles
    BY DEF Segments, SegmentTexts, AllStyles
  <1>3. \A x \in Inputs : x.text \in Seq(Tokens) /\ x.style \in AllStyles
    BY <1>1, <1>2 DEF Inputs
  <1>4. DOMAIN s = 1 .. Len(s) /\ Len(s) \in Nat /\ \A i \in 1 .. Len(s) : s[i] \in Inputs
    OBVIOUS
  <1> QED BY <1>3, <1>4 DEF Pieces

LEMMA LineTypes ==
    ASSUME NEW N, NEW l \in ListenersUpTo(N)
    PROVE  /\ l.input \in Seq(Inputs) /\ Pieces(l.input) /\ l.buffer \in Seq(Tokens) /\ l.style \in AllStyles
           /\ Texts(l.input) \in Seq(Tokens) /\ StyleOf(l.input) \in Seq(AllStyles)
           /\ AllOf(l.style, l.buffer) \in Seq(AllStyles)
           /\ TextLine(l) \in Seq(Tokens) /\ StyleLine(l) \in Seq(AllStyles)
  <1>1. l.input \in Seq(Inputs) /\ l.buffer \in Seq(Tokens) /\ l.style \in AllStyles
    BY DEF ListenersUpTo, AllStyles, SpeechStyles
  <1>2. Pieces(l.input)
    BY <1>1, InputsArePieces
  <1>3. Texts(l.input) \in Seq(Tokens) /\ StyleOf(l.input) \in Seq(AllStyles)
    BY <1>2, TextsType
  <1>4. AllOf(l.style, l.buffer) \in Seq(AllStyles)
    BY <1>1, AllOfType
  <1> QED BY <1>1, <1>2, <1>3, <1>4, ConcatProperties DEF TextLine, StyleLine

\* A cut loses nothing, and gives a style to what has none.
LEMMA CutKeepsLine ==
    ASSUME NEW N \in Nat, N <= MaxChars, NEW l \in ListenersUpTo(N), NEW n \in 1 .. Len(l.buffer),
           l.styles = Schedule
    PROVE  TextLine(CutAt(l, n)) = TextLine(l) /\ Dresses(StyleLine(l), StyleLine(CutAt(l, n)))
  <1> PICK c, s : c = CutAt(l, n) /\ s = SegmentOf(l, n)
    OBVIOUS
  <1>1. /\ c \in ListenersUpTo(N - 1) /\ s \in Segments /\ s.style = NextStyle(l)
        /\ SameLine(l, c) /\ c.input = Append(l.input, s) /\ l.buffer = s.text \o c.buffer
    BY CutGives
  <1>2. /\ Pieces(l.input) /\ l.input \in Seq(Inputs) /\ l.style \in AllStyles
        /\ Texts(l.input) \in Seq(Tokens) /\ StyleOf(l.input) \in Seq(AllStyles) /\ l.buffer \in Seq(Tokens)
    BY LineTypes
  <1>3. c.buffer \in Seq(Tokens) /\ c.style = l.style
    BY <1>1, LineTypes DEF SameLine
  <1>4. s \in Inputs /\ s.text \in Seq(Tokens) /\ s.style \in AllStyles
    BY <1>1 DEF Inputs, Segments, SegmentTexts, AllStyles
  <1>5. /\ Texts(c.input) = Texts(l.input) \o s.text
        /\ StyleOf(c.input) = StyleOf(l.input) \o AllOf(s.style, s.text)
    BY <1>1, <1>2, <1>4, TextsAppend
  <1>6. TextLine(c) = TextLine(l)
    <2>1. TextLine(c) = (Texts(l.input) \o s.text) \o c.buffer
      BY <1>5, Zenon DEF TextLine
    <2>2. TextLine(l) = Texts(l.input) \o (s.text \o c.buffer)
      BY <1>1, Zenon DEF TextLine
    <2>3. (Texts(l.input) \o s.text) \o c.buffer = Texts(l.input) \o (s.text \o c.buffer)
      <3> PICK u \in Seq(Tokens), v \in Seq(Tokens), w \in Seq(Tokens) :
            u = Texts(l.input) /\ v = s.text /\ w = c.buffer
        BY <1>2, <1>3, <1>4
      <3>1. Joined(Joined(u, v), w) = Joined(u, Joined(v, w))
        BY JoinedThree, SMT
      <3> QED BY <3>1, Zenon DEF Joined
    <2> QED BY <2>1, <2>2, <2>3
  <1>7. Dresses(StyleLine(l), StyleLine(c))
    <2> PICK p, a, b, r : /\ p = StyleOf(l.input) /\ a = AllOf(l.style, s.text)
                          /\ b = AllOf(s.style, s.text) /\ r = AllOf(l.style, c.buffer)
      OBVIOUS
    <2>1. StyleLine(c) = (p \o b) \o r
      BY <1>3, <1>5, Zenon DEF StyleLine
    <2>2. StyleLine(l) = p \o (a \o r)
      <3>1. AllOf(l.style, l.buffer) = a \o r
        <4> PICK u \in Seq(Tokens), w \in Seq(Tokens) : u = s.text /\ w = c.buffer
          BY <1>3, <1>4
        <4>1. AllOf(l.style, u \o w) = AllOf(l.style, u) \o AllOf(l.style, w)
          BY <1>2, AllOfJoined
        <4> QED BY <1>1, <4>1, Zenon
      <3> QED BY <3>1, Zenon DEF StyleLine
    <2>3. p \in Seq(AllStyles) /\ a \in Seq(AllStyles) /\ b \in Seq(AllStyles) /\ r \in Seq(AllStyles)
      BY <1>2, <1>3, <1>4, AllOfType
    <2>4. p \o (a \o r) = (p \o a) \o r
      BY <2>3, ConcatAssociative
    <2>5. Dresses(a, b)
      <3>1. /\ Len(a) = Len(s.text) /\ \A j \in 1 .. Len(s.text) : a[j] = l.style
            /\ Len(b) = Len(s.text) /\ \A j \in 1 .. Len(s.text) : b[j] = s.style
        BY <1>2, <1>4, AllOfType
      <3>2. l.style # "none" => s.style = l.style
        BY <1>1, NextStyleType
      <3>3. l.style = "none" => s.style \in ToSet(Schedule)
        <4>1. l.styles # <<>>
          BY StreamConstants
        <4> QED BY <1>1, <4>1, NextStyleType
      <3> QED BY <3>1, <3>2, <3>3 DEF Dresses
    <2>6. Dresses(p, p) /\ Dresses(r, r)
      BY <2>3, DressesItself
    <2>7. Dresses(p \o a, p \o b) /\ p \o a \in Seq(AllStyles) /\ p \o b \in Seq(AllStyles)
      BY <2>3, <2>5, <2>6, DressesBoth
    <2>8. Dresses((p \o a) \o r, (p \o b) \o r)
      BY <2>3, <2>6, <2>7, DressesBoth
    <2> QED BY <2>1, <2>2, <2>4, <2>8
  <1> QED BY <1>6, <1>7

LEMMA FlushKeepsLine ==
    ASSUME NEW l \in Listeners, l.styles = Schedule, NEW f, f = FlushText(l)
    PROVE  /\ f \in Listeners /\ f.buffer = <<>> /\ SameLine(l, f)
           /\ TextLine(f) = TextLine(l) /\ Dresses(StyleLine(l), StyleLine(f))
  <1>1. f \in Listeners /\ f.buffer = <<>>
    BY FlushKeeps
  <1> PICK N : N = MaxChars - 1
    OBVIOUS
  <1>2. l \in ListenersUpTo(N) /\ N \in Nat /\ N <= MaxChars
    BY StreamConstants DEF Listeners
  <1>3. CASE l.buffer = <<>>
    <2>1. f = l
      BY <1>3 DEF FlushText
    <2>2. StyleLine(l) \in Seq(AllStyles)
      BY <1>2, LineTypes
    <2> QED BY <1>1, <2>1, <2>2, DressesItself DEF SameLine
  <1>4. CASE l.buffer # <<>>
    <2> PICK n : n = Len(l.buffer)
      OBVIOUS
    <2>1. n \in 1 .. Len(l.buffer)
      <3>1. l.buffer \in Seq(Tokens)
        BY <1>2, LineTypes
      <3> QED BY <1>4, <3>1, EmptySeq
    <2>2. f = CutAt(l, n)
      BY <1>4 DEF FlushText
    <2>3. SameLine(l, CutAt(l, n))
      BY <1>2, <2>1, CutGives
    <2>4. TextLine(CutAt(l, n)) = TextLine(l) /\ Dresses(StyleLine(l), StyleLine(CutAt(l, n)))
      BY <1>2, <2>1, CutKeepsLine
    <2> QED BY <1>1, <2>2, <2>3, <2>4
  <1> QED BY <1>3, <1>4
-----------------------------------------------------------------------------
VoiceStyles == VoiceTags \cup ToSet(Schedule)

\* The input is not closed, and each segment has a style of its own.
MarkFree(l) ==
    \A i \in 1 .. Len(l.input) :
        l.input[i] # CloseMark /\ (l.styles = Schedule => l.input[i].style \in VoiceStyles)

LEMMA CutMarkFree ==
    ASSUME NEW N \in Nat, N <= MaxChars, NEW l \in ListenersUpTo(N), NEW n \in 1 .. Len(l.buffer), MarkFree(l)
    PROVE  MarkFree(CutAt(l, n))
  <1> PICK s, c : s = SegmentOf(l, n) /\ c = CutAt(l, n)
    OBVIOUS
  <1>1. s \in Segments /\ c.input = Append(l.input, s)
    BY CutGives
  <1>2. s # CloseMark /\ c.styles = l.styles /\ (l.styles = Schedule => s.style \in VoiceStyles)
    <2>1. s # CloseMark
      BY <1>1 DEF CloseMark, Segments, SegmentTexts
    <2>2. s.style = NextStyle(l) /\ c.styles = l.styles
      BY CutGives DEF SameLine
    <2>3. l.style \in VoiceTags \cup {"none"} /\ Schedule # <<>>
      BY StreamAssumption DEF ListenersUpTo
    <2> QED BY <2>1, <2>2, <2>3, NextStyleType DEF VoiceStyles
  <1>3. l.input \in Seq(Inputs) /\ s \in Inputs
    BY <1>1, LineTypes DEF Inputs
  <1> PICK a, b : a = l.input /\ b = c.input
    OBVIOUS
  <1>4. /\ a \in Seq(Inputs) /\ b = Append(a, s) /\ Len(b) = Len(a) + 1 /\ b[Len(a) + 1] = s
        /\ \A i \in 1 .. Len(a) : b[i] = a[i]
    BY <1>1, <1>3, AppendProperties
  <1>5. \A i \in 1 .. Len(a) + 1 : i \in 1 .. Len(a) \/ i = Len(a) + 1
    BY <1>4
  <1>6. \A i \in 1 .. Len(b) : b[i] # CloseMark /\ (c.styles = Schedule => b[i].style \in VoiceStyles)
    BY <1>2, <1>4, <1>5 DEF MarkFree
  <1> QED BY <1>6 DEF MarkFree

LEMMA FlushMarkFree ==
    ASSUME NEW l \in Listeners
    PROVE  (MarkFree(l) => MarkFree(FlushText(l))) /\ (l.wanted => FlushText(l).wanted) /\ SameLine(l, FlushText(l))
  <1> PICK N, n : N = MaxChars - 1 /\ n = Len(l.buffer)
    OBVIOUS
  <1>1. l \in ListenersUpTo(N) /\ N \in Nat /\ N <= MaxChars
    BY StreamConstants DEF Listeners
  <1>2. CASE l.buffer = <<>>
    BY <1>2 DEF FlushText, SameLine
  <1>3. CASE l.buffer # <<>>
    <2>1. n \in 1 .. Len(l.buffer)
      <3>1. l.buffer \in Seq(Tokens)
        BY <1>1, LineTypes
      <3> QED BY <1>3, <3>1, EmptySeq
    <2>2. FlushText(l) = CutAt(l, n)
      BY <1>3 DEF FlushText
    <2>3. CutAt(l, n).wanted /\ SameLine(l, CutAt(l, n))
      BY <1>1, <2>1, CutGives
    <2>4. MarkFree(l) => MarkFree(CutAt(l, n))
      BY <1>1, <2>1, CutMarkFree
    <2> QED BY <2>2, <2>3, <2>4
  <1> QED BY <1>2, <1>3

\* The segmenter has been given the text x.
Speaks(l, x) ==
    /\ l \in Listeners /\ l.styles = Schedule
    /\ TextLine(l) = Clean(x) /\ Dresses(TagsOf(x), StyleLine(l))
    /\ l.style = TagAt(x, Len(x))
    /\ MarkFree(l)
    /\ l.wanted => Clean(x) # <<>>

\* What speech leaves alone.
SameTalk(l, c) == c.held = l.held /\ c.styles = l.styles /\ c.closed = l.closed /\ c.out = l.out

LEMMA LineOfListener ==
    ASSUME NEW l \in Listeners
    PROVE  /\ l.input \in Seq(Inputs) /\ Pieces(l.input) /\ l.buffer \in Seq(Tokens) /\ l.style \in AllStyles
           /\ Texts(l.input) \in Seq(Tokens) /\ StyleOf(l.input) \in Seq(AllStyles)
           /\ AllOf(l.style, l.buffer) \in Seq(AllStyles)
           /\ TextLine(l) \in Seq(Tokens) /\ StyleLine(l) \in Seq(AllStyles)
  <1>1. l \in ListenersUpTo(MaxChars - 1)
    BY DEF Listeners
  <1> QED BY <1>1, LineTypes

LEMMA JoinedIsMore ==
    ASSUME NEW T, NEW a \in Seq(T), NEW b \in Seq(T), b # <<>> PROVE a \o b # <<>>
  <1>1. Len(a \o b) = Len(a) + Len(b) /\ Len(a) \in Nat /\ Len(b) \in Nat /\ Len(b) # 0
    BY EmptySeq
  <1>2. Len(<<>>) = 0
    OBVIOUS
  <1> QED BY <1>1, <1>2

\* There is a voice task only when there is a text to speak.
LEMMA FlushIsWanted ==
    ASSUME NEW l \in Listeners, l.wanted => TextLine(l) # <<>>, FlushText(l).wanted
    PROVE  TextLine(l) # <<>>
  <1>1. CASE l.buffer = <<>>
    BY <1>1 DEF FlushText
  <1>2. CASE l.buffer # <<>>
    <2> PICK u \in Seq(Tokens), v \in Seq(Tokens) : u = Texts(l.input) /\ v = l.buffer
      BY LineOfListener
    <2>1. u \o v # <<>>
      BY <1>2, JoinedIsMore
    <2> QED BY <2>1 DEF TextLine
  <1> QED BY <1>1, <1>2

\* A tag changes the style of what follows.
LEMMA StyleSpeaks ==
    ASSUME NEW l, NEW x \in Seq(Tokens), Speaks(l, x), NEW t \in VoiceTags
    PROVE  Speaks(SetStyle(l, t), Append(x, t)) /\ SameTalk(l, SetStyle(l, t))
  <1> PICK y : y = Append(x, t)
    OBVIOUS
  <1>1. t \in Tokens /\ t \in Tags
    BY StreamConstants
  <1>2. y \in Seq(Tokens) /\ Len(y) = Len(x) + 1 /\ Clean(y) = Clean(x) \o <<>> /\ TagsOf(y) = TagsOf(x) \o <<>>
    <2>1. /\ Append(x, t) \in Seq(Tokens) /\ Len(Append(x, t)) = Len(x) + 1
          /\ Clean(Append(x, t)) = Clean(x) \o (IF t \in Tags THEN <<>> ELSE <<t>>)
          /\ TagsOf(Append(x, t)) = TagsOf(x) \o (IF t \in Tags THEN <<>> ELSE <<TagAt(x, Len(x))>>)
      BY <1>1, CleanAppend
    <2> QED BY <1>1, <2>1
  <1>3. Clean(y) = Clean(x) /\ TagsOf(y) = TagsOf(x)
    BY <1>2, CleanType, ConcatEmptySeq
  <1>4. TagAt(y, Len(y)) = t
    BY <1>1, <1>2, TagAtNext
  <1>5. /\ l \in Listeners /\ l.styles = Schedule
        /\ TextLine(l) = Clean(x) /\ Dresses(TagsOf(x), StyleLine(l))
    BY DEF Speaks
  <1>6. CASE t = l.style
    <2>1. SetStyle(l, t) = l
      BY <1>6 DEF SetStyle
    <2>2. Speaks(l, y)
      BY <1>3, <1>4, <1>6 DEF Speaks
    <2> QED BY <2>1, <2>2 DEF SameTalk
  <1>7. CASE t # l.style
    <2> PICK f : f = FlushText(l)
      OBVIOUS
    <2> PICK c : c = [f EXCEPT !.style = t]
      OBVIOUS
    <2>1. SetStyle(l, t) = c
      BY <1>7 DEF SetStyle
    <2>2. /\ f \in Listeners /\ f.buffer = <<>> /\ SameLine(l, f)
          /\ TextLine(f) = TextLine(l) /\ Dresses(StyleLine(l), StyleLine(f))
      BY <1>5, FlushKeepsLine
    <2>3. /\ c \in Listeners /\ c.style = t /\ c.buffer = <<>> /\ c.input = f.input
          /\ c.held = f.held /\ c.styles = f.styles /\ c.closed = f.closed /\ c.out = f.out /\ c.wanted = f.wanted
      BY <2>2 DEF Listeners, ListenersUpTo
    <2>4. SameTalk(l, c) /\ c.styles = Schedule
      BY <1>5, <2>2, <2>3 DEF SameTalk, SameLine
    <2>5. TextLine(c) = TextLine(f)
      BY <2>2, <2>3, Zenon DEF TextLine
    <2>6. StyleLine(c) = StyleLine(f)
      <3>1. AllOf(t, <<>>) = <<>> /\ AllOf(f.style, <<>>) = <<>>
        BY DEF AllOf
      <3>2. StyleLine(c) = StyleOf(f.input) \o <<>> /\ StyleLine(f) = StyleOf(f.input) \o <<>>
        BY <2>2, <2>3, <3>1, Zenon DEF StyleLine
      <3> QED BY <3>2
    <2>7. Dresses(TagsOf(y), StyleLine(c))
      BY <1>3, <1>5, <2>2, <2>6, DressesOn
    <2>a. MarkFree(c)
      <3>1. MarkFree(f)
        BY <1>5, FlushMarkFree DEF Speaks
      <3> QED BY <2>3, <3>1 DEF MarkFree
    <2>b. c.wanted => Clean(y) # <<>>
      <3>1. l.wanted => TextLine(l) # <<>>
        BY DEF Speaks
      <3>2. f.wanted => TextLine(l) # <<>>
        BY <1>5, <3>1, FlushIsWanted
      <3> QED BY <1>3, <1>5, <2>3, <3>2
    <2>8. Speaks(c, y)
      BY <1>3, <1>4, <1>5, <2>2, <2>3, <2>4, <2>5, <2>7, <2>a, <2>b DEF Speaks
    <2> QED BY <2>1, <2>4, <2>8
  <1> QED BY <1>6, <1>7

One(x) == <<x>>

\* A word is added to the text with the style of the last tag.
LEMMA WordSpeaks ==
    ASSUME NEW l, NEW x \in Seq(Tokens), Speaks(l, x), NEW t \in PlainTokens
    PROVE  Speaks(FeedText(l, t), Append(x, t)) /\ SameTalk(l, FeedText(l, t))
  <1> PICK y : y = Append(x, t)
    OBVIOUS
  <1>1. t \in Tokens /\ t \notin Tags /\ t \notin VoiceTags
    BY StreamConstants
  <1>2. /\ y \in Seq(Tokens) /\ Len(y) = Len(x) + 1 /\ Clean(y) = Clean(x) \o <<t>>
        /\ TagsOf(y) = TagsOf(x) \o <<TagAt(x, Len(x))>>
    <2>1. /\ Append(x, t) \in Seq(Tokens) /\ Len(Append(x, t)) = Len(x) + 1
          /\ Clean(Append(x, t)) = Clean(x) \o (IF t \in Tags THEN <<>> ELSE <<t>>)
          /\ TagsOf(Append(x, t)) = TagsOf(x) \o (IF t \in Tags THEN <<>> ELSE <<TagAt(x, Len(x))>>)
      BY <1>1, CleanAppend
    <2> QED BY <1>1, <2>1
  <1>3. TagAt(y, Len(y)) = TagAt(x, Len(x))
    <2>1. TagAt(Append(x, t), Len(x) + 1) = TagAt(x, Len(x))
      BY <1>1, TagAtNext
    <2> QED BY <1>2, <2>1
  <1>4. /\ l \in Listeners /\ l.styles = Schedule /\ l.style = TagAt(x, Len(x))
        /\ TextLine(l) = Clean(x) /\ Dresses(TagsOf(x), StyleLine(l))
    BY DEF Speaks
  <1> PICK m : m = Buffered(l, t)
    OBVIOUS
  <1>5. /\ m \in ListenersUpTo(MaxChars) /\ SameLine(l, m) /\ m.input = l.input /\ m.buffer = Append(l.buffer, t)
    BY <1>1, <1>4, BufferedGives
  <1>6. /\ Texts(l.input) \in Seq(Tokens) /\ StyleOf(l.input) \in Seq(AllStyles) /\ l.buffer \in Seq(Tokens)
        /\ l.style \in AllStyles /\ AllOf(l.style, l.buffer) \in Seq(AllStyles)
    BY <1>4, LineOfListener
  <1>7. m.buffer = l.buffer \o <<t>>
    BY <1>1, <1>5, <1>6, AppendIsConcat
  <1>8. TextLine(m) = Clean(y)
    <2> PICK u \in Seq(Tokens), v \in Seq(Tokens), w \in Seq(Tokens) : u = Texts(l.input) /\ v = l.buffer /\ w = One(t)
      <3>1. <<t>> \in Seq(Tokens)
        BY <1>1
      <3> QED BY <1>6, <3>1 DEF One
    <2>1. Joined(Joined(u, v), w) = Joined(u, Joined(v, w))
      BY JoinedThree, SMT
    <2>2. TextLine(m) = u \o (v \o w)
      BY <1>5, <1>7, Zenon DEF TextLine, One
    <2>3. Clean(y) = (u \o v) \o w
      BY <1>2, <1>4, Zenon DEF TextLine, One
    <2> QED BY <2>1, <2>2, <2>3, Zenon DEF Joined
  <1>9. Dresses(TagsOf(y), StyleLine(m))
    <2> PICK u \in Seq(AllStyles), v \in Seq(AllStyles), w \in Seq(AllStyles) :
          u = StyleOf(l.input) /\ v = AllOf(l.style, l.buffer) /\ w = One(l.style)
      <3>1. <<l.style>> \in Seq(AllStyles)
        BY <1>6
      <3> QED BY <1>6, <3>1 DEF One
    <2>1. Joined(Joined(u, v), w) = Joined(u, Joined(v, w))
      BY JoinedThree, SMT
    <2>2. AllOf(l.style, l.buffer \o <<t>>) = v \o AllOf(l.style, <<t>>)
      <3> PICK p \in Seq(Tokens), q \in Seq(Tokens), s \in AllStyles : p = l.buffer /\ q = <<t>> /\ s = l.style
        <4>1. <<t>> \in Seq(Tokens)
          BY <1>1
        <4> QED BY <1>6, <4>1
      <3>1. AllOf(s, p \o q) = AllOf(s, p) \o AllOf(s, q)
        BY AllOfJoined
      <3> QED BY <3>1, Zenon
    <2>3. AllOf(l.style, <<t>>) = w
      BY DEF AllOf, One
    <2>4. StyleLine(m) = u \o (v \o w)
      BY <1>5, <1>7, <2>2, <2>3, Zenon DEF StyleLine, SameLine
    <2>5. StyleLine(m) = StyleLine(l) \o w
      BY <2>1, <2>4, Zenon DEF Joined, StyleLine
    <2> PICK a, b, c : a = TagsOf(x) /\ b = StyleLine(l) /\ c = TagsOf(y)
      OBVIOUS
    <2>6. c = a \o w
      BY <1>2, <1>4, Zenon DEF One
    <2>7. a \in Seq(AllStyles) /\ b \in Seq(AllStyles)
      <3>1. a \in Seq(TagStyles)
        BY CleanType
      <3>2. TagStyles \subseteq AllStyles
        BY DEF TagStyles, AllStyles, SpeechStyles
      <3>3. a \in Seq(AllStyles)
        BY <3>1, <3>2, SeqMonotonic
      <3> QED BY <1>4, <3>3, LineOfListener
    <2>8. Dresses(a, b) /\ Dresses(w, w)
      BY <1>4, DressesItself
    <2>9. Dresses(a \o w, b \o w)
      BY <2>7, <2>8, DressesBoth
    <2> QED BY <2>5, <2>6, <2>9
  <1>w. Clean(y) # <<>>
    <2> PICK u \in Seq(Tokens), v \in Seq(Tokens) : u = Clean(x) /\ v = One(t)
      <3>1. <<t>> \in Seq(Tokens)
        BY <1>1
      <3> QED BY <3>1, CleanType DEF One
    <2>1. v # <<>>
      BY DEF One
    <2>2. u \o v # <<>>
      BY <2>1, JoinedIsMore
    <2> QED BY <1>2, <2>2 DEF One
  <1> PICK g : g = FeedText(l, t)
    OBVIOUS
  <1>10. CASE g = m /\ m \in Listeners
    <2>0. MarkFree(m)
      BY <1>5 DEF Speaks, MarkFree, SameLine
    <2>1. Speaks(m, y)
      BY <1>3, <1>4, <1>5, <1>8, <1>9, <1>10, <1>w, <2>0 DEF Speaks, SameLine
    <2>2. SameTalk(l, m)
      BY <1>5 DEF SameTalk, SameLine
    <2> QED BY <1>10, <2>1, <2>2
  <1>11. ASSUME NEW n \in 1 .. Len(m.buffer), g = CutAt(m, n), CutAt(m, n) \in Listeners
         PROVE  Speaks(g, y) /\ SameTalk(l, g)
    <2> PICK M : M = MaxChars
      OBVIOUS
    <2>1. M \in Nat /\ M <= MaxChars /\ m \in ListenersUpTo(M) /\ m.styles = Schedule
      BY <1>4, <1>5, StreamConstants DEF SameLine
    <2>2. TextLine(CutAt(m, n)) = TextLine(m) /\ Dresses(StyleLine(m), StyleLine(CutAt(m, n)))
      BY <2>1, CutKeepsLine
    <2>3. SameLine(m, CutAt(m, n))
      BY <2>1, CutGives
    <2>4. SameTalk(l, g) /\ g.styles = Schedule /\ g.style = l.style
      BY <1>4, <1>5, <1>11, <2>3 DEF SameTalk, SameLine
    <2>5. Dresses(TagsOf(y), StyleLine(g))
      BY <1>9, <1>11, <2>2, DressesOn
    <2>6. TextLine(g) = Clean(y)
      BY <1>8, <1>11, <2>2
    <2>a. MarkFree(g)
      <3>1. MarkFree(m)
        BY <1>5 DEF Speaks, MarkFree, SameLine
      <3> QED BY <1>11, <2>1, <3>1, CutMarkFree
    <2>7. Speaks(g, y)
      BY <1>3, <1>4, <1>11, <1>w, <2>4, <2>5, <2>6, <2>a DEF Speaks
    <2> QED BY <2>4, <2>7
  <1>12. \/ g = m /\ m \in Listeners
         \/ \E n \in 1 .. Len(m.buffer) : g = CutAt(m, n) /\ CutAt(m, n) \in Listeners
    BY <1>1, <1>4, FeedTextCases
  <1> QED BY <1>10, <1>11, <1>12

LEMMA FeedSpeaks ==
    ASSUME NEW l, NEW x \in Seq(Tokens), Speaks(l, x), NEW t \in Tokens
    PROVE  Speaks(Feed(l, t), Append(x, t)) /\ SameTalk(l, Feed(l, t))
  <1>1. CASE t \in VoiceTags
    BY <1>1, StyleSpeaks DEF Feed
  <1>2. CASE t = "face"
    <2> PICK y : y = Append(x, t)
      OBVIOUS
    <2>0. t \in Tags /\ t \notin VoiceTags
      BY <1>2, StreamConstants DEF Tags
    <2>1. /\ y \in Seq(Tokens) /\ Len(y) = Len(x) + 1
          /\ Clean(y) = Clean(x) \o <<>> /\ TagsOf(y) = TagsOf(x) \o <<>>
      <3>1. /\ Append(x, t) \in Seq(Tokens) /\ Len(Append(x, t)) = Len(x) + 1
            /\ Clean(Append(x, t)) = Clean(x) \o (IF t \in Tags THEN <<>> ELSE <<t>>)
            /\ TagsOf(Append(x, t)) = TagsOf(x) \o (IF t \in Tags THEN <<>> ELSE <<TagAt(x, Len(x))>>)
        BY CleanAppend
      <3> QED BY <2>0, <3>1
    <2>2. Clean(y) = Clean(x) /\ TagsOf(y) = TagsOf(x)
      BY <2>1, CleanType, ConcatEmptySeq
    <2>3. TagAt(y, Len(y)) = TagAt(x, Len(x))
      BY <2>0, <2>1, TagAtNext
    <2>4. Feed(l, t) = l
      BY <1>2, <2>0 DEF Feed
    <2>5. Speaks(l, y)
      BY <2>2, <2>3 DEF Speaks
    <2> QED BY <2>4, <2>5 DEF SameTalk
  <1>3. CASE t \notin VoiceTags /\ t # "face"
    <2>1. t \in PlainTokens /\ Feed(l, t) = FeedText(l, t)
      BY <1>3 DEF Feed, Tokens, Tags
    <2> QED BY <2>1, WordSpeaks
  <1> QED BY <1>1, <1>2, <1>3
\* What Feed makes of the tokens of a text, one at a time.
FeedRuns(m, cs) ==
    {f \in [0 .. Len(cs) -> Listeners] : f[0] = m /\ \A n \in 1 .. Len(cs) : f[n] = Feed(f[n - 1], cs[n])}

LEMMA FeedOneByOne ==
    ASSUME NEW m \in Listeners, NEW cs \in Seq(Tokens)
    PROVE  \E f \in FeedRuns(m, cs) : FoldLeft(Feed, m, cs) = f[Len(cs)]
  <1> DEFINE it == CHOOSE iter : iter = [K \in SUBSET (DOMAIN cs) |->
                                           IF K = {} THEN m ELSE Feed(iter[K \ {Max(K)}], cs[Max(K)])]
             G == [n \in 1 .. Len(cs) |-> [x \in Listeners |-> Feed(x, cs[n])]]
  <1>1. FoldLeft(Feed, m, cs) = it[DOMAIN cs]
    BY DEF FoldLeft, MapThenFoldSet
  <1>2. DOMAIN cs = 1 .. Len(cs) /\ Len(cs) \in Nat /\ \A n \in 1 .. Len(cs) : cs[n] \in Tokens
    OBVIOUS
  <1>3. G \in [1 .. Len(cs) -> [Listeners -> Listeners]]
    BY <1>2, FeedKeeps
  <1>4. \A n \in 1 .. Len(cs) : \A x \in Listeners : G[n][x] = Feed(x, cs[n])
    OBVIOUS
  <1> HIDE DEF G
  <1>5. FoldsOf(Listeners, m, Len(cs), G) # {}
    BY <1>2, <1>3, FoldExists
  <1>6. PICK h \in [SUBSET (1 .. Len(cs)) -> Listeners] :
          \A K \in SUBSET (1 .. Len(cs)) : h[K] = IF K = {} THEN m ELSE G[Max(K)][h[K \ {Max(K)}]]
    BY <1>5 DEF FoldsOf
  <1>7. ASSUME NEW K \in SUBSET (DOMAIN cs)
        PROVE h[K] = IF K = {} THEN m ELSE Feed(h[K \ {Max(K)}], cs[Max(K)])
    <2>1. CASE K = {}
      BY <1>2, <1>6, <2>1
    <2>2. CASE K # {}
      <3>1. Max(K) \in 1 .. Len(cs)
        BY <1>2, <2>2, HasMax
      <3>2. K \ {Max(K)} \in SUBSET (1 .. Len(cs))
        BY <1>2
      <3>3. h[K \ {Max(K)}] \in Listeners
        BY <3>2
      <3>4. h[K] = G[Max(K)][h[K \ {Max(K)}]]
        BY <1>2, <1>6, <2>2
      <3> QED BY <2>2, <3>1, <3>3, <3>4, <1>4
    <2> QED BY <2>1, <2>2
  <1>8. h = [K \in SUBSET (DOMAIN cs) |-> IF K = {} THEN m ELSE Feed(h[K \ {Max(K)}], cs[Max(K)])]
    BY <1>2, <1>7
  <1>9. it = [K \in SUBSET (DOMAIN cs) |-> IF K = {} THEN m ELSE Feed(it[K \ {Max(K)}], cs[Max(K)])]
    BY <1>8
  <1> HIDE DEF it
  <1> DEFINE f == [n \in 0 .. Len(cs) |-> it[1 .. n]]
  <1>10. f[0] = m
    <2>1. 1 .. 0 = {} /\ {} \in SUBSET (DOMAIN cs)
      OBVIOUS
    <2>2. it[1 .. 0] = m
      BY <1>9, <2>1
    <2> QED BY <1>2, <2>2
  <1>11. ASSUME NEW n \in 1 .. Len(cs) PROVE f[n] = Feed(f[n - 1], cs[n])
    <2>1. /\ 1 .. n \in SUBSET (1 .. Len(cs)) /\ 1 .. n # {}
          /\ Max(1 .. n) = n /\ (1 .. n) \ {Max(1 .. n)} = 1 .. n - 1
      BY <1>2, MaxOfFirst
    <2>2. it[1 .. n] = Feed(it[(1 .. n) \ {Max(1 .. n)}], cs[Max(1 .. n)])
      BY <1>2, <1>9, <2>1
    <2>3. it[1 .. n] = Feed(it[1 .. n - 1], cs[n])
      BY <2>1, <2>2
    <2>4. n \in 0 .. Len(cs) /\ n - 1 \in 0 .. Len(cs)
      BY <1>2
    <2> QED BY <2>3, <2>4
  <1>12. f[Len(cs)] = it[DOMAIN cs]
    BY <1>2
  <1>13. f = [n \in 0 .. Len(cs) |-> f[n]]
    OBVIOUS
  <1> HIDE DEF f
  <1>14. \A n \in Nat : n <= Len(cs) => f[n] \in Listeners
    <2> DEFINE S == {n \in Nat : n <= Len(cs) => f[n] \in Listeners}
    <2>1. 0 \in S
      BY <1>10
    <2>2. ASSUME NEW n \in Nat, n \in S PROVE n + 1 \in S
      <3> SUFFICES ASSUME n + 1 <= Len(cs) PROVE f[n + 1] \in Listeners
        OBVIOUS
      <3>1. n <= Len(cs) /\ n + 1 \in 1 .. Len(cs) /\ (n + 1) - 1 = n
        BY <1>2
      <3>2. f[n] \in Listeners /\ cs[n + 1] \in Tokens
        BY <2>2, <3>1, <1>2
      <3>3. f[n + 1] = Feed(f[n], cs[n + 1])
        BY <3>1, <1>11
      <3> QED BY <3>2, <3>3, FeedKeeps
    <2> HIDE DEF S
    <2>3. \A n \in Nat : n \in S
      BY <2>1, <2>2, Climbing
    <2> QED BY <2>3 DEF S
  <1>15. f \in [0 .. Len(cs) -> Listeners]
    BY <1>2, <1>13, <1>14
  <1>16. f \in FeedRuns(m, cs)
    BY <1>10, <1>11, <1>15 DEF FeedRuns
  <1> QED BY <1>1, <1>12, <1>16

\* A text is given to the segmenter.
LEMMA TextSpeaks ==
    ASSUME NEW l, Speaks(l, <<>>), NEW tokens \in Seq(Tokens), NEW c, c = FoldLeft(Feed, l, tokens)
    PROVE  Speaks(c, tokens) /\ SameTalk(l, c)
  <1> PICK N \in Nat : N = Len(tokens)
    OBVIOUS
  <1>1. l \in Listeners
    BY DEF Speaks
  <1>2. PICK f \in FeedRuns(l, tokens) : FoldLeft(Feed, l, tokens) = f[Len(tokens)]
    BY <1>1, FeedOneByOne
  <1>3. f \in [0 .. N -> Listeners] /\ f[0] = l /\ \A n \in 1 .. N : f[n] = Feed(f[n - 1], tokens[n])
    BY <1>2 DEF FeedRuns
  <1> DEFINE P(n) == Speaks(f[n], SubSeq(tokens, 1, n)) /\ SameTalk(l, f[n])
             S == {n \in Nat : n <= N => P(n)}
  <1>4. 0 \in S
    <2>1. SubSeq(tokens, 1, 0) = <<>>
      BY SubSeqEmpty
    <2> QED BY <1>3, <2>1 DEF SameTalk
  <1>5. ASSUME NEW n \in Nat, n \in S PROVE n + 1 \in S
    <2> SUFFICES ASSUME n + 1 <= N PROVE P(n + 1)
      <3> HIDE DEF P
      <3> QED OBVIOUS
    <2>1. n <= N /\ n + 1 \in 1 .. N /\ (n + 1) - 1 = n
      OBVIOUS
    <2>2. P(n)
      <3> HIDE DEF P
      <3> QED BY <1>5, <2>1
    <2> PICK x : x = SubSeq(tokens, 1, n)
      OBVIOUS
    <2> PICK t \in Tokens : t = tokens[n + 1]
      BY <2>1
    <2>3. x \in Seq(Tokens) /\ SubSeq(tokens, 1, n + 1) = Append(x, t)
      <3>1. x \in Seq(Tokens)
        BY <2>1
      <3>2. SubSeq(tokens, 1, n + 1) = Append(SubSeq(tokens, 1, n), tokens[n + 1])
        BY <2>1
      <3> QED BY <3>1, <3>2
    <2>4. f[n + 1] = Feed(f[n], t)
      BY <1>3, <2>1
    <2>5. Speaks(f[n], x) /\ SameTalk(l, f[n])
      BY <2>2
    <2>6. Speaks(Feed(f[n], t), Append(x, t)) /\ SameTalk(f[n], Feed(f[n], t))
      BY <2>3, <2>5, FeedSpeaks
    <2> QED BY <2>3, <2>4, <2>5, <2>6 DEF SameTalk
  <1>6. \A n \in Nat : n \in S
    <2> HIDE DEF S
    <2> QED BY <1>4, <1>5, Climbing
  <1>7. P(N)
    <2> HIDE DEF P
    <2> QED BY <1>6
  <1>8. SubSeq(tokens, 1, N) = tokens
    BY SubSeqFull
  <1> QED BY <1>2, <1>7, <1>8

LEMMA FeedShort ==
    ASSUME NEW l \in Listeners, NEW t \in Tokens
    PROVE  FoldLeft(Feed, l, <<>>) = l /\ FoldLeft(Feed, l, <<t>>) = Feed(l, t)
  <1>1. FoldLeft(Feed, l, <<>>) = l
    <2>1. <<>> \in Seq(Tokens) /\ Len(<<>>) = 0
      OBVIOUS
    <2>2. PICK f \in FeedRuns(l, <<>>) : FoldLeft(Feed, l, <<>>) = f[Len(<<>>)]
      BY <2>1, FeedOneByOne
    <2>3. f[0] = l
      BY <2>2 DEF FeedRuns
    <2> QED BY <2>1, <2>2, <2>3
  <1>2. FoldLeft(Feed, l, <<t>>) = Feed(l, t)
    <2> PICK s : s = <<t>>
      OBVIOUS
    <2>1. s \in Seq(Tokens) /\ Len(s) = 1 /\ s[1] = t
      OBVIOUS
    <2>2. PICK f \in FeedRuns(l, s) : FoldLeft(Feed, l, s) = f[Len(s)]
      BY <2>1, FeedOneByOne
    <2>3. f[0] = l /\ \A n \in 1 .. Len(s) : f[n] = Feed(f[n - 1], s[n])
      BY <2>2 DEF FeedRuns
    <2>4. 1 \in 1 .. Len(s) /\ 1 - 1 = 0
      BY <2>1
    <2>5. f[1] = Feed(f[0], s[1])
      BY <2>3, <2>4
    <2> QED BY <2>1, <2>2, <2>3, <2>5
  <1> QED BY <1>1, <1>2

LEMMA FeedAllKeeps ==
    ASSUME NEW l \in Listeners, NEW tokens \in Seq(Tokens)
    PROVE  FoldLeft(Feed, l, tokens) \in Listeners
  <1>1. PICK f \in FeedRuns(l, tokens) : FoldLeft(Feed, l, tokens) = f[Len(tokens)]
    BY FeedOneByOne
  <1>2. f \in [0 .. Len(tokens) -> Listeners] /\ Len(tokens) \in 0 .. Len(tokens)
    BY <1>1 DEF FeedRuns
  <1> QED BY <1>1, <1>2
-----------------------------------------------------------------------------
\* What a message to the client leaves alone.
SameEar(l, c) ==
    /\ c.held = l.held /\ c.buffer = l.buffer /\ c.style = l.style /\ c.styles = l.styles
    /\ c.index = l.index /\ c.input = l.input /\ c.closed = l.closed /\ c.wanted = l.wanted

Say(l, message) == [l EXCEPT !.out = Append(@, message)]

LEMMA SayGives ==
    ASSUME NEW l \in Listeners, NEW message \in ClientMessages
    PROVE  Say(l, message) \in Listeners /\ SameEar(l, Say(l, message)) /\ Say(l, message).out = Append(l.out, message)
  <1> PICK o, c : o = Append(l.out, message) /\ c = [l EXCEPT !.out = o]
    OBVIOUS
  <1>1. l.out \in Seq(ClientMessages)
    BY DEF Listeners, ListenersUpTo
  <1>2. o \in Seq(ClientMessages)
    BY <1>1, AppendProperties
  <1>3. c \in Listeners /\ SameEar(l, c) /\ c.out = o
    BY <1>2 DEF Listeners, ListenersUpTo, SameEar
  <1> QED BY <1>3 DEF Say

ShowOn(out, text) == IF text = <<>> THEN out ELSE Append(out, Delta(text))

LEMMA DeltaIsEvent == ASSUME NEW text \in Seq(Tokens) PROVE Delta(text) \in Events /\ Delta(text) \in ClientMessages
  BY DEF Delta, Events, ClientMessages

LEMMA DoneIsEvent == ASSUME NEW calls \in BOOLEAN PROVE Done(calls) \in Events /\ Done(calls) \in ClientMessages
  BY DEF Done, Events, ClientMessages

LEMMA ShowGives ==
    ASSUME NEW l \in Listeners, NEW text \in Seq(Tokens)
    PROVE  Show(l, text) \in Listeners /\ SameEar(l, Show(l, text)) /\ Show(l, text).out = ShowOn(l.out, text)
  <1>1. CASE text = <<>>
    BY <1>1 DEF Show, ShowOn, SameEar
  <1>2. CASE text # <<>>
    <2>1. Show(l, text) = Say(l, Delta(text)) /\ ShowOn(l.out, text) = Append(l.out, Delta(text))
      BY <1>2 DEF Show, ShowOn, Say
    <2> QED BY <2>1, SayGives, DeltaIsEvent
  <1> QED BY <1>1, <1>2

\* The input is closed after the segments, if it is.
InputEnds(l) ==
    /\ l.closed =>
         /\ l.buffer = <<>>
         /\ \A i \in 1 .. Len(l.input) :
              IF l.input[i] = CloseMark THEN i = Len(l.input)
              ELSE l.styles = Schedule => l.input[i].style \in VoiceStyles
    /\ ~l.closed => MarkFree(l)

LEMMA CloseKeeps ==
    ASSUME NEW l \in Listeners, Voiced, ~l.closed
    PROVE  /\ CloseInput(l) \in Listeners /\ CloseInput(l).closed
           /\ CloseInput(l).buffer = FlushText(l).buffer /\ CloseInput(l).input = Append(FlushText(l).input, CloseMark)
           /\ CloseInput(l).held = l.held /\ CloseInput(l).out = l.out /\ CloseInput(l).styles = l.styles
           /\ CloseInput(l).style = FlushText(l).style /\ CloseInput(l).wanted = FlushText(l).wanted
  <1> PICK f, c : f = FlushText(l) /\ c = CloseInput(l)
    OBVIOUS
  <1>1. f \in Listeners /\ f.buffer = <<>>
    BY FlushKeeps
  <1>2. f.held = l.held /\ f.out = l.out /\ f.styles = l.styles
    BY FlushMarkFree DEF SameLine
  <1> PICK a : a = Append(f.input, CloseMark)
    OBVIOUS
  <1>3. a \in Seq(Inputs)
    <2>1. f.input \in Seq(Inputs) /\ CloseMark \in Inputs
      BY <1>1 DEF Listeners, ListenersUpTo, Inputs
    <2> QED BY <2>1, AppendProperties
  <1>4. c = [f EXCEPT !.input = a, !.closed = TRUE]
    BY DEF CloseInput
  <1>5. /\ c \in Listeners /\ c.closed /\ c.buffer = f.buffer /\ c.input = a
        /\ c.held = f.held /\ c.out = f.out /\ c.styles = f.styles /\ c.style = f.style /\ c.wanted = f.wanted
    BY <1>1, <1>3, <1>4 DEF Listeners, ListenersUpTo
  <1> QED BY <1>2, <1>5

\* The text is complete: what is left of it is a segment, and nothing is lost.
LEMMA CloseGives ==
    ASSUME NEW l \in Listeners, Voiced, ~l.closed, MarkFree(l), l.styles = Schedule, NEW c, c = CloseInput(l)
    PROVE  /\ c \in Listeners /\ InputEnds(c) /\ c.closed
           /\ c.held = l.held /\ c.out = l.out /\ c.styles = Schedule /\ (l.wanted => c.wanted)
           /\ TextLine(c) = TextLine(l) /\ Dresses(StyleLine(l), StyleLine(c))
           /\ (l.wanted => TextLine(l) # <<>>) => (c.wanted => TextLine(l) # <<>>)
  <1> PICK f : f = FlushText(l)
    OBVIOUS
  <1>1. /\ c \in Listeners /\ c.closed /\ c.buffer = f.buffer /\ c.input = Append(f.input, CloseMark)
        /\ c.held = l.held /\ c.out = l.out /\ c.styles = l.styles /\ c.style = f.style /\ c.wanted = f.wanted
    BY CloseKeeps
  <1>2. /\ f \in Listeners /\ f.buffer = <<>>
        /\ TextLine(f) = TextLine(l) /\ Dresses(StyleLine(l), StyleLine(f))
    BY FlushKeepsLine
  <1>3. MarkFree(f) /\ (l.wanted => f.wanted)
    BY FlushMarkFree
  <1>4. f.input \in Seq(Inputs) /\ Pieces(f.input) /\ Texts(f.input) \in Seq(Tokens) /\ StyleOf(f.input) \in Seq(AllStyles)
    BY <1>2, LineOfListener
  <1>5. CloseMark \in Inputs /\ CloseMark.text = <<>> /\ CloseMark.style \in AllStyles /\ CloseMark.text \in Seq(Tokens)
    BY DEF Inputs, CloseMark, AllStyles
  <1>6. /\ Texts(c.input) = Texts(f.input) \o <<>>
        /\ StyleOf(c.input) = StyleOf(f.input) \o <<>>
    <2>1. /\ Texts(Append(f.input, CloseMark)) = Texts(f.input) \o CloseMark.text
          /\ StyleOf(Append(f.input, CloseMark)) = StyleOf(f.input) \o AllOf(CloseMark.style, CloseMark.text)
      BY <1>4, <1>5, TextsAppend
    <2>2. AllOf(CloseMark.style, CloseMark.text) = <<>>
      BY <1>5 DEF AllOf
    <2> QED BY <1>1, <1>5, <2>1, <2>2
  <1>7. Texts(c.input) = Texts(f.input) /\ StyleOf(c.input) = StyleOf(f.input)
    BY <1>4, <1>6, ConcatEmptySeq
  <1>8. TextLine(c) = TextLine(f) /\ StyleLine(c) = StyleLine(f)
    BY <1>1, <1>7, Zenon DEF TextLine, StyleLine
  <1>9. \A i \in 1 .. Len(c.input) :
           IF c.input[i] = CloseMark THEN i = Len(c.input)
           ELSE c.styles = Schedule => c.input[i].style \in VoiceStyles
    <2> PICK a, b : a = f.input /\ b = c.input
      OBVIOUS
    <2>1. a \in Seq(Inputs) /\ b = Append(a, CloseMark) /\ Len(b) = Len(a) + 1 /\ \A i \in 1 .. Len(a) : b[i] = a[i]
      BY <1>1, <1>4, <1>5, AppendProperties
    <2>2. \A i \in 1 .. Len(a) + 1 : i \in 1 .. Len(a) \/ i = Len(a) + 1
      BY <2>1
    <2>3. \A i \in 1 .. Len(a) : a[i] # CloseMark /\ (f.styles = Schedule => a[i].style \in VoiceStyles)
      BY <1>3 DEF MarkFree
    <2>4. b[Len(a) + 1] = CloseMark
      BY <2>1, AppendProperties
    <2>5. f.styles = c.styles
      BY <1>1, FlushMarkFree DEF SameLine
    <2>6. \A i \in 1 .. Len(a) : b[i] # CloseMark /\ (c.styles = Schedule => b[i].style \in VoiceStyles)
      BY <2>1, <2>3, <2>5
    <2> QED BY <2>1, <2>2, <2>4, <2>6
  <1>10. InputEnds(c)
    BY <1>1, <1>2, <1>9 DEF InputEnds
  <1>11. (l.wanted => TextLine(l) # <<>>) => (c.wanted => TextLine(l) # <<>>)
    BY <1>1, FlushIsWanted
  <1> QED BY <1>1, <1>2, <1>3, <1>8, <1>10, <1>11
-----------------------------------------------------------------------------
\* What on_stream makes of each kind of event.
QuietEvents == [kind : PlainKinds] \cup {Done(TRUE)}

LEMMA TellIs ==
    /\ \A l, e : e.kind = "emotion_plan" =>
          Tell(l, e) = [l EXCEPT !.styles = IF Voiced THEN Schedule ELSE l.styles, !.out = Append(l.out, e)]
    /\ \A l, text : Tell(l, Delta(text)) = TellDelta(l, text)
    /\ \A l : Tell(l, Done(FALSE)) = Say(TellDone(l), Done(FALSE))
    /\ \A l, e : e \in QuietEvents /\ e.kind # "emotion_plan" => Tell(l, e) = Say(l, e)
  <1>1. ASSUME NEW l, NEW e, e.kind = "emotion_plan"
        PROVE  Tell(l, e) = [l EXCEPT !.styles = IF Voiced THEN Schedule ELSE l.styles, !.out = Append(l.out, e)]
    BY <1>1 DEF Tell
  <1>2. ASSUME NEW l, NEW text PROVE Tell(l, Delta(text)) = TellDelta(l, text)
    <2>1. Delta(text).kind = "assistant_delta" /\ Delta(text).text = text
      BY DEF Delta
    <2> PICK e : e = Delta(text)
      OBVIOUS
    <2>2. Tell(l, e) = TellDelta(l, e.text)
      BY <2>1 DEF Tell
    <2> QED BY <2>1, <2>2
  <1>3. ASSUME NEW l PROVE Tell(l, Done(FALSE)) = Say(TellDone(l), Done(FALSE))
    <2> PICK e : e = Done(FALSE)
      OBVIOUS
    <2>1. e.kind = "assistant_done" /\ ~e.calls
      BY DEF Done
    <2>2. Tell(l, e) = [TellDone(l) EXCEPT !.out = Append(TellDone(l).out, e)]
      BY <2>1 DEF Tell
    <2> QED BY <2>2 DEF Say
  <1>4. ASSUME NEW l, NEW e \in QuietEvents, e.kind # "emotion_plan" PROVE Tell(l, e) = Say(l, e)
    <2>1. e.kind # "assistant_delta" /\ ~(e.kind = "assistant_done" /\ ~e.calls)
      BY DEF QuietEvents, PlainKinds, Done
    <2> QED BY <1>4, <2>1 DEF Tell, Say
  <1> QED BY <1>1, <1>2, <1>3, <1>4

LEMMA QuietTold ==
    ASSUME NEW l \in Listeners, NEW e \in QuietEvents
    PROVE  /\ Tell(l, e) \in Listeners /\ Tell(l, e).out = Append(l.out, e)
           /\ Tell(l, e).held = l.held /\ Tell(l, e).buffer = l.buffer /\ Tell(l, e).style = l.style
           /\ Tell(l, e).input = l.input /\ Tell(l, e).closed = l.closed /\ Tell(l, e).wanted = l.wanted
           /\ Voiced /\ (l.styles = Schedule \/ e.kind = "emotion_plan") => Tell(l, e).styles = Schedule
  <1> PICK c : c = Tell(l, e)
    OBVIOUS
  <1>1. e \in ClientMessages
    BY DoneIsEvent DEF QuietEvents, ClientMessages, Events
  <1>2. CASE e.kind = "emotion_plan"
    <2> PICK o, s : o = Append(l.out, e) /\ s = IF Voiced THEN Schedule ELSE l.styles
      OBVIOUS
    <2>1. c = [l EXCEPT !.styles = s, !.out = o]
      BY <1>2, TellIs
    <2>2. o \in Seq(ClientMessages)
      <3>1. l.out \in Seq(ClientMessages)
        BY DEF Listeners, ListenersUpTo
      <3> QED BY <1>1, <3>1, AppendProperties
    <2>3. s \in {<<>>, Schedule}
      BY DEF Listeners, ListenersUpTo
    <2>4. /\ c \in Listeners /\ c.out = o /\ c.styles = s
          /\ c.held = l.held /\ c.buffer = l.buffer /\ c.style = l.style
          /\ c.input = l.input /\ c.closed = l.closed /\ c.wanted = l.wanted
      BY <2>1, <2>2, <2>3 DEF Listeners, ListenersUpTo
    <2> QED BY <2>4
  <1>3. CASE e.kind # "emotion_plan"
    <2>1. c = Say(l, e)
      BY <1>3, TellIs
    <2>2. c \in Listeners /\ SameEar(l, c) /\ c.out = Append(l.out, e)
      BY <1>1, <2>1, SayGives
    <2> QED BY <1>3, <2>2 DEF SameEar
  <1> QED BY <1>2, <1>3

\* The text of an answer, and what is held back of it.
Spoken(all) == SubSeq(all, 1, Len(all) - Len(Held(all)))

LEMMA HeldGives ==
    ASSUME NEW all \in Seq(Tokens)
    PROVE  /\ Held(all) \in Seq(Tokens) /\ Spoken(all) \in Seq(Tokens)
           /\ \/ Held(all) = <<>> /\ Spoken(all) = all
              \/ /\ Held(all) = <<"half">> /\ all = Append(Spoken(all), "half")
                 /\ all # <<>> /\ all[Len(all)] = "half"
  <1> PICK n \in Nat : n = Len(all)
    OBVIOUS
  <1>0. "half" \in Tokens
    BY StreamConstants DEF PlainTokens
  <1>1. CASE Held(all) = <<>>
    <2>1. Spoken(all) = SubSeq(all, 1, Len(all) - 0)
      BY <1>1 DEF Spoken
    <2>2. Spoken(all) = all
      BY <2>1, SubSeqFull
    <2> QED BY <1>1, <2>2
  <1>2. CASE Held(all) # <<>>
    <2>1. all # <<>> /\ Last(all) = "half" /\ Held(all) = <<"half">>
      BY <1>2 DEF Held
    <2>2. all[n] = "half" /\ n \in 1 .. n
      BY <2>1, EmptySeq DEF Last
    <2>3. Spoken(all) = SubSeq(all, 1, n - 1)
      BY <2>1 DEF Spoken
    <2>4. Spoken(all) \in Seq(Tokens) /\ Len(Spoken(all)) = n - 1
      BY <2>2, <2>3
    <2>5. all = Append(Spoken(all), "half")
      <3> PICK s : s = Spoken(all)
        OBVIOUS
      <3>1. \A i \in 1 .. n - 1 : s[i] = all[i]
        BY <2>2, <2>3
      <3>2. /\ s \in Seq(Tokens) /\ Len(s) = n - 1 /\ Append(s, "half") \in Seq(Tokens)
            /\ Len(Append(s, "half")) = n /\ Append(s, "half")[n] = "half"
            /\ \A i \in 1 .. n - 1 : Append(s, "half")[i] = s[i]
        BY <1>0, <2>4, AppendProperties
      <3>3. \A i \in 1 .. n : i \in 1 .. n - 1 \/ i = n
        OBVIOUS
      <3>4. \A i \in 1 .. n : all[i] = Append(s, "half")[i]
        BY <2>2, <3>1, <3>2, <3>3
      <3> QED BY <3>2, <3>4, SeqEqual
    <2>6. <<"half">> \in Seq(Tokens)
      BY <1>0
    <2> QED BY <2>1, <2>2, <2>4, <2>5, <2>6
  <1> QED BY <1>1, <1>2

LEMMA HeldIsSet ==
    ASSUME NEW l \in Listeners, NEW h \in Seq(Tokens), NEW c, c = [l EXCEPT !.held = h]
    PROVE  /\ c \in Listeners /\ c.held = h
           /\ c.buffer = l.buffer /\ c.style = l.style /\ c.styles = l.styles
           /\ c.input = l.input /\ c.closed = l.closed /\ c.wanted = l.wanted /\ c.out = l.out
  BY DEF Listeners, ListenersUpTo

LEMMA SpeechKeeps ==
    ASSUME NEW l \in Listeners, NEW tokens \in Seq(Tokens)
    PROVE  FeedSpeech(l, tokens) \in Listeners
  BY FeedAllKeeps DEF FeedSpeech

LEMMA CloseInputKeeps ==
    ASSUME NEW l \in Listeners
    PROVE  CloseInput(l) \in Listeners
  <1>1. CASE Voiced /\ ~l.closed
    BY <1>1, CloseKeeps
  <1>2. CASE ~(Voiced /\ ~l.closed)
    BY <1>2 DEF CloseInput
  <1> QED BY <1>1, <1>2

LEMMA DeltaKeeps ==
    ASSUME NEW l \in Listeners, NEW text \in Seq(Tokens)
    PROVE  TellDelta(l, text) \in Listeners
  <1>1. CASE ~Strips
    BY <1>1, ShowGives DEF TellDelta
  <1>2. CASE Strips
    <2> PICK all : all = l.held \o text
      OBVIOUS
    <2> PICK h, b : h = Held(all) /\ b = Spoken(all)
      OBVIOUS
    <2> PICK m : m = [l EXCEPT !.held = h]
      OBVIOUS
    <2>1. TellDelta(l, text) = Show(FeedSpeech(m, b), Clean(b))
      BY <1>2 DEF TellDelta, Spoken
    <2>2. all \in Seq(Tokens)
      BY DEF Listeners, ListenersUpTo
    <2>3. h \in Seq(Tokens) /\ b \in Seq(Tokens)
      BY <2>2, HeldGives
    <2>4. m \in Listeners
      BY <2>3, HeldIsSet
    <2>5. FeedSpeech(m, b) \in Listeners /\ Clean(b) \in Seq(Tokens)
      BY <2>3, <2>4, SpeechKeeps, CleanType
    <2> QED BY <2>1, <2>5, ShowGives
  <1> QED BY <1>1, <1>2

LEMMA DoneKeeps ==
    ASSUME NEW l \in Listeners
    PROVE  TellDone(l) \in Listeners
  <1>1. CASE ~Strips
    BY <1>1 DEF TellDone
  <1>2. CASE Strips
    <2> PICK h, m : h = l.held /\ m = [l EXCEPT !.held = <<>>]
      OBVIOUS
    <2>1. TellDone(l) = CloseInput(Show(FeedSpeech(m, h), h))
      BY <1>2 DEF TellDone
    <2>2. h \in Seq(Tokens) /\ <<>> \in Seq(Tokens)
      BY DEF Listeners, ListenersUpTo
    <2>3. m \in Listeners
      BY <2>2, HeldIsSet
    <2>4. FeedSpeech(m, h) \in Listeners
      BY <2>2, <2>3, SpeechKeeps
    <2>5. Show(FeedSpeech(m, h), h) \in Listeners
      BY <2>2, <2>4, ShowGives
    <2> QED BY <2>1, <2>5, CloseInputKeeps
  <1> QED BY <1>1, <1>2

LEMMA TellKeeps ==
    ASSUME NEW l \in Listeners, NEW e \in Events
    PROVE  Tell(l, e) \in Listeners
  <1>1. CASE e \in QuietEvents
    BY <1>1, QuietTold
  <1>2. CASE e \in [kind : {"assistant_delta"}, text : Seq(Tokens)]
    <2>1. e.text \in Seq(Tokens) /\ e.kind = "assistant_delta"
      BY <1>2
    <2>2. Tell(l, e) = TellDelta(l, e.text)
      BY <2>1 DEF Tell
    <2> QED BY <2>1, <2>2, DeltaKeeps
  <1>3. CASE e \in [kind : {"assistant_done"}, calls : BOOLEAN] /\ e \notin QuietEvents
    <2>1. e = [kind |-> "assistant_done", calls |-> e.calls] /\ e.calls \in BOOLEAN
      BY <1>3
    <2>2. e = Done(FALSE)
      <3>1. e = Done(e.calls) /\ e # Done(TRUE)
        BY <1>3, <2>1 DEF Done, QuietEvents
      <3> QED BY <2>1, <3>1
    <2>3. Tell(l, e) = Say(TellDone(l), Done(FALSE))
      BY <2>2, TellIs
    <2> QED BY <2>3, DoneKeeps, SayGives, DoneIsEvent
  <1>4. e \in [kind : PlainKinds] => e \in QuietEvents
    BY DEF QuietEvents
  <1> QED BY <1>1, <1>2, <1>3, <1>4 DEF Events
\* What Tell makes of the events of a turn, one at a time.
TellRuns(m, cs) ==
    {f \in [0 .. Len(cs) -> Listeners] : f[0] = m /\ \A n \in 1 .. Len(cs) : f[n] = Tell(f[n - 1], cs[n])}

LEMMA TellOneByOne ==
    ASSUME NEW m \in Listeners, NEW cs \in Seq(Events)
    PROVE  \E f \in TellRuns(m, cs) : FoldLeft(Tell, m, cs) = f[Len(cs)]
  <1> DEFINE it == CHOOSE iter : iter = [K \in SUBSET (DOMAIN cs) |->
                                           IF K = {} THEN m ELSE Tell(iter[K \ {Max(K)}], cs[Max(K)])]
             G == [n \in 1 .. Len(cs) |-> [x \in Listeners |-> Tell(x, cs[n])]]
  <1>1. FoldLeft(Tell, m, cs) = it[DOMAIN cs]
    BY DEF FoldLeft, MapThenFoldSet
  <1>2. DOMAIN cs = 1 .. Len(cs) /\ Len(cs) \in Nat /\ \A n \in 1 .. Len(cs) : cs[n] \in Events
    OBVIOUS
  <1>3. G \in [1 .. Len(cs) -> [Listeners -> Listeners]]
    BY <1>2, TellKeeps
  <1>4. \A n \in 1 .. Len(cs) : \A x \in Listeners : G[n][x] = Tell(x, cs[n])
    OBVIOUS
  <1> HIDE DEF G
  <1>5. FoldsOf(Listeners, m, Len(cs), G) # {}
    BY <1>2, <1>3, FoldExists
  <1>6. PICK h \in [SUBSET (1 .. Len(cs)) -> Listeners] :
          \A K \in SUBSET (1 .. Len(cs)) : h[K] = IF K = {} THEN m ELSE G[Max(K)][h[K \ {Max(K)}]]
    BY <1>5 DEF FoldsOf
  <1>7. ASSUME NEW K \in SUBSET (DOMAIN cs)
        PROVE h[K] = IF K = {} THEN m ELSE Tell(h[K \ {Max(K)}], cs[Max(K)])
    <2>1. CASE K = {}
      BY <1>2, <1>6, <2>1
    <2>2. CASE K # {}
      <3>1. Max(K) \in 1 .. Len(cs)
        BY <1>2, <2>2, HasMax
      <3>2. K \ {Max(K)} \in SUBSET (1 .. Len(cs))
        BY <1>2
      <3>3. h[K \ {Max(K)}] \in Listeners
        BY <3>2
      <3>4. h[K] = G[Max(K)][h[K \ {Max(K)}]]
        BY <1>2, <1>6, <2>2
      <3> QED BY <2>2, <3>1, <3>3, <3>4, <1>4
    <2> QED BY <2>1, <2>2
  <1>8. h = [K \in SUBSET (DOMAIN cs) |-> IF K = {} THEN m ELSE Tell(h[K \ {Max(K)}], cs[Max(K)])]
    BY <1>2, <1>7
  <1>9. it = [K \in SUBSET (DOMAIN cs) |-> IF K = {} THEN m ELSE Tell(it[K \ {Max(K)}], cs[Max(K)])]
    BY <1>8
  <1> HIDE DEF it
  <1> DEFINE f == [n \in 0 .. Len(cs) |-> it[1 .. n]]
  <1>10. f[0] = m
    <2>1. 1 .. 0 = {} /\ {} \in SUBSET (DOMAIN cs)
      OBVIOUS
    <2>2. it[1 .. 0] = m
      BY <1>9, <2>1
    <2> QED BY <1>2, <2>2
  <1>11. ASSUME NEW n \in 1 .. Len(cs) PROVE f[n] = Tell(f[n - 1], cs[n])
    <2>1. /\ 1 .. n \in SUBSET (1 .. Len(cs)) /\ 1 .. n # {}
          /\ Max(1 .. n) = n /\ (1 .. n) \ {Max(1 .. n)} = 1 .. n - 1
      BY <1>2, MaxOfFirst
    <2>2. it[1 .. n] = Tell(it[(1 .. n) \ {Max(1 .. n)}], cs[Max(1 .. n)])
      BY <1>2, <1>9, <2>1
    <2>3. it[1 .. n] = Tell(it[1 .. n - 1], cs[n])
      BY <2>1, <2>2
    <2>4. n \in 0 .. Len(cs) /\ n - 1 \in 0 .. Len(cs)
      BY <1>2
    <2> QED BY <2>3, <2>4
  <1>12. f[Len(cs)] = it[DOMAIN cs]
    BY <1>2
  <1>13. f = [n \in 0 .. Len(cs) |-> f[n]]
    OBVIOUS
  <1> HIDE DEF f
  <1>14. \A n \in Nat : n <= Len(cs) => f[n] \in Listeners
    <2> DEFINE S == {n \in Nat : n <= Len(cs) => f[n] \in Listeners}
    <2>1. 0 \in S
      BY <1>10
    <2>2. ASSUME NEW n \in Nat, n \in S PROVE n + 1 \in S
      <3> SUFFICES ASSUME n + 1 <= Len(cs) PROVE f[n + 1] \in Listeners
        OBVIOUS
      <3>1. n <= Len(cs) /\ n + 1 \in 1 .. Len(cs) /\ (n + 1) - 1 = n
        BY <1>2
      <3>2. f[n] \in Listeners /\ cs[n + 1] \in Events
        BY <2>2, <3>1, <1>2
      <3>3. f[n + 1] = Tell(f[n], cs[n + 1])
        BY <3>1, <1>11
      <3> QED BY <3>2, <3>3, TellKeeps
    <2> HIDE DEF S
    <2>3. \A n \in Nat : n \in S
      BY <2>1, <2>2, Climbing
    <2> QED BY <2>3 DEF S
  <1>15. f \in [0 .. Len(cs) -> Listeners]
    BY <1>2, <1>13, <1>14
  <1>16. f \in TellRuns(m, cs)
    BY <1>10, <1>11, <1>15 DEF TellRuns
  <1> QED BY <1>1, <1>12, <1>16

LEMMA TellShort ==
    ASSUME NEW l \in Listeners, NEW d \in Events, NEW e \in Events
    PROVE  /\ FoldLeft(Tell, l, <<>>) = l
           /\ FoldLeft(Tell, l, <<d>>) = Tell(l, d)
           /\ FoldLeft(Tell, l, <<d, e>>) = Tell(Tell(l, d), e)
  <1>1. FoldLeft(Tell, l, <<>>) = l
    <2>1. <<>> \in Seq(Events) /\ Len(<<>>) = 0
      OBVIOUS
    <2>2. PICK f \in TellRuns(l, <<>>) : FoldLeft(Tell, l, <<>>) = f[Len(<<>>)]
      BY <2>1, TellOneByOne
    <2>3. f[0] = l
      BY <2>2 DEF TellRuns
    <2> QED BY <2>1, <2>2, <2>3
  <1>2. FoldLeft(Tell, l, <<d>>) = Tell(l, d)
    <2> PICK s : s = <<d>>
      OBVIOUS
    <2>1. s \in Seq(Events) /\ Len(s) = 1 /\ s[1] = d
      OBVIOUS
    <2>2. PICK f \in TellRuns(l, s) : FoldLeft(Tell, l, s) = f[Len(s)]
      BY <2>1, TellOneByOne
    <2>3. f[0] = l /\ \A n \in 1 .. Len(s) : f[n] = Tell(f[n - 1], s[n])
      BY <2>2 DEF TellRuns
    <2>4. 1 \in 1 .. Len(s) /\ 1 - 1 = 0
      BY <2>1
    <2>5. f[1] = Tell(f[0], s[1])
      BY <2>3, <2>4
    <2> QED BY <2>1, <2>2, <2>3, <2>5
  <1>3. FoldLeft(Tell, l, <<d, e>>) = Tell(Tell(l, d), e)
    <2> PICK s : s = <<d, e>>
      OBVIOUS
    <2>1. s \in Seq(Events) /\ Len(s) = 2 /\ s[1] = d /\ s[2] = e
      OBVIOUS
    <2>2. PICK f \in TellRuns(l, s) : FoldLeft(Tell, l, s) = f[Len(s)]
      BY <2>1, TellOneByOne
    <2>3. f[0] = l /\ \A n \in 1 .. Len(s) : f[n] = Tell(f[n - 1], s[n])
      BY <2>2 DEF TellRuns
    <2>4. 1 \in 1 .. Len(s) /\ 1 - 1 = 0 /\ 2 \in 1 .. Len(s) /\ 2 - 1 = 1
      BY <2>1
    <2>5. f[1] = Tell(f[0], s[1]) /\ f[2] = Tell(f[1], s[2])
      BY <2>3, <2>4
    <2> QED BY <2>1, <2>2, <2>3, <2>5
  <1> QED BY <1>1, <1>2, <1>3

LEMMA AppendToJoined ==
    ASSUME NEW T, NEW o \in Seq(T), NEW s \in Seq(T), NEW e \in T
    PROVE  Append(Joined(o, s), e) = Joined(o, Append(s, e))
  <1> PICK u, v : u = Append(o \o s, e) /\ v = o \o Append(s, e)
    OBVIOUS
  <1> PICK m \in Nat, n \in Nat : m = Len(o) /\ n = Len(s)
    OBVIOUS
  <1>1. /\ o \o s \in Seq(T) /\ Len(o \o s) = m + n
        /\ \A i \in 1 .. m : (o \o s)[i] = o[i]
        /\ \A i \in 1 .. n : (o \o s)[m + i] = s[i]
    OBVIOUS
  <1>2. /\ u \in Seq(T) /\ Len(u) = m + n + 1 /\ u[m + n + 1] = e
        /\ \A i \in 1 .. m + n : u[i] = (o \o s)[i]
    BY <1>1, AppendProperties
  <1>3. Append(s, e) \in Seq(T) /\ Len(Append(s, e)) = n + 1 /\ Append(s, e)[n + 1] = e
        /\ \A i \in 1 .. n : Append(s, e)[i] = s[i]
    BY AppendProperties
  <1>4. /\ v \in Seq(T) /\ Len(v) = m + n + 1
        /\ \A i \in 1 .. m : v[i] = o[i]
        /\ \A i \in 1 .. n + 1 : v[m + i] = Append(s, e)[i]
    BY <1>3
  <1>5. ASSUME NEW i \in 1 .. m + n + 1 PROVE u[i] = v[i]
    <2>1. CASE i \in 1 .. m
      BY <1>1, <1>2, <1>4, <2>1
    <2>2. CASE i = m + n + 1
      <3>1. n + 1 \in 1 .. n + 1 /\ m + (n + 1) = i
        BY <2>2
      <3> QED BY <1>2, <1>3, <1>4, <2>2, <3>1
    <2>3. CASE i \in m + 1 .. m + n
      <3> PICK k \in 1 .. n : i = m + k
        <4>1. i - m \in 1 .. n /\ i = m + (i - m)
          BY <2>3
        <4> QED BY <4>1
      <3>1. k \in 1 .. n + 1 /\ i \in 1 .. m + n
        BY <2>3
      <3>2. v[m + k] = Append(s, e)[k]
        BY <1>4, <3>1
      <3>3. u[m + k] = (o \o s)[m + k]
        BY <1>2, <3>1
      <3> QED BY <1>1, <1>3, <3>2, <3>3
    <2> QED BY <2>1, <2>2, <2>3
  <1>6. u = v
    BY <1>2, <1>4, <1>5, SeqEqual
  <1> QED BY <1>6 DEF Joined

LEMMA JoinedNone ==
    ASSUME NEW T, NEW o \in Seq(T) PROVE Joined(o, <<>>) = o /\ Joined(<<>>, o) = o
  BY ConcatEmptySeq DEF Joined

Said == Seq(ClientMessages)

LEMMA SaidMore ==
    \A o, s \in Said, e \in ClientMessages : Append(Joined(o, s), e) = Joined(o, Append(s, e))
  BY AppendToJoined DEF Said

\* Quiet events are told as they are.
LEMMA QuietAllTold ==
    ASSUME NEW l \in Listeners, NEW events \in Seq(QuietEvents), NEW c, c = FoldLeft(Tell, l, events)
    PROVE  /\ c \in Listeners /\ c.out = l.out \o events
           /\ c.held = l.held /\ c.buffer = l.buffer /\ c.style = l.style
           /\ c.input = l.input /\ c.closed = l.closed /\ c.wanted = l.wanted
           /\ Voiced /\ (l.styles = Schedule \/ (events # <<>> /\ events[1].kind = "emotion_plan")) => c.styles = Schedule
  <1> PICK N \in Nat : N = Len(events)
    OBVIOUS
  <1>0. QuietEvents \subseteq Events /\ QuietEvents \subseteq ClientMessages
    BY DoneIsEvent DEF QuietEvents, Events, ClientMessages
  <1>1. events \in Seq(Events) /\ events \in Seq(ClientMessages) /\ l.out \in Seq(ClientMessages)
    BY <1>0, SeqMonotonic DEF Listeners, ListenersUpTo
  <1>2. PICK f \in TellRuns(l, events) : FoldLeft(Tell, l, events) = f[Len(events)]
    BY <1>1, TellOneByOne
  <1>3. f \in [0 .. N -> Listeners] /\ f[0] = l /\ \A n \in 1 .. N : f[n] = Tell(f[n - 1], events[n])
    BY <1>2 DEF TellRuns
  <1> DEFINE Same(x) == /\ x.held = l.held /\ x.buffer = l.buffer /\ x.style = l.style
                        /\ x.input = l.input /\ x.closed = l.closed /\ x.wanted = l.wanted
             Styled(n, x) == Voiced /\ (l.styles = Schedule \/ (n >= 1 /\ events[1].kind = "emotion_plan")) => x.styles = Schedule
             P(n) == Same(f[n]) /\ f[n].out = Joined(l.out, SubSeq(events, 1, n)) /\ Styled(n, f[n])
             S == {n \in Nat : n <= N => P(n)}
  <1>4. 0 \in S
    <2> PICK o : o = l.out
      OBVIOUS
    <2>0. o \in Seq(ClientMessages)
      BY <1>1
    <2>2. Joined(o, <<>>) = o
      BY <2>0, JoinedNone
    <2>3. SubSeq(events, 1, 0) = <<>>
      OBVIOUS
    <2>1. SubSeq(events, 1, 0) = <<>> /\ Joined(l.out, <<>>) = l.out
      BY <2>2, <2>3
    <2> QED BY <1>3, <2>1
  <1>5. ASSUME NEW n \in Nat, n \in S PROVE n + 1 \in S
    <2> SUFFICES ASSUME n + 1 <= N PROVE P(n + 1)
      <3> HIDE DEF P
      <3> QED OBVIOUS
    <2>1. n <= N /\ n + 1 \in 1 .. N /\ (n + 1) - 1 = n /\ n \in 0 .. N
      OBVIOUS
    <2>2. P(n)
      <3> HIDE DEF P
      <3> QED BY <1>5, <2>1
    <2> PICK x \in Listeners : x = f[n]
      BY <1>3, <2>1
    <2> PICK e \in QuietEvents : e = events[n + 1]
      BY <2>1
    <2> PICK y : y = Tell(x, e)
      OBVIOUS
    <2>3. f[n + 1] = y
      BY <1>3, <2>1
    <2>4. /\ y \in Listeners /\ y.out = Append(x.out, e)
          /\ y.held = x.held /\ y.buffer = x.buffer /\ y.style = x.style
          /\ y.input = x.input /\ y.closed = x.closed /\ y.wanted = x.wanted
          /\ Voiced /\ (x.styles = Schedule \/ e.kind = "emotion_plan") => y.styles = Schedule
      BY QuietTold
    <2>5. Same(y)
      BY <2>2, <2>4
    <2>6. y.out = Joined(l.out, SubSeq(events, 1, n + 1))
      <3> PICK o, s : o = l.out /\ s = SubSeq(events, 1, n)
        OBVIOUS
      <3>1. s \in Said /\ o \in Said /\ e \in ClientMessages
        BY <1>0, <1>1, <2>1 DEF Said
      <3>2. SubSeq(events, 1, n + 1) = Append(s, e)
        BY <2>1
      <3>3. x.out = Joined(o, s)
        BY <2>2
      <3>4. Append(Joined(o, s), e) = Joined(o, Append(s, e))
        BY <3>1, SaidMore
      <3> QED BY <2>4, <3>2, <3>3, <3>4
    <2>7. Styled(n + 1, y)
      <3>1. CASE n = 0
        BY <2>2, <2>4, <3>1
      <3>2. CASE n # 0
        <4>1. n >= 1
          BY <3>2
        <4>2. Styled(n, x)
          BY <2>2
        <4> QED BY <2>4, <4>1, <4>2
      <3> QED BY <3>1, <3>2
    <2> HIDE DEF Same, Styled
    <2> QED BY <2>3, <2>5, <2>6, <2>7
  <1>6. \A n \in Nat : n \in S
    <2> HIDE DEF S
    <2> QED BY <1>4, <1>5, Climbing
  <1>7. P(N)
    <2> HIDE DEF P
    <2> QED BY <1>6
  <1>8. SubSeq(events, 1, N) = events /\ (events # <<>> => N >= 1) /\ N \in 0 .. N
    BY EmptySeq, SubSeqFull
  <1>9. c = f[N] /\ c \in Listeners
    BY <1>2, <1>3, <1>8
  <1>10. Joined(l.out, SubSeq(events, 1, N)) = l.out \o events
    BY <1>8, Zenon DEF Joined
  <1> QED BY <1>7, <1>8, <1>9, <1>10
-----------------------------------------------------------------------------
\* A listener that has heard nothing of an answer.
Silent(l) ==
    /\ l \in Listeners
    /\ l.held = <<>> /\ l.buffer = <<>> /\ l.style = "none" /\ l.out = <<>>
    /\ ~l.wanted
    /\ l.input = IF l.closed THEN One(CloseMark) ELSE <<>>

\* One that is being told the answer, and the voice with it.
Ready(l, x) ==
    /\ l \in Listeners /\ ~l.closed
    /\ IF Voiced THEN Speaks(l, x) ELSE ~l.wanted /\ l.input = <<>>

\* One that has been told it.
Heard(l, x) ==
    /\ l \in Listeners /\ InputEnds(l)
    /\ IF Voiced
         THEN /\ l.styles = Schedule
              /\ TextLine(l) = Clean(x) /\ Dresses(TagsOf(x), StyleLine(l))
              /\ l.wanted => Clean(x) # <<>>
         ELSE ~l.wanted

LEMMA SilentIsReady ==
    ASSUME NEW l, Silent(l), ~l.closed, Voiced => l.styles = Schedule
    PROVE  Ready(l, <<>>) /\ l.held = <<>> /\ l.out = <<>>
  <1>1. l \in Listeners /\ l.held = <<>> /\ l.out = <<>> /\ l.buffer = <<>> /\ l.input = <<>> /\ l.style = "none" /\ ~l.wanted
    BY DEF Silent
  <1>2. CASE Voiced
    <2>1. TextLine(l) = <<>>
      <3>1. TextLine(l) = <<>> \o <<>>
        BY <1>1, TextsOfNone, Zenon DEF TextLine
      <3> QED BY <3>1
    <2>2. StyleLine(l) = <<>>
      <3>1. AllOf(l.style, <<>>) = <<>>
        BY DEF AllOf
      <3>2. StyleLine(l) = <<>> \o <<>>
        BY <1>1, <3>1, TextsOfNone, Zenon DEF StyleLine
      <3> QED BY <3>2
    <2>3. Dresses(<<>>, <<>>)
      BY DEF Dresses
    <2>4. TagAt(<<>>, Len(<<>>)) = "none"
      <3>1. Len(<<>>) = 0
        OBVIOUS
      <3> QED BY <3>1, CleanOfNone
    <2>5. MarkFree(l)
      <3>1. Len(l.input) = 0
        BY <1>1
      <3> QED BY <3>1 DEF MarkFree
    <2>6. Speaks(l, <<>>)
      BY <1>1, <1>2, <2>1, <2>2, <2>3, <2>4, <2>5, CleanOfNone DEF Speaks
    <2> QED BY <1>1, <1>2, <2>6 DEF Ready
  <1>3. CASE ~Voiced
    BY <1>1, <1>3 DEF Ready
  <1> QED BY <1>2, <1>3

\* What matters of a listener that is told something else.
LEMMA ReadyStays ==
    ASSUME NEW l, NEW x, Ready(l, x), NEW c \in Listeners,
           c.buffer = l.buffer, c.style = l.style, c.styles = l.styles,
           c.input = l.input, c.closed = l.closed, c.wanted = l.wanted
    PROVE  Ready(c, x)
  <1>1. CASE Voiced
    <2>1. Speaks(l, x)
      BY <1>1 DEF Ready
    <2>2. TextLine(c) = TextLine(l) /\ StyleLine(c) = StyleLine(l)
      BY Zenon DEF TextLine, StyleLine
    <2>3. MarkFree(c)
      BY <2>1 DEF Speaks, MarkFree
    <2>4. Speaks(c, x)
      BY <2>1, <2>2, <2>3 DEF Speaks
    <2> QED BY <1>1, <2>4 DEF Ready
  <1>2. CASE ~Voiced
    BY <1>2 DEF Ready
  <1> QED BY <1>1, <1>2

LEMMA HeardStays ==
    ASSUME NEW l, NEW x, Heard(l, x), NEW c \in Listeners,
           c.buffer = l.buffer, c.style = l.style, c.styles = l.styles,
           c.input = l.input, c.closed = l.closed, c.wanted = l.wanted
    PROVE  Heard(c, x)
  <1>1. TextLine(c) = TextLine(l) /\ StyleLine(c) = StyleLine(l)
    BY Zenon DEF TextLine, StyleLine
  <1>2. InputEnds(c)
    BY DEF Heard, InputEnds, MarkFree
  <1> QED BY <1>1, <1>2 DEF Heard

LEMMA ReadyHolds ==
    ASSUME NEW l, NEW x, Ready(l, x), NEW h \in Seq(Tokens), NEW c, c = [l EXCEPT !.held = h]
    PROVE  Ready(c, x) /\ c.held = h /\ c.out = l.out
  <1>1. l \in Listeners
    BY DEF Ready
  <1>2. /\ c \in Listeners /\ c.held = h
        /\ c.buffer = l.buffer /\ c.style = l.style /\ c.styles = l.styles
        /\ c.input = l.input /\ c.closed = l.closed /\ c.wanted = l.wanted /\ c.out = l.out
    BY <1>1, HeldIsSet
  <1> QED BY <1>2, ReadyStays

LEMMA ReadyShows ==
    ASSUME NEW l, NEW x, Ready(l, x), NEW text \in Seq(Tokens)
    PROVE  /\ Ready(Show(l, text), x)
           /\ Show(l, text).held = l.held /\ Show(l, text).out = ShowOn(l.out, text)
  <1> PICK c : c = Show(l, text)
    OBVIOUS
  <1>1. l \in Listeners
    BY DEF Ready
  <1>2. c \in Listeners /\ SameEar(l, c) /\ c.out = ShowOn(l.out, text)
    BY <1>1, ShowGives
  <1>3. Ready(c, x)
    BY <1>2, ReadyStays DEF SameEar
  <1> QED BY <1>2, <1>3 DEF SameEar

LEMMA ReadySpeaks ==
    ASSUME NEW l, Ready(l, <<>>), NEW tokens \in Seq(Tokens)
    PROVE  /\ Ready(FeedSpeech(l, tokens), tokens)
           /\ FeedSpeech(l, tokens).held = l.held /\ FeedSpeech(l, tokens).out = l.out
  <1> PICK c : c = FeedSpeech(l, tokens)
    OBVIOUS
  <1>1. CASE Voiced
    <2>1. Speaks(l, <<>>)
      BY <1>1 DEF Ready
    <2>2. c = FoldLeft(Feed, l, tokens)
      BY <1>1 DEF FeedSpeech
    <2>3. Speaks(c, tokens) /\ SameTalk(l, c)
      BY <2>1, <2>2, TextSpeaks
    <2> QED BY <1>1, <2>3 DEF Ready, SameTalk, Speaks
  <1>2. CASE ~Voiced
    <2>1. c = l
      BY <1>2 DEF FeedSpeech
    <2> QED BY <1>2, <2>1 DEF Ready
  <1> QED BY <1>1, <1>2

LEMMA ReadyHalf ==
    ASSUME NEW l, NEW x \in Seq(Tokens), Ready(l, x), NEW t \in Tokens
    PROVE  /\ Ready(FeedSpeech(l, <<t>>), Append(x, t))
           /\ FeedSpeech(l, <<t>>).held = l.held /\ FeedSpeech(l, <<t>>).out = l.out
  <1> PICK c : c = FeedSpeech(l, <<t>>)
    OBVIOUS
  <1>1. CASE Voiced
    <2>1. Speaks(l, x) /\ l \in Listeners
      BY <1>1 DEF Ready
    <2>2. c = FoldLeft(Feed, l, <<t>>)
      BY <1>1 DEF FeedSpeech
    <2>3. c = Feed(l, t)
      BY <2>1, <2>2, FeedShort
    <2>4. Speaks(c, Append(x, t)) /\ SameTalk(l, c)
      BY <2>1, <2>3, FeedSpeaks
    <2> QED BY <1>1, <2>4 DEF Ready, SameTalk, Speaks
  <1>2. CASE ~Voiced
    <2>1. c = l
      BY <1>2 DEF FeedSpeech
    <2> QED BY <1>2, <2>1 DEF Ready
  <1> QED BY <1>1, <1>2

LEMMA NothingFed ==
    ASSUME NEW l \in Listeners PROVE FeedSpeech(l, <<>>) = l /\ Show(l, <<>>) = l
  <1> PICK t \in Tokens : t = "half"
    BY StreamConstants DEF PlainTokens
  <1>1. FoldLeft(Feed, l, <<>>) = l
    BY FeedShort
  <1> QED BY <1>1 DEF FeedSpeech, Show

LEMMA ReadyIsHeard ==
    ASSUME NEW l, NEW x, Ready(l, x)
    PROVE  Heard(l, x)
  <1>1. CASE Voiced
    BY <1>1 DEF Ready, Heard, Speaks, InputEnds
  <1>2. CASE ~Voiced
    <2>1. Len(l.input) = 0
      BY <1>2 DEF Ready
    <2> QED BY <1>2, <2>1 DEF Ready, Heard, InputEnds, MarkFree
  <1> QED BY <1>1, <1>2

LEMMA HeardCloses ==
    ASSUME NEW l, NEW x, Heard(l, x), NEW c, c = CloseInput(l)
    PROVE  Heard(c, x) /\ c.out = l.out /\ (Voiced => c.closed) /\ (l.wanted => c.wanted)
           /\ (l.closed => c = l)
  <1>1. CASE Voiced /\ ~l.closed
    <2>1. /\ l \in Listeners /\ MarkFree(l) /\ l.styles = Schedule
          /\ TextLine(l) = Clean(x) /\ Dresses(TagsOf(x), StyleLine(l)) /\ (l.wanted => TextLine(l) # <<>>)
      BY <1>1 DEF Heard, InputEnds
    <2>2. /\ c \in Listeners /\ InputEnds(c) /\ c.closed
          /\ c.out = l.out /\ c.styles = Schedule /\ (l.wanted => c.wanted)
          /\ TextLine(c) = TextLine(l) /\ Dresses(StyleLine(l), StyleLine(c))
          /\ c.wanted => TextLine(l) # <<>>
      BY <1>1, <2>1, CloseGives
    <2>3. Dresses(TagsOf(x), StyleLine(c))
      BY <2>1, <2>2, DressesOn
    <2> QED BY <1>1, <2>1, <2>2, <2>3 DEF Heard
  <1>2. CASE ~(Voiced /\ ~l.closed)
    <2>1. c = l
      BY <1>2 DEF CloseInput
    <2> QED BY <1>2, <2>1
  <1> QED BY <1>1, <1>2
-----------------------------------------------------------------------------
\* An answer is told: what is held back of its text is told when it ends.
LEMMA DeltaTold ==
    ASSUME NEW l, Ready(l, <<>>), l.held = <<>>, NEW text \in Seq(Tokens), NEW c, c = TellDelta(l, text)
    PROVE  /\ Strips => /\ Ready(c, Spoken(text)) /\ c.held = Held(text)
                        /\ c.out = ShowOn(l.out, Clean(Spoken(text)))
           /\ ~Strips => Ready(c, <<>>) /\ c.out = ShowOn(l.out, text)
  <1>1. CASE ~Strips
    <2>1. c = Show(l, text)
      BY <1>1 DEF TellDelta
    <2> QED BY <1>1, <2>1, ReadyShows
  <1>2. CASE Strips
    <2> PICK h, b : h = Held(text) /\ b = Spoken(text)
      OBVIOUS
    <2> PICK m : m = [l EXCEPT !.held = h]
      OBVIOUS
    <2> PICK f : f = FeedSpeech(m, b)
      OBVIOUS
    <2>1. <<>> \o text = text
      BY ConcatEmptySeq
    <2>2. c = Show(f, Clean(b))
      BY <1>2, <2>1 DEF TellDelta, Spoken
    <2>3. h \in Seq(Tokens) /\ b \in Seq(Tokens) /\ Clean(b) \in Seq(Tokens)
      BY HeldGives, CleanType
    <2>4. Ready(m, <<>>) /\ m.held = h /\ m.out = l.out
      BY <2>3, ReadyHolds
    <2>5. Ready(f, b) /\ f.held = h /\ f.out = l.out
      BY <2>3, <2>4, ReadySpeaks
    <2>6. Ready(c, b) /\ c.held = h /\ c.out = ShowOn(l.out, Clean(b))
      <3> PICK t \in Seq(Tokens) : t = Clean(b)
        BY <2>3
      <3>1. Ready(Show(f, t), b) /\ Show(f, t).held = f.held /\ Show(f, t).out = ShowOn(f.out, t)
        BY <2>5, ReadyShows
      <3> QED BY <2>2, <2>5, <3>1
    <2> QED BY <1>2, <2>6
  <1> QED BY <1>1, <1>2

LEMMA DoneTold ==
    ASSUME NEW l, NEW x \in Seq(Tokens), Ready(l, x), NEW c, c = TellDone(l),
           NEW y, \/ l.held = <<>> /\ y = x
                  \/ l.held = <<"half">> /\ y = Append(x, "half")
    PROVE  /\ Strips => /\ Heard(c, y) /\ c.out = ShowOn(l.out, l.held) /\ (Voiced => c.closed)
           /\ ~Strips => c = l
  <1>1. CASE ~Strips
    BY <1>1 DEF TellDone
  <1>2. CASE Strips
    <2> PICK h, m : h = l.held /\ m = [l EXCEPT !.held = <<>>]
      OBVIOUS
    <2> PICK f, s : f = FeedSpeech(m, h) /\ s = Show(f, h)
      OBVIOUS
    <2>1. c = CloseInput(s)
      BY <1>2 DEF TellDone
    <2>2. h \in Seq(Tokens) /\ <<>> \in Seq(Tokens) /\ "half" \in Tokens
      <3>1. l \in Listeners
        BY DEF Ready
      <3> QED BY <3>1, StreamConstants DEF Listeners, ListenersUpTo, PlainTokens
    <2>3. Ready(m, x) /\ m.out = l.out
      BY <2>2, ReadyHolds
    <2>4. Ready(f, y) /\ f.out = l.out
      <3>1. CASE h = <<>> /\ y = x
        <4>1. f = m
          BY <2>3, <3>1, NothingFed DEF Ready
        <4> QED BY <2>3, <3>1, <4>1
      <3>2. CASE h = <<"half">> /\ y = Append(x, "half")
        <4> PICK t \in Tokens : t = "half"
          BY <2>2
        <4>1. f = FeedSpeech(m, <<t>>)
          BY <3>2
        <4> QED BY <2>3, <3>2, <4>1, ReadyHalf
      <3> QED BY <3>1, <3>2
    <2>5. Ready(s, y) /\ s.out = ShowOn(l.out, h)
      BY <2>2, <2>4, ReadyShows
    <2>6. Heard(s, y)
      BY <2>5, ReadyIsHeard
    <2>7. Heard(c, y) /\ c.out = s.out /\ (Voiced => c.closed)
      BY <2>1, <2>6, HeardCloses
    <2> QED BY <1>2, <2>5, <2>7
  <1> QED BY <1>1, <1>2

ShownText(x) == IF Strips THEN Clean(x) ELSE x

LEMMA HalfIsShown ==
    ASSUME NEW text \in Seq(Tokens)
    PROVE  Clean(Spoken(text)) \in Seq(Tokens) /\ Clean(text) = Clean(Spoken(text)) \o Held(text)
  <1> PICK b, h : b = Spoken(text) /\ h = Held(text)
    OBVIOUS
  <1>1. b \in Seq(Tokens) /\ Clean(b) \in Seq(Tokens)
    BY HeldGives, CleanType
  <1>2. CASE h = <<>> /\ b = text
    <2>1. Clean(b) \o <<>> = Clean(b)
      BY <1>1, ConcatEmptySeq
    <2> QED BY <1>1, <1>2, <2>1
  <1>3. CASE h = <<"half">> /\ text = Append(b, "half")
    <2> PICK t \in Tokens : t = "half" /\ t \notin Tags
      BY StreamConstants DEF PlainTokens
    <2>1. Clean(Append(b, t)) = Clean(b) \o (IF t \in Tags THEN <<>> ELSE <<t>>)
      BY <1>1, CleanAppend
    <2> QED BY <1>1, <1>3, <2>1
  <1> QED BY <1>2, <1>3, HeldGives

\* A reply: its text in one or two deltas, and the end of the answer.
LEMMA ReplyTold ==
    ASSUME NEW l, Silent(l), ~l.closed, Voiced => l.styles = Schedule, NEW text \in Seq(Tokens),
           NEW c, c = FoldLeft(Tell, l, <<Delta(text), Done(FALSE)>>)
    PROVE  /\ Heard(c, text)
           /\ \E a, b \in Seq(Tokens) :
                 c.out = Append(ShowOn(ShowOn(<<>>, a), b), Done(FALSE)) /\ a \o b = ShownText(text)
  <1>1. Ready(l, <<>>) /\ l.held = <<>> /\ l.out = <<>> /\ l \in Listeners
    BY SilentIsReady DEF Silent
  <1> PICK m, d : m = TellDelta(l, text) /\ d = TellDone(m)
    OBVIOUS
  <1>2. c = Say(d, Done(FALSE))
    <2>1. Delta(text) \in Events /\ Done(FALSE) \in Events
      BY DeltaIsEvent, DoneIsEvent
    <2>2. c = Tell(Tell(l, Delta(text)), Done(FALSE))
      BY <1>1, <2>1, TellShort
    <2>3. Tell(l, Delta(text)) = m /\ Tell(m, Done(FALSE)) = Say(d, Done(FALSE))
      BY TellIs
    <2> QED BY <2>2, <2>3
  <1>3. \E a, b \in Seq(Tokens) : Heard(d, text) /\ d.out = ShowOn(ShowOn(<<>>, a), b) /\ a \o b = ShownText(text)
    <2>1. CASE Strips
      <3> PICK a, b, h : b = Spoken(text) /\ h = Held(text) /\ a = Clean(b)
        OBVIOUS
      <3>1. Ready(m, b) /\ m.held = h /\ m.out = ShowOn(<<>>, a)
        BY <1>1, <2>1, DeltaTold
      <3>2. /\ h \in Seq(Tokens) /\ b \in Seq(Tokens)
            /\ (h = <<>> /\ b = text) \/ (h = <<"half">> /\ text = Append(b, "half"))
        BY HeldGives
      <3>3. Heard(d, text) /\ d.out = ShowOn(ShowOn(<<>>, a), h)
        BY <2>1, <3>1, <3>2, DoneTold
      <3>4. a \in Seq(Tokens) /\ a \o h = ShownText(text)
        BY <2>1, HalfIsShown DEF ShownText
      <3> QED BY <3>2, <3>3, <3>4
    <2>2. CASE ~Strips
      <3>1. Ready(m, <<>>) /\ m.out = ShowOn(<<>>, text)
        BY <1>1, <2>2, DeltaTold
      <3>2. d = m
        BY <2>2 DEF TellDone
      <3>3. ~Voiced
        BY <2>2 DEF Voiced, Strips
      <3>4. Heard(d, text)
        BY <3>1, <3>2, <3>3, ReadyIsHeard DEF Heard
      <3>5. d.out = ShowOn(ShowOn(<<>>, text), <<>>)
        BY <3>1, <3>2 DEF ShowOn
      <3>6. <<>> \in Seq(Tokens) /\ text \o <<>> = text
        BY ConcatEmptySeq
      <3> QED BY <2>2, <3>4, <3>5, <3>6 DEF ShownText
    <2> QED BY <2>1, <2>2
  <1>4. Heard(d, text) /\ d \in Listeners
    BY <1>3 DEF Heard
  <1>5. c \in Listeners /\ SameEar(d, c) /\ c.out = Append(d.out, Done(FALSE))
    BY <1>2, <1>4, SayGives, DoneIsEvent
  <1>6. Heard(c, text)
    BY <1>4, <1>5, HeardStays DEF SameEar
  <1> QED BY <1>3, <1>5, <1>6
-----------------------------------------------------------------------------
\* What the listener keeps when its messages are in the queue.
Emptied(l) == [l EXCEPT !.out = <<>>]

LEMMA EmptiedGives ==
    ASSUME NEW l \in Listeners
    PROVE  /\ Emptied(l) \in Listeners /\ Emptied(l).out = <<>>
           /\ Emptied(l).held = l.held /\ Emptied(l).buffer = l.buffer /\ Emptied(l).style = l.style
           /\ Emptied(l).styles = l.styles /\ Emptied(l).input = l.input
           /\ Emptied(l).closed = l.closed /\ Emptied(l).wanted = l.wanted
  <1> PICK o, c : o = <<>> /\ c = [l EXCEPT !.out = o]
    OBVIOUS
  <1>1. o \in Seq(ClientMessages)
    OBVIOUS
  <1>2. /\ c \in Listeners /\ c.out = o
        /\ c.held = l.held /\ c.buffer = l.buffer /\ c.style = l.style
        /\ c.styles = l.styles /\ c.input = l.input
        /\ c.closed = l.closed /\ c.wanted = l.wanted
    BY <1>1 DEF Listeners, ListenersUpTo
  <1> QED BY <1>2 DEF Emptied

LEMMA EmptiedIsHeard ==
    ASSUME NEW l, NEW x, Heard(l, x)
    PROVE  Heard(Emptied(l), x) /\ Emptied(l).out = <<>>
  <1> PICK c : c = Emptied(l)
    OBVIOUS
  <1>1. l \in Listeners
    BY DEF Heard
  <1>2. /\ c \in Listeners /\ c.out = <<>>
        /\ c.buffer = l.buffer /\ c.style = l.style
        /\ c.styles = l.styles /\ c.input = l.input
        /\ c.closed = l.closed /\ c.wanted = l.wanted
    BY <1>1, EmptiedGives
  <1> QED BY <1>2, HeardStays

\* The events of a round leave the listener silent.
LEMMA QuietIsSilent ==
    ASSUME NEW l, Silent(l), NEW events \in Seq(QuietEvents), NEW c, c = FoldLeft(Tell, l, events)
    PROVE  /\ c.out = events /\ Silent(Emptied(c)) /\ Emptied(c).closed = l.closed
           /\ Voiced /\ (l.styles = Schedule \/ (events # <<>> /\ events[1].kind = "emotion_plan"))
                => Emptied(c).styles = Schedule
  <1>1. /\ l \in Listeners
        /\ l.held = <<>> /\ l.buffer = <<>> /\ l.style = "none" /\ l.out = <<>>
        /\ ~l.wanted
        /\ l.input = IF l.closed THEN One(CloseMark) ELSE <<>>
    BY DEF Silent
  <1>2. /\ c \in Listeners /\ c.out = l.out \o events
        /\ c.held = l.held /\ c.buffer = l.buffer /\ c.style = l.style
        /\ c.input = l.input /\ c.closed = l.closed /\ c.wanted = l.wanted
        /\ Voiced /\ (l.styles = Schedule \/ (events # <<>> /\ events[1].kind = "emotion_plan")) => c.styles = Schedule
    BY <1>1, QuietAllTold
  <1> PICK d : d = Emptied(c)
    OBVIOUS
  <1>3. /\ d \in Listeners /\ d.out = <<>>
        /\ d.held = c.held /\ d.buffer = c.buffer /\ d.style = c.style
        /\ d.styles = c.styles /\ d.input = c.input
        /\ d.closed = c.closed /\ d.wanted = c.wanted
    BY <1>2, EmptiedGives
  <1>4. Silent(d)
    BY <1>1, <1>2, <1>3 DEF Silent
  <1>5. c.out = events
    <2>1. c.out = <<>> \o events
      BY <1>1, <1>2
    <2> QED BY <2>1, ConcatEmptySeq
  <1> QED BY <1>2, <1>3, <1>4, <1>5

\* Nothing was said, and there is nothing to say.
LEMMA EmptyTold ==
    ASSUME NEW l, Silent(l), ~l.closed, NEW c, c = FoldLeft(Tell, l, <<Done(FALSE)>>)
    PROVE  c.out = <<Done(FALSE)>> /\ Silent(Emptied(c))
  <1>1. /\ l \in Listeners
        /\ l.held = <<>> /\ l.buffer = <<>> /\ l.style = "none" /\ l.out = <<>>
        /\ ~l.wanted /\ l.input = <<>>
    BY DEF Silent
  <1> PICK d : d = TellDone(l)
    OBVIOUS
  <1>2. c = Say(d, Done(FALSE))
    <2>1. c = Tell(l, Done(FALSE))
      BY <1>1, DoneIsEvent, TellShort
    <2> QED BY <2>1, TellIs
  <1>3. /\ d \in Listeners /\ d.out = <<>>
        /\ d.held = <<>> /\ d.buffer = <<>> /\ d.style = "none" /\ ~d.wanted
        /\ d.input = IF d.closed THEN One(CloseMark) ELSE <<>>
    <2>1. CASE ~Strips
      <3>1. d = l
        BY <2>1 DEF TellDone
      <3> QED BY <1>1, <3>1
    <2>2. CASE Strips
      <3> PICK h, z : h = l.held /\ z = <<>>
        OBVIOUS
      <3> PICK m : m = [l EXCEPT !.held = z]
        OBVIOUS
      <3>1. z \in Seq(Tokens)
        OBVIOUS
      <3>2. /\ m \in Listeners /\ m.held = <<>>
            /\ m.buffer = <<>> /\ m.style = "none"
            /\ m.input = <<>> /\ ~m.closed /\ ~m.wanted /\ m.out = <<>>
        BY <1>1, <3>1 DEF Listeners, ListenersUpTo
      <3>3. FeedSpeech(m, h) = m /\ Show(m, h) = m
        BY <1>1, <3>2, NothingFed
      <3>4. d = CloseInput(m)
        BY <2>2, <3>3 DEF TellDone
      <3>5. CASE Voiced
        <4> PICK f : f = FlushText(m)
          OBVIOUS
        <4>1. f = m
          BY <3>2 DEF FlushText
        <4>2. /\ d \in Listeners /\ d.closed /\ d.buffer = f.buffer /\ d.input = Append(f.input, CloseMark)
              /\ d.held = m.held /\ d.out = m.out /\ d.style = f.style /\ d.wanted = f.wanted
          BY <3>2, <3>4, <3>5, CloseKeeps
        <4>3. Append(<<>>, CloseMark) = One(CloseMark)
          BY DEF One
        <4> QED BY <3>2, <4>1, <4>2, <4>3
      <3>6. CASE ~Voiced
        <4>1. d = m
          BY <3>4, <3>6 DEF CloseInput
        <4> QED BY <3>2, <4>1
      <3> QED BY <3>5, <3>6
    <2> QED BY <2>1, <2>2
  <1>4. c \in Listeners /\ SameEar(d, c) /\ c.out = Append(d.out, Done(FALSE))
    BY <1>2, <1>3, SayGives, DoneIsEvent
  <1>5. c.out = <<Done(FALSE)>>
    <2> PICK x : x = Done(FALSE)
      OBVIOUS
    <2>1. Append(<<>>, x) = <<x>>
      OBVIOUS
    <2>2. c.out = Append(<<>>, x)
      BY <1>3, <1>4
    <2> QED BY <2>1, <2>2
  <1> PICK e : e = Emptied(c)
    OBVIOUS
  <1>6. /\ e \in Listeners /\ e.out = <<>>
        /\ e.held = c.held /\ e.buffer = c.buffer /\ e.style = c.style
        /\ e.input = c.input /\ e.closed = c.closed /\ e.wanted = c.wanted
    BY <1>4, EmptiedGives
  <1>7. Silent(e)
    BY <1>3, <1>4, <1>6 DEF Silent, SameEar
  <1> QED BY <1>5, <1>7

\* The rounds are used up: what the model asked for is told, and the limit,
\* unless the model had said something.
LEMMA LimitTold ==
    ASSUME NEW l, Silent(l), ~l.closed, Voiced => l.styles = Schedule
    PROVE  /\ Heard(FoldLeft(Tell, l, <<Done(TRUE)>>), <<>>)
           /\ FoldLeft(Tell, l, <<Done(TRUE)>>).out = <<Done(TRUE)>>
           /\ Heard(FoldLeft(Tell, l, <<Done(TRUE), Delta(LimitReply)>>), LimitReply)
           /\ FoldLeft(Tell, l, <<Done(TRUE), Delta(LimitReply)>>).out
                = ShowOn(<<Done(TRUE)>>, ShownText(LimitReply))
  <1>1. Ready(l, <<>>) /\ l.held = <<>> /\ l.out = <<>> /\ l \in Listeners
    BY SilentIsReady DEF Silent
  <1> PICK text \in Seq(Tokens) : text = LimitReply
    BY StreamConstants
  <1> PICK d, x : d = Done(TRUE) /\ x = Delta(text)
    OBVIOUS
  <1>2. d \in Events /\ d \in QuietEvents /\ x \in Events /\ d.kind # "emotion_plan" /\ d \in ClientMessages
    BY DeltaIsEvent, DoneIsEvent DEF QuietEvents, Done
  <1> PICK m : m = Say(l, d)
    OBVIOUS
  <1>3. m \in Listeners /\ SameEar(l, m) /\ m.out = <<d>>
    <2>1. m \in Listeners /\ SameEar(l, m) /\ m.out = Append(l.out, d)
      BY <1>1, <1>2, SayGives
    <2>2. Append(<<>>, d) = <<d>>
      OBVIOUS
    <2> QED BY <1>1, <2>1, <2>2
  <1>4. Ready(m, <<>>) /\ m.held = <<>>
    BY <1>1, <1>3, ReadyStays DEF SameEar
  <1>5. FoldLeft(Tell, l, <<d>>) = m
    <2>1. FoldLeft(Tell, l, <<d>>) = Tell(l, d)
      BY <1>1, <1>2, TellShort
    <2> QED BY <1>2, <2>1, TellIs
  <1> PICK c : c = TellDelta(m, text)
    OBVIOUS
  <1>6. FoldLeft(Tell, l, <<d, x>>) = c
    <2>1. FoldLeft(Tell, l, <<d, x>>) = Tell(Tell(l, d), x)
      BY <1>1, <1>2, TellShort
    <2>2. Tell(l, d) = m /\ Tell(m, x) = c
      BY <1>2, TellIs
    <2> QED BY <2>1, <2>2
  <1>7. Held(text) = <<>> /\ Spoken(text) = text
    <2>1. \A i \in 1 .. Len(text) : text[i] # "half"
      BY StreamConstants
    <2>2. text = <<>> \/ Len(text) \in 1 .. Len(text)
      BY EmptySeq
    <2> QED BY <2>1, <2>2, HeldGives
  <1>8. Heard(c, text) /\ c.out = ShowOn(<<d>>, ShownText(text))
    <2>1. CASE Strips
      <3>0. Ready(c, Spoken(text)) /\ c.out = ShowOn(m.out, Clean(Spoken(text)))
        BY <1>4, <2>1, DeltaTold
      <3>1. Ready(c, text) /\ c.out = ShowOn(<<d>>, Clean(text))
        BY <1>3, <1>7, <3>0
      <3> QED BY <2>1, <3>1, ReadyIsHeard DEF ShownText
    <2>2. CASE ~Strips
      <3>1. Ready(c, <<>>) /\ c.out = ShowOn(<<d>>, text)
        BY <1>3, <1>4, <2>2, DeltaTold
      <3>2. ~Voiced
        BY <2>2 DEF Voiced, Strips
      <3>3. Heard(c, text)
        BY <3>1, <3>2, ReadyIsHeard DEF Heard
      <3> QED BY <2>2, <3>1, <3>3 DEF ShownText
    <2> QED BY <2>1, <2>2
  <1>9. Heard(m, <<>>)
    BY <1>4, ReadyIsHeard
  <1> QED BY <1>3, <1>5, <1>6, <1>8, <1>9
-----------------------------------------------------------------------------
(* What the client is told, message by message.                            *)

At(q, kinds) == {i \in DOMAIN q : q[i].kind \in kinds}
ShownIn(q) == FlattenSeq([i \in DOMAIN q |-> TextOf(q[i])])
TextsIn(q) == [i \in DOMAIN q |-> TextOf(q[i])]

Deltas == {"assistant_delta"}
Starts == {"assistant_start"}
TtsStarts == {"tts_started"}
TtsOthers == {"tts_audio", "tts_segment", "tts_error"}
TtsEnds == {"tts_finished"}

LEMMA AtGives ==
    ASSUME NEW q \in Said, NEW kinds
    PROVE  At(q, kinds) \in SUBSET (1 .. Len(q)) /\ IsFiniteSet(At(q, kinds)) /\ Len(q) \in Nat
  <1>1. Len(q) \in Nat /\ DOMAIN q = 1 .. Len(q)
    BY DEF Said
  <1>2. At(q, kinds) \in SUBSET (1 .. Len(q))
    BY <1>1 DEF At
  <1>3. IsFiniteSet(1 .. Len(q))
    BY <1>1, FS_Interval
  <1> QED BY <1>1, <1>2, <1>3, FS_Subset

LEMMA MessageText == ASSUME NEW m \in ClientMessages PROVE TextOf(m) \in Seq(Tokens)
  <1>1. CASE m.kind = "assistant_delta"
    <2>1. m \in [kind : {"assistant_delta"}, text : Seq(Tokens)]
      BY <1>1 DEF ClientMessages, Events, PlainKinds, VoiceKinds, LastKinds
    <2> QED BY <1>1, <2>1 DEF TextOf
  <1>2. CASE m.kind # "assistant_delta"
    BY <1>2 DEF TextOf
  <1> QED BY <1>1, <1>2

LEMMA SaidGrows ==
    ASSUME NEW q \in Said, NEW m \in ClientMessages, NEW n, n = Len(q)
    PROVE  /\ Append(q, m) \in Said /\ Len(Append(q, m)) = n + 1 /\ n \in Nat
           /\ DOMAIN q = 1 .. n /\ DOMAIN Append(q, m) = 1 .. n + 1
           /\ Append(q, m)[n + 1] = m /\ \A i \in 1 .. n : Append(q, m)[i] = q[i]
  <1>1. q \in Seq(ClientMessages)
    BY DEF Said
  <1> QED BY <1>1, AppendProperties DEF Said

LEMMA AtAppend ==
    ASSUME NEW q \in Said, NEW m \in ClientMessages, NEW kinds
    PROVE  /\ m.kind \in kinds => At(Append(q, m), kinds) = At(q, kinds) \cup {Len(q) + 1}
           /\ m.kind \notin kinds => At(Append(q, m), kinds) = At(q, kinds)
  <1> PICK c, n : c = Append(q, m) /\ n = Len(q)
    OBVIOUS
  <1>1. /\ DOMAIN q = 1 .. n /\ DOMAIN c = 1 .. n + 1 /\ n \in Nat
        /\ c[n + 1] = m /\ \A i \in 1 .. n : c[i] = q[i]
    BY SaidGrows
  <1>2. \A i : i \in 1 .. n + 1 <=> (i \in 1 .. n \/ i = n + 1)
    BY <1>1
  <1>3. At(c, kinds) = {i \in 1 .. n + 1 : c[i].kind \in kinds} /\ At(q, kinds) = {i \in 1 .. n : q[i].kind \in kinds}
    BY <1>1 DEF At
  <1>4. \A i : i \in At(c, kinds) <=> (i \in At(q, kinds) \/ (i = n + 1 /\ m.kind \in kinds))
    <2>1. \A i \in 1 .. n : c[i].kind \in kinds <=> q[i].kind \in kinds
      BY <1>1
    <2> QED BY <1>1, <1>2, <1>3, <2>1
  <1> QED BY <1>4

LEMMA ShownType ==
    ASSUME NEW q \in Said
    PROVE  /\ ShownIn(q) \in Seq(Tokens) /\ ShownIn(q) = FlattenSeq(TextsIn(q)) /\ IsList(Tokens, TextsIn(q))
           /\ Len(TextsIn(q)) = Len(q) /\ \A i \in 1 .. Len(q) : TextsIn(q)[i] = TextOf(q[i])
  <1> PICK n, s : n = Len(q) /\ s = TextsIn(q)
    OBVIOUS
  <1>1. DOMAIN q = 1 .. n /\ n \in Nat /\ \A i \in 1 .. n : q[i] \in ClientMessages
    BY DEF Said
  <1>2. s = [i \in 1 .. n |-> TextOf(q[i])]
    BY <1>1 DEF TextsIn
  <1>3. \A i \in 1 .. n : TextOf(q[i]) \in Seq(Tokens)
    BY <1>1, MessageText
  <1>4. s \in Seq(Seq(Tokens)) /\ Len(s) = n
    BY <1>1, <1>2, <1>3
  <1>5. \A i \in 1 .. n : s[i] = TextOf(q[i])
    BY <1>2
  <1>6. IsList(Tokens, s)
    BY <1>1, <1>3, <1>4, <1>5 DEF IsList
  <1>7. ShownIn(q) = FlattenSeq(s)
    BY DEF ShownIn, TextsIn
  <1>8. FlattenSeq(s) \in Seq(Tokens)
    BY <1>6, FlattenType
  <1> QED BY <1>4, <1>5, <1>6, <1>7, <1>8

LEMMA ShownAppend ==
    ASSUME NEW q \in Said, NEW m \in ClientMessages
    PROVE  ShownIn(Append(q, m)) = ShownIn(q) \o TextOf(m)
  <1> PICK c, n : c = Append(q, m) /\ n = Len(q)
    OBVIOUS
  <1>1. /\ c \in Said /\ Len(c) = n + 1 /\ n \in Nat
        /\ c[n + 1] = m /\ \A i \in 1 .. n : c[i] = q[i]
    BY SaidGrows
  <1> PICK s, t : s = TextsIn(q) /\ t = TextsIn(c)
    OBVIOUS
  <1>2. IsList(Tokens, s) /\ Len(s) = n /\ (\A i \in 1 .. n : s[i] = TextOf(q[i])) /\ ShownIn(q) = FlattenSeq(s)
    BY ShownType
  <1>3. IsList(Tokens, t) /\ Len(t) = n + 1 /\ (\A i \in 1 .. n + 1 : t[i] = TextOf(c[i])) /\ ShownIn(c) = FlattenSeq(t)
    BY <1>1, ShownType
  <1>4. \A i \in 1 .. Len(s) : t[i] = s[i]
    BY <1>1, <1>2, <1>3
  <1>5. FlattenSeq(t) = FlattenSeq(s) \o t[Len(t)]
    <2>1. IsList(Tokens, s) /\ IsList(Tokens, t) /\ Len(t) = Len(s) + 1 /\ \A i \in 1 .. Len(s) : t[i] = s[i]
      BY <1>2, <1>3, <1>4
    <2> HIDE DEF IsList
    <2> QED BY <2>1, FlattenMore
  <1>6. t[Len(t)] = TextOf(m)
    BY <1>1, <1>3
  <1> QED BY <1>2, <1>3, <1>5, <1>6

LEMMA ShownStays ==
    ASSUME NEW q \in Said, NEW m \in ClientMessages, m.kind # "assistant_delta"
    PROVE  ShownIn(Append(q, m)) = ShownIn(q)
  <1> PICK x : x = ShownIn(q)
    OBVIOUS
  <1>1. x \in Seq(Tokens)
    BY ShownType
  <1>2. x \o <<>> = x
    BY <1>1, ConcatEmptySeq
  <1>3. TextOf(m) = <<>>
    BY DEF TextOf
  <1> QED BY <1>2, <1>3, ShownAppend

\* The queue goes on as each of its messages makes it go on.
LEMMA GoesOn ==
    ASSUME NEW S, NEW E, E \subseteq ClientMessages, S \subseteq Said, \A q \in S : \A e \in E : Append(q, e) \in S,
           NEW p \in S, NEW events \in Seq(E)
    PROVE  p \o events \in S
  <1> PICK N \in Nat : N = Len(events)
    OBVIOUS
  <1> DEFINE T == {n \in Nat : n <= N => Joined(p, SubSeq(events, 1, n)) \in S}
  <1>0. p \in Said /\ p \in Seq(ClientMessages)
    BY DEF Said
  <1>1. 0 \in T
    <2>1. SubSeq(events, 1, 0) = <<>>
      OBVIOUS
    <2>2. Joined(p, <<>>) = p
      BY <1>0, JoinedNone
    <2> QED BY <2>1, <2>2
  <1>2. ASSUME NEW n \in Nat, n \in T PROVE n + 1 \in T
    <2> SUFFICES ASSUME n + 1 <= N PROVE Joined(p, SubSeq(events, 1, n + 1)) \in S
      OBVIOUS
    <2>1. n <= N /\ n + 1 \in 1 .. N /\ Joined(p, SubSeq(events, 1, n)) \in S
      BY <1>2
    <2> PICK e \in E : e = events[n + 1]
      BY <2>1
    <2> PICK s : s = SubSeq(events, 1, n)
      OBVIOUS
    <2>2. s \in Seq(E) /\ SubSeq(events, 1, n + 1) = Append(s, e)
      BY <2>1
    <2>3. s \in Said /\ e \in ClientMessages
      BY <2>2, SeqMonotonic DEF Said
    <2>4. Append(Joined(p, s), e) = Joined(p, Append(s, e))
      BY <1>0, <2>3, SaidMore
    <2> QED BY <2>1, <2>2, <2>4
  <1>3. \A n \in Nat : n \in T
    <2> HIDE DEF T
    <2> QED BY <1>1, <1>2, Climbing
  <1>4. Joined(p, SubSeq(events, 1, N)) \in S
    BY <1>3
  <1>5. SubSeq(events, 1, N) = events
    BY SubSeqFull
  <1> QED BY <1>4, <1>5, Zenon DEF Joined
-----------------------------------------------------------------------------
\* What the client was told of the voice.
VoiceUnbegun(q) == At(q, TtsStarts) = {} /\ At(q, TtsOthers) = {} /\ At(q, TtsEnds) = {}
VoiceBegun(q) ==
    /\ Cardinality(At(q, TtsStarts)) = 1 /\ At(q, TtsEnds) = {}
    /\ AllBefore(At(q, TtsStarts), At(q, TtsOthers))
VoiceEnded(q) ==
    /\ Cardinality(At(q, TtsStarts)) = 1 /\ Cardinality(At(q, TtsEnds)) = 1
    /\ AllBefore(At(q, TtsStarts), At(q, TtsOthers) \cup At(q, TtsEnds))
    /\ AllBefore(At(q, TtsOthers), At(q, TtsEnds))

\* The deltas come after a start, and are at most n.
RoundsIn(q, n) ==
    /\ \A i \in At(q, Deltas) : \E j \in At(q, Starts) : j < i
    /\ Cardinality(At(q, Deltas)) <= n

\* What a message of one kind leaves alone.
SameTurn(q, c) == At(c, Deltas) = At(q, Deltas) /\ At(c, Starts) = At(q, Starts) /\ ShownIn(c) = ShownIn(q)
SameVoice(q, c) ==
    At(c, TtsStarts) = At(q, TtsStarts) /\ At(c, TtsOthers) = At(q, TtsOthers) /\ At(c, TtsEnds) = At(q, TtsEnds)
SameLast(q, c) == At(c, LastKinds) = At(q, LastKinds)

LEMMA VoiceStays ==
    ASSUME NEW q, NEW c, SameVoice(q, c)
    PROVE  /\ VoiceUnbegun(q) => VoiceUnbegun(c)
           /\ VoiceBegun(q) => VoiceBegun(c)
           /\ VoiceEnded(q) => VoiceEnded(c)
  BY DEF SameVoice, VoiceUnbegun, VoiceBegun, VoiceEnded

LEMMA RoundsStay ==
    ASSUME NEW q, NEW c, SameTurn(q, c), NEW n, RoundsIn(q, n)
    PROVE  RoundsIn(c, n)
  BY DEF SameTurn, RoundsIn

LEMMA OneMore ==
    ASSUME NEW q \in Said, NEW kinds
    PROVE  /\ Cardinality(At(q, kinds) \cup {Len(q) + 1}) = Cardinality(At(q, kinds)) + 1
           /\ Cardinality(At(q, kinds)) \in Nat /\ Cardinality({Len(q) + 1}) = 1
           /\ (At(q, kinds) = {} => Cardinality(At(q, kinds) \cup {Len(q) + 1}) = 1)
  <1> PICK S, x : S = At(q, kinds) /\ x = Len(q) + 1
    OBVIOUS
  <1>1. S \in SUBSET (1 .. Len(q)) /\ IsFiniteSet(S) /\ Len(q) \in Nat
    BY AtGives
  <1>2. x \notin S
    BY <1>1
  <1>3. Cardinality(S \cup {x}) = Cardinality(S) + 1 /\ Cardinality(S) \in Nat
    BY <1>1, <1>2, FS_AddElement, FS_CardinalityType
  <1>4. Cardinality({x}) = 1
    BY FS_Singleton
  <1>5. S = {} => S \cup {x} = {x}
    OBVIOUS
  <1> QED BY <1>3, <1>4, <1>5

LEMMA VoiceSaid ==
    ASSUME NEW q \in Said, NEW kind \in VoiceKinds, NEW c, c = Append(q, Told(kind))
    PROVE  /\ c \in Said /\ SameTurn(q, c) /\ SameLast(q, c)
           /\ kind = "tts_started" /\ VoiceUnbegun(q) => VoiceBegun(c)
           /\ kind \in TtsOthers /\ VoiceBegun(q) => VoiceBegun(c)
           /\ kind = "tts_finished" /\ VoiceBegun(q) => VoiceEnded(c)
  <1> PICK m, n : m = Told(kind) /\ n = Len(q)
    OBVIOUS
  <1>1. m \in ClientMessages /\ m.kind = kind
    BY DEF Told, ClientMessages
  <1>2. c \in Said /\ n \in Nat
    BY <1>1, SaidGrows
  <1>3. SameTurn(q, c) /\ SameLast(q, c)
    <2>1. kind \notin Deltas /\ kind \notin Starts /\ kind \notin LastKinds /\ m.kind # "assistant_delta"
      BY <1>1 DEF VoiceKinds, Deltas, Starts, LastKinds
    <2>2. At(c, Deltas) = At(q, Deltas) /\ At(c, Starts) = At(q, Starts) /\ At(c, LastKinds) = At(q, LastKinds)
      BY <1>1, <2>1, AtAppend
    <2>3. ShownIn(c) = ShownIn(q)
      BY <1>1, <2>1, ShownStays
    <2> QED BY <2>2, <2>3 DEF SameTurn, SameLast
  <1> PICK S, O, E, S2, O2, E2 :
        /\ S = At(q, TtsStarts) /\ O = At(q, TtsOthers) /\ E = At(q, TtsEnds)
        /\ S2 = At(c, TtsStarts) /\ O2 = At(c, TtsOthers) /\ E2 = At(c, TtsEnds)
    OBVIOUS
  <1>4. S \in SUBSET (1 .. n) /\ O \in SUBSET (1 .. n) /\ E \in SUBSET (1 .. n)
    BY AtGives
  <1>5. /\ S2 = IF kind \in TtsStarts THEN S \cup {n + 1} ELSE S
        /\ O2 = IF kind \in TtsOthers THEN O \cup {n + 1} ELSE O
        /\ E2 = IF kind \in TtsEnds THEN E \cup {n + 1} ELSE E
    BY <1>1, AtAppend
  <1>6. \A i \in 1 .. n : i < n + 1
    BY <1>2
  <1>7. CASE kind = "tts_started"
    <2>1. S2 = S \cup {n + 1} /\ O2 = O /\ E2 = E
      BY <1>5, <1>7 DEF TtsStarts, TtsOthers, TtsEnds
    <2>2. ASSUME VoiceUnbegun(q) PROVE VoiceBegun(c)
      <3>1. S = {} /\ O = {} /\ E = {}
        BY <2>2 DEF VoiceUnbegun
      <3>2. Cardinality(S2) = 1
        BY <2>1, <3>1, OneMore
      <3>3. AllBefore(S2, O2) /\ E2 = {}
        BY <2>1, <3>1 DEF AllBefore
      <3> QED BY <3>2, <3>3 DEF VoiceBegun
    <2> QED BY <1>2, <1>3, <1>7, <2>2 DEF TtsOthers
  <1>8. CASE kind \in TtsOthers
    <2>1. S2 = S /\ O2 = O \cup {n + 1} /\ E2 = E
      BY <1>5, <1>8 DEF TtsStarts, TtsOthers, TtsEnds
    <2>2. ASSUME VoiceBegun(q) PROVE VoiceBegun(c)
      <3>1. Cardinality(S) = 1 /\ E = {} /\ AllBefore(S, O)
        BY <2>2 DEF VoiceBegun
      <3>2. AllBefore(S2, O2)
        BY <1>4, <1>6, <2>1, <3>1 DEF AllBefore
      <3> QED BY <2>1, <3>1, <3>2 DEF VoiceBegun
    <2> QED BY <1>2, <1>3, <1>8, <2>2 DEF TtsOthers
  <1>9. CASE kind = "tts_finished"
    <2>1. S2 = S /\ O2 = O /\ E2 = E \cup {n + 1}
      BY <1>5, <1>9 DEF TtsStarts, TtsOthers, TtsEnds
    <2>2. ASSUME VoiceBegun(q) PROVE VoiceEnded(c)
      <3>1. Cardinality(S) = 1 /\ E = {} /\ AllBefore(S, O)
        BY <2>2 DEF VoiceBegun
      <3>2. Cardinality(E2) = 1
        BY <2>1, <3>1, OneMore
      <3>3. AllBefore(S2, O2 \cup E2) /\ AllBefore(O2, E2)
        BY <1>4, <1>6, <2>1, <3>1 DEF AllBefore
      <3> QED BY <2>1, <3>1, <3>2, <3>3 DEF VoiceEnded
    <2> QED BY <1>2, <1>3, <1>9, <2>2 DEF TtsOthers
  <1>10. kind = "tts_started" \/ kind \in TtsOthers \/ kind = "tts_finished"
    BY DEF VoiceKinds, TtsOthers
  <1> QED BY <1>7, <1>8, <1>9, <1>10

LEMMA LastSaid ==
    ASSUME NEW q \in Said, NEW kind \in LastKinds, NEW c, c = Append(q, Told(kind))
    PROVE  /\ c \in Said /\ SameTurn(q, c) /\ SameVoice(q, c)
           /\ At(q, LastKinds) = {} => At(c, LastKinds) = {Len(c)}
  <1> PICK m, n : m = Told(kind) /\ n = Len(q)
    OBVIOUS
  <1>1. m \in ClientMessages /\ m.kind = kind
    BY DEF Told, ClientMessages
  <1>2. c \in Said /\ n \in Nat /\ Len(c) = n + 1
    BY <1>1, SaidGrows
  <1>3. /\ kind \notin Deltas /\ kind \notin Starts /\ m.kind # "assistant_delta"
        /\ kind \notin TtsStarts /\ kind \notin TtsOthers /\ kind \notin TtsEnds
    BY <1>1 DEF LastKinds, Deltas, Starts, TtsStarts, TtsOthers, TtsEnds
  <1>4. At(c, Deltas) = At(q, Deltas) /\ At(c, Starts) = At(q, Starts) /\ ShownIn(c) = ShownIn(q)
    BY <1>1, <1>3, AtAppend, ShownStays
  <1>5. At(c, TtsStarts) = At(q, TtsStarts) /\ At(c, TtsOthers) = At(q, TtsOthers) /\ At(c, TtsEnds) = At(q, TtsEnds)
    BY <1>1, <1>3, AtAppend
  <1>6. At(c, LastKinds) = At(q, LastKinds) \cup {n + 1}
    BY <1>1, AtAppend
  <1> QED BY <1>2, <1>4, <1>5, <1>6 DEF SameTurn, SameVoice

\* Events without words.
Wordless == {e \in Events : e.kind # "assistant_delta"}

LEMMA WordlessSaid ==
    ASSUME NEW q \in Said, NEW e \in Wordless, NEW c, c = Append(q, e)
    PROVE  /\ c \in Said /\ SameVoice(q, c) /\ SameLast(q, c)
           /\ At(c, Deltas) = At(q, Deltas) /\ ShownIn(c) = ShownIn(q)
           /\ At(q, Starts) \subseteq At(c, Starts)
           /\ e.kind = "assistant_start" => At(c, Starts) # {}
           /\ \A n : RoundsIn(q, n) => RoundsIn(c, n)
  <1>1. e \in ClientMessages /\ e.kind # "assistant_delta"
    BY DEF Wordless, ClientMessages
  <1>2. /\ e.kind \notin Deltas /\ e.kind \notin LastKinds
        /\ e.kind \notin TtsStarts /\ e.kind \notin TtsOthers /\ e.kind \notin TtsEnds
    BY DEF Wordless, Events, PlainKinds, LastKinds, Deltas, TtsStarts, TtsOthers, TtsEnds
  <1>3. c \in Said
    BY <1>1, SaidGrows
  <1>4. At(c, Deltas) = At(q, Deltas) /\ At(c, LastKinds) = At(q, LastKinds) /\ ShownIn(c) = ShownIn(q)
    BY <1>1, <1>2, AtAppend, ShownStays
  <1>5. At(c, TtsStarts) = At(q, TtsStarts) /\ At(c, TtsOthers) = At(q, TtsOthers) /\ At(c, TtsEnds) = At(q, TtsEnds)
    BY <1>1, <1>2, AtAppend
  <1>6. At(q, Starts) \subseteq At(c, Starts) /\ (e.kind = "assistant_start" => At(c, Starts) # {})
    BY <1>1, AtAppend DEF Starts
  <1>7. \A n : RoundsIn(q, n) => RoundsIn(c, n)
    BY <1>4, <1>6 DEF RoundsIn
  <1> QED BY <1>3, <1>4, <1>5, <1>6, <1>7 DEF SameVoice, SameLast

LEMMA WordsSaid ==
    ASSUME NEW q \in Said, NEW text \in Seq(Tokens), NEW n \in Nat, RoundsIn(q, n), At(q, Starts) # {},
           NEW c, c = ShowOn(q, text)
    PROVE  /\ c \in Said /\ SameVoice(q, c) /\ SameLast(q, c)
           /\ At(c, Starts) = At(q, Starts) /\ ShownIn(c) = ShownIn(q) \o text
           /\ RoundsIn(c, n + 1)
  <1>1. CASE text = <<>>
    <2>1. c = q
      BY <1>1 DEF ShowOn
    <2> PICK x : x = ShownIn(q)
      OBVIOUS
    <2>2. x \in Seq(Tokens)
      BY ShownType
    <2>3. x \o <<>> = x
      BY <2>2, ConcatEmptySeq
    <2>4. RoundsIn(q, n + 1)
      <3>1. Cardinality(At(q, Deltas)) \in Nat
        BY OneMore
      <3> QED BY <3>1 DEF RoundsIn
    <2> QED BY <1>1, <2>1, <2>3, <2>4 DEF SameVoice, SameLast
  <1>2. CASE text # <<>>
    <2> PICK e : e = Delta(text)
      OBVIOUS
    <2>1. e \in ClientMessages /\ e.kind = "assistant_delta" /\ TextOf(e) = text
      BY DeltaIsEvent DEF Delta, TextOf
    <2>2. c = Append(q, e)
      BY <1>2 DEF ShowOn
    <2>3. /\ e.kind \in Deltas /\ e.kind \notin LastKinds /\ e.kind \notin Starts
          /\ e.kind \notin TtsStarts /\ e.kind \notin TtsOthers /\ e.kind \notin TtsEnds
      BY <2>1 DEF LastKinds, Deltas, Starts, TtsStarts, TtsOthers, TtsEnds
    <2>4. c \in Said /\ Len(q) \in Nat
      BY <2>1, <2>2, SaidGrows
    <2>5. At(c, Starts) = At(q, Starts) /\ At(c, LastKinds) = At(q, LastKinds)
      BY <2>1, <2>2, <2>3, AtAppend
    <2>6. At(c, TtsStarts) = At(q, TtsStarts) /\ At(c, TtsOthers) = At(q, TtsOthers) /\ At(c, TtsEnds) = At(q, TtsEnds)
      BY <2>1, <2>2, <2>3, AtAppend
    <2>7. At(c, Deltas) = At(q, Deltas) \cup {Len(q) + 1}
      BY <2>1, <2>2, <2>3, AtAppend
    <2>8. ShownIn(c) = ShownIn(q) \o text
      BY <2>1, <2>2, ShownAppend
    <2>9. RoundsIn(c, n + 1)
      <3>1. Cardinality(At(c, Deltas)) = Cardinality(At(q, Deltas)) + 1 /\ Cardinality(At(q, Deltas)) \in Nat
        BY <2>7, OneMore
      <3>2. At(q, Starts) \in SUBSET (1 .. Len(q))
        BY AtGives
      <3>3. \E j \in At(q, Starts) : j < Len(q) + 1
        BY <2>4, <3>2
      <3> QED BY <2>5, <2>7, <3>1, <3>3 DEF RoundsIn
    <2> QED BY <2>4, <2>5, <2>6, <2>8, <2>9 DEF SameVoice, SameLast
  <1> QED BY <1>1, <1>2
-----------------------------------------------------------------------------
\* What the queue becomes with the events of a step.
Calmly(q, c) ==
    /\ SameVoice(q, c) /\ SameLast(q, c)
    /\ At(c, Deltas) = At(q, Deltas) /\ ShownIn(c) = ShownIn(q)
    /\ At(q, Starts) \subseteq At(c, Starts)
    /\ \A n : RoundsIn(q, n) => RoundsIn(c, n)

LEMMA CalmlyOn ==
    /\ \A q : Calmly(q, q)
    /\ \A p, q, c : Calmly(p, q) /\ Calmly(q, c) => Calmly(p, c)
  BY DEF Calmly, SameVoice, SameLast

LEMMA QuietIsWordless == QuietEvents \subseteq Wordless /\ Wordless \subseteq ClientMessages /\ Done(FALSE) \in Wordless
  <1>1. QuietEvents \subseteq Wordless /\ Done(FALSE) \in Wordless
    BY DoneIsEvent DEF QuietEvents, Wordless, Events, PlainKinds, Done
  <1>2. Wordless \subseteq ClientMessages
    BY DEF Wordless, ClientMessages
  <1> QED BY <1>1, <1>2

LEMMA WordlessIsCalm ==
    ASSUME NEW q \in Said, NEW e \in Wordless
    PROVE  /\ Append(q, e) \in Said /\ Calmly(q, Append(q, e))
           /\ e.kind = "assistant_start" => At(Append(q, e), Starts) # {}
  <1> PICK c : c = Append(q, e)
    OBVIOUS
  <1> QED BY WordlessSaid DEF Calmly

LEMMA QuietlySaid ==
    ASSUME NEW q \in Said, NEW events \in Seq(QuietEvents)
    PROVE  /\ q \o events \in Said /\ Calmly(q, q \o events)
           /\ events # <<>> /\ events[Len(events)].kind = "assistant_start" => At(q \o events, Starts) # {}
  <1> DEFINE S == {c \in Said : Calmly(q, c)}
  <1>1. \A c \in S : \A e \in QuietEvents : Append(c, e) \in S
    BY QuietIsWordless, WordlessIsCalm, CalmlyOn
  <1>2. q \in S
    BY CalmlyOn
  <1>3. \A p \in S : \A r \in Seq(QuietEvents) : p \o r \in S
    <2>1. S \subseteq Said /\ QuietEvents \subseteq ClientMessages
      BY QuietIsWordless
    <2> HIDE DEF S
    <2> QED BY <1>1, <2>1, GoesOn
  <1>4. q \o events \in Said /\ Calmly(q, q \o events)
    BY <1>2, <1>3
  <1>5. ASSUME events # <<>>, events[Len(events)].kind = "assistant_start" PROVE At(q \o events, Starts) # {}
    <2> PICK n \in Nat : n = Len(events) /\ n # 0
      BY <1>5, EmptySeq
    <2> PICK r, e : r = SubSeq(events, 1, n - 1) /\ e = events[n]
      OBVIOUS
    <2>1. r \in Seq(QuietEvents) /\ e \in QuietEvents /\ n \in 1 .. n
      OBVIOUS
    <2>2. events = Append(r, e)
      <3>1. Len(r) = n - 1 /\ \A i \in 1 .. n - 1 : r[i] = events[i]
        OBVIOUS
      <3> PICK a : a = Append(r, e)
        OBVIOUS
      <3>2. a \in Seq(QuietEvents) /\ Len(a) = n /\ a[n] = e /\ \A i \in 1 .. n - 1 : a[i] = r[i]
        BY <2>1, <3>1, AppendProperties
      <3>3. \A i \in 1 .. n : i \in 1 .. n - 1 \/ i = n
        OBVIOUS
      <3>4. \A i \in 1 .. n : a[i] = events[i]
        BY <3>1, <3>2, <3>3
      <3> QED BY <3>2, <3>4, SeqEqual
    <2>3. Joined(q, r) \in Said
      BY <1>2, <1>3, <2>1 DEF Joined
    <2>4. q \in Said /\ r \in Said /\ e \in ClientMessages /\ e \in Wordless /\ e.kind = "assistant_start"
      BY <1>5, <2>1, QuietIsWordless, SeqMonotonic DEF Said
    <2>5. Append(Joined(q, r), e) = Joined(q, Append(r, e))
      BY <2>4, SaidMore
    <2>6. q \o events = Append(Joined(q, r), e)
      BY <2>2, <2>5, Zenon DEF Joined
    <2> QED BY <2>3, <2>4, <2>6, WordlessIsCalm
  <1> QED BY <1>4, <1>5

LEMMA JoinedShown ==
    ASSUME NEW q \in Said, NEW out \in Said, NEW text \in Seq(Tokens)
    PROVE  Joined(q, ShowOn(out, text)) = ShowOn(Joined(q, out), text) /\ ShowOn(out, text) \in Said
  <1>1. CASE text = <<>>
    BY <1>1 DEF ShowOn
  <1>2. CASE text # <<>>
    <2> PICK e \in ClientMessages : e = Delta(text)
      BY DeltaIsEvent
    <2>1. Append(Joined(q, out), e) = Joined(q, Append(out, e))
      BY SaidMore
    <2>2. ShowOn(out, text) = Append(out, e) /\ ShowOn(Joined(q, out), text) = Append(Joined(q, out), e)
      BY <1>2 DEF ShowOn
    <2>3. Append(out, e) \in Said
      BY SaidGrows
    <2> QED BY <2>1, <2>2, <2>3
  <1> QED BY <1>1, <1>2

\* What the queue becomes with the words of an answer.
\* What an answer does to the queue.
Answers(q, c, text) ==
    c \in Said /\ SameVoice(q, c) /\ SameLast(q, c) /\ RoundsIn(c, 2) /\ ShownIn(c) = text

LEMMA AnswerSaid ==
    ASSUME NEW q \in Said, At(q, Deltas) = {}, ShownIn(q) = <<>>, At(q, Starts) # {},
           NEW a \in Seq(Tokens), NEW b \in Seq(Tokens)
    PROVE  Answers(q, q \o Append(ShowOn(ShowOn(<<>>, a), b), Done(FALSE)), a \o b)
  <1> PICK c : c = q \o Append(ShowOn(ShowOn(<<>>, a), b), Done(FALSE))
    OBVIOUS
  <1> PICK z \in Said : z = <<>>
    <2>1. <<>> \in Said
      BY DEF Said
    <2> QED BY <2>1
  <1> PICK m, p, r : m = ShowOn(q, a) /\ p = ShowOn(m, b) /\ r = Append(p, Done(FALSE))
    OBVIOUS
  <1>1. RoundsIn(q, 0)
    <2>1. Cardinality({}) = 0
      BY FS_EmptySet
    <2> QED BY <2>1 DEF RoundsIn
  <1>2. /\ m \in Said /\ SameVoice(q, m) /\ SameLast(q, m)
        /\ At(m, Starts) # {} /\ ShownIn(m) = <<>> \o a /\ RoundsIn(m, 0 + 1)
    BY <1>1, WordsSaid
  <1>3. ShownIn(m) = a /\ RoundsIn(m, 1) /\ 1 \in Nat
    BY <1>2, ConcatEmptySeq
  <1>4. /\ p \in Said /\ SameVoice(m, p) /\ SameLast(m, p) /\ ShownIn(p) = a \o b /\ RoundsIn(p, 2)
    <2> PICK n \in Nat : n = 1
      OBVIOUS
    <2>1. RoundsIn(m, n) /\ At(m, Starts) # {}
      BY <1>2, <1>3
    <2>2. /\ ShowOn(m, b) \in Said /\ SameVoice(m, ShowOn(m, b)) /\ SameLast(m, ShowOn(m, b))
          /\ ShownIn(ShowOn(m, b)) = ShownIn(m) \o b /\ RoundsIn(ShowOn(m, b), n + 1)
      BY <1>2, <2>1, WordsSaid
    <2> QED BY <1>3, <2>2
  <1>5. r \in Said /\ Calmly(p, r)
    BY <1>4, QuietIsWordless, WordlessIsCalm
  <1>6. c = r
    <2> PICK e \in ClientMessages : e = Done(FALSE)
      BY DoneIsEvent
    <2> PICK u, v : u = ShowOn(z, a) /\ v = ShowOn(u, b)
      OBVIOUS
    <2>0. Joined(q, z) = q
      <3>1. q \in Seq(ClientMessages)
        BY DEF Said
      <3> QED BY <3>1, JoinedNone
    <2>1. u \in Said /\ Joined(q, u) = m
      <3>1. Joined(q, ShowOn(z, a)) = ShowOn(Joined(q, z), a) /\ ShowOn(z, a) \in Said
        BY JoinedShown
      <3> QED BY <2>0, <3>1
    <2>2. v \in Said /\ Joined(q, v) = p
      <3>1. Joined(q, ShowOn(u, b)) = ShowOn(Joined(q, u), b) /\ ShowOn(u, b) \in Said
        BY <2>1, JoinedShown
      <3> QED BY <2>1, <3>1
    <2>3. Append(Joined(q, v), e) = Joined(q, Append(v, e))
      BY <2>2, SaidMore
    <2>4. c = Joined(q, Append(v, e))
      BY Zenon DEF Joined
    <2> QED BY <2>2, <2>3, <2>4
  <1>7. RoundsIn(c, 2) /\ ShownIn(c) = a \o b
    BY <1>4, <1>5, <1>6 DEF Calmly
  <1>8. SameVoice(q, c) /\ SameLast(q, c)
    BY <1>2, <1>4, <1>5, <1>6 DEF SameVoice, SameLast, Calmly
  <1>9. c \in Said
    BY <1>5, <1>6
  <1> QED BY <1>7, <1>8, <1>9, Zenon DEF Answers

LEMMA LimitSaid ==
    ASSUME NEW q \in Said, At(q, Deltas) = {}, ShownIn(q) = <<>>, At(q, Starts) # {},
           NEW a \in Seq(Tokens), NEW e \in Wordless
    PROVE  Answers(q, q \o ShowOn(One(e), a), a)
  <1> PICK c : c = q \o ShowOn(One(e), a)
    OBVIOUS
  <1> PICK z \in Said : z = <<>>
    <2>1. <<>> \in Said
      BY DEF Said
    <2> QED BY <2>1
  <1> PICK d : d = One(e)
    OBVIOUS
  <1> PICK m : m = Append(q, e)
    OBVIOUS
  <1> PICK p : p = ShowOn(m, a)
    OBVIOUS
  <1>0. e \in ClientMessages
    BY QuietIsWordless
  <1>1. RoundsIn(q, 0)
    <2>1. Cardinality({}) = 0
      BY FS_EmptySet
    <2> QED BY <2>1 DEF RoundsIn
  <1>2. m \in Said /\ Calmly(q, m)
    BY WordlessIsCalm
  <1>3. RoundsIn(m, 0) /\ At(m, Starts) # {} /\ ShownIn(m) = <<>> /\ SameVoice(q, m) /\ SameLast(q, m)
    BY <1>1, <1>2 DEF Calmly
  <1>4. /\ p \in Said /\ SameVoice(m, p) /\ SameLast(m, p) /\ ShownIn(p) = ShownIn(m) \o a /\ RoundsIn(p, 1)
    <2> PICK n \in Nat : n = 0
      OBVIOUS
    <2>1. RoundsIn(m, n) /\ At(m, Starts) # {}
      BY <1>3
    <2>2. /\ ShowOn(m, a) \in Said /\ SameVoice(m, ShowOn(m, a)) /\ SameLast(m, ShowOn(m, a))
          /\ ShownIn(ShowOn(m, a)) = ShownIn(m) \o a /\ RoundsIn(ShowOn(m, a), n + 1)
      BY <1>2, <2>1, WordsSaid
    <2> QED BY <1>3, <2>2
  <1>5. ShownIn(p) = a /\ RoundsIn(p, 2)
    <2>1. Cardinality(At(p, Deltas)) \in Nat
      BY <1>4, OneMore
    <2>2. RoundsIn(p, 2)
      BY <1>4, <2>1 DEF RoundsIn
    <2>3. <<>> \o a = a
      BY ConcatEmptySeq
    <2> QED BY <1>3, <1>4, <2>2, <2>3, Zenon
  <1>6. c = p
    <2>0. Joined(q, z) = q
      <3>1. q \in Seq(ClientMessages)
        BY DEF Said
      <3> QED BY <3>1, JoinedNone
    <2>1. d \in Said /\ d = Append(z, e)
      <3>1. <<e>> \in Seq(ClientMessages)
        BY <1>0
      <3>2. Append(<<>>, e) = <<e>>
        OBVIOUS
      <3> QED BY <3>1, <3>2 DEF Said, One
    <2>2. Append(Joined(q, z), e) = Joined(q, Append(z, e))
      BY <1>0, SaidMore
    <2>3. Joined(q, d) = m
      BY <2>0, <2>1, <2>2
    <2>4. Joined(q, ShowOn(d, a)) = ShowOn(Joined(q, d), a)
      BY <2>1, JoinedShown
    <2>5. c = Joined(q, ShowOn(d, a))
      BY Zenon DEF Joined
    <2> QED BY <2>3, <2>4, <2>5
  <1>7. c \in Said /\ SameVoice(q, c) /\ SameLast(q, c) /\ RoundsIn(c, 2) /\ ShownIn(c) = a
    BY <1>3, <1>4, <1>5, <1>6 DEF SameVoice, SameLast
  <1> QED BY <1>7, Zenon DEF Answers
-----------------------------------------------------------------------------
\* What a step of the turn tells, and where it comes to: nothing of an answer.
Quietly ==
    /\ heard' \in Seq(QuietEvents)
    /\ phase' \in {"asking", "calling", "executing", "failed"}
    /\ phase' = "asking" => phase = "asking" \/ (heard' # <<>> /\ heard'[Len(heard')].kind = "assistant_start")
    /\ phase = "received" => heard' # <<>> /\ heard'[1].kind = "emotion_plan"
    /\ phase \in {"received", "asking", "calling", "executing"}
    /\ response'.text \in Seq(Tokens)

\* An answer, the limit on the rounds, or nothing at all.
Replies == phase = "asking" /\ phase' = "answered" /\ heard' = <<Delta(response'.text), Done(FALSE)>>
Silences == phase = "asking" /\ phase' = "answered" /\ heard' = <<Done(TRUE)>> /\ response'.calls # <<>>
Refuses ==
    /\ phase = "asking" /\ phase' = "answered" /\ heard' = <<Done(TRUE), Delta(LimitReply)>>
    /\ response'.text = LimitReply
Misses == phase = "asking" /\ phase' = "failed" /\ heard' = <<Done(FALSE)>>

Outcome == response'.text \in Seq(Tokens) /\ (Quietly \/ Replies \/ Silences \/ Refuses \/ Misses)

LEMMA ShortLists ==
    /\ \A a, b : <<a>> \o <<b>> = <<a, b>>
    /\ \A a : <<a>> \o <<>> = <<a>> /\ <<>> \o <<a>> = <<a>>
    /\ \A S : \A a \in S : <<a>> \in Seq(S)
  <1>1. ASSUME NEW a, NEW b PROVE <<a>> \o <<b>> = <<a, b>>
    <2>1. <<a>> \in Seq({a, b}) /\ b \in {a, b}
      OBVIOUS
    <2>2. Append(<<a>>, b) = <<a>> \o <<b>>
      BY <2>1, AppendIsConcat
    <2>3. Append(<<a>>, b) \in Seq({a, b}) /\ <<a, b>> \in Seq({a, b})
      BY <2>1
    <2>4. Len(Append(<<a>>, b)) = 2 /\ Append(<<a>>, b)[1] = a /\ Append(<<a>>, b)[2] = b
      BY <2>1, AppendProperties
    <2>5. Len(<<a, b>>) = 2 /\ <<a, b>>[1] = a /\ <<a, b>>[2] = b
      OBVIOUS
    <2> PICK u \in Seq({a, b}), v \in Seq({a, b}) : u = Append(<<a>>, b) /\ v = <<a, b>>
      BY <2>3
    <2>6. Len(u) = Len(v) /\ \A i \in 1 .. Len(u) : u[i] = v[i]
      BY <2>4, <2>5
    <2>7. u = v
      BY <2>6, SeqEqual
    <2> QED BY <2>2, <2>7
  <1>2. ASSUME NEW a PROVE <<a>> \o <<>> = <<a>> /\ <<>> \o <<a>> = <<a>>
    OBVIOUS
  <1>3. ASSUME NEW S, NEW a \in S PROVE <<a>> \in Seq(S)
    OBVIOUS
  <1> QED BY <1>1, <1>2, <1>3, Zenon

LEMMA TextsJoined == ASSUME NEW T, NEW a \in Seq(T), NEW b \in Seq(T) PROVE a \o b \in Seq(T)
  OBVIOUS

LEMMA ConcludeHears ==
    ASSUME phase = "asking", NEW r, IsReply(r), r.text \in Seq(Tokens), Conclude(r)
    PROVE  Outcome
  <1>1. CASE r.calls # <<>> /\ round > MaxRounds /\ r.text = <<>>
    <2> PICK text : text = LimitReply
      OBVIOUS
    <2>1. response' = [r EXCEPT !.text = text] /\ phase' = "answered" /\ heard' = <<Done(TRUE)>> \o <<Delta(text)>>
      BY <1>1 DEF Conclude
    <2>2. response'.text = text
      BY <2>1 DEF IsReply
    <2> PICK a, b : a = Done(TRUE) /\ b = Delta(text)
      OBVIOUS
    <2>3. <<a>> \o <<b>> = <<a, b>>
      BY ShortLists, Zenon
    <2>4. heard' = <<Done(TRUE), Delta(LimitReply)>>
      BY <2>1, <2>3
    <2> QED BY <2>1, <2>2, <2>4, StreamConstants DEF Outcome, Refuses
  <1>2. CASE r.calls # <<>> /\ ~(round > MaxRounds /\ r.text = <<>>)
    <2>1. /\ response' = [r EXCEPT !.text = r.text] /\ heard' = <<Done(TRUE)>> \o <<>>
          /\ phase' = IF round > MaxRounds THEN "answered" ELSE "calling"
      BY <1>2 DEF Conclude
    <2>2. response'.text = r.text /\ response'.calls = r.calls
      BY <2>1 DEF IsReply
    <2> PICK a : a = Done(TRUE)
      OBVIOUS
    <2>3. <<a>> \o <<>> = <<a>>
      OBVIOUS
    <2>4. heard' = <<Done(TRUE)>>
      BY <2>1, <2>3
    <2>5. CASE phase' = "answered"
      BY <1>2, <2>2, <2>4, <2>5 DEF Outcome, Silences
    <2>6. CASE phase' = "calling"
      <3>1. a \in QuietEvents /\ heard' = <<a>>
        BY <2>4 DEF QuietEvents
      <3>2. heard' \in Seq(QuietEvents)
        BY <3>1, ShortLists, Zenon
      <3>3. response'.text \in Seq(Tokens)
        BY <2>2
      <3> QED BY <2>6, <3>2, <3>3 DEF Outcome, Quietly
    <2> QED BY <2>1, <2>5, <2>6
  <1>3. CASE r.calls = <<>> /\ Visible(r)
    <2>1. response' = r /\ phase' = "answered" /\ heard' = <<Delta(r.text)>> \o <<Done(FALSE)>>
      BY <1>3 DEF Conclude
    <2> PICK a, b : a = Delta(r.text) /\ b = Done(FALSE)
      OBVIOUS
    <2>2. <<a>> \o <<b>> = <<a, b>>
      BY ShortLists, Zenon
    <2>3. heard' = <<Delta(r.text), Done(FALSE)>>
      BY <2>1, <2>2
    <2> QED BY <2>1, <2>3 DEF Outcome, Replies
  <1>4. CASE r.calls = <<>> /\ ~Visible(r)
    <2>1. response' = r /\ phase' = "failed" /\ heard' = <<>> \o <<Done(FALSE)>>
      BY <1>4 DEF Conclude
    <2> PICK b : b = Done(FALSE)
      OBVIOUS
    <2>2. <<>> \o <<b>> = <<b>>
      OBVIOUS
    <2>3. heard' = <<Done(FALSE)>>
      BY <2>1, <2>2
    <2> QED BY <2>1, <2>3 DEF Outcome, Misses
  <1> QED BY <1>1, <1>2, <1>3, <1>4

LEMMA NothingIsQuiet ==
    ASSUME heard' = <<>>, phase' \in {"asking", "failed"}, phase \in {"asking", "calling", "executing"},
           phase' = "asking" => phase = "asking", response'.text \in Seq(Tokens)
    PROVE  Quietly /\ Outcome
  <1>1. heard' \in Seq(QuietEvents)
    OBVIOUS
  <1> QED BY <1>1 DEF Quietly, Outcome

LEMMA AskAgainHears ==
    ASSUME phase = "asking", NEW r, r.text \in Seq(Tokens), NEW kind, NEW n, AskAgain(r, kind, n)
    PROVE  Outcome
  BY NothingIsQuiet DEF AskAgain

LEMMA CheckVoiceHears ==
    ASSUME phase = "asking", NEW r, IsReply(r), r.text \in Seq(Tokens), NEW n, CheckVoice(r, n)
    PROVE  Outcome
  <1>1. CASE r.calls # <<>> \/ ~Visible(r) \/ r.voice = "kept"
    BY <1>1, ConcludeHears DEF CheckVoice
  <1>2. CASE /\ ~(r.calls # <<>> \/ ~Visible(r) \/ r.voice = "kept")
             /\ r.voice \in {"mended", "broken"} /\ n < MaxRewrites
    BY <1>2, AskAgainHears DEF CheckVoice
  <1>3. CASE /\ ~(r.calls # <<>> \/ ~Visible(r) \/ r.voice = "kept")
             /\ ~(r.voice \in {"mended", "broken"} /\ n < MaxRewrites)
             /\ r.voice = "mended"
    <2> DEFINE m == [r EXCEPT !.voice = "kept"]
    <2>1. Conclude(m)
      BY <1>3 DEF CheckVoice
    <2>2. m = [calls |-> r.calls, text |-> r.text, cut |-> r.cut, voice |-> "kept"]
      BY DEF IsReply
    <2>3. IsReply(m) /\ m.text \in Seq(Tokens)
      BY <2>2 DEF IsReply
    <2> HIDE DEF m
    <2> QED BY <2>1, <2>3, ConcludeHears
  <1>4. CASE /\ ~(r.calls # <<>> \/ ~Visible(r) \/ r.voice = "kept")
             /\ ~(r.voice \in {"mended", "broken"} /\ n < MaxRewrites)
             /\ r.voice # "mended"
    <2>1. phase' = "failed" /\ response' = r /\ heard' = <<>>
      BY <1>4 DEF CheckVoice
    <2> QED BY <2>1, NothingIsQuiet
  <1> QED BY <1>1, <1>2, <1>3, <1>4

LEMMA CheckLengthHears ==
    ASSUME phase = "asking", NEW r, IsReply(r), r.text \in Seq(Tokens), NEW n, CheckLength(r, n)
    PROVE  Outcome
  BY AskAgainHears, CheckVoiceHears DEF CheckLength

LEMMA AnswerHears ==
    ASSUME LoopInv, response.text \in Seq(Tokens), NEW r \in Responses, Answer(r)
    PROVE  Outcome
  <1>1. phase = "asking" /\ IsReply(r) /\ IsReply(response) /\ r.text \in Seq(Tokens)
    BY ResponsesAreReplies, StreamAssumption DEF Answer, LoopInv
  <1>2. CASE ask.kind \in {"native", "text"}
    BY <1>1, <1>2, CheckLengthHears, AskAgainHears DEF Answer
  <1>3. CASE ask.kind = "again"
    BY <1>1, <1>3, CheckLengthHears DEF Answer
  <1>4. CASE ask.kind = "continue"
    <2> DEFINE m == Merge(response, r)
    <2>1. CASE Visible(r)
      <3> PICK text : text = response.text \o r.text
        OBVIOUS
      <3>0. text \in Seq(Tokens)
        BY <1>1, TextsJoined
      <3>1. m = [r EXCEPT !.text = text]
        BY DEF Merge
      <3> HIDE DEF m
      <3>2. m = [calls |-> r.calls, text |-> text, cut |-> r.cut, voice |-> r.voice]
        BY <1>1, <3>1 DEF IsReply
      <3>3. IsReply(m) /\ m.text \in Seq(Tokens)
        BY <1>1, <3>0, <3>2 DEF IsReply
      <3>4. CheckLength(m, ask.n + 1)
        BY <1>4, <2>1 DEF Answer, m
      <3> QED BY <1>1, <3>3, <3>4, CheckLengthHears
    <2>2. CASE ~Visible(r)
      BY <1>1, <1>4, <2>2, CheckVoiceHears DEF Answer
    <2> QED BY <2>1, <2>2
  <1>5. CASE ask.kind = "rewrite"
    BY <1>1, <1>5, CheckVoiceHears DEF Answer
  <1> QED BY <1>2, <1>3, <1>4, <1>5 DEF LoopInv, IsAsk

\* The tools.
LEMMA ToolEventsAreQuiet ==
    /\ ToolBegins \in Seq(QuietEvents) /\ ToolEnds \in Seq(QuietEvents) /\ ToolBegins \o ToolEnds \in Seq(QuietEvents)
    /\ Started \in QuietEvents /\ Started.kind = "assistant_start"
    /\ Told("emotion_plan") \in QuietEvents /\ Told("emotion_plan").kind = "emotion_plan"
  <1>1. \A k \in PlainKinds : Told(k) \in QuietEvents /\ Told(k).kind = k
    BY DEF Told, QuietEvents
  <1>2. /\ Told("tool_requested") \in QuietEvents /\ Told("tool_started") \in QuietEvents
        /\ Told("tool_output") \in QuietEvents /\ Told("tool_finished") \in QuietEvents
        /\ Started \in QuietEvents /\ Started.kind = "assistant_start"
        /\ Told("emotion_plan") \in QuietEvents /\ Told("emotion_plan").kind = "emotion_plan"
    BY <1>1 DEF PlainKinds, Started
  <1> PICK a \in QuietEvents, b \in QuietEvents, c \in QuietEvents, d \in QuietEvents :
        a = Told("tool_requested") /\ b = Told("tool_started") /\ c = Told("tool_output") /\ d = Told("tool_finished")
    BY <1>2
  <1>3. <<a, b>> \in Seq(QuietEvents) /\ <<c, d>> \in Seq(QuietEvents)
    OBVIOUS
  <1>4. ToolBegins \in Seq(QuietEvents) /\ ToolEnds \in Seq(QuietEvents)
    BY <1>3 DEF ToolBegins, ToolEnds
  <1>5. ToolBegins \o ToolEnds \in Seq(QuietEvents)
    BY <1>4
  <1> QED BY <1>2, <1>4, <1>5

LEMMA StartIsLast ==
    ASSUME NEW told \in Seq(QuietEvents), NEW h, h = Append(told, Started)
    PROVE  h \in Seq(QuietEvents) /\ h # <<>> /\ h[Len(h)].kind = "assistant_start"
           /\ (told # <<>> => h[1] = told[1])
  <1> PICK e \in QuietEvents : e = Started /\ e.kind = "assistant_start"
    BY ToolEventsAreQuiet
  <1>1. /\ h \in Seq(QuietEvents) /\ Len(h) = Len(told) + 1 /\ h[Len(told) + 1] = e /\ Len(told) \in Nat
        /\ \A i \in 1 .. Len(told) : h[i] = told[i]
    BY AppendProperties
  <1>2. told # <<>> => 1 \in 1 .. Len(told)
    BY EmptySeq
  <1>3. h # <<>>
    BY <1>1, EmptySeq
  <1> QED BY <1>1, <1>2, <1>3

LEMMA ContinueHears ==
    ASSUME NEW rest, NEW told \in Seq(QuietEvents), Continue(rest, told),
           phase \in {"calling", "executing"}, response'.text \in Seq(Tokens)
    PROVE  Quietly
  <1>1. CASE phase' = "asking" /\ heard' = Append(told, Started)
    <2> PICK h : h = heard'
      OBVIOUS
    <2>1. h \in Seq(QuietEvents) /\ h # <<>> /\ h[Len(h)].kind = "assistant_start"
      BY <1>1, StartIsLast
    <2> QED BY <1>1, <2>1 DEF Quietly
  <1>2. CASE phase' = "calling" /\ heard' = told
    BY <1>2 DEF Quietly
  <1> QED BY <1>1, <1>2 DEF Continue, NextRound

LEMMA ReturnHears ==
    ASSUME response.text \in Seq(Tokens), phase \in {"calling", "executing"},
           NEW others1, NEW c, NEW ok, NEW told \in Seq(QuietEvents), Return(others1, c, ok, told)
    PROVE  Quietly
  <1>1. CASE Continue(Tail(todo), told) /\ UNCHANGED response
    BY <1>1, ContinueHears
  <1>2. CASE Fail
    BY <1>2, NothingIsQuiet DEF Fail
  <1> QED BY <1>1, <1>2 DEF Return

LEMMA BeginHears ==
    ASSUME response.text \in Seq(Tokens), Begin
    PROVE  Quietly
  <1> PICK p \in QuietEvents : p = Told("emotion_plan") /\ p.kind = "emotion_plan"
    BY ToolEventsAreQuiet
  <1> PICK told : told = One(p)
    OBVIOUS
  <1>1. told \in Seq(QuietEvents) /\ told # <<>> /\ told[1] = p
    BY DEF One
  <1>2. phase = "received" /\ UNCHANGED response
    BY DEF Begin
  <1>3. CASE phase' = "asking" /\ heard' = Append(told, Started)
    <2> PICK h : h = heard'
      OBVIOUS
    <2>1. h \in Seq(QuietEvents) /\ h # <<>> /\ h[Len(h)].kind = "assistant_start" /\ h[1] = told[1]
      BY <1>1, <1>3, StartIsLast
    <2> QED BY <1>1, <1>2, <1>3, <2>1 DEF Quietly
  <1>4. CASE phase' = "calling" /\ heard' = told
    BY <1>1, <1>2, <1>4 DEF Quietly
  <1>5. (phase' = "asking" /\ heard' = Append(<<p>>, Started)) \/ (phase' = "calling" /\ heard' = <<p>>)
    BY DEF Begin, NextRound
  <1> QED BY <1>3, <1>4, <1>5 DEF One

LEMMA LoopHears ==
    ASSUME LoopInv, response.text \in Seq(Tokens), LoopStep
    PROVE  Outcome
  <1>1. CASE Begin
    BY <1>1, BeginHears DEF Outcome, Quietly
  <1>2. CASE \E r \in Responses : Answer(r)
    BY <1>2, AnswerHears
  <1>3. CASE ToolsRejected
    BY <1>3, NothingIsQuiet DEF ToolsRejected
  <1>4. CASE ProviderFails
    BY <1>4, NothingIsQuiet DEF ProviderFails, Fail
  <1>5. CASE Repeat
    <2>1. Quietly
      BY <1>5, ContinueHears, ToolEventsAreQuiet DEF Repeat
    <2> QED BY <2>1 DEF Outcome, Quietly
  <1>6. CASE CallHandler
    <2>1. Quietly
      BY <1>6, ReturnHears, ToolEventsAreQuiet DEF CallHandler
    <2> QED BY <2>1 DEF Outcome, Quietly
  <1>7. CASE StartCommand
    <2>1. Quietly
      BY <1>7, ToolEventsAreQuiet DEF StartCommand, Quietly
    <2> QED BY <2>1 DEF Outcome, Quietly
  <1>8. CASE CommandEnds
    <2>1. Quietly
      BY <1>8, ReturnHears, ToolEventsAreQuiet DEF CommandEnds
    <2> QED BY <2>1 DEF Outcome, Quietly
  <1> QED BY <1>1, <1>2, <1>3, <1>4, <1>5, <1>6, <1>7, <1>8 DEF LoopStep
-----------------------------------------------------------------------------
(* The invariant of a turn that is told and spoken.                        *)

QueueIsRight ==
    /\ queue \in Said
    /\ RoundsIn(queue, 2)
    /\ At(queue, LastKinds) \subseteq {Len(queue)}
    /\ served \notin {"result", "error"} => At(queue, LastKinds) = {}

VoiceIsTold ==
    /\ tts = "none" => VoiceUnbegun(queue)
    /\ TtsLive => VoiceBegun(queue)
    /\ tts \in {"finished", "broken"} => VoiceEnded(queue)
    /\ tts = "cancelled" => VoiceUnbegun(queue) \/ VoiceEnded(queue)

VoiceSegments == [style : VoiceStyles, text : SegmentTexts]
Speeches == [session : Nat, style : VoiceStyles, text : SegmentTexts]

\* Nothing is left of the reply but what the voice has.
DrainedOf(l) == l.closed /\ l.input = <<>> /\ l.buffer = <<>>

Places == {"none", "opening", "collecting", "between", "sending", "speaking", "finished", "broken", "cancelled"}

TtsIsRight ==
    /\ mode \in Modes
    /\ tts \in Places
    /\ listener \in Listeners /\ listener.out = <<>> /\ InputEnds(listener)
    /\ pending \in VoiceSegments \cup {NoSegment} /\ inputDone \in BOOLEAN
    /\ listener.wanted => Voiced /\ phase = "answered" /\ listener.styles = Schedule
    /\ ~listener.wanted => tts = "none"
    /\ inputDone => DrainedOf(listener)
    /\ tts \in {"collecting", "sending", "finished"} => pending = NoSegment
    /\ tts = "finished" => DrainedOf(listener)
    /\ tts = "collecting" => mode = "fish"
    /\ mode = "fish" =>
         /\ pending = NoSegment /\ ~inputDone
         /\ tts \notin {"between", "sending"}
         /\ tts = "speaking" => DrainedOf(listener)

\* A session of Doubao has one style.
SessionsAreRight ==
    /\ spoken \in Seq(Speeches)
    /\ session \in 0 .. Len(spoken)
    /\ mode = "doubao" =>
         /\ \A i \in 1 .. Len(spoken) : spoken[i].session <= session
         /\ \A i, j \in 1 .. Len(spoken) :
               spoken[i].session = spoken[j].session => spoken[i].style = spoken[j].style
    /\ tts = "sending" => spoken # <<>> /\ spoken[Len(spoken)].session = session

ServedIsRight ==
    /\ served \in {"running", "speaking", "failing", "cancelling", "result", "error", "cancelled"}
    /\ served \in {"speaking", "result"} => phase = "answered" /\ (Voiced => listener.closed)
    /\ Ended => TtsOver

\* Before there is an answer nothing is shown and nothing is spoken.
UnansweredIsRight ==
    phase # "answered" =>
      /\ Silent(listener)
      /\ listener.closed => phase = "failed"
      /\ Voiced => listener.styles = Schedule \/ phase \in {"received", "failed", "cancelled"}
      /\ tts = "none" /\ pending = NoSegment /\ spoken = <<>> /\ session = 0 /\ ~inputDone
      /\ At(queue, Deltas) = {} /\ ShownIn(queue) = <<>>
      /\ phase = "asking" => At(queue, Starts) # {}
      /\ response.text \in Seq(Tokens)

\* What was spoken, is to be spoken, and is still in the buffer.
PendingText(p) == IF p = NoSegment THEN <<>> ELSE p.text
PendingStyle(p) == IF p = NoSegment THEN <<>> ELSE AllOf(p.style, p.text)
WholeText(s, p, l) == Texts(s) \o (PendingText(p) \o TextLine(l))
WholeStyle(s, p, l) == StyleOf(s) \o (PendingStyle(p) \o StyleLine(l))

Says(s, p, l, x) ==
    /\ l.styles = Schedule
    /\ WholeText(s, p, l) = Clean(x) /\ Dresses(TagsOf(x), WholeStyle(s, p, l))
    /\ l.wanted => Clean(x) # <<>>

AnsweredWith(x) ==
    /\ x \in Seq(Tokens)
    /\ ShownIn(queue) = ShownText(x)
    /\ x = response.text \/ (x = <<>> /\ response.calls # <<>>)
    /\ Voiced => Says(spoken, pending, listener, x)

AnsweredIsRight == phase = "answered" => \E x \in {response.text, <<>>} : AnsweredWith(x)

StreamInv ==
    /\ LoopInv
    /\ QueueIsRight /\ VoiceIsTold /\ TtsIsRight /\ SessionsAreRight /\ ServedIsRight
    /\ UnansweredIsRight /\ AnsweredIsRight

LEMMA StreamStarts == Init => StreamInv
  <1> SUFFICES ASSUME LoopInit, StreamInit PROVE StreamInv
    BY DEF Init
  <1> PICK q : q = <<>>
    OBVIOUS
  <1> PICK l : l = listener
    OBVIOUS
  <1>1. queue = q /\ l.out = q /\ l.held = q /\ l.buffer = q /\ l.styles = q /\ l.input = q
        /\ l.style = "none" /\ l.index = 0 /\ ~l.closed /\ ~l.wanted
    BY DEF StreamInit
  <1>2. l \in Listeners
    BY StreamConstants DEF StreamInit, Listeners, ListenersUpTo
  <1>3. Silent(l)
    BY <1>1, <1>2 DEF Silent
  <1>4. \A kinds : At(queue, kinds) = {}
    BY DEF StreamInit, At
  <1>5. q \in Said /\ ShownIn(queue) = <<>>
    <2>1. TextsIn(queue) = <<>> /\ q \in Said
      BY <1>1 DEF TextsIn, Said
    <2> QED BY <1>1, <2>1, ShownType, FlattenEmpty
  <1>6. RoundsIn(queue, 2) /\ VoiceUnbegun(queue)
    BY <1>4, FS_EmptySet DEF RoundsIn, VoiceUnbegun
  <1>7. InputEnds(l)
    BY <1>1 DEF InputEnds, MarkFree
  <1>8. QueueIsRight /\ VoiceIsTold
    BY <1>1, <1>4, <1>5, <1>6 DEF QueueIsRight, VoiceIsTold, StreamInit, TtsLive
  <1>9. TtsIsRight
    BY <1>1, <1>2, <1>7 DEF TtsIsRight, StreamInit, Places
  <1>10. SessionsAreRight /\ ServedIsRight
    BY DEF SessionsAreRight, ServedIsRight, StreamInit, Ended, TtsOver
  <1>11. UnansweredIsRight /\ AnsweredIsRight
    <2>1. response.text = <<>> /\ phase = "received" /\ response.text \in Seq(Tokens)
      BY DEF LoopInit, NoResponse
    <2> QED BY <1>1, <1>3, <1>4, <1>5, <2>1 DEF UnansweredIsRight, AnsweredIsRight, StreamInit
  <1> QED BY <1>8, <1>9, <1>10, <1>11, LoopStarts DEF StreamInv
-----------------------------------------------------------------------------
(* What the voice and the task of the turn put into the queue.             *)

LEMMA TuplesGrow ==
    /\ \A a : <<a>> = Append(<<>>, a)
    /\ \A a, b : <<a, b>> = Append(<<a>>, b)
    /\ \A a, b, c : <<a, b, c>> = Append(<<a, b>>, c)
  <1>1. ASSUME NEW a PROVE <<a>> = Append(<<>>, a)
    <2>1. <<>> \in Seq({a}) /\ a \in {a}
      OBVIOUS
    <2>2. Append(<<>>, a) \in Seq({a}) /\ <<a>> \in Seq({a})
      BY <2>1
    <2>3. Len(Append(<<>>, a)) = 1 /\ Append(<<>>, a)[1] = a
      BY <2>1, AppendProperties
    <2>4. Len(<<a>>) = 1 /\ <<a>>[1] = a
      OBVIOUS
    <2> PICK u \in Seq({a}), v \in Seq({a}) : u = Append(<<>>, a) /\ v = <<a>>
      BY <2>2
    <2>5. Len(u) = Len(v) /\ \A i \in 1 .. Len(u) : u[i] = v[i]
      BY <2>3, <2>4
    <2>6. u = v
      BY <2>5, SeqEqual
    <2> QED BY <2>6
  <1>2. ASSUME NEW a, NEW b PROVE <<a, b>> = Append(<<a>>, b)
    <2>1. <<a>> \in Seq({a, b}) /\ b \in {a, b}
      OBVIOUS
    <2>2. Append(<<a>>, b) \in Seq({a, b}) /\ <<a, b>> \in Seq({a, b})
      BY <2>1
    <2>3. Len(Append(<<a>>, b)) = 2 /\ Append(<<a>>, b)[1] = a /\ Append(<<a>>, b)[2] = b
      BY <2>1, AppendProperties
    <2>4. Len(<<a, b>>) = 2 /\ <<a, b>>[1] = a /\ <<a, b>>[2] = b
      OBVIOUS
    <2> PICK u \in Seq({a, b}), v \in Seq({a, b}) : u = Append(<<a>>, b) /\ v = <<a, b>>
      BY <2>2
    <2>5. Len(u) = Len(v) /\ \A i \in 1 .. Len(u) : u[i] = v[i]
      BY <2>3, <2>4
    <2>6. u = v
      BY <2>5, SeqEqual
    <2> QED BY <2>6
  <1>3. ASSUME NEW a, NEW b, NEW c PROVE <<a, b, c>> = Append(<<a, b>>, c)
    <2>1. <<a, b>> \in Seq({a, b, c}) /\ c \in {a, b, c}
      OBVIOUS
    <2>2. Append(<<a, b>>, c) \in Seq({a, b, c}) /\ <<a, b, c>> \in Seq({a, b, c})
      BY <2>1
    <2>3. Len(Append(<<a, b>>, c)) = 3 /\ Append(<<a, b>>, c)[1] = a /\ Append(<<a, b>>, c)[2] = b /\ Append(<<a, b>>, c)[3] = c
      BY <2>1, AppendProperties
    <2>4. Len(<<a, b, c>>) = 3 /\ <<a, b, c>>[1] = a /\ <<a, b, c>>[2] = b /\ <<a, b, c>>[3] = c
      OBVIOUS
    <2> PICK u \in Seq({a, b, c}), v \in Seq({a, b, c}) : u = Append(<<a, b>>, c) /\ v = <<a, b, c>>
      BY <2>2
    <2>5. Len(u) = Len(v) /\ \A i \in 1 .. Len(u) : u[i] = v[i]
      BY <2>3, <2>4
    <2>6. u = v
      BY <2>5, SeqEqual
    <2> QED BY <2>6
  <1> QED BY <1>1, <1>2, <1>3, Zenon

MessagesOf(kinds) == [i \in 1 .. Len(kinds) |-> Told(kinds[i])]
SpokenKinds == VoiceKinds \cup LastKinds

LEMMA ToldIsMessage == \A k \in SpokenKinds : Told(k) \in ClientMessages /\ Told(k).kind = k
  BY DEF SpokenKinds, ClientMessages, Told

LEMMA MessagesGrow ==
    ASSUME NEW kinds \in Seq(SpokenKinds), NEW k \in SpokenKinds
    PROVE  /\ MessagesOf(kinds) \in Said
           /\ Append(kinds, k) \in Seq(SpokenKinds)
           /\ MessagesOf(Append(kinds, k)) = Append(MessagesOf(kinds), Told(k))
  <1> PICK e \in ClientMessages : e = Told(k)
    BY ToldIsMessage
  <1>1. \A c \in Seq(SpokenKinds) : /\ MessagesOf(c) \in Said /\ Len(MessagesOf(c)) = Len(c)
                                    /\ \A i \in 1 .. Len(c) : MessagesOf(c)[i] = Told(c[i])
    <2> TAKE c \in Seq(SpokenKinds)
    <2>1. Len(c) \in Nat /\ \A i \in 1 .. Len(c) : Told(c[i]) \in ClientMessages
      BY ToldIsMessage
    <2> QED BY <2>1 DEF MessagesOf, Said
  <1> PICK n \in Nat : n = Len(kinds)
    OBVIOUS
  <1>0. /\ Append(kinds, k) \in Seq(SpokenKinds) /\ Len(Append(kinds, k)) = n + 1 /\ Append(kinds, k)[n + 1] = k
        /\ \A i \in 1 .. n : Append(kinds, k)[i] = kinds[i]
    BY AppendProperties
  <1> PICK more \in Seq(SpokenKinds) : /\ more = Append(kinds, k) /\ Len(more) = n + 1 /\ more[n + 1] = k
                                       /\ \A i \in 1 .. n : more[i] = kinds[i]
    BY <1>0
  <1> PICK u \in Said : u = MessagesOf(more) /\ Len(u) = n + 1 /\ \A i \in 1 .. n + 1 : u[i] = Told(more[i])
    BY <1>1
  <1> PICK s \in Said : s = MessagesOf(kinds) /\ Len(s) = n /\ \A i \in 1 .. n : s[i] = Told(kinds[i])
    BY <1>1
  <1> PICK v \in Said : v = Append(s, e) /\ Len(v) = n + 1 /\ v[n + 1] = e /\ \A i \in 1 .. n : v[i] = s[i]
    BY AppendProperties DEF Said
  <1>2. \A i \in 1 .. n + 1 : u[i] = v[i]
    <2>1. u[n + 1] = e
      OBVIOUS
    <2>2. \A i \in 1 .. n : u[i] = v[i]
      OBVIOUS
    <2>3. \A i \in 1 .. n + 1 : i = n + 1 \/ i \in 1 .. n
      OBVIOUS
    <2> QED BY <2>1, <2>2, <2>3
  <1>3. u = v
    BY <1>2, SeqEqual DEF Said
  <1> QED BY <1>3

LEMMA NoMessages == MessagesOf(<<>>) = <<>> /\ <<>> \in Seq(SpokenKinds)
  BY DEF MessagesOf

LEMMA MessagesAre ==
    ASSUME NEW a \in SpokenKinds, NEW b \in SpokenKinds, NEW q \in Said
    PROVE  /\ q \o MessagesOf(<<>>) = q
           /\ q \o MessagesOf(<<a>>) = Append(q, Told(a))
           /\ q \o MessagesOf(<<a, b>>) = Append(Append(q, Told(a)), Told(b))
  <1> PICK i : i = <<a>>
    OBVIOUS
  <1> PICK j : j = <<a, b>>
    OBVIOUS
  <1> PICK z : z = <<>>
    OBVIOUS
  <1>01. i = Append(z, a)
    BY TuplesGrow, Zenon
  <1>02. j = Append(i, b)
    BY TuplesGrow, Zenon
  <1>1. i = Append(z, a) /\ j = Append(i, b)
    BY <1>01, <1>02
  <1> PICK d \in ClientMessages, e \in ClientMessages : d = Told(a) /\ e = Told(b)
    BY ToldIsMessage
  <1>2. z \in Seq(SpokenKinds) /\ MessagesOf(z) = z /\ z \in Said
    BY NoMessages DEF Said
  <1>3. i \in Seq(SpokenKinds) /\ MessagesOf(i) = Append(z, d) /\ MessagesOf(z) \in Said
    BY <1>1, <1>2, MessagesGrow
  <1>4. j \in Seq(SpokenKinds) /\ MessagesOf(j) = Append(MessagesOf(i), e) /\ MessagesOf(i) \in Said
    BY <1>1, <1>3, MessagesGrow
  <1>6. Joined(q, z) = q
    BY JoinedNone DEF Said
  <1>7. Joined(q, MessagesOf(i)) = Append(q, d)
    <2>1. Append(Joined(q, z), d) = Joined(q, Append(z, d))
      BY <1>2, <1>3, SaidMore
    <2> QED BY <2>1, <1>2, <1>3, <1>6
  <1>8. Joined(q, MessagesOf(j)) = Append(Append(q, d), e)
    BY <1>4, <1>7, SaidMore
  <1> QED BY <1>2, <1>6, <1>7, <1>8, Zenon DEF Joined

LEMMA PutIs ==
    ASSUME NEW a \in SpokenKinds, NEW b \in SpokenKinds, NEW c \in SpokenKinds, queue \in Said
    PROVE  /\ Put(<<>>) => queue' = queue
           /\ Put(<<a>>) => queue' = Append(queue, Told(a))
           /\ Put(<<a, b>>) => queue' = Append(Append(queue, Told(a)), Told(b))
           /\ Put(<<a, b, c>>) => queue' = Append(Append(Append(queue, Told(a)), Told(b)), Told(c))
  <1>1. \A kinds : Put(kinds) => queue' = queue \o MessagesOf(kinds)
    BY Zenon DEF Put, MessagesOf
  <1>2. Put(<<>>) => queue' = queue
    <2>1. queue \o MessagesOf(<<>>) = queue
      <3> HIDE <1>1
      <3> QED BY MessagesAre, ZenonT(60)
    <2>2. Put(<<>>) => queue' = queue \o MessagesOf(<<>>)
      BY <1>1, Zenon
    <2> QED BY <2>1, <2>2, Zenon
  <1>3. Put(<<a>>) => queue' = Append(queue, Told(a))
    <2>1. queue \o MessagesOf(<<a>>) = Append(queue, Told(a))
      <3> HIDE <1>1
      <3> QED BY MessagesAre, ZenonT(60)
    <2>2. Put(<<a>>) => queue' = queue \o MessagesOf(<<a>>)
      BY <1>1, Zenon
    <2> QED BY <2>1, <2>2, Zenon
  <1>4. Put(<<a, b>>) => queue' = Append(Append(queue, Told(a)), Told(b))
    <2>1. queue \o MessagesOf(<<a, b>>) = Append(Append(queue, Told(a)), Told(b))
      <3> HIDE <1>1
      <3> QED BY MessagesAre, ZenonT(60)
    <2>2. Put(<<a, b>>) => queue' = queue \o MessagesOf(<<a, b>>)
      BY <1>1, Zenon
    <2> QED BY <2>1, <2>2, Zenon
  <1>5. Put(<<a, b, c>>) => queue' = Append(Append(Append(queue, Told(a)), Told(b)), Told(c))
    <2>1. queue \o MessagesOf(<<a, b, c>>) = Append(Append(Append(queue, Told(a)), Told(b)), Told(c))
      <3> HIDE <1>1
      <3> PICK j, k : j = <<a, b>> /\ k = <<a, b, c>>
        OBVIOUS
      <3>1. k = Append(j, c)
        <4>1. <<a, b, c>> = Append(<<a, b>>, c)
          BY TuplesGrow
        <4> QED BY <4>1, Zenon
      <3>2. queue \o MessagesOf(j) = Append(Append(queue, Told(a)), Told(b))
        <4>1. queue \o MessagesOf(<<a, b>>) = Append(Append(queue, Told(a)), Told(b))
          BY MessagesAre, ZenonT(60)
        <4> QED BY <4>1, Zenon
      <3> PICK e \in ClientMessages : e = Told(c)
        BY ToldIsMessage
      <3>3. j \in Seq(SpokenKinds)
        OBVIOUS
      <3> PICK s \in Said : s = MessagesOf(j) /\ MessagesOf(k) = Append(s, e)
        BY <3>1, <3>3, MessagesGrow
      <3>4. Append(Joined(queue, s), e) = Joined(queue, Append(s, e))
        BY SaidMore
      <3> QED BY <3>2, <3>4, Zenon DEF Joined
    <2>2. Put(<<a, b, c>>) => queue' = queue \o MessagesOf(<<a, b, c>>)
      BY <1>1, Zenon
    <2> QED BY <2>1, <2>2, Zenon
  <1> QED BY <1>2, <1>3, <1>4, <1>5
-----------------------------------------------------------------------------
(* The steps of the voice.                                                 *)

\* The queue of a step of the voice: nothing of the turn and no last word.
Adds(q, c) == c \in Said /\ SameTurn(q, c) /\ SameLast(q, c)

LEMMA AddsOn ==
    /\ \A q \in Said : Adds(q, q)
    /\ \A p, q, c : Adds(p, q) /\ Adds(q, c) => Adds(p, c)
  BY DEF Adds, SameTurn, SameLast

LEMMA VoiceAdds ==
    ASSUME NEW q \in Said, NEW kind \in VoiceKinds
    PROVE  /\ Adds(q, Append(q, Told(kind))) /\ Append(q, Told(kind)) \in Said
           /\ kind = "tts_started" /\ VoiceUnbegun(q) => VoiceBegun(Append(q, Told(kind)))
           /\ kind \in TtsOthers /\ VoiceBegun(q) => VoiceBegun(Append(q, Told(kind)))
           /\ kind = "tts_finished" /\ VoiceBegun(q) => VoiceEnded(Append(q, Told(kind)))
  <1> PICK c : c = Append(q, Told(kind))
    OBVIOUS
  <1> QED BY VoiceSaid DEF Adds

LEMMA VoiceOpens ==
    ASSUME queue \in Said, VoiceUnbegun(queue), Put(<<"tts_started">>)
    PROVE  Adds(queue, queue') /\ VoiceBegun(queue')
  <1> PICK a : a = "tts_started"
    OBVIOUS
  <1>1. a \in SpokenKinds /\ a \in VoiceKinds
    BY DEF SpokenKinds, VoiceKinds
  <1>2. Put(<<a>>)
    BY Zenon
  <1>3. queue' = Append(queue, Told(a))
    BY <1>1, <1>2, PutIs
  <1> QED BY <1>1, <1>3, VoiceAdds

LEMMA VoiceGoesOn ==
    ASSUME queue \in Said, VoiceBegun(queue), Put(<<"tts_audio">>)
    PROVE  Adds(queue, queue') /\ VoiceBegun(queue')
  <1> PICK a : a = "tts_audio"
    OBVIOUS
  <1>1. a \in SpokenKinds /\ a \in VoiceKinds /\ a \in TtsOthers
    BY DEF SpokenKinds, VoiceKinds, TtsOthers
  <1>2. Put(<<a>>)
    BY Zenon
  <1>3. queue' = Append(queue, Told(a))
    BY <1>1, <1>2, PutIs
  <1> QED BY <1>1, <1>3, VoiceAdds

LEMMA VoiceCloses ==
    ASSUME queue \in Said, VoiceBegun(queue),
           \/ Put(<<"tts_finished">>)
           \/ Put(<<"tts_segment", "tts_finished">>)
           \/ Put(<<"tts_error", "tts_finished">>)
           \/ Put(<<"tts_audio", "tts_segment", "tts_finished">>)
    PROVE  Adds(queue, queue') /\ VoiceEnded(queue')
  <1> PICK a : a = "tts_audio"
    OBVIOUS
  <1> PICK s : s = "tts_segment"
    OBVIOUS
  <1> PICK r : r = "tts_error"
    OBVIOUS
  <1> PICK f : f = "tts_finished"
    OBVIOUS
  <1>1. /\ a \in SpokenKinds /\ a \in VoiceKinds /\ a \in TtsOthers
        /\ s \in SpokenKinds /\ s \in VoiceKinds /\ s \in TtsOthers
        /\ r \in SpokenKinds /\ r \in VoiceKinds /\ r \in TtsOthers
        /\ f \in SpokenKinds /\ f \in VoiceKinds
    BY DEF SpokenKinds, VoiceKinds, TtsOthers
  <1>2. Put(<<f>>) \/ Put(<<s, f>>) \/ Put(<<r, f>>) \/ Put(<<a, s, f>>)
    BY Zenon
  <1>3. ASSUME NEW q \in Said, VoiceBegun(q), Adds(queue, q)
        PROVE  /\ Adds(queue, Append(q, Told(f))) /\ VoiceEnded(Append(q, Told(f)))
    BY <1>1, <1>3, VoiceAdds, AddsOn
  <1>4. ASSUME NEW q \in Said, VoiceBegun(q), Adds(queue, q), NEW k, k = a \/ k = s \/ k = r
        PROVE  /\ Append(q, Told(k)) \in Said /\ VoiceBegun(Append(q, Told(k))) /\ Adds(queue, Append(q, Told(k)))
    BY <1>1, <1>4, VoiceAdds, AddsOn
  <1>5. CASE Put(<<f>>)
    <2>1. queue' = Append(queue, Told(f))
      BY <1>1, <1>5, PutIs
    <2> QED BY <1>3, <2>1, AddsOn
  <1>6. ASSUME NEW k, k = s \/ k = r, Put(<<k, f>>) PROVE Adds(queue, queue') /\ VoiceEnded(queue')
    <2>1. queue' = Append(Append(queue, Told(k)), Told(f))
      BY <1>1, <1>6, PutIs
    <2> PICK q : q = Append(queue, Told(k))
      OBVIOUS
    <2>2. q \in Said /\ VoiceBegun(q) /\ Adds(queue, q)
      BY <1>4, <1>6, AddsOn
    <2> QED BY <1>3, <2>1, <2>2
  <1>7. CASE Put(<<a, s, f>>)
    <2>1. queue' = Append(Append(Append(queue, Told(a)), Told(s)), Told(f))
      BY <1>1, <1>7, PutIs
    <2> PICK q : q = Append(queue, Told(a))
      OBVIOUS
    <2>2. q \in Said /\ VoiceBegun(q) /\ Adds(queue, q)
      BY <1>4, AddsOn
    <2> PICK c : c = Append(q, Told(s))
      OBVIOUS
    <2>3. c \in Said /\ VoiceBegun(c) /\ Adds(queue, c)
      BY <1>4, <2>2
    <2> QED BY <1>3, <2>1, <2>3
  <1> QED BY <1>2, <1>5, <1>6, <1>7

\* A step of the voice comes after the answer, and before the end.
LEMMA VoiceIsLate ==
    ASSUME StreamInv, TtsStep
    PROVE  phase = "answered" /\ ~Ended /\ listener.wanted /\ Voiced /\ listener.styles = Schedule
  <1>1. listener.wanted
    BY DEF TtsStep, TtsBegins, Collect, Opened, StartSession, SendNext, SessionSpoken, ReplySpoken,
           TtsFinishes, TtsFails, TtsCancelled, StreamInv, TtsIsRight
  <1>2. ~TtsOver
    BY <1>1 DEF TtsStep, TtsBegins, Collect, Opened, StartSession, SendNext, SessionSpoken, ReplySpoken,
           TtsFinishes, TtsFails, TtsCancelled, TtsOver, TtsLive
  <1> QED BY <1>1, <1>2 DEF StreamInv, TtsIsRight, ServedIsRight

LEMMA VoiceKeeps ==
    ASSUME StreamInv, TtsStep, UNCHANGED <<mode, served, loopVars>>,
           Adds(queue, queue'), VoiceIsTold', TtsIsRight', SessionsAreRight',
           WholeText(spoken, pending, listener)' = WholeText(spoken, pending, listener),
           WholeStyle(spoken, pending, listener)' = WholeStyle(spoken, pending, listener),
           listener.styles' = listener.styles, listener.wanted' = listener.wanted, listener.closed' = listener.closed
    PROVE  StreamInv'
  <1>1. phase = "answered" /\ ~Ended /\ Voiced /\ UNCHANGED <<phase, response>>
    BY VoiceIsLate DEF loopVars
  <1>2. LoopInv'
    BY LoopSteps DEF StreamInv
  <1>3. QueueIsRight'
    <2>1. served \notin {"result", "error"} /\ At(queue, LastKinds) = {}
      BY <1>1 DEF Ended, StreamInv, QueueIsRight
    <2>2. At(queue', LastKinds) = {} /\ queue' \in Said
      BY <2>1 DEF Adds, SameLast
    <2>3. RoundsIn(queue', 2)
      BY RoundsStay DEF StreamInv, QueueIsRight, Adds
    <2> QED BY <2>2, <2>3 DEF QueueIsRight
  <1>4. ServedIsRight'
    BY <1>1 DEF StreamInv, ServedIsRight, Ended, Voiced
  <1>5. UnansweredIsRight'
    BY <1>1 DEF UnansweredIsRight
  <1>6. AnsweredIsRight'
    <2> PICK x : x \in {response.text, <<>>} /\ AnsweredWith(x)
      BY <1>1 DEF StreamInv, AnsweredIsRight
    <2>1. ShownIn(queue') = ShownIn(queue)
      BY DEF Adds, SameTurn
    <2>2. Says(spoken, pending, listener, x)'
      BY <1>1 DEF AnsweredWith, Says
    <2>3. ShownText(x)' = ShownText(x)
      BY DEF ShownText, Strips
    <2>4. AnsweredWith(x)'
      BY <1>1, <2>1, <2>2, <2>3 DEF AnsweredWith
    <2> QED BY <1>1, <2>4 DEF AnsweredIsRight
  <1> QED BY <1>2, <1>3, <1>4, <1>5, <1>6 DEF StreamInv
\* The steps that take nothing of the input.
VoiceOnly ==
    /\ UNCHANGED <<mode, served, loopVars>>
    /\ UNCHANGED <<listener, pending, inputDone, session, spoken>>

LEMMA OnlyKeeps ==
    ASSUME StreamInv, TtsStep, VoiceOnly, Adds(queue, queue'), VoiceIsTold',
           tts' \in {"opening", "collecting", "between", "finished", "broken", "cancelled"},
           tts' = "collecting" => mode = "fish" /\ tts = "opening",
           tts' = "between" => mode = "doubao",
           tts' = "finished" => DrainedOf(listener) /\ pending = NoSegment
    PROVE  StreamInv'
  <1>1. listener.wanted /\ Voiced
    BY VoiceIsLate
  <1>2. TtsIsRight'
    <2>1. tts' \in Places
      BY DEF Places
    <2>2. pending = NoSegment \/ mode # "fish"
      BY DEF StreamInv, TtsIsRight
    <2>3. tts' = "collecting" => pending = NoSegment
      BY <2>2
    <2> QED BY <1>1, <2>1, <2>3 DEF StreamInv, TtsIsRight, VoiceOnly, loopVars, Voiced
  <1>3. SessionsAreRight'
    BY DEF StreamInv, SessionsAreRight, VoiceOnly
  <1>4. /\ WholeText(spoken, pending, listener)' = WholeText(spoken, pending, listener)
        /\ WholeStyle(spoken, pending, listener)' = WholeStyle(spoken, pending, listener)
        /\ listener.styles' = listener.styles /\ listener.wanted' = listener.wanted /\ listener.closed' = listener.closed
    BY DEF VoiceOnly
  <1> QED BY <1>2, <1>3, <1>4, VoiceKeeps DEF VoiceOnly

LEMMA QueueFacts ==
    ASSUME StreamInv
    PROVE  queue \in Said /\ (tts = "none" => VoiceUnbegun(queue)) /\ (TtsLive => VoiceBegun(queue))
  BY DEF StreamInv, QueueIsRight, VoiceIsTold

LEMMA TtsBeginsKeeps ==
    ASSUME StreamInv, TtsBegins, UNCHANGED <<mode, served, loopVars>>
    PROVE  StreamInv'
  <1>1. TtsStep /\ VoiceOnly /\ tts' = "opening" /\ Put(<<"tts_started">>) /\ tts = "none"
    BY DEF TtsStep, TtsBegins, VoiceOnly
  <1>2. Adds(queue, queue') /\ VoiceBegun(queue')
    BY <1>1, QueueFacts, VoiceOpens
  <1>3. VoiceIsTold'
    BY <1>1, <1>2 DEF VoiceIsTold, TtsLive
  <1> QED BY <1>1, <1>2, <1>3, OnlyKeeps

LEMMA OpenedKeeps ==
    ASSUME StreamInv, Opened, UNCHANGED <<mode, served, loopVars>>
    PROVE  StreamInv'
  <1>1. TtsStep /\ VoiceOnly /\ tts = "opening" /\ queue' = queue
        /\ tts' = IF mode = "fish" THEN "collecting" ELSE "between"
    BY DEF TtsStep, Opened, VoiceOnly
  <1>2. Adds(queue, queue') /\ VoiceBegun(queue')
    BY <1>1, QueueFacts, AddsOn DEF TtsLive
  <1>3. VoiceIsTold'
    BY <1>1, <1>2 DEF VoiceIsTold, TtsLive
  <1>4. mode = "fish" \/ mode = "doubao"
    BY <1>1, VoiceIsLate DEF Voiced
  <1> QED BY <1>1, <1>2, <1>3, <1>4, OnlyKeeps

LEMMA SessionSpokenKeeps ==
    ASSUME StreamInv, SessionSpoken, UNCHANGED <<mode, served, loopVars>>
    PROVE  StreamInv'
  <1>1. TtsStep /\ VoiceOnly /\ tts = "speaking" /\ mode = "doubao" /\ tts' = "between" /\ Put(<<"tts_audio">>)
    BY DEF TtsStep, SessionSpoken, VoiceOnly
  <1>2. Adds(queue, queue') /\ VoiceBegun(queue')
    BY <1>1, QueueFacts, VoiceGoesOn DEF TtsLive
  <1>3. VoiceIsTold'
    BY <1>1, <1>2 DEF VoiceIsTold, TtsLive
  <1> QED BY <1>1, <1>2, <1>3, OnlyKeeps

LEMMA ClosingKeeps ==
    ASSUME StreamInv, TtsStep, VoiceOnly, TtsLive, tts' \in {"finished", "broken", "cancelled"},
           \/ Put(<<"tts_finished">>)
           \/ Put(<<"tts_segment", "tts_finished">>)
           \/ Put(<<"tts_error", "tts_finished">>)
           \/ Put(<<"tts_audio", "tts_segment", "tts_finished">>),
           tts' = "finished" => DrainedOf(listener) /\ pending = NoSegment
    PROVE  StreamInv'
  <1>1. Adds(queue, queue') /\ VoiceEnded(queue')
    BY QueueFacts, VoiceCloses
  <1>2. VoiceIsTold'
    BY <1>1 DEF VoiceIsTold, TtsLive
  <1> QED BY <1>1, <1>2, OnlyKeeps

LEMMA ReplySpokenKeeps ==
    ASSUME StreamInv, ReplySpoken, UNCHANGED <<mode, served, loopVars>>
    PROVE  StreamInv'
  <1>1. /\ TtsStep /\ VoiceOnly /\ tts = "speaking" /\ mode = "fish" /\ tts' = "finished"
        /\ Put(<<"tts_audio", "tts_segment", "tts_finished">>)
    BY DEF TtsStep, ReplySpoken, VoiceOnly
  <1>2. DrainedOf(listener) /\ pending = NoSegment /\ TtsLive
    BY <1>1 DEF StreamInv, TtsIsRight, TtsLive
  <1> QED BY <1>1, <1>2, ClosingKeeps

LEMMA TtsFinishesKeeps ==
    ASSUME StreamInv, TtsFinishes, UNCHANGED <<mode, served, loopVars>>
    PROVE  StreamInv'
  <1>1. /\ TtsStep /\ VoiceOnly /\ tts = "between" /\ inputDone /\ pending = NoSegment /\ tts' = "finished"
        /\ Put(<<"tts_segment", "tts_finished">>) \/ Put(<<"tts_finished">>)
    <2>1. Put(IF session > 0 THEN <<"tts_segment", "tts_finished">> ELSE <<"tts_finished">>)
      BY DEF TtsFinishes
    <2>2. Put(<<"tts_segment", "tts_finished">>) \/ Put(<<"tts_finished">>)
      <3>1. CASE session > 0
        BY <2>1, <3>1, Zenon
      <3>2. CASE ~(session > 0)
        BY <2>1, <3>2, Zenon
      <3> QED BY <3>1, <3>2
    <2> QED BY <2>2 DEF TtsStep, TtsFinishes, VoiceOnly
  <1>2. DrainedOf(listener) /\ TtsLive
    BY <1>1 DEF StreamInv, TtsIsRight, TtsLive
  <1> QED BY <1>1, <1>2, ClosingKeeps

LEMMA TtsFailsKeeps ==
    ASSUME StreamInv, TtsFails, UNCHANGED <<mode, served, loopVars>>
    PROVE  StreamInv'
  <1>1. TtsStep /\ VoiceOnly /\ TtsLive /\ tts' = "broken" /\ Put(<<"tts_error", "tts_finished">>)
    BY DEF TtsStep, TtsFails, VoiceOnly, TtsLive
  <1> QED BY <1>1, ClosingKeeps

LEMMA TtsCancelledKeeps ==
    ASSUME StreamInv, TtsCancelled, UNCHANGED <<mode, served, loopVars>>
    PROVE  StreamInv'
  <1>1. TtsStep /\ VoiceOnly /\ tts' = "cancelled"
    BY DEF TtsStep, TtsCancelled, VoiceOnly
  <1>2. CASE TtsLive /\ Put(<<"tts_finished">>)
    BY <1>1, <1>2, ClosingKeeps
  <1>3. CASE tts = "none" /\ queue' = queue
    <2>1. Adds(queue, queue') /\ VoiceUnbegun(queue')
      BY <1>3, QueueFacts, AddsOn
    <2>2. VoiceIsTold'
      BY <1>1, <2>1 DEF VoiceIsTold, TtsLive
    <2> QED BY <1>1, <2>1, <2>2, OnlyKeeps
  <1> QED BY <1>2, <1>3 DEF TtsCancelled
-----------------------------------------------------------------------------
(* The steps of the voice that take what is to be spoken.                  *)

LEMMA Regroup ==
    ASSUME NEW T, NEW a \in Seq(T), NEW h \in Seq(T), NEW r \in Seq(T)
    PROVE  /\ (a \o h) \o (<<>> \o r) = a \o (h \o r)
           /\ <<>> \o (h \o r) = h \o r /\ <<>> \o r = r
  <1> PICK z : z = <<>>
    OBVIOUS
  <1>0. Joined(h, r) \in Seq(T)
    BY DEF Joined
  <1> PICK hr \in Seq(T) : hr = Joined(h, r)
    BY <1>0
  <1>1. Joined(z, r) = r /\ Joined(z, hr) = hr
    BY JoinedNone
  <1>2. Joined(Joined(a, h), r) = Joined(a, hr)
    BY JoinedThree
  <1>3. (a \o h) \o (<<>> \o r) = a \o (h \o r)
    BY <1>1, <1>2, Zenon DEF Joined
  <1>4. <<>> \o (h \o r) = h \o r /\ <<>> \o r = r
    BY <1>1, Zenon DEF Joined
  <1> QED BY <1>3, <1>4

LEMMA VoiceSegmentIs ==
    /\ \A p \in VoiceSegments : p # NoSegment /\ p # CloseMark /\ p.text \in Seq(Tokens) /\ p.style \in AllStyles
                                /\ p.style \in VoiceStyles /\ p.text \in SegmentTexts
    /\ NoSegment.text = <<>> /\ CloseMark.text = <<>> /\ CloseMark.style = "close" /\ CloseMark # NoSegment
    /\ \A h \in Segments : h.style \in VoiceStyles => h \in VoiceSegments
  <1>1. \A p \in VoiceSegments : /\ p.text \in Seq(Tokens) /\ p.text # <<>> /\ p.style \in VoiceStyles
                                 /\ p.text \in SegmentTexts
    BY DEF VoiceSegments, SegmentTexts
  <1>2. NoSegment.text = <<>> /\ CloseMark.text = <<>> /\ CloseMark.style = "close" /\ NoSegment.style = "none"
    BY DEF NoSegment, CloseMark
  <1>3. VoiceStyles \subseteq AllStyles
    BY DEF VoiceStyles, AllStyles, SpeechStyles
  <1>4. \A h \in Segments : h.style \in VoiceStyles => h \in VoiceSegments
    BY DEF Segments, VoiceSegments
  <1> QED BY <1>1, <1>2, <1>3, <1>4

TakenFrom(l) == [l EXCEPT !.input = Tail(@)]

LEMMA TakenGives ==
    ASSUME NEW l \in Listeners, l.input # <<>>
    PROVE  /\ TakenFrom(l) \in Listeners /\ TakenFrom(l).input = Tail(l.input)
           /\ TakenFrom(l).held = l.held /\ TakenFrom(l).buffer = l.buffer /\ TakenFrom(l).style = l.style
           /\ TakenFrom(l).styles = l.styles /\ TakenFrom(l).closed = l.closed /\ TakenFrom(l).wanted = l.wanted
           /\ TakenFrom(l).out = l.out
  <1>1. l.input \in Seq(Inputs)
    BY DEF Listeners, ListenersUpTo
  <1>0. Tail(l.input) \in Seq(Inputs)
    BY <1>1, HeadTailProperties
  <1> PICK t \in Seq(Inputs) : t = Tail(l.input)
    BY <1>0
  <1> PICK c : c = TakenFrom(l)
    OBVIOUS
  <1>2. c = [l EXCEPT !.input = t]
    BY Zenon DEF TakenFrom
  <1>3. /\ c \in Listeners /\ c.input = t
        /\ c.held = l.held /\ c.buffer = l.buffer /\ c.style = l.style
        /\ c.styles = l.styles /\ c.closed = l.closed /\ c.wanted = l.wanted /\ c.out = l.out
    BY <1>2 DEF Listeners, ListenersUpTo
  <1> QED BY <1>3

LEMMA FirstInput ==
    ASSUME NEW l \in Listeners, l.input # <<>>, InputEnds(l), l.styles = Schedule, NEW h, h = Head(l.input),
           NEW t, t = TakenFrom(l)
    PROVE  /\ InputEnds(t)
           /\ h # CloseMark => h \in VoiceSegments
           /\ h = CloseMark => DrainedOf(t)
  <1> PICK s \in Seq(Inputs) : s = l.input /\ s # <<>>
    BY DEF Listeners, ListenersUpTo
  <1>0. Tail(s) \in Seq(Inputs)
    BY HeadTailProperties
  <1> PICK r \in Seq(Inputs) : r = Tail(s)
    BY <1>0
  <1>1. Len(s) \in Nat \ {0} /\ Len(r) = Len(s) - 1 /\ h = s[1] /\ \A i \in 1 .. Len(r) : r[i] = s[i + 1]
    BY HeadTailProperties
  <1>2. t.input = r /\ t.closed = l.closed /\ t.buffer = l.buffer /\ t.styles = Schedule
    BY TakenGives
  <1>3. h \in Inputs /\ 1 \in 1 .. Len(s)
    BY <1>1
  <1>4. CASE l.closed
    <2>1. l.buffer = <<>>
      BY <1>4 DEF InputEnds
    <2>2. \A i \in 1 .. Len(s) : IF s[i] = CloseMark THEN i = Len(s) ELSE s[i].style \in VoiceStyles
      BY <1>4 DEF InputEnds
    <2>3. \A i \in 1 .. Len(r) : i + 1 \in 1 .. Len(s) /\ (i + 1 = Len(s) => i = Len(r))
      BY <1>1
    <2>4. \A i \in 1 .. Len(r) : IF r[i] = CloseMark THEN i = Len(r) ELSE r[i].style \in VoiceStyles
      BY <1>1, <2>2, <2>3
    <2>5. InputEnds(t)
      BY <1>2, <1>4, <2>1, <2>4 DEF InputEnds
    <2>6. h # CloseMark => h \in VoiceSegments
      BY <1>1, <1>3, <2>2, VoiceSegmentIs DEF Inputs
    <2>7. h = CloseMark => DrainedOf(t)
      <3> SUFFICES ASSUME h = CloseMark PROVE DrainedOf(t)
        OBVIOUS
      <3>1. s[1] = CloseMark
        BY <1>1
      <3>2. 1 = Len(s)
        BY <1>3, <2>2, <3>1
      <3>3. Len(r) = 0
        BY <1>1, <3>2
      <3>4. r = <<>>
        BY <3>3, EmptySeq
      <3> QED BY <1>2, <1>4, <2>1, <3>4 DEF DrainedOf
    <2> QED BY <2>5, <2>6, <2>7
  <1>5. CASE ~l.closed
    <2>1. \A i \in 1 .. Len(s) : s[i] # CloseMark /\ s[i].style \in VoiceStyles
      BY <1>5 DEF InputEnds, MarkFree
    <2>2. \A i \in 1 .. Len(r) : i + 1 \in 1 .. Len(s)
      BY <1>1
    <2>3. \A i \in 1 .. Len(r) : r[i] # CloseMark /\ r[i].style \in VoiceStyles
      BY <1>1, <2>1, <2>2
    <2>4. InputEnds(t)
      BY <1>2, <1>5, <2>3 DEF InputEnds, MarkFree
    <2>5. h # CloseMark /\ h \in VoiceSegments
      BY <1>1, <1>3, <2>1, VoiceSegmentIs DEF Inputs
    <2> QED BY <2>4, <2>5
  <1> QED BY <1>4, <1>5

LEMMA LineIsTaken ==
    ASSUME NEW l \in Listeners, l.input # <<>>, NEW h, h = Head(l.input), NEW t, t = TakenFrom(l)
    PROVE  /\ h.text \in Seq(Tokens) /\ h.style \in AllStyles
           /\ TextLine(l) = h.text \o TextLine(t)
           /\ StyleLine(l) = AllOf(h.style, h.text) \o StyleLine(t)
  <1> PICK s \in Seq(Inputs) : s = l.input /\ s # <<>> /\ Pieces(s)
    BY LineOfListener
  <1>0. Tail(s) \in Seq(Inputs)
    BY HeadTailProperties
  <1> PICK r \in Seq(Inputs) : r = Tail(s)
    BY <1>0
  <1>1. t \in Listeners /\ t.input = r /\ t.buffer = l.buffer /\ t.style = l.style
    BY TakenGives
  <1>2. h = s[1]
    BY TextsTail
  <1>3. h.text \in Seq(Tokens) /\ h.style \in AllStyles
    BY <1>2, TextsTail
  <1>4. Texts(s) = h.text \o Texts(r)
    BY <1>2, TextsTail
  <1>5. StyleOf(s) = AllOf(h.style, h.text) \o StyleOf(r)
    BY <1>2, TextsTail
  <1> PICK a \in Seq(Tokens), b \in Seq(Tokens), c \in Seq(Tokens) : a = h.text /\ b = Texts(r) /\ c = l.buffer
    BY <1>1, <1>3, LineOfListener
  <1> PICK d \in Seq(AllStyles), e \in Seq(AllStyles), f \in Seq(AllStyles) :
        d = AllOf(h.style, h.text) /\ e = StyleOf(r) /\ f = AllOf(l.style, l.buffer)
    <2>1. AllOf(h.style, h.text) \in Seq(AllStyles)
      BY <1>3, AllOfType
    <2> QED BY <1>1, <2>1, LineOfListener
  <1>6. Joined(Joined(a, b), c) = Joined(a, Joined(b, c))
    BY JoinedThree
  <1>7. Joined(Joined(d, e), f) = Joined(d, Joined(e, f))
    BY JoinedThree
  <1>8. TextLine(l) = h.text \o TextLine(t)
    BY <1>1, <1>4, <1>6, Zenon DEF Joined, TextLine
  <1>9. StyleLine(l) = AllOf(h.style, h.text) \o StyleLine(t)
    BY <1>1, <1>5, <1>7, Zenon DEF Joined, StyleLine
  <1> QED BY <1>3, <1>8, <1>9
\* What is spoken stays what is shown, wherever a segment goes.
LEMMA SpeechesArePieces ==
    ASSUME NEW s \in Seq(Speeches)
    PROVE  Pieces(s) /\ Texts(s) \in Seq(Tokens) /\ StyleOf(s) \in Seq(AllStyles)
  <1>1. \A e \in Speeches : e.text \in Seq(Tokens) /\ e.style \in AllStyles
    BY DEF Speeches, SegmentTexts, VoiceStyles, AllStyles, SpeechStyles
  <1>2. Len(s) \in Nat /\ DOMAIN s = 1 .. Len(s) /\ \A i \in 1 .. Len(s) : s[i] \in Speeches
    OBVIOUS
  <1>3. Pieces(s)
    BY <1>1, <1>2 DEF Pieces
  <1> QED BY <1>3, TextsType

Speech(n, h) == [session |-> n, style |-> h.style, text |-> h.text]

LEMMA SpeechIs ==
    ASSUME NEW n \in Nat, NEW h \in VoiceSegments
    PROVE  Speech(n, h) \in Speeches /\ Speech(n, h).text = h.text /\ Speech(n, h).style = h.style
           /\ Speech(n, h).session = n
  BY DEF Speech, Speeches, VoiceSegments

LEMMA SpeechAdds ==
    ASSUME NEW s \in Seq(Speeches), NEW n \in Nat, NEW h \in VoiceSegments
    PROVE  /\ Append(s, Speech(n, h)) \in Seq(Speeches)
           /\ Texts(Append(s, Speech(n, h))) = Texts(s) \o h.text
           /\ StyleOf(Append(s, Speech(n, h))) = StyleOf(s) \o AllOf(h.style, h.text)
  <1> PICK e \in Speeches : e = Speech(n, h) /\ e.text = h.text /\ e.style = h.style
    BY SpeechIs
  <1>1. e.text \in Seq(Tokens) /\ e.style \in AllStyles /\ Pieces(s)
    BY VoiceSegmentIs, SpeechesArePieces
  <1>2. Append(s, e) \in Seq(Speeches)
    OBVIOUS
  <1>3. Texts(Append(s, e)) = Texts(s) \o e.text
    BY <1>1, TextsAppend
  <1>4. StyleOf(Append(s, e)) = StyleOf(s) \o AllOf(e.style, e.text)
    BY <1>1, TextsAppend
  <1> QED BY <1>2, <1>3, <1>4

LEMMA PendingIs ==
    /\ PendingText(NoSegment) = <<>> /\ PendingStyle(NoSegment) = <<>>
    /\ \A p \in VoiceSegments : PendingText(p) = p.text /\ PendingStyle(p) = AllOf(p.style, p.text)
  BY VoiceSegmentIs DEF PendingText, PendingStyle

LEMMA TextsRegroup ==
    \A a, h, r \in Seq(Tokens) : (a \o h) \o (<<>> \o r) = a \o (h \o r)
  BY Regroup

\* The pending segment is spoken.
LEMMA PendingIsSpoken ==
    ASSUME NEW s \in Seq(Speeches), NEW n \in Nat, NEW p \in VoiceSegments, NEW l \in Listeners
    PROVE  /\ WholeText(Append(s, Speech(n, p)), NoSegment, l) = WholeText(s, p, l)
           /\ WholeStyle(Append(s, Speech(n, p)), NoSegment, l) = WholeStyle(s, p, l)
  <1> PICK a \in Seq(Tokens), h \in Seq(Tokens), r \in Seq(Tokens) : a = Texts(s) /\ h = p.text /\ r = TextLine(l)
    BY SpeechesArePieces, LineOfListener, VoiceSegmentIs
  <1> PICK b \in Seq(AllStyles), i \in Seq(AllStyles), q \in Seq(AllStyles) :
        b = StyleOf(s) /\ i = AllOf(p.style, p.text) /\ q = StyleLine(l)
    <2>1. AllOf(p.style, p.text) \in Seq(AllStyles)
      BY VoiceSegmentIs, AllOfType
    <2> QED BY <2>1, SpeechesArePieces, LineOfListener
  <1>1. (a \o h) \o (<<>> \o r) = a \o (h \o r)
    BY TextsRegroup
  <1>2. (b \o i) \o (<<>> \o q) = b \o (i \o q)
    BY Regroup
  <1>3. /\ Texts(Append(s, Speech(n, p))) = Texts(s) \o p.text
        /\ StyleOf(Append(s, Speech(n, p))) = StyleOf(s) \o AllOf(p.style, p.text)
    BY SpeechAdds
  <1>4. /\ PendingText(NoSegment) = <<>> /\ PendingStyle(NoSegment) = <<>>
        /\ PendingText(p) = p.text /\ PendingStyle(p) = AllOf(p.style, p.text)
    BY PendingIs
  <1> HIDE DEF NoSegment
  <1>5. WholeText(Append(s, Speech(n, p)), NoSegment, l) = WholeText(s, p, l)
    BY <1>1, <1>3, <1>4, Zenon DEF WholeText
  <1>6. WholeStyle(Append(s, Speech(n, p)), NoSegment, l) = WholeStyle(s, p, l)
    BY <1>2, <1>3, <1>4, Zenon DEF WholeStyle
  <1> QED BY <1>5, <1>6

\* A segment of the input is next.
LEMMA InputIsPending ==
    ASSUME NEW s \in Seq(Speeches), NEW l \in Listeners, l.input # <<>>, NEW t, t = TakenFrom(l),
           NEW h \in VoiceSegments, h = Head(l.input)
    PROVE  /\ WholeText(s, h, t) = WholeText(s, NoSegment, l)
           /\ WholeStyle(s, h, t) = WholeStyle(s, NoSegment, l)
  <1>0. t \in Listeners
    BY TakenGives
  <1> PICK a \in Seq(Tokens), g \in Seq(Tokens), r \in Seq(Tokens) : a = Texts(s) /\ g = h.text /\ r = TextLine(t)
    BY <1>0, SpeechesArePieces, LineOfListener, VoiceSegmentIs
  <1> PICK b \in Seq(AllStyles), i \in Seq(AllStyles), q \in Seq(AllStyles) :
        b = StyleOf(s) /\ i = AllOf(h.style, h.text) /\ q = StyleLine(t)
    <2>1. AllOf(h.style, h.text) \in Seq(AllStyles)
      BY VoiceSegmentIs, AllOfType
    <2> QED BY <1>0, <2>1, SpeechesArePieces, LineOfListener
  <1>1. <<>> \o (g \o r) = g \o r
    BY Regroup
  <1>2. <<>> \o (i \o q) = i \o q
    BY Regroup
  <1>3. TextLine(l) = h.text \o TextLine(t) /\ StyleLine(l) = AllOf(h.style, h.text) \o StyleLine(t)
    BY LineIsTaken
  <1>4. /\ PendingText(NoSegment) = <<>> /\ PendingStyle(NoSegment) = <<>>
        /\ PendingText(h) = h.text /\ PendingStyle(h) = AllOf(h.style, h.text)
    BY PendingIs
  <1>5. WholeText(s, h, t) = WholeText(s, NoSegment, l)
    BY <1>1, <1>3, <1>4, Zenon DEF WholeText
  <1>6. WholeStyle(s, h, t) = WholeStyle(s, NoSegment, l)
    BY <1>2, <1>3, <1>4, Zenon DEF WholeStyle
  <1> QED BY <1>5, <1>6

\* A segment of the input is spoken.
LEMMA InputIsSpoken ==
    ASSUME NEW s \in Seq(Speeches), NEW n \in Nat, NEW l \in Listeners, l.input # <<>>, NEW t, t = TakenFrom(l),
           NEW h \in VoiceSegments, h = Head(l.input)
    PROVE  /\ WholeText(Append(s, Speech(n, h)), NoSegment, t) = WholeText(s, NoSegment, l)
           /\ WholeStyle(Append(s, Speech(n, h)), NoSegment, t) = WholeStyle(s, NoSegment, l)
  <1>0. t \in Listeners
    BY TakenGives
  <1>1. /\ WholeText(Append(s, Speech(n, h)), NoSegment, t) = WholeText(s, h, t)
        /\ WholeStyle(Append(s, Speech(n, h)), NoSegment, t) = WholeStyle(s, h, t)
    BY <1>0, PendingIsSpoken
  <1>2. /\ WholeText(s, h, t) = WholeText(s, NoSegment, l)
        /\ WholeStyle(s, h, t) = WholeStyle(s, NoSegment, l)
    BY InputIsPending
  <1> QED BY <1>1, <1>2

\* The mark that closes the input has no text.
LEMMA MarkIsTaken ==
    ASSUME NEW s, NEW p, NEW l \in Listeners, l.input # <<>>, NEW t, t = TakenFrom(l), CloseMark = Head(l.input)
    PROVE  WholeText(s, p, t) = WholeText(s, p, l) /\ WholeStyle(s, p, t) = WholeStyle(s, p, l)
  <1> PICK h : h = CloseMark
    OBVIOUS
  <1>0. t \in Listeners
    BY TakenGives
  <1>1. TextLine(l) = h.text \o TextLine(t) /\ StyleLine(l) = AllOf(h.style, h.text) \o StyleLine(t)
    BY LineIsTaken
  <1>2. h.text = <<>> /\ AllOf(h.style, h.text) = <<>>
    BY VoiceSegmentIs DEF AllOf
  <1>3. <<>> \o TextLine(t) = TextLine(t) /\ <<>> \o StyleLine(t) = StyleLine(t)
    <2>1. TextLine(t) \in Seq(Tokens) /\ StyleLine(t) \in Seq(AllStyles)
      BY <1>0, LineOfListener
    <2>2. Joined(<<>>, TextLine(t)) = TextLine(t) /\ Joined(<<>>, StyleLine(t)) = StyleLine(t)
      BY <2>1, JoinedNone
    <2> QED BY <2>2, Zenon DEF Joined
  <1>4. TextLine(l) = TextLine(t)
    BY <1>1, <1>2, <1>3, Zenon
  <1>5. StyleLine(l) = StyleLine(t)
    BY <1>1, <1>2, <1>3, Zenon
  <1>6. WholeText(s, p, t) = WholeText(s, p, l)
    BY <1>4, Zenon DEF WholeText
  <1>7. WholeStyle(s, p, t) = WholeStyle(s, p, l)
    BY <1>5, Zenon DEF WholeStyle
  <1> QED BY <1>6, <1>7
\* One more speech of a session that is new, or of the style of the last one.
SessionsOf(s, n) ==
    /\ \A i \in 1 .. Len(s) : s[i].session <= n
    /\ \A i, j \in 1 .. Len(s) : s[i].session = s[j].session => s[i].style = s[j].style

LEMMA SessionGrows ==
    ASSUME NEW s \in Seq(Speeches), NEW n \in Nat, NEW m \in Nat, NEW h \in VoiceSegments, SessionsOf(s, n),
           \/ m = n + 1
           \/ m = n /\ s # <<>> /\ s[Len(s)].session = n /\ s[Len(s)].style = h.style
    PROVE  /\ SessionsOf(Append(s, Speech(m, h)), m)
           /\ Append(s, Speech(m, h)) # <<>>
           /\ Append(s, Speech(m, h))[Len(Append(s, Speech(m, h)))].session = m
           /\ Append(s, Speech(m, h)) \in Seq(Speeches)
           /\ Len(Append(s, Speech(m, h))) = Len(s) + 1
  <1> PICK e \in Speeches : e = Speech(m, h) /\ e.style = h.style /\ e.session = m
    BY SpeechIs
  <1> PICK k \in Nat : k = Len(s)
    OBVIOUS
  <1>1. /\ Append(s, e) \in Seq(Speeches) /\ Len(Append(s, e)) = k + 1 /\ Append(s, e)[k + 1] = e
        /\ \A i \in 1 .. k : Append(s, e)[i] = s[i]
    BY AppendProperties
  <1> PICK c \in Seq(Speeches) : c = Append(s, e) /\ Len(c) = k + 1 /\ c[k + 1] = e /\ \A i \in 1 .. k : c[i] = s[i]
    BY <1>1
  <1>2. \A i \in 1 .. k : s[i].session \in Nat /\ s[i].session <= n
    <2>1. \A i \in 1 .. k : s[i] \in Speeches
      OBVIOUS
    <2> QED BY <2>1 DEF SessionsOf, Speeches
  <1>3. \A i \in 1 .. k + 1 : i = k + 1 \/ i \in 1 .. k
    OBVIOUS
  <1>4. \A i \in 1 .. Len(c) : c[i].session <= m
    BY <1>2, <1>3
  <1>5. \A i \in 1 .. k : s[i].session = m => s[i].style = h.style
    <2>1. CASE m = n + 1
      BY <1>2, <2>1
    <2>2. CASE m = n /\ s # <<>> /\ s[Len(s)].session = n /\ s[Len(s)].style = h.style
      <3>1. k \in 1 .. k
        BY <2>2, EmptySeq
      <3> QED BY <2>2, <3>1 DEF SessionsOf
    <2> QED BY <2>1, <2>2
  <1>6. \A i, j \in 1 .. k : c[i].session = c[j].session => c[i].style = c[j].style
    BY DEF SessionsOf
  <1>7. ASSUME NEW i \in 1 .. Len(c), NEW j \in 1 .. Len(c), c[i].session = c[j].session
        PROVE  c[i].style = c[j].style
    <2>1. CASE i \in 1 .. k /\ j \in 1 .. k
      BY <1>6, <1>7, <2>1
    <2>2. CASE i = k + 1 /\ j \in 1 .. k
      BY <1>5, <1>7, <2>2
    <2>3. CASE j = k + 1 /\ i \in 1 .. k
      BY <1>5, <1>7, <2>3
    <2>4. CASE i = k + 1 /\ j = k + 1
      BY <2>4
    <2> QED BY <1>3, <2>1, <2>2, <2>3, <2>4
  <1>8. SessionsOf(c, m)
    BY <1>4, <1>7 DEF SessionsOf
  <1>9. c # <<>>
    BY EmptySeq
  <1> QED BY <1>8, <1>9

\* What a step that takes from the input finds.
LEMMA InputFacts ==
    ASSUME StreamInv, TtsStep, listener.input # <<>>
    PROVE  /\ listener \in Listeners /\ listener.styles = Schedule /\ InputEnds(listener) /\ ~inputDone
           /\ TakenFrom(listener) \in Listeners /\ InputEnds(TakenFrom(listener)) /\ TakenFrom(listener).out = <<>>
           /\ NextInput # CloseMark => NextInput \in VoiceSegments
           /\ NextInput = CloseMark => DrainedOf(TakenFrom(listener))
           /\ TakenFrom(listener).styles = listener.styles /\ TakenFrom(listener).wanted = listener.wanted
           /\ TakenFrom(listener).closed = listener.closed
  <1>1. listener \in Listeners /\ InputEnds(listener) /\ listener.out = <<>> /\ ~inputDone /\ listener.styles = Schedule
    BY VoiceIsLate DEF StreamInv, TtsIsRight, DrainedOf
  <1> QED BY <1>1, TakenGives, FirstInput DEF NextInput

LEMMA InputKeeps ==
    ASSUME StreamInv, TtsStep, UNCHANGED <<mode, served, loopVars, queue>>, TtsLive, TtsLive',
           TtsIsRight', SessionsAreRight',
           WholeText(spoken, pending, listener)' = WholeText(spoken, pending, listener),
           WholeStyle(spoken, pending, listener)' = WholeStyle(spoken, pending, listener),
           listener.styles' = listener.styles, listener.wanted' = listener.wanted, listener.closed' = listener.closed
    PROVE  StreamInv'
  <1>1. Adds(queue, queue')
    BY QueueFacts, AddsOn
  <1>2. VoiceIsTold'
    BY QueueFacts DEF VoiceIsTold, TtsLive
  <1> QED BY <1>1, <1>2, VoiceKeeps

LEMMA SpeakIs == \A s, n : Speak(s, n) <=> spoken' = Append(spoken, Speech(n, s))
  BY DEF Speak, Speech

\* A voice that has taken everything has said something.
LEMMA VoiceHasSpoken ==
    ASSUME StreamInv, TtsStep, listener.input # <<>>, NextInput = CloseMark, pending = NoSegment
    PROVE  spoken # <<>>
  <1> SUFFICES ASSUME spoken = <<>> PROVE FALSE
    OBVIOUS
  <1>1. phase = "answered" /\ Voiced /\ listener.wanted
    BY VoiceIsLate
  <1> PICK x : AnsweredWith(x)
    BY <1>1 DEF StreamInv, AnsweredIsRight
  <1>2. WholeText(spoken, pending, listener) = Clean(x) /\ Clean(x) # <<>>
    BY <1>1 DEF AnsweredWith, Says
  <1> PICK t \in Listeners : t = TakenFrom(listener) /\ DrainedOf(t)
    BY InputFacts
  <1>3. WholeText(spoken, pending, t) = Clean(x)
    BY <1>2, InputFacts, MarkIsTaken DEF NextInput
  <1>4. TextLine(t) = Texts(<<>>) \o <<>>
    BY Zenon DEF TextLine, DrainedOf
  <1>5. Texts(<<>>) = <<>> /\ PendingText(NoSegment) = <<>>
    BY TextsOfNone, PendingIs
  <1>6. Clean(x) = <<>> \o (<<>> \o (<<>> \o <<>>))
    BY <1>3, <1>4, <1>5, Zenon DEF WholeText
  <1>7. <<>> \o (<<>> \o (<<>> \o <<>>)) = <<>>
    <2>1. <<>> \o <<>> = <<>>
      <3>1. <<>> \in Seq(Tokens)
        OBVIOUS
      <3>2. Joined(<<>>, <<>>) = <<>>
        BY <3>1, JoinedNone
      <3> QED BY <3>2, Zenon DEF Joined
    <2> QED BY <2>1, Zenon
  <1> QED BY <1>2, <1>6, <1>7, Zenon
LEMMA CollectKeeps ==
    ASSUME StreamInv, Collect, UNCHANGED <<mode, served, loopVars>>
    PROVE  StreamInv'
  <1>1. /\ TtsStep /\ tts = "collecting" /\ listener.input # <<>> /\ mode = "fish" /\ pending = NoSegment /\ TtsLive
        /\ listener' = TakenFrom(listener)
        /\ UNCHANGED <<queue, pending, inputDone>>
    BY DEF TtsStep, Collect, TakeInput, TakenFrom, StreamInv, TtsIsRight, TtsLive
  <1>2. listener.wanted /\ Voiced /\ phase = "answered" /\ phase' = phase
    BY <1>1, VoiceIsLate DEF loopVars
  <1> PICK t \in Listeners : t = TakenFrom(listener)
    BY <1>1, InputFacts
  <1>3. /\ InputEnds(t) /\ t.out = <<>> /\ t.styles = listener.styles /\ t.wanted = listener.wanted
        /\ t.closed = listener.closed /\ ~inputDone /\ listener.styles = Schedule
    BY <1>1, InputFacts
  <1>4. CASE NextInput # CloseMark
    <2>1. spoken' = Append(spoken, Speech(1, NextInput)) /\ UNCHANGED <<tts, session>>
      BY <1>4, SpeakIs DEF Collect
    <2>2. NextInput \in VoiceSegments
      BY <1>1, <1>4, InputFacts
    <2>3. /\ WholeText(spoken', NoSegment, t) = WholeText(spoken, NoSegment, listener)
          /\ WholeStyle(spoken', NoSegment, t) = WholeStyle(spoken, NoSegment, listener)
      <3> PICK n \in Nat : n = 1
        OBVIOUS
      <3>1. spoken' = Append(spoken, Speech(n, NextInput)) /\ spoken \in Seq(Speeches)
        BY <2>1 DEF StreamInv, SessionsAreRight
      <3> QED BY <1>1, <2>2, <3>1, InputIsSpoken, InputFacts DEF NextInput
    <2>4. TtsIsRight'
      BY <1>1, <1>2, <1>3, <2>1 DEF StreamInv, TtsIsRight, Voiced
    <2>5. SessionsAreRight'
      <3>1. spoken' \in Seq(Speeches) /\ Len(spoken') = Len(spoken) + 1 /\ Len(spoken) \in Nat
        <4> PICK e \in Speeches : e = Speech(1, NextInput)
          BY <2>2, SpeechIs
        <4> QED BY <2>1 DEF StreamInv, SessionsAreRight
      <3>2. session \in 0 .. Len(spoken')
        BY <3>1 DEF StreamInv, SessionsAreRight
      <3> QED BY <1>1, <2>1, <3>1, <3>2 DEF SessionsAreRight
    <2> QED BY <1>1, <1>3, <2>1, <2>3, <2>4, <2>5, InputKeeps DEF TtsLive
  <1>5. CASE NextInput = CloseMark
    <2>1. tts' = "speaking" /\ session' = 1 /\ UNCHANGED spoken
      BY <1>5 DEF Collect
    <2>2. DrainedOf(t) /\ spoken # <<>>
      BY <1>1, <1>5, InputFacts, VoiceHasSpoken
    <2>3. /\ WholeText(spoken, NoSegment, t) = WholeText(spoken, NoSegment, listener)
          /\ WholeStyle(spoken, NoSegment, t) = WholeStyle(spoken, NoSegment, listener)
      BY <1>1, <1>5, MarkIsTaken, InputFacts DEF NextInput
    <2>4. TtsIsRight'
      BY <1>1, <1>2, <1>3, <2>1, <2>2 DEF StreamInv, TtsIsRight, Voiced, Places
    <2>5. SessionsAreRight'
      <3>1. spoken \in Seq(Speeches) /\ 1 \in 0 .. Len(spoken)
        BY <2>2, EmptySeq DEF StreamInv, SessionsAreRight
      <3> QED BY <1>1, <2>1, <3>1 DEF SessionsAreRight
    <2> QED BY <1>1, <1>3, <2>1, <2>3, <2>4, <2>5, InputKeeps DEF TtsLive
  <1> QED BY <1>4, <1>5

\* The sessions of Doubao.
LEMMA DoubaoSpeaks ==
    ASSUME StreamInv, mode = "doubao", UNCHANGED mode, NEW h \in VoiceSegments, NEW m \in Nat,
           spoken' = Append(spoken, Speech(m, h)), session' = m, tts' = "sending",
           \/ m = session + 1
           \/ m = session /\ spoken # <<>> /\ spoken[Len(spoken)].session = session
                /\ spoken[Len(spoken)].style = h.style
    PROVE  SessionsAreRight'
  <1>1. spoken \in Seq(Speeches) /\ session \in 0 .. Len(spoken) /\ session \in Nat /\ SessionsOf(spoken, session)
    BY DEF StreamInv, SessionsAreRight, SessionsOf
  <1>2. /\ SessionsOf(spoken', m) /\ spoken' # <<>> /\ spoken'[Len(spoken')].session = m
        /\ spoken' \in Seq(Speeches) /\ Len(spoken') = Len(spoken) + 1
    BY <1>1, SessionGrows
  <1>3. m \in 0 .. Len(spoken')
    BY <1>1, <1>2
  <1> QED BY <1>2, <1>3 DEF SessionsAreRight, SessionsOf

LEMMA StartSessionKeeps ==
    ASSUME StreamInv, StartSession, UNCHANGED <<mode, served, loopVars>>
    PROVE  StreamInv'
  <1>1. TtsStep /\ tts = "between" /\ ~inputDone /\ mode = "doubao" /\ TtsLive /\ UNCHANGED queue
        /\ listener.wanted /\ Voiced /\ phase = "answered" /\ phase' = phase
    <2>1. TtsStep /\ tts = "between" /\ ~inputDone /\ UNCHANGED queue
      BY DEF TtsStep, StartSession
    <2>2. listener.wanted /\ Voiced /\ phase = "answered" /\ phase' = phase
      BY <2>1, VoiceIsLate DEF loopVars
    <2>3. mode = "doubao"
      BY <2>1, <2>2 DEF StreamInv, TtsIsRight, Voiced
    <2> QED BY <2>1, <2>2, <2>3 DEF TtsLive
  <1>2. session \in Nat /\ spoken \in Seq(Speeches)
    BY DEF StreamInv, SessionsAreRight
  <1>3. CASE pending # NoSegment
    <2>1. /\ spoken' = Append(spoken, Speech(session + 1, pending)) /\ pending' = NoSegment
          /\ session' = session + 1 /\ tts' = "sending" /\ UNCHANGED <<listener, inputDone>>
      BY <1>3, SpeakIs DEF StartSession
    <2>2. pending \in VoiceSegments /\ listener \in Listeners
      BY <1>3 DEF StreamInv, TtsIsRight
    <2> PICK m \in Nat : m = session + 1
      BY <1>2
    <2>3. /\ WholeText(spoken', NoSegment, listener) = WholeText(spoken, pending, listener)
          /\ WholeStyle(spoken', NoSegment, listener) = WholeStyle(spoken, pending, listener)
      BY <1>2, <2>1, <2>2, PendingIsSpoken
    <2>4. TtsIsRight'
      BY <1>1, <2>1 DEF StreamInv, TtsIsRight, Voiced, Places
    <2>5. SessionsAreRight'
      BY <1>1, <2>1, <2>2, DoubaoSpeaks
    <2> QED BY <1>1, <2>1, <2>3, <2>4, <2>5, InputKeeps DEF TtsLive
  <1>4. CASE pending = NoSegment /\ listener.input # <<>> /\ TakeInput
    <2> PICK t \in Listeners : t = TakenFrom(listener)
      BY <1>1, <1>4, InputFacts
    <2>1. /\ InputEnds(t) /\ t.out = <<>> /\ t.styles = listener.styles /\ t.wanted = listener.wanted
          /\ t.closed = listener.closed /\ listener.styles = Schedule
      BY <1>1, <1>4, InputFacts
    <2>2. listener' = t
      BY <1>4 DEF TakeInput, TakenFrom
    <2>3. CASE NextInput # CloseMark
      <3>1. /\ spoken' = Append(spoken, Speech(session + 1, NextInput)) /\ session' = session + 1
            /\ tts' = "sending" /\ UNCHANGED <<pending, inputDone>>
        BY <1>4, <2>3, SpeakIs DEF StartSession
      <3>2. NextInput \in VoiceSegments
        BY <1>1, <1>4, <2>3, InputFacts
      <3> PICK m \in Nat : m = session + 1
        BY <1>2
      <3>3. /\ WholeText(spoken', NoSegment, t) = WholeText(spoken, NoSegment, listener)
            /\ WholeStyle(spoken', NoSegment, t) = WholeStyle(spoken, NoSegment, listener)
        BY <1>1, <1>2, <1>4, <3>1, <3>2, InputIsSpoken, InputFacts DEF NextInput
      <3>4. TtsIsRight'
        BY <1>1, <1>4, <2>1, <2>2, <3>1 DEF StreamInv, TtsIsRight, Voiced, Places
      <3>5. SessionsAreRight'
        BY <1>1, <3>1, <3>2, DoubaoSpeaks
      <3> QED BY <1>1, <1>4, <2>1, <2>2, <3>1, <3>3, <3>4, <3>5, InputKeeps DEF TtsLive
    <2>4. CASE NextInput = CloseMark
      <3>1. inputDone' = TRUE /\ UNCHANGED <<tts, pending, session, spoken>>
        BY <1>4, <2>4 DEF StartSession
      <3>2. DrainedOf(t)
        BY <1>1, <1>4, <2>4, InputFacts
      <3>3. /\ WholeText(spoken, NoSegment, t) = WholeText(spoken, NoSegment, listener)
            /\ WholeStyle(spoken, NoSegment, t) = WholeStyle(spoken, NoSegment, listener)
        BY <1>1, <1>4, <2>4, MarkIsTaken, InputFacts DEF NextInput
      <3>4. TtsIsRight'
        BY <1>1, <1>4, <2>1, <2>2, <3>1, <3>2 DEF StreamInv, TtsIsRight, Voiced, Places
      <3>5. SessionsAreRight'
        BY <1>1, <3>1 DEF StreamInv, SessionsAreRight
      <3> QED BY <1>1, <1>4, <2>1, <2>2, <3>1, <3>3, <3>4, <3>5, InputKeeps DEF TtsLive
    <2> QED BY <2>3, <2>4
  <1> QED BY <1>3, <1>4 DEF StartSession

LEMMA SendNextKeeps ==
    ASSUME StreamInv, SendNext, UNCHANGED <<mode, served, loopVars>>
    PROVE  StreamInv'
  <1>1. TtsStep /\ tts = "sending" /\ listener.input # <<>> /\ mode = "doubao" /\ TtsLive /\ UNCHANGED <<queue, session>>
        /\ pending = NoSegment /\ listener.wanted /\ Voiced /\ phase = "answered" /\ phase' = phase /\ ~inputDone
    <2>1. TtsStep /\ tts = "sending" /\ listener.input # <<>> /\ UNCHANGED <<queue, session>>
      BY DEF TtsStep, SendNext
    <2>2. listener.wanted /\ Voiced /\ phase = "answered" /\ phase' = phase
      BY <2>1, VoiceIsLate DEF loopVars
    <2>3. mode = "doubao" /\ pending = NoSegment
      BY <2>1, <2>2 DEF StreamInv, TtsIsRight, Voiced
    <2> QED BY <2>1, <2>2, <2>3, InputFacts DEF TtsLive
  <1>2. session \in Nat /\ spoken \in Seq(Speeches) /\ spoken # <<>> /\ spoken[Len(spoken)].session = session
    BY <1>1 DEF StreamInv, SessionsAreRight
  <1> PICK t \in Listeners : t = TakenFrom(listener)
    BY <1>1, InputFacts
  <1>3. /\ InputEnds(t) /\ t.out = <<>> /\ t.styles = listener.styles /\ t.wanted = listener.wanted
        /\ t.closed = listener.closed /\ listener.styles = Schedule
    BY <1>1, InputFacts
  <1>4. listener' = t
    BY DEF SendNext, TakeInput, TakenFrom
  <1>5. CASE NextInput = CloseMark /\ inputDone' = TRUE /\ tts' = "speaking" /\ UNCHANGED <<pending, spoken>>
    <2>1. DrainedOf(t)
      BY <1>1, <1>5, InputFacts
    <2>2. /\ WholeText(spoken, NoSegment, t) = WholeText(spoken, NoSegment, listener)
          /\ WholeStyle(spoken, NoSegment, t) = WholeStyle(spoken, NoSegment, listener)
      BY <1>1, <1>5, MarkIsTaken, InputFacts DEF NextInput
    <2>3. TtsIsRight'
      BY <1>1, <1>3, <1>4, <1>5, <2>1 DEF StreamInv, TtsIsRight, Voiced, Places
    <2>4. SessionsAreRight'
      BY <1>1, <1>5 DEF StreamInv, SessionsAreRight
    <2> QED BY <1>1, <1>3, <1>4, <1>5, <2>2, <2>3, <2>4, InputKeeps DEF TtsLive
  <1>6. CASE /\ NextInput # CloseMark
             /\ pending' = NextInput /\ tts' = "speaking" /\ UNCHANGED <<inputDone, spoken>>
    <2>1. NextInput \in VoiceSegments
      BY <1>1, <1>6, InputFacts
    <2>2. /\ WholeText(spoken, NextInput, t) = WholeText(spoken, NoSegment, listener)
          /\ WholeStyle(spoken, NextInput, t) = WholeStyle(spoken, NoSegment, listener)
      BY <1>1, <1>2, <2>1, InputIsPending, InputFacts DEF NextInput
    <2>3. TtsIsRight'
      BY <1>1, <1>3, <1>4, <1>6, <2>1 DEF StreamInv, TtsIsRight, Voiced, Places
    <2>4. SessionsAreRight'
      BY <1>1, <1>6 DEF StreamInv, SessionsAreRight
    <2> QED BY <1>1, <1>3, <1>4, <1>6, <2>2, <2>3, <2>4, InputKeeps DEF TtsLive
  <1>7. CASE /\ NextInput # CloseMark /\ NextInput.style = spoken[Len(spoken)].style
             /\ Speak(NextInput, session) /\ UNCHANGED <<tts, pending, inputDone>>
    <2>1. NextInput \in VoiceSegments /\ spoken' = Append(spoken, Speech(session, NextInput))
      BY <1>1, <1>7, InputFacts, SpeakIs
    <2>2. /\ WholeText(spoken', NoSegment, t) = WholeText(spoken, NoSegment, listener)
          /\ WholeStyle(spoken', NoSegment, t) = WholeStyle(spoken, NoSegment, listener)
      BY <1>1, <1>2, <2>1, InputIsSpoken, InputFacts DEF NextInput
    <2>3. TtsIsRight'
      BY <1>1, <1>3, <1>4, <1>7 DEF StreamInv, TtsIsRight, Voiced, Places
    <2>4. SessionsAreRight'
      BY <1>1, <1>2, <1>7, <2>1, DoubaoSpeaks
    <2> QED BY <1>1, <1>3, <1>4, <1>7, <2>2, <2>3, <2>4, InputKeeps DEF TtsLive
  <1> QED BY <1>5, <1>6, <1>7 DEF SendNext

LEMMA TtsKeeps ==
    ASSUME StreamInv, TtsStep, UNCHANGED <<mode, served, loopVars>>
    PROVE  StreamInv'
  BY TtsBeginsKeeps, CollectKeeps, OpenedKeeps, StartSessionKeeps, SendNextKeeps, SessionSpokenKeeps,
     ReplySpokenKeeps, TtsFinishesKeeps, TtsFailsKeeps, TtsCancelledKeeps DEF TtsStep
-----------------------------------------------------------------------------
(* The task of the turn and the client.                                    *)

LEMMA ServeKeeps ==
    ASSUME StreamInv, UNCHANGED <<mode, loopVars, listener, tts, pending, inputDone, session, spoken>>,
           SameTurn(queue, queue'), SameVoice(queue, queue'), QueueIsRight', ServedIsRight'
    PROVE  StreamInv'
  <1>1. UNCHANGED <<phase, response>>
    BY DEF loopVars
  <1>2. LoopInv'
    BY LoopSteps DEF StreamInv
  <1>3. VoiceIsTold'
    BY VoiceStays DEF StreamInv, VoiceIsTold, TtsLive
  <1>4. TtsIsRight' /\ SessionsAreRight'
    BY <1>1 DEF StreamInv, TtsIsRight, SessionsAreRight, Voiced
  <1>5. UnansweredIsRight'
    BY <1>1 DEF StreamInv, UnansweredIsRight, Voiced, SameTurn
  <1>6. AnsweredIsRight'
    <2>1. \A x : ShownText(x)' = ShownText(x)
      BY DEF ShownText, Strips
    <2>2. \A x : AnsweredWith(x) => AnsweredWith(x)'
      BY <1>1, <2>1 DEF AnsweredWith, Voiced, SameTurn
    <2> QED BY <1>1, <2>2 DEF StreamInv, AnsweredIsRight
  <1> QED BY <1>2, <1>3, <1>4, <1>5, <1>6 DEF StreamInv

LEMMA FailingKeeps ==
    ASSUME StreamInv, served' \in {"failing", "cancelling"}, served \in {"running", "speaking"},
           UNCHANGED <<mode, loopVars, listener, queue, tts, pending, inputDone, session, spoken>>
    PROVE  StreamInv'
  <1>1. QueueIsRight'
    BY DEF StreamInv, QueueIsRight
  <1>2. ServedIsRight'
    BY DEF ServedIsRight, Ended
  <1>3. SameTurn(queue, queue') /\ SameVoice(queue, queue')
    BY DEF SameTurn, SameVoice
  <1> QED BY <1>1, <1>2, <1>3, ServeKeeps

LEMMA SettleKeeps ==
    ASSUME StreamInv, UNCHANGED <<mode, loopVars>>,
           \/ Settle("speaking", "result", <<"result">>)
           \/ Settle("failing", "error", <<"error">>)
           \/ Settle("cancelling", "cancelled", <<>>)
    PROVE  StreamInv'
  <1>1. queue \in Said /\ RoundsIn(queue, 2)
    BY DEF StreamInv, QueueIsRight
  <1>2. ASSUME NEW kind \in LastKinds, Put(<<kind>>), TtsOver, UNCHANGED <<listener, tts, pending, inputDone, session, spoken>>,
               served' \in {"result", "error"}, served \in {"speaking", "failing"},
               served' = "result" => served = "speaking"
        PROVE  StreamInv'
    <2>1. queue' = Append(queue, Told(kind))
      <3>1. kind \in SpokenKinds
        BY DEF SpokenKinds
      <3> QED BY <1>1, <1>2, <3>1, PutIs
    <2>2. /\ queue' \in Said /\ SameTurn(queue, queue') /\ SameVoice(queue, queue')
          /\ At(queue, LastKinds) = {} => At(queue', LastKinds) = {Len(queue')}
      BY <1>1, <2>1, LastSaid
    <2>3. At(queue, LastKinds) = {}
      BY <1>2 DEF StreamInv, QueueIsRight
    <2>4. QueueIsRight'
      BY <1>1, <1>2, <2>2, <2>3, RoundsStay DEF QueueIsRight
    <2>5. ServedIsRight'
      BY <1>2 DEF StreamInv, ServedIsRight, Ended, TtsOver, loopVars, Voiced
    <2> QED BY <1>2, <2>2, <2>4, <2>5, ServeKeeps
  <1>3. CASE Settle("speaking", "result", <<"result">>)
    <2> PICK kind \in LastKinds : kind = "result"
      BY DEF LastKinds
    <2>1. Put(<<kind>>)
      BY <1>3, Zenon DEF Settle
    <2> QED BY <1>2, <1>3, <2>1 DEF Settle
  <1>4. CASE Settle("failing", "error", <<"error">>)
    <2> PICK kind \in LastKinds : kind = "error"
      BY DEF LastKinds
    <2>1. Put(<<kind>>)
      BY <1>4, Zenon DEF Settle
    <2> QED BY <1>2, <1>4, <2>1 DEF Settle
  <1>5. CASE Settle("cancelling", "cancelled", <<>>)
    <2>1. Put(<<>>) /\ served' = "cancelled" /\ served = "cancelling" /\ TtsOver
          /\ UNCHANGED <<listener, tts, pending, inputDone, session, spoken>>
      BY <1>5 DEF Settle
    <2>2. queue' = queue
      <3> PICK kind \in SpokenKinds : kind = "error"
        BY DEF SpokenKinds, LastKinds
      <3> QED BY <1>1, <2>1, PutIs
    <2>3. QueueIsRight' /\ SameTurn(queue, queue') /\ SameVoice(queue, queue')
      BY <2>1, <2>2 DEF StreamInv, QueueIsRight, SameTurn, SameVoice
    <2>4. ServedIsRight'
      BY <2>1 DEF ServedIsRight, Ended, TtsOver
    <2> QED BY <2>1, <2>3, <2>4, ServeKeeps
  <1> QED BY <1>3, <1>4, <1>5

LEMMA PendingStyleType ==
    ASSUME NEW p \in VoiceSegments \cup {NoSegment}
    PROVE  PendingStyle(p) \in Seq(AllStyles)
  <1>1. CASE p = NoSegment
    BY <1>1, PendingIs
  <1>2. CASE p \in VoiceSegments
    BY <1>2, PendingIs, VoiceSegmentIs, AllOfType
  <1> QED BY <1>1, <1>2

LEMMA WholeCloses ==
    ASSUME NEW s \in Seq(Speeches), NEW p \in VoiceSegments \cup {NoSegment}, NEW l \in Listeners, NEW c \in Listeners,
           TextLine(c) = TextLine(l), Dresses(StyleLine(l), StyleLine(c)),
           NEW x, Dresses(x, WholeStyle(s, p, l))
    PROVE  WholeText(s, p, c) = WholeText(s, p, l) /\ Dresses(x, WholeStyle(s, p, c))
  <1>1. WholeText(s, p, c) = WholeText(s, p, l)
    BY Zenon DEF WholeText
  <1>2. PendingStyle(p) \in Seq(AllStyles)
    BY PendingStyleType
  <1> PICK a \in Seq(AllStyles), b \in Seq(AllStyles), d \in Seq(AllStyles), e \in Seq(AllStyles) :
        a = StyleOf(s) /\ b = PendingStyle(p) /\ d = StyleLine(l) /\ e = StyleLine(c)
    BY <1>2, SpeechesArePieces, LineOfListener
  <1>3. Dresses(a, a) /\ Dresses(b, b)
    BY DressesItself
  <1>4. Dresses(b \o d, b \o e) /\ b \o d \in Seq(AllStyles) /\ b \o e \in Seq(AllStyles)
    BY <1>3, DressesBoth
  <1>5. Dresses(a \o (b \o d), a \o (b \o e))
    BY <1>3, <1>4, DressesBoth
  <1>6. Dresses(WholeStyle(s, p, l), WholeStyle(s, p, c))
    BY <1>5, Zenon DEF WholeStyle
  <1> QED BY <1>1, <1>6, DressesOn

LEMMA ReturnedKeeps ==
    ASSUME StreamInv, Returned, UNCHANGED <<mode, loopVars>>
    PROVE  StreamInv'
  <1>1. /\ phase = "answered" /\ served = "running" /\ UNCHANGED <<phase, response>>
        /\ UNCHANGED <<queue, tts, pending, inputDone, session, spoken>>
    BY DEF Returned, loopVars
  <1>2. CASE served' = "failing" /\ UNCHANGED listener
    BY <1>1, <1>2, FailingKeeps
  <1>3. CASE served' = "speaking" /\ listener' = CloseInput(listener)
    <2> PICK l \in Listeners : l = listener /\ InputEnds(l) /\ l.out = <<>>
      BY DEF StreamInv, TtsIsRight
    <2>1. QueueIsRight' /\ VoiceIsTold' /\ SessionsAreRight' /\ UnansweredIsRight'
      BY <1>1, <1>3 DEF StreamInv, QueueIsRight, VoiceIsTold, TtsLive, SessionsAreRight, UnansweredIsRight
    <2>2. LoopInv'
      BY LoopSteps DEF StreamInv
    <2>3. CASE ~Voiced \/ l.closed
      <3>1. listener' = listener
        BY <1>3, <2>3 DEF CloseInput
      <3>2. ServedIsRight'
        BY <1>1, <1>3, <2>3, <3>1 DEF ServedIsRight, Ended, Voiced
      <3>3. SameTurn(queue, queue') /\ SameVoice(queue, queue')
        BY <1>1 DEF SameTurn, SameVoice
      <3> QED BY <1>1, <2>1, <3>1, <3>2, <3>3, ServeKeeps
    <2>4. CASE Voiced /\ ~l.closed
      <3> PICK x : x \in {response.text, <<>>} /\ AnsweredWith(x)
        BY <1>1 DEF StreamInv, AnsweredIsRight
      <3>1. l.styles = Schedule /\ MarkFree(l) /\ Says(spoken, pending, l, x)
        BY <2>4 DEF AnsweredWith, Says, InputEnds
      <3> PICK c : c = CloseInput(l)
        OBVIOUS
      <3>2. /\ c \in Listeners /\ InputEnds(c) /\ c.closed /\ c.out = <<>> /\ c.styles = Schedule
            /\ l.wanted => c.wanted
            /\ TextLine(c) = TextLine(l) /\ Dresses(StyleLine(l), StyleLine(c))
            /\ (l.wanted => TextLine(l) # <<>>) => (c.wanted => TextLine(l) # <<>>)
        BY <2>4, <3>1, CloseGives
      <3>3. listener' = c
        BY <1>3
      <3>4. spoken \in Seq(Speeches) /\ pending \in VoiceSegments \cup {NoSegment}
        BY DEF StreamInv, SessionsAreRight, TtsIsRight
      <3>5. Says(spoken, pending, c, x)
        <4>1. WholeText(spoken, pending, c) = WholeText(spoken, pending, l) /\ Dresses(TagsOf(x), WholeStyle(spoken, pending, c))
          BY <3>1, <3>2, <3>4, WholeCloses DEF Says
        <4>2. c.wanted => Clean(x) # <<>>
          <5>1. CASE l.wanted
            BY <3>1, <5>1 DEF Says
          <5>2. CASE ~l.wanted
            <6> SUFFICES ASSUME c.wanted PROVE Clean(x) # <<>>
              OBVIOUS
            <6>1. TextLine(l) # <<>>
              BY <3>2, <5>2
            <6>2. PendingText(pending) \in Seq(Tokens)
              <7>1. CASE pending = NoSegment
                BY <7>1, PendingIs
              <7>2. CASE pending \in VoiceSegments
                BY <7>2, PendingIs, VoiceSegmentIs
              <7> QED BY <3>4, <7>1, <7>2
            <6> PICK a \in Seq(Tokens), b \in Seq(Tokens), d \in Seq(Tokens) :
                  a = Texts(spoken) /\ b = PendingText(pending) /\ d = TextLine(l)
              BY <3>4, <6>2, SpeechesArePieces, LineOfListener
            <6>3. b \o d # <<>> /\ b \o d \in Seq(Tokens)
              BY <6>1, JoinedIsMore
            <6>4. a \o (b \o d) # <<>>
              BY <6>3, JoinedIsMore
            <6> QED BY <3>1, <6>4, Zenon DEF Says, WholeText
          <5> QED BY <5>1, <5>2
        <4> QED BY <3>1, <3>2, <4>1, <4>2 DEF Says
      <3>6. TtsIsRight'
        BY <1>1, <2>4, <3>2, <3>3 DEF StreamInv, TtsIsRight, DrainedOf, Voiced
      <3>7. ServedIsRight'
        BY <1>1, <1>3, <3>2, <3>3 DEF ServedIsRight, Ended
      <3>8. AnsweredWith(x)'
        <4>1. ShownText(x)' = ShownText(x)
          BY DEF ShownText, Strips
        <4> QED BY <1>1, <3>3, <3>5, <4>1 DEF AnsweredWith
      <3>9. AnsweredIsRight'
        BY <1>1, <3>8 DEF AnsweredIsRight
      <3> QED BY <2>1, <2>2, <3>6, <3>7, <3>9 DEF StreamInv
    <2> QED BY <2>3, <2>4
  <1> QED BY <1>2, <1>3 DEF Returned

LEMMA DisconnectedKeeps ==
    ASSUME StreamInv, Disconnected, UNCHANGED mode
    PROVE  StreamInv'
  <1>1. /\ served \in {"running", "speaking"} /\ served' = "cancelling"
        /\ UNCHANGED <<listener, queue, tts, pending, inputDone, session, spoken>>
    BY DEF Disconnected
  <1>2. CASE ~Waiting /\ UNCHANGED loopVars
    BY <1>1, <1>2, FailingKeeps
  <1>3. CASE Waiting /\ Cancel
    <2>1. phase # "answered" /\ phase' = "cancelled" /\ response' = response /\ phase # "failed"
      BY <1>3 DEF Waiting, Cancel
    <2>2. LoopInv'
      BY <1>3, LoopSteps DEF StreamInv, LoopNext
    <2>3. QueueIsRight' /\ VoiceIsTold' /\ SessionsAreRight'
      BY <1>1 DEF StreamInv, QueueIsRight, VoiceIsTold, TtsLive, SessionsAreRight
    <2>4. ~listener.wanted
      BY <2>1 DEF StreamInv, TtsIsRight
    <2>5. TtsIsRight' /\ ServedIsRight'
      BY <1>1, <2>4 DEF StreamInv, TtsIsRight, ServedIsRight, Ended, Voiced
    <2>6. UnansweredIsRight' /\ AnsweredIsRight'
      BY <1>1, <2>1 DEF StreamInv, UnansweredIsRight, AnsweredIsRight, Voiced
    <2> QED BY <2>2, <2>3, <2>5, <2>6 DEF StreamInv
  <1> QED BY <1>2, <1>3 DEF Disconnected

LEMMA ServeStepKeeps ==
    ASSUME StreamInv, ServeStep, UNCHANGED <<mode, loopVars>>
    PROVE  StreamInv'
  <1>1. CASE Raised
    <2>1. /\ served = "running" /\ served' = "failing"
          /\ UNCHANGED <<listener, queue, tts, pending, inputDone, session, spoken>>
      BY <1>1 DEF Raised
    <2> QED BY <2>1, FailingKeeps
  <1> QED BY <1>1, ReturnedKeeps, SettleKeeps DEF ServeStep
-----------------------------------------------------------------------------
(* The steps of the turn.                                                  *)

LEMMA SilentEnds == ASSUME NEW l, Silent(l) PROVE InputEnds(l) /\ l \in Listeners /\ l.out = <<>> /\ ~l.wanted
  <1> PICK m : m = CloseMark
    OBVIOUS
  <1>1. CASE l.closed
    <2>1. Len(l.input) = 1 /\ l.input[1] = m
      BY <1>1 DEF Silent, One
    <2>2. \A i \in 1 .. Len(l.input) : l.input[i] = m /\ i = Len(l.input)
      BY <2>1
    <2>3. \A i \in 1 .. Len(l.input) :
             IF l.input[i] = m THEN i = Len(l.input) ELSE l.styles = Schedule => l.input[i].style \in VoiceStyles
      BY <2>2
    <2>4. l.buffer = <<>>
      BY DEF Silent
    <2> QED BY <1>1, <2>3, <2>4 DEF Silent, InputEnds
  <1>2. CASE ~l.closed
    <2>1. Len(l.input) = 0
      BY <1>2 DEF Silent
    <2> QED BY <1>2, <2>1 DEF Silent, InputEnds, MarkFree
  <1> QED BY <1>1, <1>2 DEF Silent

\* The turn has no answer yet, and the voice has not begun.
Speechless ==
    /\ phase \in {"received", "asking", "calling", "executing"} /\ served = "running"
    /\ UNCHANGED <<mode, tts, pending, inputDone, session, spoken, served>>

LEMMA TurnFacts ==
    ASSUME StreamInv, Speechless
    PROVE  /\ Silent(listener) /\ ~listener.closed
           /\ Voiced /\ phase # "received" => listener.styles = Schedule
           /\ tts = "none" /\ pending = NoSegment /\ spoken = <<>> /\ session = 0 /\ ~inputDone
           /\ queue \in Said /\ At(queue, Deltas) = {} /\ ShownIn(queue) = <<>> /\ RoundsIn(queue, 2)
           /\ phase = "asking" => At(queue, Starts) # {}
           /\ At(queue, LastKinds) = {}
           /\ response.text \in Seq(Tokens)
  BY DEF StreamInv, Speechless, UnansweredIsRight, QueueIsRight

LEMMA TurnKeeps ==
    ASSUME StreamInv, Speechless, LoopInv',
           queue' \in Said, SameVoice(queue, queue'), SameLast(queue, queue'), RoundsIn(queue', 2),
           listener' \in Listeners, listener'.out = <<>>, InputEnds(listener'),
           listener'.wanted => Voiced /\ phase' = "answered" /\ listener'.styles = Schedule,
           UnansweredIsRight', AnsweredIsRight'
    PROVE  StreamInv'
  <1>1. QueueIsRight'
    BY TurnFacts DEF QueueIsRight, SameLast
  <1>2. VoiceIsTold'
    BY TurnFacts, VoiceStays DEF StreamInv, VoiceIsTold, Speechless, TtsLive
  <1>3. TtsIsRight'
    BY TurnFacts DEF StreamInv, TtsIsRight, Speechless, Voiced
  <1>4. SessionsAreRight'
    BY DEF StreamInv, SessionsAreRight, Speechless
  <1>5. ServedIsRight'
    BY DEF Speechless, ServedIsRight, Ended
  <1> QED BY <1>1, <1>2, <1>3, <1>4, <1>5 DEF StreamInv

\* A step that tells nothing of an answer.
LEMMA SilenceKeeps ==
    ASSUME StreamInv, Speechless, LoopInv', phase' \notin {"answered", "received", "cancelled"},
           Silent(listener'), listener'.closed => phase' = "failed",
           Voiced => listener'.styles = Schedule \/ phase' = "failed",
           queue' \in Said, Calmly(queue, queue'), phase' = "asking" => At(queue', Starts) # {},
           response'.text \in Seq(Tokens)
    PROVE  StreamInv'
  <1>1. UnansweredIsRight'
    BY TurnFacts DEF UnansweredIsRight, Calmly, Speechless, Voiced
  <1>2. AnsweredIsRight'
    BY DEF AnsweredIsRight
  <1>3. SameVoice(queue, queue') /\ SameLast(queue, queue') /\ RoundsIn(queue', 2)
    BY TurnFacts DEF Calmly
  <1> QED BY <1>1, <1>2, <1>3, SilentEnds, TurnKeeps

LEMMA QuietlyKeeps ==
    ASSUME StreamInv, Speechless, LoopInv', Quietly, OnStream(heard')
    PROVE  StreamInv'
  <1> PICK l : l = listener
    OBVIOUS
  <1> PICK events \in Seq(QuietEvents) : events = heard'
    BY DEF Quietly
  <1> PICK c : c = FoldLeft(Tell, l, events)
    OBVIOUS
  <1>1. listener' = Emptied(c) /\ queue' = queue \o c.out
    BY DEF OnStream, Emptied
  <1>2. Silent(l) /\ ~l.closed
    BY TurnFacts
  <1>3. /\ c.out = events /\ Silent(Emptied(c)) /\ Emptied(c).closed = l.closed
        /\ Voiced /\ (l.styles = Schedule \/ (events # <<>> /\ events[1].kind = "emotion_plan"))
             => Emptied(c).styles = Schedule
    BY <1>2, QuietIsSilent
  <1>4. queue \in Said
    BY TurnFacts
  <1>5. queue' = queue \o events
    BY <1>1, <1>3, Zenon
  <1>6. /\ queue \o events \in Said /\ Calmly(queue, queue \o events)
        /\ events # <<>> /\ events[Len(events)].kind = "assistant_start" => At(queue \o events, Starts) # {}
    BY <1>4, QuietlySaid
  <1>7. /\ queue' \in Said /\ Calmly(queue, queue')
        /\ events # <<>> /\ events[Len(events)].kind = "assistant_start" => At(queue', Starts) # {}
    BY <1>5, <1>6, Zenon
  <1>8. Voiced => Emptied(c).styles = Schedule
    BY <1>3, TurnFacts DEF Quietly
  <1>9. phase' = "asking" => At(queue', Starts) # {}
    <2>1. CASE phase = "asking"
      <3>1. At(queue, Starts) # {}
        BY <2>1, TurnFacts
      <3>2. At(queue, Starts) \subseteq At(queue', Starts)
        BY <1>7 DEF Calmly
      <3> QED BY <3>1, <3>2
    <2>2. CASE phase # "asking"
      BY <1>7, <2>2 DEF Quietly
    <2> QED BY <2>1, <2>2
  <1> QED BY <1>1, <1>2, <1>3, <1>7, <1>8, <1>9, SilenceKeeps DEF Quietly

LEMMA MissesKeeps ==
    ASSUME StreamInv, Speechless, LoopInv', Misses, OnStream(heard'), response'.text \in Seq(Tokens)
    PROVE  StreamInv'
  <1> PICK l : l = listener
    OBVIOUS
  <1> PICK e \in Wordless : e = Done(FALSE)
    BY QuietIsWordless
  <1> PICK events : events = <<Done(FALSE)>>
    OBVIOUS
  <1>0. heard' = events
    BY DEF Misses
  <1> PICK c : c = FoldLeft(Tell, l, events)
    OBVIOUS
  <1>1. listener' = Emptied(c) /\ queue' = queue \o c.out
    BY <1>0 DEF OnStream, Emptied
  <1>2. Silent(l) /\ ~l.closed
    BY TurnFacts
  <1>3. c.out = events /\ Silent(Emptied(c))
    <2>1. c = FoldLeft(Tell, l, <<Done(FALSE)>>)
      BY Zenon
    <2>2. c.out = <<Done(FALSE)>> /\ Silent(Emptied(c))
      BY <1>2, <2>1, EmptyTold
    <2> QED BY <2>2
  <1>4. queue' = Append(queue, e)
    <2>1. queue \in Said /\ e \in ClientMessages
      BY TurnFacts, QuietIsWordless
    <2>2. Append(queue, e) = queue \o <<e>>
      BY <2>1, AppendIsConcat DEF Said
    <2>3. queue' = queue \o <<e>>
      BY <1>1, <1>3, Zenon
    <2> QED BY <2>2, <2>3, Zenon
  <1>5. Append(queue, e) \in Said /\ Calmly(queue, Append(queue, e))
    BY TurnFacts, WordlessIsCalm
  <1> QED BY <1>1, <1>3, <1>4, <1>5, SilenceKeeps DEF Misses

\* What the voice is given before it has begun is all of the text.
LEMMA WholeBegins ==
    ASSUME NEW l \in Listeners
    PROVE  WholeText(<<>>, NoSegment, l) = TextLine(l) /\ WholeStyle(<<>>, NoSegment, l) = StyleLine(l)
  <1> PICK a \in Seq(Tokens), b \in Seq(AllStyles) : a = TextLine(l) /\ b = StyleLine(l)
    BY LineOfListener
  <1>1. Joined(<<>>, a) = a /\ Joined(<<>>, b) = b
    BY JoinedNone
  <1>2. Texts(<<>>) = <<>> /\ StyleOf(<<>>) = <<>> /\ PendingText(NoSegment) = <<>> /\ PendingStyle(NoSegment) = <<>>
    BY TextsOfNone, PendingIs
  <1>3. WholeText(<<>>, NoSegment, l) = TextLine(l)
    BY <1>1, <1>2, Zenon DEF WholeText, Joined
  <1>4. WholeStyle(<<>>, NoSegment, l) = StyleLine(l)
    BY <1>1, <1>2, Zenon DEF WholeStyle, Joined
  <1> QED BY <1>3, <1>4

LEMMA TextKeeps ==
    ASSUME StreamInv, Speechless, LoopInv', phase' = "answered",
           NEW c, NEW x \in Seq(Tokens), Heard(c, x), listener' = Emptied(c),
           queue' \in Said, SameVoice(queue, queue'), SameLast(queue, queue'), RoundsIn(queue', 2),
           ShownIn(queue') = ShownText(x),
           x \in {response'.text, <<>>}, x = response'.text \/ (x = <<>> /\ response'.calls # <<>>)
    PROVE  StreamInv'
  <1> PICK l : l = listener'
    OBVIOUS
  <1>1. Heard(l, x) /\ l.out = <<>>
    BY EmptiedIsHeard
  <1>2. l \in Listeners /\ InputEnds(l) /\ (l.wanted => Voiced /\ l.styles = Schedule)
    BY <1>1 DEF Heard
  <1>3. UnansweredIsRight'
    BY DEF UnansweredIsRight
  <1>4. mode' = mode /\ spoken' = <<>> /\ pending' = NoSegment
    BY TurnFacts DEF Speechless
  <1>5. Voiced => Says(<<>>, NoSegment, l, x)
    BY <1>1, <1>2, WholeBegins DEF Heard, Says
  <1>6. ShownText(x)' = ShownText(x)
    BY <1>4 DEF ShownText, Strips
  <1>7. AnsweredWith(x)'
    BY <1>4, <1>5, <1>6 DEF AnsweredWith, Voiced
  <1>8. AnsweredIsRight'
    BY <1>7 DEF AnsweredIsRight
  <1> QED BY <1>1, <1>2, <1>3, <1>8, TurnKeeps
HearsReply(l, text) ==
    /\ Heard(FoldLeft(Tell, l, <<Delta(text), Done(FALSE)>>), text)
    /\ \E a, b \in Seq(Tokens) :
          /\ FoldLeft(Tell, l, <<Delta(text), Done(FALSE)>>).out = Append(ShowOn(ShowOn(<<>>, a), b), Done(FALSE))
          /\ a \o b = ShownText(text)

LEMMA ReplyIsHeard ==
    ASSUME NEW l, Silent(l), ~l.closed, Voiced => l.styles = Schedule, NEW text \in Seq(Tokens)
    PROVE  HearsReply(l, text)
  <1> PICK c : c = FoldLeft(Tell, l, <<Delta(text), Done(FALSE)>>)
    OBVIOUS
  <1>1. Heard(c, text)
    BY ReplyTold
  <1>2. \E a, b \in Seq(Tokens) :
           c.out = Append(ShowOn(ShowOn(<<>>, a), b), Done(FALSE)) /\ a \o b = ShownText(text)
    BY ReplyTold
  <1> QED BY <1>1, <1>2, Zenon DEF HearsReply

LEMMA RepliesKeeps ==
    ASSUME StreamInv, Speechless, LoopInv', Replies, OnStream(heard'), response'.text \in Seq(Tokens)
    PROVE  StreamInv'
  <1> PICK l : l = listener
    OBVIOUS
  <1> PICK text \in Seq(Tokens) : text = response'.text
    OBVIOUS
  <1> PICK c : c = FoldLeft(Tell, l, <<Delta(text), Done(FALSE)>>)
    OBVIOUS
  <1>1. listener' = Emptied(c) /\ queue' = queue \o c.out
    <2>1. heard' = <<Delta(text), Done(FALSE)>>
      BY Zenon DEF Replies
    <2>2. c = FoldLeft(Tell, listener, heard')
      BY <2>1, Zenon
    <2> QED BY <2>2, Zenon DEF OnStream, Emptied
  <1>2. Silent(l) /\ ~l.closed /\ (Voiced => l.styles = Schedule)
    BY TurnFacts DEF Replies
  <1>3. /\ Heard(c, text)
        /\ \E a, b \in Seq(Tokens) :
              c.out = Append(ShowOn(ShowOn(<<>>, a), b), Done(FALSE)) /\ a \o b = ShownText(text)
    <2>1. HearsReply(l, text)
      BY <1>2, ReplyIsHeard
    <2> QED BY <2>1, Zenon DEF HearsReply
  <1> PICK a \in Seq(Tokens), b \in Seq(Tokens) :
        c.out = Append(ShowOn(ShowOn(<<>>, a), b), Done(FALSE)) /\ a \o b = ShownText(text)
    BY <1>3
  <1>4. queue' = queue \o Append(ShowOn(ShowOn(<<>>, a), b), Done(FALSE))
    BY <1>1, Zenon
  <1>5. queue \in Said /\ At(queue, Deltas) = {} /\ ShownIn(queue) = <<>> /\ At(queue, Starts) # {}
    BY TurnFacts DEF Replies
  <1>6. /\ queue' \in Said /\ SameVoice(queue, queue') /\ SameLast(queue, queue') /\ RoundsIn(queue', 2)
        /\ ShownIn(queue') = a \o b
    <2>1. Answers(queue, queue \o Append(ShowOn(ShowOn(<<>>, a), b), Done(FALSE)), a \o b)
      BY <1>5, AnswerSaid
    <2>2. Answers(queue, queue', a \o b)
      BY <1>4, <2>1, Zenon
    <2> QED BY <2>2, Zenon DEF Answers
  <1>7. ShownIn(queue') = ShownText(text)
    BY <1>6, Zenon
  <1> QED BY <1>1, <1>3, <1>6, <1>7, TextKeeps DEF Replies

LEMMA SilencesKeeps ==
    ASSUME StreamInv, Speechless, LoopInv', Silences, OnStream(heard')
    PROVE  StreamInv'
  <1> PICK l : l = listener
    OBVIOUS
  <1> PICK e \in QuietEvents : e = Done(TRUE)
    BY DEF QuietEvents
  <1> PICK c : c = FoldLeft(Tell, l, <<Done(TRUE)>>)
    OBVIOUS
  <1>1. listener' = Emptied(c) /\ queue' = queue \o c.out
    <2>1. c = FoldLeft(Tell, listener, heard')
      BY Zenon DEF Silences
    <2> QED BY <2>1, Zenon DEF OnStream, Emptied
  <1>2. Silent(l) /\ ~l.closed /\ (Voiced => l.styles = Schedule)
    BY TurnFacts DEF Silences
  <1>0. <<>> \in Seq(Tokens)
    OBVIOUS
  <1> PICK x \in Seq(Tokens) : x = <<>>
    BY <1>0
  <1>3. Heard(c, x) /\ c.out = <<Done(TRUE)>>
    <2>1. Heard(FoldLeft(Tell, l, <<Done(TRUE)>>), <<>>) /\ FoldLeft(Tell, l, <<Done(TRUE)>>).out = <<Done(TRUE)>>
      BY <1>2, LimitTold
    <2> QED BY <2>1, Zenon
  <1>4. queue \in Said /\ ShownIn(queue) = <<>> /\ RoundsIn(queue, 2) /\ e \in Wordless /\ e \in ClientMessages
    BY TurnFacts, QuietIsWordless
  <1>5. queue' = Append(queue, e)
    <2>1. Append(queue, e) = queue \o <<e>>
      BY <1>4, AppendIsConcat DEF Said
    <2>2. queue' = queue \o <<e>>
      BY <1>1, <1>3, Zenon
    <2> QED BY <2>1, <2>2, Zenon
  <1>6. Append(queue, e) \in Said /\ Calmly(queue, Append(queue, e))
    BY <1>4, WordlessIsCalm
  <1>7. ShownText(x) = <<>>
    BY CleanOfNone DEF ShownText
  <1>8. /\ queue' \in Said /\ SameVoice(queue, queue') /\ SameLast(queue, queue') /\ RoundsIn(queue', 2)
        /\ ShownIn(queue') = ShownText(x)
    BY <1>4, <1>5, <1>6, <1>7 DEF Calmly
  <1>9. x \in {response'.text, <<>>} /\ x = <<>> /\ response'.calls # <<>> /\ phase' = "answered"
    BY DEF Silences
  <1> QED BY <1>1, <1>3, <1>8, <1>9, TextKeeps

LEMMA RefusesKeeps ==
    ASSUME StreamInv, Speechless, LoopInv', Refuses, OnStream(heard')
    PROVE  StreamInv'
  <1> PICK l : l = listener
    OBVIOUS
  <1> PICK e \in Wordless : e = Done(TRUE)
    BY QuietIsWordless DEF QuietEvents
  <1> PICK x \in Seq(Tokens) : x = LimitReply
    BY StreamConstants
  <1> PICK c : c = FoldLeft(Tell, l, <<Done(TRUE), Delta(LimitReply)>>)
    OBVIOUS
  <1>1. listener' = Emptied(c) /\ queue' = queue \o c.out
    <2>1. c = FoldLeft(Tell, listener, heard')
      BY Zenon DEF Refuses
    <2> QED BY <2>1, Zenon DEF OnStream, Emptied
  <1>2. Silent(l) /\ ~l.closed /\ (Voiced => l.styles = Schedule)
    BY TurnFacts DEF Refuses
  <1>3. Heard(c, x) /\ c.out = ShowOn(<<Done(TRUE)>>, ShownText(x))
    <2>1. /\ Heard(FoldLeft(Tell, l, <<Done(TRUE), Delta(LimitReply)>>), LimitReply)
          /\ FoldLeft(Tell, l, <<Done(TRUE), Delta(LimitReply)>>).out
                = ShowOn(<<Done(TRUE)>>, ShownText(LimitReply))
      BY <1>2, LimitTold
    <2> QED BY <2>1, Zenon
  <1>4. queue \in Said /\ At(queue, Deltas) = {} /\ ShownIn(queue) = <<>> /\ At(queue, Starts) # {}
    BY TurnFacts DEF Refuses
  <1> PICK a \in Seq(Tokens) : a = ShownText(x)
    BY CleanType DEF ShownText
  <1>5. queue' = queue \o ShowOn(One(e), a)
    <2>1. c.out = ShowOn(One(e), a)
      BY <1>3, Zenon DEF One
    <2> QED BY <1>1, <2>1, Zenon
  <1>6. /\ queue' \in Said /\ SameVoice(queue, queue') /\ SameLast(queue, queue') /\ RoundsIn(queue', 2)
        /\ ShownIn(queue') = ShownText(x)
    <2>1. Answers(queue, queue \o ShowOn(One(e), a), a)
      BY <1>4, LimitSaid
    <2>2. Answers(queue, queue', ShownText(x))
      BY <1>5, <2>1, Zenon
    <2> QED BY <2>2, Zenon DEF Answers
  <1>7. x = response'.text /\ phase' = "answered"
    BY DEF Refuses
  <1> QED BY <1>1, <1>3, <1>6, <1>7, TextKeeps

LEMMA TurnStepKeeps ==
    ASSUME StreamInv, TurnStep, UNCHANGED mode
    PROVE  StreamInv'
  <1>1. LoopInv'
    BY LoopSteps DEF StreamInv, TurnStep, LoopNext
  <1>2. phase \in {"received", "asking", "calling", "executing"}
    BY DEF TurnStep, LoopStep, Begin, Answer, ToolsRejected, ProviderFails, Repeat, CallHandler, StartCommand,
           CommandEnds
  <1>3. Speechless
    BY <1>2 DEF TurnStep, Speechless
  <1>4. Outcome
    BY <1>3, TurnFacts, LoopHears DEF StreamInv, TurnStep
  <1> QED BY <1>1, <1>3, <1>4, QuietlyKeeps, RepliesKeeps, SilencesKeeps, RefusesKeeps, MissesKeeps
          DEF Outcome, TurnStep

LEMMA StreamStep == StreamInv /\ [Next]_vars => StreamInv'
  <1> SUFFICES ASSUME StreamInv, [Next]_vars PROVE StreamInv'
    OBVIOUS
  <1>1. CASE UNCHANGED vars
    <2>1. UNCHANGED <<mode, loopVars, listener, queue, tts, pending, inputDone, session, spoken, served>>
      BY <1>1 DEF vars, streamVars, ttsVars
    <2>2. SameTurn(queue, queue') /\ SameVoice(queue, queue')
      BY <2>1 DEF SameTurn, SameVoice
    <2>3. QueueIsRight' /\ ServedIsRight'
      BY <2>1 DEF StreamInv, QueueIsRight, ServedIsRight, Ended, TtsOver, Voiced, loopVars
    <2> QED BY <2>1, <2>2, <2>3, ServeKeeps
  <1> QED BY <1>1, TurnStepKeeps, TtsKeeps, ServeStepKeeps, DisconnectedKeeps DEF Next
-----------------------------------------------------------------------------
(* What the client is told.                                                *)

LEMMA StreamIsTyped ==
    ASSUME StreamInv
    PROVE  StreamTypeOK
  <1>1. LoopTypeOK
    BY LoopHolds DEF StreamInv
  <1> PICK l \in Listeners : l = listener /\ l.out = <<>>
    BY DEF StreamInv, TtsIsRight
  <1>2. l.buffer \in Seq(Tokens) /\ Len(l.buffer) < MaxChars
    <2>1. l.buffer \in Seq(Tokens) /\ Len(l.buffer) <= MaxChars - 1
      BY DEF Listeners, ListenersUpTo
    <2>2. Len(l.buffer) \in Nat
      BY <2>1
    <2> QED BY <2>1, <2>2, StreamConstants
  <1>3. \A i \in DOMAIN l.input : l.input[i].text \in Seq(Tokens) /\ Len(l.input[i].text) <= MaxChars
    <2>1. l.input \in Seq(Inputs)
      BY DEF Listeners, ListenersUpTo
    <2>2. \A i \in DOMAIN l.input : l.input[i] \in Inputs
      BY <2>1
    <2>3. \A h \in Segments : h.text \in Seq(Tokens) /\ Len(h.text) <= MaxChars
      BY DEF Segments, SegmentTexts
    <2>4. CloseMark.text \in Seq(Tokens) /\ Len(CloseMark.text) <= MaxChars
      <3>1. CloseMark.text = <<>> /\ MaxChars \in Nat
        BY VoiceSegmentIs, StreamConstants
      <3>2. \A e : e = <<>> => e \in Seq(Tokens) /\ Len(e) = 0
        OBVIOUS
      <3> HIDE DEF CloseMark
      <3> QED BY <3>1, <3>2
    <2> QED BY <2>2, <2>3, <2>4 DEF Inputs
  <1>4. mode \in Modes /\ tts \in Places /\ session \in 0 .. Len(spoken)
        /\ served \in {"running", "speaking", "failing", "cancelling", "result", "error", "cancelled"}
    BY DEF StreamInv, TtsIsRight, SessionsAreRight, ServedIsRight
  <1> QED BY <1>1, <1>2, <1>3, <1>4 DEF StreamTypeOK, Places

LEMMA PositionsAre == \A kinds : Positions(kinds) = At(queue, kinds)
  BY Zenon DEF Positions, At

LEMMA VoiceIsOrderly ==
    ASSUME NEW q \in Said, VoiceUnbegun(q) \/ VoiceBegun(q) \/ VoiceEnded(q),
           NEW starts, starts = At(q, TtsStarts), NEW ends, ends = At(q, TtsEnds),
           NEW others1, others1 = At(q, TtsOthers)
    PROVE  /\ Cardinality(starts) <= 1 /\ Cardinality(ends) <= Cardinality(starts)
           /\ AllBefore(starts, others1 \cup ends) /\ AllBefore(others1, ends)
           /\ ~VoiceBegun(q) => Cardinality(ends) = Cardinality(starts)
  <1>1. Cardinality({}) = 0
    BY FS_EmptySet
  <1>2. CASE VoiceUnbegun(q)
    BY <1>1, <1>2 DEF VoiceUnbegun, AllBefore
  <1>3. CASE VoiceBegun(q)
    BY <1>1, <1>3 DEF VoiceBegun, AllBefore
  <1>4. CASE VoiceEnded(q)
    BY <1>4 DEF VoiceEnded, AllBefore
  <1> QED BY <1>2, <1>3, <1>4

LEMMA StreamIsInOrder ==
    ASSUME StreamInv
    PROVE  StreamIsOrderly
  <1> PICK starts, ends, rest :
        starts = At(queue, TtsStarts) /\ ends = At(queue, TtsEnds) /\ rest = At(queue, TtsOthers)
    OBVIOUS
  <1>1. /\ queue \in Said /\ RoundsIn(queue, 2) /\ At(queue, LastKinds) \subseteq {Len(queue)}
        /\ VoiceUnbegun(queue) \/ VoiceBegun(queue) \/ VoiceEnded(queue)
    BY DEF StreamInv, QueueIsRight, VoiceIsTold, TtsLive, TtsIsRight, Places
  <1>2. /\ Cardinality(starts) <= 1 /\ Cardinality(ends) <= Cardinality(starts)
        /\ AllBefore(starts, rest \cup ends) /\ AllBefore(rest, ends)
        /\ ~VoiceBegun(queue) => Cardinality(ends) = Cardinality(starts)
    BY <1>1, VoiceIsOrderly
  <1>3. Ended => Cardinality(ends) = Cardinality(starts)
    <2> SUFFICES ASSUME Ended PROVE Cardinality(ends) = Cardinality(starts)
      OBVIOUS
    <2>1. tts \in {"none", "finished", "broken", "cancelled"}
      BY DEF StreamInv, ServedIsRight, TtsOver, TtsIsRight
    <2>2. VoiceUnbegun(queue) \/ VoiceEnded(queue)
      BY <2>1 DEF StreamInv, VoiceIsTold
    <2>3. Cardinality({}) = 0
      BY FS_EmptySet
    <2> QED BY <2>2, <2>3 DEF VoiceUnbegun, VoiceEnded
  <1>4. \A i \in At(queue, Deltas) : \E j \in At(queue, Starts) : j < i
    BY <1>1 DEF RoundsIn
  <1>5. /\ Positions({"result", "error"}) = At(queue, LastKinds)
        /\ Positions({"tts_started"}) = starts /\ Positions({"tts_finished"}) = ends
        /\ Positions({"tts_audio", "tts_segment", "tts_error"}) = rest
        /\ Positions({"assistant_delta"}) = At(queue, Deltas)
        /\ Positions({"assistant_start"}) = At(queue, Starts)
    BY PositionsAre, Zenon DEF LastKinds, TtsStarts, TtsEnds, TtsOthers, Deltas, Starts
  <1> HIDE DEF Positions
  <1> QED BY <1>1, <1>2, <1>3, <1>4, <1>5 DEF StreamIsOrderly

LEMMA ReplyShows ==
    ASSUME StreamInv
    PROVE  ReplyIsShown
  <1>1. Shown = ShownIn(queue)
    BY Zenon DEF Shown, ShownIn
  <1>2. Cardinality(Positions({"assistant_delta"})) <= 2
    <2>1. Positions({"assistant_delta"}) = At(queue, Deltas)
      BY PositionsAre, Zenon DEF Deltas
    <2> QED BY <2>1 DEF StreamInv, QueueIsRight, RoundsIn
  <1>3. ASSUME served = "result"
        PROVE  \/ Shown = (IF Strips THEN Clean(response.text) ELSE response.text)
               \/ (response.calls # <<>> /\ Shown = <<>>)
    <2>1. phase = "answered"
      BY <1>3 DEF StreamInv, ServedIsRight
    <2> PICK x : AnsweredWith(x)
      BY <2>1 DEF StreamInv, AnsweredIsRight
    <2>2. Shown = ShownText(x) /\ (x = response.text \/ (x = <<>> /\ response.calls # <<>>))
      BY <1>1 DEF AnsweredWith
    <2>3. ShownText(<<>>) = <<>>
      BY CleanOfNone DEF ShownText
    <2>4. CASE x = response.text
      BY <2>2, <2>4, Zenon DEF ShownText
    <2>5. CASE x = <<>> /\ response.calls # <<>>
      BY <2>2, <2>3, <2>5, Zenon
    <2> QED BY <2>2, <2>4, <2>5
  <1> QED BY <1>2, <1>3 DEF ReplyIsShown

\* What is not spoken is the rest of what is shown.
LEMMA UnspokenIs ==
    ASSUME StreamInv
    PROVE  /\ Unspoken = PendingText(pending) \o TextLine(listener)
           /\ Texts(spoken) \o Unspoken = WholeText(spoken, pending, listener)
  <1> PICK l \in Listeners : l = listener
    BY DEF StreamInv, TtsIsRight
  <1>1. PendingText(pending) \in Seq(Tokens)
    <2>1. CASE pending = NoSegment
      BY <2>1, PendingIs
    <2>2. CASE pending \in VoiceSegments
      BY <2>2, PendingIs, VoiceSegmentIs
    <2> QED BY <2>1, <2>2 DEF StreamInv, TtsIsRight
  <1> PICK a \in Seq(Tokens), b \in Seq(Tokens), c \in Seq(Tokens) :
        a = PendingText(pending) /\ b = Texts(l.input) /\ c = l.buffer
    BY <1>1, LineOfListener
  <1>2. Joined(Joined(a, b), c) = Joined(a, Joined(b, c))
    BY JoinedThree
  <1>3. Unspoken = PendingText(pending) \o Texts(l.input) \o l.buffer
    BY Zenon DEF Unspoken, PendingText
  <1>4. Unspoken = PendingText(pending) \o TextLine(listener)
    BY <1>2, <1>3, Zenon DEF Joined, TextLine
  <1>5. Texts(spoken) \o Unspoken = WholeText(spoken, pending, listener)
    BY <1>4, Zenon DEF WholeText
  <1> QED BY <1>4, <1>5

LEMMA SpokenStyles ==
    ASSUME NEW s \in Seq(Speeches)
    PROVE  StyleOf(s) \in Seq(VoiceStyles)
  <1>1. Pieces(s)
    BY SpeechesArePieces
  <1>2. \A e \in Speeches : AllOf(e.style, e.text) \in Seq(VoiceStyles)
    <2> TAKE e \in Speeches
    <2>1. e.style \in VoiceStyles /\ e.text \in Seq(Tokens)
      BY DEF Speeches, SegmentTexts
    <2> QED BY <2>1, AllOfType
  <1>3. \A i \in 1 .. Len(s) : s[i] \in Speeches
    OBVIOUS
  <1>4. Len(StyleList(s)) = Len(s) /\ \A n \in 1 .. Len(s) : StyleList(s)[n] = AllOf(s[n].style, s[n].text)
    BY <1>1, ListsOfPieces
  <1>5. IsList(VoiceStyles, StyleList(s))
    <2>1. Len(s) \in Nat
      OBVIOUS
    <2> QED BY <1>2, <1>3, <1>4, <2>1 DEF IsList
  <1> QED BY <1>5, FlattenType, TextsAreFlat

\* The beginning of what dresses a text dresses its beginning.
LEMMA DressesFirst ==
    ASSUME NEW t \in Seq(TagStyles), NEW s \in Seq(VoiceStyles), NEW r \in Seq(AllStyles), Dresses(t, s \o r),
           NEW i \in 1 .. Len(s)
    PROVE  IF t[i] = "none" THEN s[i] \in ToSet(Schedule) ELSE s[i] = t[i]
  <1> PICK w \in Seq(AllStyles) : w = s \o r /\ Len(w) = Len(s) + Len(r) /\ \A k \in 1 .. Len(s) : w[k] = s[k]
    <2>1. s \in Seq(AllStyles)
      <3>1. VoiceStyles \subseteq AllStyles
        BY DEF VoiceStyles, AllStyles, SpeechStyles
      <3> QED BY <3>1
    <2>2. s \o r \in Seq(AllStyles) /\ Len(s \o r) = Len(s) + Len(r) /\ \A k \in 1 .. Len(s) : (s \o r)[k] = s[k]
      BY <2>1, ConcatProperties
    <2> QED BY <2>2
  <1>1. Len(t) = Len(w) /\ \A k \in 1 .. Len(t) : w[k] = t[k] \/ (t[k] = "none" /\ w[k] \in ToSet(Schedule))
    BY DEF Dresses
  <1>2. i \in 1 .. Len(t)
    BY <1>1
  <1>3. s[i] = t[i] \/ (t[i] = "none" /\ s[i] \in ToSet(Schedule))
    BY <1>1, <1>2
  <1>4. s[i] \in VoiceStyles
    OBVIOUS
  <1> QED BY <1>3, <1>4, StreamConstants DEF VoiceStyles

LEMMA SpeechFollows ==
    ASSUME StreamInv
    PROVE  SpeechFollowsText
  <1> SUFFICES ASSUME Voiced PROVE SpeechFollowsText
    BY DEF SpeechFollowsText
  <1>0. Shown = ShownIn(queue) /\ Strips
    BY Zenon DEF Shown, ShownIn, Strips, Voiced
  <1>1. Texts(spoken) \o Unspoken = Shown
    <2>1. Texts(spoken) \o Unspoken = WholeText(spoken, pending, listener)
      BY UnspokenIs
    <2>2. CASE phase = "answered"
      <3> PICK x : AnsweredWith(x)
        BY <2>2 DEF StreamInv, AnsweredIsRight
      <3>1. Shown = Clean(x) /\ WholeText(spoken, pending, listener) = Clean(x)
        BY <1>0 DEF AnsweredWith, Says, ShownText
      <3> QED BY <2>1, <3>1
    <2>3. CASE phase # "answered"
      <3>1. Silent(listener) /\ spoken = <<>> /\ pending = NoSegment /\ ShownIn(queue) = <<>>
        BY <2>3 DEF StreamInv, UnansweredIsRight
      <3>2. WholeText(spoken, pending, listener) = TextLine(listener)
        BY <3>1, WholeBegins DEF Silent
      <3>3. TextLine(listener) = <<>>
        <4>1. Texts(listener.input) = <<>>
          <5>1. CASE listener.closed
            <6> PICK m \in Inputs : m = CloseMark /\ m.text = <<>>
              BY VoiceSegmentIs DEF Inputs
            <6> PICK s, t : s = One(m) /\ t = Append(<<>>, m)
              OBVIOUS
            <6>1. s = t
              BY TuplesGrow, Zenon DEF One
            <6>2. s = listener.input
              BY <3>1, <5>1 DEF Silent
            <6>3. s \in Seq(Inputs) /\ Pieces(s) /\ s # <<>>
              BY <3>1, <6>2, LineOfListener DEF Silent, One
            <6>4. Texts(s) = s[1].text \o Texts(Tail(s))
              BY <6>3, TextsTail
            <6>5. s[1] = m /\ Tail(s) = <<>>
              BY DEF One
            <6>6. Texts(s) = <<>> \o <<>>
              BY <6>4, <6>5, TextsOfNone, Zenon
            <6> QED BY <6>2, <6>6
          <5>2. CASE ~listener.closed
            BY <3>1, <5>2, TextsOfNone DEF Silent
          <5> QED BY <5>1, <5>2
        <4>2. TextLine(listener) = <<>> \o <<>>
          BY <3>1, <4>1, Zenon DEF Silent, TextLine
        <4> QED BY <4>2
      <3> QED BY <1>0, <2>1, <3>1, <3>2, <3>3
    <2> QED BY <2>2, <2>3
  <1>2. served = "result" /\ tts = "finished" => Unspoken = <<>>
    <2> SUFFICES ASSUME tts = "finished" PROVE Unspoken = <<>>
      OBVIOUS
    <2>1. DrainedOf(listener) /\ pending = NoSegment
      BY DEF StreamInv, TtsIsRight
    <2>2. TextLine(listener) = <<>> \o <<>>
      BY <2>1, TextsOfNone, Zenon DEF TextLine, DrainedOf
    <2>3. Unspoken = <<>> \o (<<>> \o <<>>)
      BY <2>1, <2>2, UnspokenIs, PendingIs, Zenon
    <2> QED BY <2>3
  <1>3. ASSUME phase = "answered", NEW i \in DOMAIN StyleOf(spoken)
        PROVE  IF TagsOf(response.text)[i] = "none" THEN StyleOf(spoken)[i] \in ToSet(Schedule)
               ELSE StyleOf(spoken)[i] = TagsOf(response.text)[i]
    <2> PICK x : AnsweredWith(x)
      BY <1>3 DEF StreamInv, AnsweredIsRight
    <2>1. x \in Seq(Tokens) /\ Dresses(TagsOf(x), WholeStyle(spoken, pending, listener))
      BY DEF AnsweredWith, Says
    <2> PICK t \in Seq(TagStyles) : t = TagsOf(x)
      BY <2>1, CleanType
    <2>2. spoken \in Seq(Speeches)
      BY DEF StreamInv, SessionsAreRight
    <2> PICK s \in Seq(VoiceStyles) : s = StyleOf(spoken)
      BY <2>2, SpokenStyles
    <2>3. PendingStyle(pending) \in Seq(AllStyles)
      <3>1. pending \in VoiceSegments \cup {NoSegment}
        BY DEF StreamInv, TtsIsRight
      <3> QED BY <3>1, PendingStyleType
    <2>9. StyleLine(listener) \in Seq(AllStyles)
      BY LineOfListener DEF StreamInv, TtsIsRight
    <2> PICK a \in Seq(AllStyles), b \in Seq(AllStyles) : a = PendingStyle(pending) /\ b = StyleLine(listener)
      BY <2>3, <2>9
    <2> PICK r \in Seq(AllStyles) : r = a \o b
      <3>1. a \o b \in Seq(AllStyles)
        OBVIOUS
      <3> QED BY <3>1
    <2>4. Dresses(t, s \o r)
      <3>1. WholeStyle(spoken, pending, listener) = s \o r
        BY Zenon DEF WholeStyle
      <3> QED BY <2>1, <3>1, Zenon
    <2>5. i \in 1 .. Len(s)
      BY <1>3
    <2>6. IF t[i] = "none" THEN s[i] \in ToSet(Schedule) ELSE s[i] = t[i]
      BY <2>4, <2>5, DressesFirst
    <2>7. x = response.text
      <3> SUFFICES ASSUME x = <<>> PROVE FALSE
        BY DEF AnsweredWith
      <3>1. t = <<>>
        BY CleanOfNone
      <3>2. Len(t) = Len(s \o r)
        BY <2>4 DEF Dresses
      <3>3. s # <<>>
        BY <2>5, EmptySeq
      <3>4. Len(s) + Len(r) = 0 /\ Len(s) \in Nat \ {0} /\ Len(r) \in Nat
        BY <2>5, <3>1, <3>2
      <3> QED BY <3>4
    <2> QED BY <2>6, <2>7, Zenon
  <1>4. \A i, j \in DOMAIN spoken :
           spoken[i].session = spoken[j].session /\ mode = "doubao" => spoken[i].style = spoken[j].style
    <2>1. DOMAIN spoken = 1 .. Len(spoken)
      BY DEF StreamInv, SessionsAreRight
    <2> QED BY <2>1 DEF StreamInv, SessionsAreRight
  <1> QED BY <1>1, <1>2, <1>3, <1>4 DEF SpeechFollowsText

-----------------------------------------------------------------------------
(* The client and what is behind it.                                       *)

LEMMA SceneStays ==
    /\ MCInit => scene \in {"turn", "workspace", "skills", "route", "chunks", "terminal"}
    /\ [MCNext]_streamSceneVars => UNCHANGED scene
  BY DEF MCInit, MCNext, streamSceneVars

LEMMA StreamStaysRight == StreamSpec => []StreamInv
  <1>1. MCInit => StreamInv
    BY ScenesStart, StreamStarts
  <1>2. StreamInv /\ [MCNext]_streamSceneVars => StreamInv'
    BY ScenesStep, StreamStep
  <1> QED BY <1>1, <1>2, PTL DEF StreamSpec

\* Every variable keeps its type, whichever part of the client a behaviour is
\* about: the turn with its queue, its segmenter and its voice, the workspace,
\* the shelf, the route, the pieces of a call and the terminal.
THEOREM StreamTypeCorrect == StreamSpec => []StreamSceneTypeOK
  <1>1. StreamSpec => WorkspaceSpec /\ ShelfSpec /\ RouteSpec /\ ChunksSpec /\ TerminalSpec
    BY ScenesStart, ScenesStep, PTL DEF StreamSpec, WorkspaceSpec, ShelfSpec, RouteSpec, ChunksSpec, TerminalSpec
  <1>2. StreamSpec => [](scene \in {"turn", "workspace", "skills", "route", "chunks", "terminal"})
    <2>1. /\ scene \in {"turn", "workspace", "skills", "route", "chunks", "terminal"}
          /\ [MCNext]_streamSceneVars
          => (scene \in {"turn", "workspace", "skills", "route", "chunks", "terminal"})'
      BY SceneStays
    <2> QED BY <2>1, SceneStays, PTL DEF StreamSpec
  <1>3. /\ scene \in {"turn", "workspace", "skills", "route", "chunks", "terminal"}
        /\ StreamInv /\ WorkspaceTypeOK /\ ShelfTypeOK /\ RouteTypeOK /\ ChunksTypeOK /\ TerminalTypeOK
        => StreamSceneTypeOK
    <2> SUFFICES ASSUME StreamTypeOK, WorkspaceTypeOK, ShelfTypeOK, RouteTypeOK, ChunksTypeOK, TerminalTypeOK,
                        scene \in {"turn", "workspace", "skills", "route", "chunks", "terminal"}
                 PROVE  StreamSceneTypeOK
      BY StreamIsTyped
    <2>1. CASE scene = "turn"
      BY <2>1 DEF StreamSceneTypeOK
    <2>2. CASE scene = "workspace"
      BY <2>2 DEF StreamSceneTypeOK
    <2>3. CASE scene = "skills"
      BY <2>3 DEF StreamSceneTypeOK
    <2>4. CASE scene = "route"
      BY <2>4 DEF StreamSceneTypeOK
    <2>5. CASE scene = "chunks"
      BY <2>5 DEF StreamSceneTypeOK
    <2>6. CASE scene = "terminal"
      BY <2>6 DEF StreamSceneTypeOK
    <2> QED BY <2>1, <2>2, <2>3, <2>4, <2>5, <2>6
  <1> QED BY <1>1, <1>2, <1>3, StreamStaysRight, EditsStayKept, ShelfStaysKept, RoutesStayKept, CallsStayWhole,
             ViewStaysSettled, PTL

\* The client is told in order and once, the text on the screen is the model's
\* without its tags, and the voice says that text and nothing else, each piece in
\* the style of its tag; the blocks of the terminal settle; for any number of
\* rounds, tools, texts and segments and for every voice (_run_serve_turn,
\* on_stream, StreamingSpeechSegmenter and the TTS tasks of web_gateway.py).
THEOREM ClientStaysTold == StreamSpec => []ClientIsTold
  <1>1. StreamSpec => TerminalSpec
    BY ScenesStart, ScenesStep, PTL DEF StreamSpec, TerminalSpec
  <1>2. StreamInv /\ ViewIsSettled => ClientIsTold
    BY StreamIsInOrder, ReplyShows, SpeechFollows DEF ClientIsTold
  <1> QED BY <1>1, <1>2, StreamStaysRight, ViewStaysSettled, PTL
=============================================================================
