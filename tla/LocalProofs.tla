----------------------------- MODULE LocalProofs -----------------------------
(***************************************************************************)
(* What the small components of a node promise, for every value of their   *)
(* constants: the rotation of identities, the cache of social events, the  *)
(* pages read from it, the pool of transactions, the proof of work and the *)
(* signature of an event, the requests to the language model, the wire     *)
(* form of packets, the bounds of what is published, and the readers of    *)
(* offline content.  Each has an inductive invariant of its own; they      *)
(* share the lemmas that come first.                                       *)
(***************************************************************************)
EXTENDS IdentityRotation, SocialStore, Feed, TxPool, Seal, Inference, Packet,
        Publication, Offline, FiniteSetTheorems, SequenceTheorems, NaturalsInduction, TLAPS

-----------------------------------------------------------------------------
(* Numbers and finite sets *)

\* A set of numbers has a least one.
LEMMA LeastNatural ==
  ASSUME NEW T \in SUBSET Nat, T # {}
  PROVE  \E n \in T : \A m \in T : n <= m
<1> DEFINE R == {ss \in Nat \X Nat : ss[1] < ss[2]}
<1>1. IsWellFoundedOn(R, Nat)
  BY NatLessThanWellFounded, Zenon DEF OpToRel
<1>2. PICK n \in T : \A m \in T : ~ <<m, n>> \in R
  BY <1>1, WFMin
<1>3. \A m \in T : ~ (m < n)
  BY <1>2
<1>. QED  BY <1>2, <1>3

\* The smaller of two numbers.
LEMMA MinOfTwo ==
  ASSUME NEW a \in Nat, NEW b \in Nat
  PROVE  Min({a, b}) = IF a <= b THEN a ELSE b
BY DEF Min

\* A set that shrinks, or gains one element.
LEMMA CardinalityGrowth ==
  ASSUME NEW S, NEW T, IsFiniteSet(T), NEW x, S \subseteq T \cup {x}
  PROVE  /\ Cardinality(S) <= Cardinality(T) + 1
         /\ S \subseteq T => Cardinality(S) <= Cardinality(T)
<1>1. IsFiniteSet(T \cup {x}) /\ Cardinality(T) \in Nat
      /\ Cardinality(T \cup {x}) = IF x \in T THEN Cardinality(T) ELSE Cardinality(T) + 1
  BY FS_AddElement, FS_CardinalityType
<1>2. IsFiniteSet(S) /\ Cardinality(S) \in Nat /\ Cardinality(S) <= Cardinality(T \cup {x})
  BY <1>1, FS_Subset, FS_CardinalityType
<1>3. S \subseteq T => Cardinality(S) <= Cardinality(T)
  BY FS_Subset
<1>4. QED
  BY <1>1, <1>2, <1>3

-----------------------------------------------------------------------------
(* Induction, and what recursion computes *)

\* A set of numbers that holds 0, and with a number the next one, holds them all.
LEMMA UpFrom0 ==
  ASSUME NEW G \in SUBSET Nat, 0 \in G, \A n \in G : n + 1 \in G
  PROVE  \A n \in Nat : n \in G
<1>1. ASSUME Nat \ G # {} PROVE FALSE
  <2>1. PICK n \in Nat \ G : \A m \in Nat \ G : n <= m
    BY <1>1, LeastNatural
  <2>2. n # 0 /\ n - 1 \in Nat /\ ~ (n <= n - 1) /\ (n - 1) + 1 = n
    BY <2>1
  <2>3. n - 1 \in G
    BY <2>1, <2>2
  <2>4. QED
    BY <2>1, <2>2, <2>3
<1>2. QED
  BY <1>1

\* What n steps make of a start, the steps being functions over a set.
Stepping(D, n, g, start) ==
  \E f \in [0 .. n -> D] : f[0] = start /\ \A k \in 1 .. n : f[k] = g[k][f[k - 1]]

LEMMA StepByStep ==
  ASSUME NEW D, NEW n \in Nat, NEW g \in [1 .. n -> [D -> D]], NEW start \in D
  PROVE  Stepping(D, n, g, start)
<1> DEFINE Solved(m) == \E f \in [0 .. m -> D] : f[0] = start /\ \A k \in 1 .. m : f[k] = g[k][f[k - 1]]
           G == {m \in Nat : m <= n => Solved(m)}
<1>1. 0 \in G
  <2>1. PICK f : f = [k \in 0 .. 0 |-> start]
    OBVIOUS
  <2>2. f \in [0 .. 0 -> D] /\ f[0] = start /\ \A k \in 1 .. 0 : f[k] = g[k][f[k - 1]]
    BY <2>1
  <2>3. Solved(0)
    BY <2>2
  <2>4. QED
    BY <2>3
<1>2. ASSUME NEW m \in G PROVE m + 1 \in G
  <2>1. m \in Nat /\ m + 1 \in Nat
    OBVIOUS
  <2>2. ASSUME m + 1 <= n PROVE Solved(m + 1)
    <3>1. m <= n /\ m + 1 \in 1 .. n
      BY <2>1, <2>2
    <3>2. PICK f \in [0 .. m -> D] : f[0] = start /\ \A k \in 1 .. m : f[k] = g[k][f[k - 1]]
      BY <3>1
    <3>3. PICK h : h = [k \in 0 .. m + 1 |-> IF k = m + 1 THEN g[m + 1][f[m]] ELSE f[k]]
      OBVIOUS
    <3>4. m \in 0 .. m /\ f[m] \in D /\ g[m + 1] \in [D -> D]
      BY <2>1, <3>1
    <3>5. \A k \in 0 .. m : k \in 0 .. m + 1 /\ k # m + 1 /\ h[k] = f[k]
      BY <2>1, <3>3
    <3>6. h[m + 1] = g[m + 1][f[m]] /\ h[m + 1] \in D
      BY <2>1, <3>3, <3>4
    <3>7. h \in [0 .. m + 1 -> D]
      BY <2>1, <3>3, <3>4, <3>6
    <3>8. h[0] = start
      BY <2>1, <3>2, <3>5
    <3>9. ASSUME NEW k \in 1 .. m + 1 PROVE h[k] = g[k][h[k - 1]]
      <4>1. k - 1 \in 0 .. m
        BY <2>1
      <4>2. h[k - 1] = f[k - 1]
        BY <3>5, <4>1
      <4>3. CASE k = m + 1
        BY <2>1, <3>6, <4>2, <4>3
      <4>4. CASE k # m + 1
        <5>1. k \in 1 .. m /\ k \in 0 .. m
          BY <2>1, <4>4
        <5>2. QED
          BY <3>2, <3>5, <4>2, <5>1
      <4>5. QED
        BY <4>3, <4>4
    <3>10. QED
      BY <3>7, <3>8, <3>9
  <2>3. QED
    BY <2>1, <2>2
<1>3. G \in SUBSET Nat
  OBVIOUS
<1>4. n \in G
  <2> HIDE DEF G
  <2>1. QED
    BY <1>1, <1>2, <1>3, UpFrom0
<1>5. QED
  BY <1>4 DEF Stepping

-----------------------------------------------------------------------------
(* Sequences *)

LEMMA ConcatPlaces ==
  ASSUME NEW B, NEW s \in Seq(B), NEW t \in Seq(B)
  PROVE  /\ s \o t \in Seq(B) /\ Len(s \o t) = Len(s) + Len(t)
         /\ \A i \in 1 .. Len(s) : (s \o t)[i] = s[i]
         /\ \A i \in 1 .. Len(t) : (s \o t)[Len(s) + i] = t[i]
<1>1. PICK w, m, n : w = s \o t /\ m = Len(s) /\ n = Len(t)
  OBVIOUS
<1>2. /\ s \o t \in Seq(B) /\ Len(s \o t) = Len(s) + Len(t)
      /\ \A i \in 1 .. Len(s) + Len(t) :
           (s \o t)[i] = IF i <= Len(s) THEN s[i] ELSE t[i - Len(s)]
  BY ConcatProperties, Zenon
<1>3. m \in Nat /\ n \in Nat
  BY <1>1
<1>4. w \in Seq(B) /\ Len(w) = m + n /\ \A i \in 1 .. m + n : w[i] = IF i <= m THEN s[i] ELSE t[i - m]
  BY <1>1, <1>2, Zenon
<1>5. ASSUME NEW i \in 1 .. m PROVE w[i] = s[i]
  <2>1. i \in 1 .. m + n /\ i <= m
    BY <1>3
  <2>2. QED
    BY <1>4, <2>1
<1>6. ASSUME NEW i \in 1 .. n PROVE w[m + i] = t[i]
  <2>1. PICK j : j = m + i
    OBVIOUS
  <2>2. j \in 1 .. m + n /\ ~ (j <= m) /\ j - m = i
    BY <1>3, <2>1
  <2>3. w[j] = t[j - m]
    BY <1>4, <2>2
  <2>4. QED
    BY <2>1, <2>2, <2>3
<1>7. QED
  BY <1>1, <1>4, <1>5, <1>6

\* Where the pieces of a flattened sequence lie: piece k ends at place P[k].
Edges(S, P) ==
  /\ P \in [0 .. Len(S) -> Nat] /\ P[0] = 0
  /\ \A k \in 1 .. Len(S) : P[k] = P[k - 1] + Len(S[k])

Laid(w, S, P) ==
  \A k \in 1 .. Len(S) : \A i \in 1 .. Len(S[k]) : w[P[k - 1] + i] = S[k][i]

LEMMA FlattenPlaces ==
  ASSUME NEW B, NEW S \in Seq(Seq(B))
  PROVE  /\ FlattenSeq(S) \in Seq(B)
         /\ \E P : /\ Edges(S, P) /\ Laid(FlattenSeq(S), S, P)
                   /\ Len(FlattenSeq(S)) = P[Len(S)]
<1>1. PICK T \in Nat : T = Len(S)
  OBVIOUS
<1>2. \A k \in 1 .. T : S[k] \in Seq(B)
  BY <1>1
<1>3. PICK f \in [0 .. T -> Seq(B)] : f[0] = <<>> /\ \A k \in 1 .. T : f[k] = f[k - 1] \o S[k]
  <2>1. PICK g : g = [k \in 1 .. T |-> [w \in Seq(B) |-> w \o S[k]]]
    OBVIOUS
  <2>2. ASSUME NEW k \in 1 .. T PROVE g[k] \in [Seq(B) -> Seq(B)]
    <3>1. ASSUME NEW w \in Seq(B) PROVE w \o S[k] \in Seq(B)
      BY <1>2, ConcatProperties, Zenon
    <3>2. QED
      BY <2>1, <3>1
  <2>3. g \in [1 .. T -> [Seq(B) -> Seq(B)]]
    BY <2>1, <2>2
  <2>4. <<>> \in Seq(B)
    BY EmptySeq
  <2>5. PICK f \in [0 .. T -> Seq(B)] : f[0] = <<>> /\ \A k \in 1 .. T : f[k] = g[k][f[k - 1]]
    <3>1. PICK D : D = Seq(B)
      OBVIOUS
    <3>2. PICK start \in D : start = <<>>
      BY <2>4, <3>1
    <3>3. g \in [1 .. T -> [D -> D]]
      BY <2>3, <3>1
    <3>4. Stepping(D, T, g, start)
      BY <3>3, StepByStep, Zenon
    <3>5. QED
      BY <3>1, <3>2, <3>4 DEF Stepping
  <2>6. ASSUME NEW k \in 1 .. T PROVE f[k] = f[k - 1] \o S[k]
    <3>1. k - 1 \in 0 .. T
      OBVIOUS
    <3>2. f[k - 1] \in Seq(B)
      BY <3>1
    <3>3. QED
      BY <2>1, <2>5, <3>2
  <2>7. QED
    BY <2>5, <2>6
<1>4. PICK P : P = [k \in 0 .. T |-> Len(f[k])]
  OBVIOUS
<1>5. \A k \in 0 .. T : f[k] \in Seq(B) /\ P[k] = Len(f[k]) /\ P[k] \in Nat
  BY <1>4
<1>6. ASSUME NEW k \in 1 .. T
      PROVE  /\ k - 1 \in 0 .. T /\ k \in 0 .. T /\ P[k] = P[k - 1] + Len(S[k])
             /\ \A i \in 1 .. P[k - 1] : f[k][i] = f[k - 1][i]
             /\ \A i \in 1 .. Len(S[k]) : f[k][P[k - 1] + i] = S[k][i]
  <2>1. k - 1 \in 0 .. T /\ k \in 0 .. T
    OBVIOUS
  <2>2. PICK u, v : u = f[k - 1] /\ v = S[k]
    OBVIOUS
  <2>3. u \in Seq(B) /\ v \in Seq(B) /\ f[k] = u \o v /\ P[k - 1] = Len(u) /\ P[k] = Len(u \o v)
    BY <1>2, <1>3, <1>5, <2>1, <2>2
  <2>4. /\ u \o v \in Seq(B) /\ Len(u \o v) = Len(u) + Len(v)
        /\ \A i \in 1 .. Len(u) : (u \o v)[i] = u[i]
        /\ \A i \in 1 .. Len(v) : (u \o v)[Len(u) + i] = v[i]
    <3>1. u \in Seq(B) /\ v \in Seq(B)
      BY <2>3
    <3>2. QED
      BY <3>1, ConcatPlaces
  <2>5. PICK p, q, z : p = P[k - 1] /\ q = Len(v) /\ z = f[k]
    OBVIOUS
  <2>6. /\ \A i \in 1 .. p : z[i] = u[i]
        /\ \A i \in 1 .. q : z[p + i] = v[i]
    BY <2>3, <2>4, <2>5, Zenon
  <2>7. P[k] = P[k - 1] + Len(S[k])
    BY <2>2, <2>3, <2>4
  <2>8. QED
    BY <2>1, <2>2, <2>5, <2>6, <2>7, Zenon
<1>7. Edges(S, P)
  <2>1. P \in [0 .. T -> Nat]
    BY <1>4, <1>5
  <2>2. P[0] = 0
    BY <1>3, <1>4, EmptySeq
  <2>3. QED
    BY <1>1, <1>6, <2>1, <2>2 DEF Edges
<1>8. \A m \in 0 .. T : \A k \in 0 .. m : P[k] <= P[m] /\ \A i \in 1 .. P[k] : f[m][i] = f[k][i]
  <2> DEFINE Agreed(m) == \A k \in 0 .. m : P[k] <= P[m] /\ \A i \in 1 .. P[k] : f[m][i] = f[k][i]
             G == {m \in Nat : m <= T => Agreed(m)}
  <2>1. 0 \in G
    <3>1. ASSUME NEW k \in 0 .. 0 PROVE k = 0
      OBVIOUS
    <3>2. 0 \in 0 .. T
      OBVIOUS
    <3>3. Agreed(0)
      BY <1>5, <3>1, <3>2
    <3>4. QED
      BY <3>3
  <2>2. ASSUME NEW m \in G PROVE m + 1 \in G
    <3>1. m \in Nat /\ m + 1 \in Nat
      OBVIOUS
    <3>2. ASSUME m + 1 <= T, NEW k \in 0 .. m + 1
          PROVE  P[k] <= P[m + 1] /\ \A i \in 1 .. P[k] : f[m + 1][i] = f[k][i]
      <4>1. m <= T /\ m + 1 \in 1 .. T /\ (m + 1) - 1 = m /\ m \in 0 .. T /\ m + 1 \in 0 .. T
        BY <3>1, <3>2
      <4>2. CASE k = m + 1
        BY <1>5, <4>1, <4>2
      <4>3. CASE k # m + 1
        <5>1. k \in 0 .. m /\ k \in 0 .. T
          BY <3>1, <4>1, <4>3
        <5>2. P[k] <= P[m] /\ \A i \in 1 .. P[k] : f[m][i] = f[k][i]
          BY <4>1, <5>1
        <5>3. /\ P[m + 1] = P[m] + Len(S[m + 1])
              /\ \A i \in 1 .. P[m] : f[m + 1][i] = f[m][i]
          BY <1>6, <4>1
        <5>4. P[k] \in Nat /\ P[m] \in Nat /\ Len(S[m + 1]) \in Nat
          BY <1>2, <1>5, <4>1, <5>1
        <5>5. \A i \in 1 .. P[k] : i \in 1 .. P[m]
          BY <5>2, <5>4
        <5>6. P[k] <= P[m + 1]
          BY <5>2, <5>3, <5>4
        <5>7. QED
          BY <5>2, <5>3, <5>5, <5>6
      <4>4. QED
        BY <4>2, <4>3
    <3>3. QED
      BY <3>1, <3>2
  <2>3. G \in SUBSET Nat
    OBVIOUS
  <2>4. \A m \in Nat : m \in G
    <3> HIDE DEF G
    <3>1. QED
      BY <2>1, <2>2, <2>3, UpFrom0
  <2>5. QED
    BY <2>4
<1>9. FlattenSeq(S) = f[T]
  <2>1. CASE T = 0
    <3>1. S = <<>>
      BY <1>1, <2>1, EmptySeq
    <3>2. QED
      BY <1>3, <2>1, <3>1, EmptySeq DEF FlattenSeq
  <2>2. CASE T # 0
    <3>1. PICK h : h = [i \in 1 .. T |-> f[i]]
      OBVIOUS
    <3>2. ASSUME NEW i \in 1 .. T PROVE h[i] = IF i = 1 THEN S[i] ELSE h[i - 1] \o S[i]
      <4>1. CASE i = 1
        <5>1. f[1] = <<>> \o S[1] /\ S[1] \in Seq(B)
          <6>1. 1 \in 1 .. T /\ 1 - 1 = 0
            BY <4>1
          <6>2. QED
            BY <1>2, <1>3, <6>1
        <5>2. PICK s1 : s1 = S[1]
          OBVIOUS
        <5>3. <<>> \o s1 = s1
          BY <5>1, <5>2, ConcatEmptySeq
        <5>4. QED
          BY <3>1, <4>1, <5>1, <5>2, <5>3
      <4>2. CASE i # 1
        <5>1. i - 1 \in 1 .. T
          BY <4>2
        <5>2. QED
          BY <1>3, <3>1, <4>2, <5>1
      <4>3. QED
        BY <4>1, <4>2
    <3>3. h = [i \in 1 .. T |-> IF i = 1 THEN S[i] ELSE h[i - 1] \o S[i]]
      BY <3>1, <3>2
    <3>4. PICK g : /\ g = [i \in 1 .. T |-> IF i = 1 THEN S[i] ELSE g[i - 1] \o S[i]]
                   /\ FlattenSeq(S) = g[T]
      BY <1>1, <2>2, <3>3 DEF FlattenSeq
    <3>5. \A i \in 1 .. T : g[i] = IF i = 1 THEN S[i] ELSE g[i - 1] \o S[i]
      BY <3>4
    <3>6. \A i \in 1 .. T : g[i] = h[i]
      <4> DEFINE G == {m \in Nat : m \in 1 .. T => g[m] = h[m]}
      <4>1. 0 \in G
        OBVIOUS
      <4>2. ASSUME NEW m \in G PROVE m + 1 \in G
        <5>1. m \in Nat /\ (m + 1) - 1 = m
          OBVIOUS
        <5>2. ASSUME m + 1 \in 1 .. T PROVE g[m + 1] = h[m + 1]
          <6>1. CASE m = 0
            BY <3>2, <3>5, <5>2, <6>1
          <6>2. CASE m # 0
            <7>1. m \in 1 .. T /\ m + 1 # 1
              BY <5>1, <5>2, <6>2
            <7>2. g[m] = h[m]
              BY <7>1
            <7>3. g[m + 1] = g[m] \o S[m + 1] /\ h[m + 1] = h[m] \o S[m + 1]
              <8>1. PICK j : j = m + 1
                OBVIOUS
              <8>2. j \in 1 .. T /\ j # 1 /\ j - 1 = m
                BY <5>1, <5>2, <7>1, <8>1
              <8>3. g[j] = g[j - 1] \o S[j] /\ h[j] = h[j - 1] \o S[j]
                BY <3>2, <3>5, <8>2
              <8>4. QED
                BY <8>1, <8>2, <8>3
            <7>4. QED
              BY <7>2, <7>3
          <6>3. QED
            BY <6>1, <6>2
        <5>3. QED
          BY <5>1, <5>2
      <4>3. G \in SUBSET Nat
        OBVIOUS
      <4>4. \A m \in Nat : m \in G
        <5> HIDE DEF G
        <5>1. QED
          BY <4>1, <4>2, <4>3, UpFrom0
      <4>5. QED
        BY <4>4
    <3>7. T \in 1 .. T
      BY <2>2
    <3>8. QED
      BY <3>1, <3>4, <3>6, <3>7
  <2>3. QED
    BY <2>1, <2>2
<1>10. T \in 0 .. T
  OBVIOUS
<1>11. Laid(f[T], S, P)
  <2>1. ASSUME NEW k \in 1 .. T, NEW i \in 1 .. Len(S[k]) PROVE f[T][P[k - 1] + i] = S[k][i]
    <3>1. PICK j : j = P[k - 1] + i
      OBVIOUS
    <3>2. k \in 0 .. T /\ Len(S[k]) \in Nat /\ P[k - 1] \in Nat /\ P[k] = P[k - 1] + Len(S[k])
      BY <1>2, <1>5, <1>6
    <3>3. j \in 1 .. P[k]
      <4>1. PICK p \in Nat, q \in Nat : p = P[k - 1] /\ q = Len(S[k])
        BY <3>2
      <4>2. P[k] = p + q /\ j = p + i /\ i \in 1 .. q
        BY <3>1, <3>2, <4>1
      <4>3. QED
        BY <4>2
    <3>4. f[T][j] = f[k][j]
      BY <1>8, <1>10, <3>2, <3>3
    <3>5. QED
      BY <1>6, <3>1, <3>4
  <2>2. QED
    BY <1>1, <2>1 DEF Laid
<1>12. f[T] \in Seq(B) /\ Len(f[T]) = P[T]
  BY <1>5, <1>10
<1>13. QED
  BY <1>1, <1>7, <1>9, <1>11, <1>12

-----------------------------------------------------------------------------
(* Types and pace *)

\* The rotation itself keeps the types and the pace of the owner's variables.
LEMMA RotationKeepsPace ==
  ASSUME RotationTypeOK, MaybeRotate
  PROVE  /\ rotations' \in Nat /\ lastRotation' \in 0 .. MaxTime
         /\ rotations' * Interval <= lastRotation' - started
         /\ clock' = clock /\ life' = life /\ started' = started
<1> USE RotationAssumption DEF RotationTypeOK, MaybeRotate
<1>1. CASE ~Due
  BY <1>1
<1>2. CASE Due
  <2>1. rotations' = rotations + 1 /\ lastRotation' = clock
    BY <1>2
  <2>2. clock - lastRotation >= Interval
    BY <1>2 DEF Due
  <2>3. (rotations + 1) * Interval = rotations * Interval + Interval
    OBVIOUS
  <2>. QED  BY <2>1, <2>2, <2>3
<1>. QED  BY <1>1, <1>2

LEMMA TypeInit == RotationInit => RotationTypeOK
BY RotationAssumption DEF RotationInit, RotationTypeOK

LEMMA TypeNext == RotationTypeOK /\ [RotationNext]_rotationVars => RotationTypeOK'
<1> SUFFICES ASSUME RotationTypeOK, [RotationNext]_rotationVars PROVE RotationTypeOK'
  OBVIOUS
<1> USE RotationAssumption
<1>1. CASE RotateSilently
  BY <1>1, RotationKeepsPace DEF RotateSilently, peerVars, RotationTypeOK
<1>2. CASE Announce
  <2>1. /\ announced' = announced \cup {Announcement}
        /\ UNCHANGED peerVars /\ MaybeRotate
    BY <1>2 DEF Announce
  <2>2. /\ rotations' \in Nat /\ lastRotation' \in 0 .. MaxTime
        /\ rotations' * Interval <= lastRotation' - started
        /\ clock' = clock /\ life' = life /\ started' = started
    BY <2>1, RotationKeepsPace
  <2>3. Announcement.key \in (0 .. life) \X Nat /\ Announcement.count = Announcement.key[2]
    BY <2>2 DEF Announcement, RotationTypeOK
  <2>. QED  BY <2>1, <2>2, <2>3 DEF peerVars, RotationTypeOK
<1>3. CASE RestartOwner
  BY <1>3 DEF RestartOwner, peerVars, RotationTypeOK
<1>4. CASE ClockMoves
  BY <1>4 DEF ClockMoves, peerVars, RotationTypeOK
<1>5. ASSUME NEW p \in Peers, RestartPeer(p) PROVE RotationTypeOK'
  BY <1>5 DEF RestartPeer, ownerVars, RotationTypeOK
<1>6. ASSUME NEW p \in Peers, NEW e \in announced, Receive(p, e) PROVE RotationTypeOK'
  BY <1>6 DEF Receive, ownerVars, RotationTypeOK
<1>7. CASE UNCHANGED rotationVars
  BY <1>7 DEF rotationVars, ownerVars, peerVars, RotationTypeOK
<1>. QED  BY <1>1, <1>2, <1>3, <1>4, <1>5, <1>6, <1>7 DEF RotationNext

\* Types, and the pace of maybe_rotate: a clock that steps back never hastens a
\* rotation, so each key of a life is current for an interval at least.
THEOREM PaceKept == RotationSpec => []RotationTypeOK
BY TypeInit, TypeNext, PTL DEF RotationSpec

-----------------------------------------------------------------------------
(* The newest key *)

\* The part of NewestHeld that is about one peer, which is not inductive alone: a
\* peer that heard nothing must also hold back nothing.
HoldsNewest(p) ==
  /\ received[p] = {} => lastCount[p] = -1
  /\ held[p] = NoKey <=> received[p] = {}
  /\ \A e \in received[p] : e.count <= lastCount[p] /\ (e.count = lastCount[p] => e.key = held[p])
  /\ received[p] # {} => lastCount[p] \in Numbers(p)
  /\ grace[p] # NoKey => \E e \in received[p] : e.key = grace[p] /\ e.count < lastCount[p]

\* An announcement that handle_incoming_rotation takes is newer than all that the peer
\* heard of this life, and one that it refuses adds nothing to them.
LEMMA ReceiveKeepsNewest ==
  ASSUME RotationTypeOK, NEW p \in Trusting, NEW e \in announced, Receive(p, e),
         OneLife(p) => HoldsNewest(p), OneLife(p)'
  PROVE  HoldsNewest(p)'
<1> USE RotationAssumption DEF RotationTypeOK
<1>1. p \in Peers /\ received'[p] = received[p] \cup {e}
  BY DEF Receive
<1>2. OneLife(p) /\ HoldsNewest(p)
  BY <1>1 DEF OneLife
<1>3. e.key \in Nat \X Nat /\ e.count = e.key[2] /\ e.count \in Nat /\ e.key # NoKey
  OBVIOUS
<1>4. ASSUME NEW d \in received[p]
      PROVE  d.key \in Nat \X Nat /\ d.count = d.key[2] /\ d.count \in Nat
  BY <1>1
<1>5. CASE InOrder(p, e)
  <2>1. e.count > lastCount[p] /\ \A d \in received[p] : d.count < e.count
    BY <1>1, <1>2, <1>3, <1>4, <1>5 DEF InOrder, HoldsNewest
  <2>2. e.key # held[p]
    <3>1. CASE received[p] = {}
      BY <3>1, <1>2, <1>3 DEF HoldsNewest
    <3>2. CASE received[p] # {}
      <4>1. PICK d \in received[p] : d.count = lastCount[p]
        BY <3>2, <1>2 DEF HoldsNewest, Numbers
      <4>2. d.key = held[p]
        BY <4>1, <1>2 DEF HoldsNewest
      <4>. QED  BY <4>1, <4>2, <2>1, <1>3, <1>4
    <3>. QED  BY <3>1, <3>2
  <2>3. /\ held'[p] = e.key /\ lastCount'[p] = e.count
        /\ grace'[p] = IF held[p] # NoKey THEN held[p] ELSE grace[p]
    BY <1>1, <1>5, <2>2 DEF Receive
  <2>4. grace'[p] # NoKey => \E d \in received'[p] : d.key = grace'[p] /\ d.count < lastCount'[p]
    <3>1. CASE held[p] = NoKey
      BY <3>1, <2>3, <1>2 DEF HoldsNewest
    <3>2. CASE held[p] # NoKey
      <4>1. PICK d \in received[p] : d.count = lastCount[p] /\ d.key = held[p]
        BY <3>2, <1>2 DEF HoldsNewest, Numbers
      <4>. QED  BY <4>1, <3>2, <2>1, <2>3, <1>1
    <3>. QED  BY <3>1, <3>2
  <2>5. \A d \in received'[p] : d.count <= e.count /\ (d.count = e.count => d.key = e.key)
    BY <2>1, <1>1, <1>3, <1>4
  <2>6. e.count \in Numbers(p)'
    BY <1>1 DEF Numbers
  <2>. QED  BY <2>3, <2>4, <2>5, <2>6, <1>1, <1>3 DEF HoldsNewest
<1>6. CASE ~InOrder(p, e)
  <2>1. held'[p] = held[p] /\ lastCount'[p] = lastCount[p] /\ grace'[p] = grace[p]
    BY <1>6 DEF Receive
  <2>2. e.count <= lastCount[p]
    BY <1>1, <1>3, <1>6 DEF InOrder
  <2>3. received[p] # {}
    BY <2>2, <1>2, <1>3 DEF HoldsNewest
  <2>4. e.count = lastCount[p] => e.key = held[p]
    <3>1. PICK d \in received[p] : d.count = lastCount[p] /\ d.key = held[p]
      BY <2>3, <1>2 DEF HoldsNewest, Numbers
    <3>2. d.key[1] = e.key[1]
      BY <1>1 DEF OneLife
    <3>. QED  BY <3>1, <3>2, <1>3, <1>4
  <2>5. lastCount[p] \in Numbers(p)'
    BY <2>3, <1>1, <1>2 DEF HoldsNewest, Numbers
  <2>. QED  BY <2>1, <2>2, <2>3, <2>4, <2>5, <1>1, <1>2 DEF HoldsNewest
<1>. QED  BY <1>5, <1>6

RotationInv == RotationTypeOK /\ \A p \in Trusting : OneLife(p) => HoldsNewest(p)

LEMMA NewestInit == RotationInit => RotationInv
<1> SUFFICES ASSUME RotationInit PROVE RotationInv
  OBVIOUS
<1>1. RotationTypeOK
  BY TypeInit
<1>2. ASSUME NEW p \in Trusting PROVE HoldsNewest(p)
  BY <1>2, RotationAssumption DEF RotationInit, HoldsNewest
<1>. QED  BY <1>1, <1>2 DEF RotationInv

LEMMA NewestNext == RotationInv /\ [RotationNext]_rotationVars => RotationInv'
<1> SUFFICES ASSUME RotationInv, [RotationNext]_rotationVars PROVE RotationInv'
  OBVIOUS
<1>1. RotationTypeOK /\ RotationTypeOK'
  BY TypeNext DEF RotationInv
<1> SUFFICES ASSUME NEW p \in Trusting, OneLife(p)' PROVE HoldsNewest(p)'
  BY <1>1 DEF RotationInv
<1>2. CASE UNCHANGED peerVars
  BY <1>2 DEF peerVars, RotationInv, OneLife, HoldsNewest, Numbers
<1>3. ASSUME NEW q \in Peers, RestartPeer(q) PROVE HoldsNewest(p)'
  <2>1. CASE q = p
    BY <2>1, <1>1, <1>3, RotationAssumption DEF RestartPeer, RotationTypeOK, HoldsNewest
  <2>2. CASE q # p
    <3>1. /\ held'[p] = held[p] /\ grace'[p] = grace[p]
          /\ lastCount'[p] = lastCount[p] /\ received'[p] = received[p]
      BY <2>2, <1>1, <1>3, RotationAssumption DEF RestartPeer, RotationTypeOK
    <3>. QED  BY <3>1 DEF RotationInv, OneLife, HoldsNewest, Numbers
  <2>. QED  BY <2>1, <2>2
<1>4. ASSUME NEW q \in Peers, NEW e \in announced, Receive(q, e) PROVE HoldsNewest(p)'
  <2>1. CASE q = p
    BY <2>1, <1>1, <1>4, ReceiveKeepsNewest DEF RotationInv
  <2>2. CASE q # p
    <3>1. /\ held'[p] = held[p] /\ grace'[p] = grace[p]
          /\ lastCount'[p] = lastCount[p] /\ received'[p] = received[p]
      BY <2>2, <1>1, <1>4, RotationAssumption DEF Receive, RotationTypeOK
    <3>. QED  BY <3>1 DEF RotationInv, OneLife, HoldsNewest, Numbers
  <2>. QED  BY <2>1, <2>2
<1>. QED
  BY <1>2, <1>3, <1>4
  DEF RotationNext, rotationVars, RotateSilently, Announce, RestartOwner, ClockMoves

\* A trusting peer that heard one life of the owner holds the newest key it was told,
\* however late, often and out of order handle_incoming_rotation was called.
THEOREM NewestAlwaysHeld == RotationSpec => []NewestHeld
<1>1. RotationInv => NewestHeld
  BY DEF RotationInv, NewestHeld, HoldsNewest
<1>. QED  BY <1>1, NewestInit, NewestNext, PTL DEF RotationSpec

-----------------------------------------------------------------------------
(* The store stays consistent, whatever statements fail *)

\* What a handler may have left to do.  A comment whose buffered copy is about to go
\* is a comment of a post that is there; so is the post whose comments are promoted.
JobSound ==
  \/ job = NoJob
  \/ \E p \in posts : job = Promotion(p)
  \/ \E c \in got : PostOf[c] \in posts /\ job = Unbuffering(c)
  \/ job = [op |-> "cap"]
  \/ \E t \in Rated, table \in Tables : \E d :
       job = [op |-> "score", target |-> t, table |-> table, delta |-> d]

\* The comments stored and buffered at once, but for the one about to leave.
Doubled ==
  {c \in orphans \cap comments : ~ (job.op = "unbuffer" /\ c = job.comment)}

SocialTypes ==
  /\ posts \subseteq Posts /\ got \subseteq Comments /\ evicted \subseteq got
  /\ links \subseteq Links
  /\ orphans \cup comments \subseteq got
  /\ cuts \in Nat

StoreInv ==
  /\ SocialTypes /\ JobSound
  /\ \A c \in comments : Ready(c)
  /\ Cardinality(orphans) <= MaxOrphans + cuts + (IF job.op = "cap" THEN 1 ELSE 0)
  /\ Cardinality(Doubled) <= cuts

LEMMA StoreFinite ==
  ASSUME SocialTypes, NEW S, S \subseteq Comments
  PROVE  IsFiniteSet(S) /\ Cardinality(S) \in Nat
BY FS_Subset, FS_CardinalityType, SocialAssumption

\* The shapes of a job tell its operation.
LEMMA JobShapes ==
  /\ NoJob.op = "idle"
  /\ \A p : Promotion(p).op = "promote" /\ Promotion(p).post = p
  /\ \A c : /\ Unbuffering(c).op = "unbuffer" /\ Unbuffering(c).comment = c
            /\ Unbuffering(c).next = Promotion(PostOf[c])
  /\ [op |-> "cap"].op = "cap"
  /\ \A t, b, d : [op |-> "score", target |-> t, table |-> b, delta |-> d].op = "score"
BY DEF NoJob, Promotion, Unbuffering

\* Without a handler in progress nothing is half-done on its account.
LEMMA StoreStart == SocialInit => StoreInv
<1> SUFFICES ASSUME SocialInit PROVE StoreInv
  OBVIOUS
<1>1. SocialTypes
  BY DEF SocialInit, SocialTypes
<1>2. orphans = {} /\ Doubled = {}
  BY DEF SocialInit, Doubled
<1>3. Cardinality(orphans) = 0 /\ Cardinality(Doubled) = 0
  BY <1>2, FS_EmptySet
<1>4. MaxOrphans \in Nat
  BY SocialAssumption
<1>5. QED
  BY <1>1, <1>3, <1>4 DEF SocialInit, StoreInv, JobSound

\* A step keeps the store consistent when it keeps the counts.
LEMMA CountsKept ==
  ASSUME StoreInv, cuts' = cuts, orphans' \subseteq orphans, Doubled' \subseteq Doubled,
         job.op = "cap" => job'.op = "cap"
  PROVE  /\ Cardinality(orphans') <= MaxOrphans + cuts' + (IF job'.op = "cap" THEN 1 ELSE 0)
         /\ Cardinality(Doubled') <= cuts'
<1>1. /\ IsFiniteSet(orphans) /\ Cardinality(orphans) \in Nat
      /\ IsFiniteSet(Doubled) /\ Cardinality(Doubled) \in Nat
      /\ cuts \in Nat /\ MaxOrphans \in Nat
  <2>1. SocialTypes /\ orphans \subseteq Comments /\ Doubled \subseteq Comments
    BY DEF StoreInv, SocialTypes, Doubled
  <2>2. QED
    BY <2>1, StoreFinite, SocialAssumption DEF SocialTypes
<1>2. /\ Cardinality(orphans') <= Cardinality(orphans) /\ Cardinality(orphans') \in Nat
      /\ Cardinality(Doubled') <= Cardinality(Doubled) /\ Cardinality(Doubled') \in Nat
  <2> DEFINE o == orphans'
             d == Doubled'
  <2>1. o \subseteq orphans /\ d \subseteq Doubled
    OBVIOUS
  <2> HIDE DEF o, d
  <2>2. /\ Cardinality(o) <= Cardinality(orphans) /\ Cardinality(o) \in Nat
        /\ Cardinality(d) <= Cardinality(Doubled) /\ Cardinality(d) \in Nat
    BY <1>1, <2>1, FS_Subset, FS_CardinalityType
  <2>3. QED
    BY <2>2 DEF o, d
<1>3. Cardinality(orphans) <= MaxOrphans + cuts + (IF job.op = "cap" THEN 1 ELSE 0)
      /\ Cardinality(Doubled) <= cuts
  BY DEF StoreInv
<1>4. QED
  BY <1>1, <1>2, <1>3


\* Posts: the comments of a post leave with it, and no other answers them.
LEMMA PostStep ==
  ASSUME StoreInv, NEW p \in Posts, ReceivePost(p) \/ DeletePost(p)
  PROVE  StoreInv'
<1>1. /\ SocialTypes /\ Idle /\ Removable(p)
      /\ \A c \in comments : Ready(c)
      /\ comments' = comments \ CommentsOf(p)
      /\ UNCHANGED <<orphans, rows, got, evicted, cuts>>
      /\ posts \ {p} \subseteq posts' /\ posts' \subseteq Posts
      /\ job' = NoJob \/ (p \in posts' /\ job' = Promotion(p))
  BY DEF StoreInv, SocialTypes, ReceivePost, DeletePost, Idle, JobSound, NoJob, Promotion, Unbuffering
<1>2. SocialTypes'
  BY <1>1 DEF SocialTypes, rows
<1>3. JobSound'
  BY <1>1 DEF JobSound
<1>4. \A c \in comments' : Ready(c)'
  BY <1>1 DEF Ready, ParentReady, Removable, CommentsOf
<1>5. job.op = "idle" /\ job'.op \in {"idle", "promote"}
  BY <1>1, JobShapes DEF Idle
<1>6. Doubled' \subseteq Doubled
  BY <1>1, <1>5 DEF Doubled
<1>7. QED
  BY <1>1, <1>2, <1>3, <1>4, <1>5, <1>6, CountsKept DEF StoreInv

\* A comment that is stored is a comment of a post that is there, and answers one
\* that is; its buffered copy, if any, is the one about to go.
LEMMA StoringStep ==
  ASSUME StoreInv, NEW c \in Comments, Ready(c), job.op \in {"idle", "promote"},
         comments' = comments \cup {c}, job' = Unbuffering(c),
         got' = got \cup {c},
         UNCHANGED <<posts, orphans, rows, evicted, cuts>>
  PROVE  StoreInv'
<1>1. SocialTypes /\ \A d \in comments : Ready(d)
  BY DEF StoreInv
<1>2. SocialTypes'
  BY <1>1 DEF SocialTypes, rows
<1>3. JobSound'
  BY DEF JobSound, Ready, Unbuffering, Promotion
<1>4. \A d \in comments' : Ready(d)'
  BY <1>1 DEF Ready, ParentReady
<1>5. job'.op = "unbuffer" /\ job'.comment = c
  BY JobShapes
<1>6. Doubled' \subseteq Doubled
  BY <1>5 DEF Doubled
<1>7. QED
  BY <1>2, <1>3, <1>4, <1>5, <1>6, CountsKept DEF StoreInv

LEMMA ReceiveCommentStep ==
  ASSUME StoreInv, NEW c \in Comments, ReceiveComment(c)
  PROVE  StoreInv'
<1>1. /\ SocialTypes /\ \A d \in comments : Ready(d)
      /\ job.op = "idle" /\ got' = got \cup {c}
      /\ UNCHANGED <<posts, rows, evicted, cuts>>
  BY DEF StoreInv, ReceiveComment, Idle
<1>2. CASE Ready(c)
  <2>1. comments' = comments \cup {c} /\ job' = Unbuffering(c) /\ UNCHANGED orphans
    BY <1>2 DEF ReceiveComment, AfterStoring
  <2>2. QED
    BY <1>1, <1>2, <2>1, StoringStep
<1>3. CASE ~Ready(c)
  <2>1. comments' = comments /\ orphans' = orphans \cup {c} /\ job' = [op |-> "cap"]
    BY <1>3 DEF ReceiveComment
  <2>2. job'.op = "cap"
    BY <2>1
  <2>3. c \notin comments
    BY <1>1, <1>3
  <2>4. Doubled' \subseteq Doubled
    BY <1>1, <2>1, <2>2, <2>3 DEF Doubled
  <2>5. /\ IsFiniteSet(orphans) /\ Cardinality(orphans) \in Nat
        /\ IsFiniteSet(Doubled) /\ Cardinality(Doubled) \in Nat
        /\ MaxOrphans \in Nat /\ cuts \in Nat
    <3>1. orphans \subseteq Comments /\ Doubled \subseteq Comments
      BY <1>1 DEF SocialTypes, Doubled
    <3>2. QED
      BY <1>1, <3>1, StoreFinite, SocialAssumption DEF SocialTypes
  <2>6. Cardinality(orphans') <= Cardinality(orphans) + 1 /\ Cardinality(orphans') \in Nat
    <3>1. Cardinality(orphans \cup {c}) <= Cardinality(orphans) + 1
      BY <2>5, CardinalityGrowth
    <3>2. IsFiniteSet(orphans \cup {c})
      BY <2>5, FS_AddElement
    <3>3. Cardinality(orphans \cup {c}) \in Nat
      BY <3>2, FS_CardinalityType
    <3>4. QED
      BY <2>1, <3>1, <3>3
  <2>7. Cardinality(orphans) <= MaxOrphans + cuts /\ Cardinality(Doubled) <= cuts
    <3>1. Cardinality(orphans) <= MaxOrphans + cuts + 0
      BY <1>1 DEF StoreInv
    <3>2. QED
      BY <2>5, <3>1 DEF StoreInv
  <2>8. Cardinality(orphans') <= MaxOrphans + cuts + 1
    BY <2>5, <2>6, <2>7
  <2>9. Cardinality(Doubled') <= cuts
    <3> DEFINE d == Doubled'
    <3>1. d \subseteq Doubled
      BY <2>4
    <3> HIDE DEF d
    <3>2. Cardinality(d) <= Cardinality(Doubled) /\ Cardinality(d) \in Nat
      BY <2>5, <3>1, FS_Subset, FS_CardinalityType
    <3>3. Cardinality(d) <= cuts
      BY <2>5, <2>7, <3>2
    <3>4. QED
      BY <3>3 DEF d
  <2>10. SocialTypes'
    BY <1>1, <2>1 DEF SocialTypes, rows
  <2>11. JobSound'
    BY <2>1 DEF JobSound
  <2>12. \A d \in comments' : Ready(d)'
    BY <1>1, <2>1 DEF Ready, ParentReady
  <2>13. QED
    BY <1>1, <2>2, <2>8, <2>9, <2>10, <2>11, <2>12 DEF StoreInv
<1>4. QED
  BY <1>2, <1>3

LEMMA CapStep ==
  ASSUME StoreInv, Cap
  PROVE  StoreInv'
<1>1. /\ SocialTypes /\ \A d \in comments : Ready(d)
      /\ job.op = "cap" /\ job' = NoJob
      /\ UNCHANGED <<posts, comments, rows, got, cuts>>
  BY DEF StoreInv, Cap
<1>2. PICK S \in SUBSET orphans : /\ Cardinality(S) = Min({MaxOrphans, Cardinality(orphans)})
                                  /\ orphans' = S /\ evicted' = evicted \cup (orphans \ S)
  BY DEF Cap, Kept
<1>3. /\ Cardinality(orphans) \in Nat /\ MaxOrphans \in Nat /\ cuts \in Nat
      /\ Cardinality(S) \in Nat /\ IsFiniteSet(Doubled) /\ Cardinality(Doubled) \in Nat
  <2>1. orphans \subseteq Comments /\ Doubled \subseteq Comments /\ S \subseteq Comments
    BY <1>1 DEF SocialTypes, Doubled
  <2>2. QED
    BY <1>1, <2>1, StoreFinite, SocialAssumption DEF SocialTypes
<1>4. Cardinality(S) <= MaxOrphans
  <2>1. Cardinality(S) = IF MaxOrphans <= Cardinality(orphans) THEN MaxOrphans ELSE Cardinality(orphans)
    BY <1>2, <1>3, MinOfTwo
  <2>2. QED
    BY <1>3, <2>1
<1>5. SocialTypes'
  BY <1>1, <1>2 DEF SocialTypes, rows
<1>6. job'.op = "idle"
  BY <1>1, JobShapes
<1>7. Cardinality(Doubled') <= cuts
  <2> DEFINE d == Doubled'
  <2>1. d \subseteq Doubled
    BY <1>1, <1>2, <1>6 DEF Doubled
  <2> HIDE DEF d
  <2>2. Cardinality(d) <= Cardinality(Doubled) /\ Cardinality(d) \in Nat
    BY <1>3, <2>1, FS_Subset, FS_CardinalityType
  <2>3. Cardinality(d) <= cuts
    BY <1>3, <2>2 DEF StoreInv
  <2>4. QED
    BY <2>3 DEF d
<1>8. Cardinality(orphans') <= MaxOrphans + cuts' + (IF job'.op = "cap" THEN 1 ELSE 0)
  BY <1>1, <1>2, <1>3, <1>4, <1>6
<1>9. JobSound' /\ \A d \in comments' : Ready(d)'
  BY <1>1 DEF JobSound, Ready, ParentReady
<1>10. QED
  BY <1>1, <1>5, <1>7, <1>8, <1>9 DEF StoreInv

LEMMA UnbufferStep ==
  ASSUME StoreInv, Unbuffer
  PROVE  StoreInv'
<1>1. /\ SocialTypes /\ \A d \in comments : Ready(d)
      /\ job.op = "unbuffer" /\ orphans' = orphans \ {job.comment} /\ job' = job.next
      /\ UNCHANGED <<posts, comments, rows, history>>
  BY DEF StoreInv, Unbuffer
<1>2. PICK c \in got : PostOf[c] \in posts /\ job = Unbuffering(c)
  BY <1>1, JobShapes DEF StoreInv, JobSound
<1>3. job' = Promotion(PostOf[c]) /\ job.comment = c
  BY <1>1, <1>2, JobShapes
<1>4. JobSound'
  BY <1>1, <1>2, <1>3 DEF JobSound
<1>5. job'.op = "promote"
  BY <1>3, JobShapes
<1>6. Doubled' \subseteq Doubled
  BY <1>1, <1>5 DEF Doubled
<1>7. SocialTypes' /\ \A d \in comments' : Ready(d)'
  BY <1>1 DEF SocialTypes, rows, history, Ready, ParentReady
<1>8. cuts' = cuts /\ orphans' \subseteq orphans
  BY <1>1 DEF history
<1>9. QED
  BY <1>1, <1>4, <1>5, <1>6, <1>7, <1>8, CountsKept DEF StoreInv

LEMMA PromoteStep ==
  ASSUME StoreInv, NEW c \in Comments, Promote(c)
  PROVE  StoreInv'
<1>1. /\ job.op = "promote" /\ c \in Waiting(job.post) /\ ParentReady(c)
      /\ comments' = comments \cup {c} /\ job' = Unbuffering(c)
      /\ UNCHANGED <<posts, orphans, rows, got, evicted, cuts>>
  BY DEF Promote, history
<1>2. PICK p \in posts : job = Promotion(p)
  BY <1>1, JobShapes DEF StoreInv, JobSound
<1>3. c \in orphans /\ PostOf[c] = p
  BY <1>1, <1>2, JobShapes DEF Waiting
<1>4. Ready(c)
  BY <1>1, <1>2, <1>3 DEF Ready
<1>5. got' = got \cup {c}
  BY <1>1, <1>3 DEF StoreInv, SocialTypes
<1>6. QED
  BY <1>1, <1>4, <1>5, StoringStep

\* A handler abandoned half-way: what it has done is counted to its account.
LEMMA AbandonStep ==
  ASSUME StoreInv, Abandon
  PROVE  StoreInv'
<1>1. /\ SocialTypes /\ \A d \in comments : Ready(d)
      /\ job' = NoJob /\ cuts' = cuts + 1
      /\ UNCHANGED <<posts, comments, orphans, rows, got, evicted>>
  BY DEF StoreInv, Abandon, threads
<1>2. /\ Cardinality(orphans) \in Nat /\ MaxOrphans \in Nat /\ cuts \in Nat
      /\ IsFiniteSet(Doubled) /\ Cardinality(Doubled) \in Nat
  <2>1. orphans \subseteq Comments /\ Doubled \subseteq Comments
    BY <1>1 DEF SocialTypes, Doubled
  <2>2. QED
    BY <1>1, <2>1, StoreFinite, SocialAssumption DEF SocialTypes
<1>3. job'.op = "idle"
  BY <1>1, JobShapes
<1>4. Cardinality(orphans') <= MaxOrphans + cuts' + (IF job'.op = "cap" THEN 1 ELSE 0)
  <2>1. Cardinality(orphans) <= MaxOrphans + cuts + (IF job.op = "cap" THEN 1 ELSE 0)
    BY DEF StoreInv
  <2>2. QED
    BY <1>1, <1>2, <1>3, <2>1
<1>5. Cardinality(Doubled') <= cuts'
  <2> DEFINE d == Doubled'
  <2>1. d \subseteq Doubled \cup {job.comment}
    BY <1>1, <1>3 DEF Doubled
  <2> HIDE DEF d
  <2>2. Cardinality(d) <= Cardinality(Doubled) + 1
    BY <1>2, <2>1, CardinalityGrowth
  <2>3. Cardinality(d) \in Nat
    <3>1. IsFiniteSet(Doubled \cup {job.comment})
      BY <1>2, FS_AddElement
    <3>2. QED
      BY <2>1, <3>1, FS_Subset, FS_CardinalityType
  <2>4. Cardinality(Doubled) <= cuts
    BY DEF StoreInv
  <2>5. Cardinality(d) <= cuts'
    BY <1>1, <1>2, <2>2, <2>3, <2>4
  <2>6. QED
    BY <2>5 DEF d
<1>6. SocialTypes'
  BY <1>1, <1>2 DEF SocialTypes, rows
<1>7. JobSound' /\ \A d \in comments' : Ready(d)'
  BY <1>1 DEF JobSound, Ready, ParentReady
<1>8. QED
  BY <1>4, <1>5, <1>6, <1>7 DEF StoreInv

LEMMA StoreStep == StoreInv /\ [SocialNext]_socialVars => StoreInv'
<1> SUFFICES ASSUME StoreInv, [SocialNext]_socialVars PROVE StoreInv'
  OBVIOUS
<1>1. ASSUME UNCHANGED <<posts, comments, orphans, got, evicted, cuts>>, links' \subseteq Links,
             JobSound', job.op # "cap", job.op # "unbuffer", job'.op # "cap"
      PROVE  StoreInv'
  <2>1. SocialTypes /\ \A d \in comments : Ready(d)
    BY DEF StoreInv
  <2>2. SocialTypes' /\ \A d \in comments' : Ready(d)'
    BY <1>1, <2>1 DEF SocialTypes, Ready, ParentReady
  <2>3. Doubled' \subseteq Doubled
    BY <1>1 DEF Doubled
  <2>4. QED
    BY <1>1, <2>2, <2>3, CountsKept DEF StoreInv
<1>2. links \subseteq Links /\ JobSound
  BY DEF StoreInv, SocialTypes
<1>3. CASE PromoteEnds \/ Score
  <2>1. /\ job.op \in {"promote", "score"} /\ job' = NoJob
        /\ UNCHANGED <<posts, comments, orphans, got, evicted, cuts, links>>
    BY <1>3 DEF PromoteEnds, Score, threads, rows, history
  <2>2. JobSound' /\ job'.op = "idle"
    BY <2>1, JobShapes DEF JobSound
  <2>3. QED
    BY <1>1, <1>2, <2>1, <2>2
<1>4. ASSUME NEW v \in Voters, NEW t \in Rated, NEW d \in {-1, 1}, NEW b \in Tables, Vote(v, t, d, b)
      PROVE  StoreInv'
  <2>1. /\ job.op = "idle"
        /\ job' = NoJob
           \/ job' = [op |-> "score", target |-> t, table |-> b, delta |-> Delta(v, t, d)]
        /\ UNCHANGED <<posts, comments, orphans, got, evicted, cuts, links>>
    BY <1>4 DEF Vote, Idle, threads, rows, history
  <2>2. JobSound' /\ job'.op \in {"idle", "score"}
    BY <2>1, JobShapes DEF JobSound
  <2>3. QED
    BY <1>1, <1>2, <2>1, <2>2
<1>5. CASE RowNext
  <2>1. /\ job.op = "idle" /\ job' = job /\ links' \subseteq Links
        /\ UNCHANGED <<posts, comments, orphans, got, evicted, cuts>>
    BY <1>2, <1>5 DEF RowNext, Link, Unlink, Deliver, Idle, threads, history
  <2>2. JobSound'
    BY <1>2, <2>1 DEF JobSound
  <2>3. QED
    BY <1>1, <2>1, <2>2
<1>6. CASE UNCHANGED socialVars
  BY <1>6 DEF socialVars, StoreInv, SocialTypes, JobSound, Ready, ParentReady, Doubled
<1>7. QED
  BY <1>3, <1>4, <1>5, <1>6, PostStep, ReceiveCommentStep, CapStep, UnbufferStep,
     PromoteStep, AbandonStep DEF SocialNext, ThreadNext

\* Whatever order events come in and wherever a handler is abandoned, the foreign
\* keys hold, the buffer exceeds its cap by one comment for each handler in progress
\* or abandoned, and as many comments at most are stored and buffered at once.
THEOREM StoreAlwaysConsistent == SocialSpec => []StoreConsistent
<1>1. StoreInv => StoreConsistent
  <2> SUFFICES ASSUME StoreInv
               PROVE  Cardinality(orphans \cap comments) <= cuts + (IF job.op = "unbuffer" THEN 1 ELSE 0)
    BY DEF StoreConsistent, StoreInv, SocialTypes
  <2>1. /\ IsFiniteSet(Doubled) /\ Cardinality(Doubled) \in Nat
        /\ Cardinality(orphans \cap comments) \in Nat /\ cuts \in Nat
    <3>1. SocialTypes /\ Doubled \subseteq Comments /\ orphans \cap comments \subseteq Comments
      BY DEF StoreInv, SocialTypes, Doubled
    <3>2. QED
      BY <3>1, StoreFinite DEF SocialTypes
  <2>2. Cardinality(Doubled) <= cuts
    BY DEF StoreInv
  <2>3. CASE job.op = "unbuffer"
    <3>1. orphans \cap comments \subseteq Doubled \cup {job.comment}
      BY DEF Doubled
    <3>2. Cardinality(orphans \cap comments) <= Cardinality(Doubled) + 1
      BY <2>1, <3>1, CardinalityGrowth
    <3>3. QED
      BY <2>1, <2>2, <2>3, <3>2
  <2>4. CASE job.op # "unbuffer"
    <3>1. orphans \cap comments = Doubled
      BY <2>4 DEF Doubled
    <3>2. QED
      BY <2>1, <2>2, <2>4, <3>1
  <2>5. QED
    BY <2>3, <2>4
<1>2. QED
  BY StoreStart, StoreStep, <1>1, PTL DEF SocialSpec

-----------------------------------------------------------------------------
(* The order of arrival does not show *)

\* The posts OrderIndependent speaks of: every comment answers the post or one of its
\* comments, and there are no more than the scan looks at.
Plain(p) ==
  /\ {c \in Comments : PostOf[c] = p} = OwnComments(p)
  /\ Cardinality(OwnComments(p)) <= Window

\* A handler is still looking for comments of p that can leave the buffer.
Working(p) ==
  \/ job.op = "promote" /\ job.post = p
  \/ job.op = "unbuffer" /\ PostOf[job.comment] = p

SeenRight ==
  /\ seen \in [Posts -> {"never", "once", "more"}]
  /\ \A p \in Posts : (seen[p] = "never" => p \notin posts) /\ (seen[p] = "once" => p \in posts)

\* What leaves the buffer is stored, so that a comment received is one or the other.
NoneLost ==
  /\ job.op = "unbuffer" => job.comment \in comments
  /\ cuts = 0 /\ evicted = {} =>
       \A c \in got : seen[PostOf[c]] # "more" => c \in comments \cup orphans

\* When no handler looks for them, no comment that waits could be stored.
Settled ==
  cuts = 0 /\ evicted = {} =>
    \A p \in Posts : Plain(p) /\ seen[p] = "once" /\ ~Working(p) =>
      \A c \in Waiting(p) : ~ParentReady(c)

\* Every stored comment was received with its ancestors.
StoredRooted ==
  \A p \in Posts : Plain(p) => \A c \in CommentsOf(p) : Rooted(c, got \cap OwnComments(p))

OrderInv == StoreInv /\ SeenRight /\ NoneLost /\ Settled /\ StoredRooted

\* More comments root no fewer.
LEMMA RootedGrows ==
  ASSUME NEW c, NEW S, NEW T, S \subseteq T, Rooted(c, S)
  PROVE  Rooted(c, T)
<1> SUFFICES ASSUME NEW A \in SUBSET T, \A d \in T : ParentOf[d] \in A \cup {"none"} => d \in A
             PROVE  c \in A
  BY DEF Rooted
<1>1. A \cap S \in SUBSET S /\ \A d \in S : ParentOf[d] \in (A \cap S) \cup {"none"} => d \in A \cap S
  OBVIOUS
<1>2. c \in A \cap S
  BY <1>1 DEF Rooted
<1>3. QED
  BY <1>2

\* An answer to a rooted comment, or to the post itself, is rooted.
LEMMA RootedAnswer ==
  ASSUME NEW S, NEW c \in S, ParentOf[c] = "none" \/ Rooted(ParentOf[c], S)
  PROVE  Rooted(c, S)
<1> SUFFICES ASSUME NEW A \in SUBSET S, \A d \in S : ParentOf[d] \in A \cup {"none"} => d \in A
             PROVE  c \in A
  BY DEF Rooted
<1>1. ParentOf[c] \in A \cup {"none"}
  BY DEF Rooted
<1>2. QED
  BY <1>1

\* Comments that are received and none that are stored: what is rooted stays so.
LEMMA RootedStays ==
  ASSUME StoredRooted, got \subseteq got', comments' \subseteq comments
  PROVE  StoredRooted'
<1> SUFFICES ASSUME NEW p \in Posts, Plain(p), NEW c \in comments', PostOf[c] = p
             PROVE  Rooted(c, got' \cap OwnComments(p))
  BY DEF StoredRooted, CommentsOf, Plain, OwnComments, Rooted
<1>1. c \in CommentsOf(p)
  BY DEF CommentsOf
<1>2. Rooted(c, got \cap OwnComments(p))
  BY <1>1 DEF StoredRooted
<1>3. got \cap OwnComments(p) \subseteq got' \cap OwnComments(p)
  OBVIOUS
<1>4. QED
  BY <1>2, <1>3, RootedGrows

\* A comment that is stored when its parent is: received or promoted.
LEMMA RootedStoring ==
  ASSUME StoredRooted, SocialTypes, NEW c \in Comments, Ready(c),
         comments' = comments \cup {c}, got' = got \cup {c}
  PROVE  StoredRooted'
<1> SUFFICES ASSUME NEW p \in Posts, Plain(p), NEW e \in comments', PostOf[e] = p
             PROVE  Rooted(e, got' \cap OwnComments(p))
  BY DEF StoredRooted, CommentsOf, Plain, OwnComments, Rooted
<1>1. ASSUME NEW d \in comments, PostOf[d] = p
      PROVE  Rooted(d, got' \cap OwnComments(p))
  <2>1. Rooted(d, got \cap OwnComments(p))
    BY <1>1 DEF StoredRooted, CommentsOf
  <2>2. got \cap OwnComments(p) \subseteq got' \cap OwnComments(p)
    OBVIOUS
  <2>3. QED
    BY <2>1, <2>2, RootedGrows
<1>2. CASE e \in comments
  BY <1>1, <1>2
<1>3. CASE e = c
  <2>1. c \in OwnComments(p)
    BY <1>3 DEF Plain
  <2>2. c \in got' \cap OwnComments(p)
    BY <2>1
  <2>3. CASE ParentOf[c] = "none"
    BY <1>3, <2>2, <2>3, RootedAnswer
  <2>4. CASE ParentOf[c] # "none"
    <3>1. ParentOf[c] \in comments /\ PostOf[ParentOf[c]] = p
      BY <1>3, <2>1, <2>4 DEF Ready, ParentReady, OwnComments
    <3>2. Rooted(ParentOf[c], got' \cap OwnComments(p))
      BY <1>1, <3>1
    <3>3. QED
      BY <1>3, <2>2, <3>2, RootedAnswer
  <2>5. QED
    BY <2>3, <2>4
<1>4. QED
  BY <1>2, <1>3

LEMMA OrderStart == SocialInit => OrderInv
<1> SUFFICES ASSUME SocialInit PROVE OrderInv
  OBVIOUS
<1>1. SeenRight
  BY DEF SocialInit, SeenRight
<1>2. NoneLost
  BY JobShapes DEF SocialInit, NoneLost
<1>3. Settled
  BY DEF SocialInit, Settled, Waiting
<1>4. StoredRooted
  BY DEF SocialInit, StoredRooted, CommentsOf
<1>5. QED
  BY <1>1, <1>2, <1>3, <1>4, StoreStart DEF OrderInv

\* A post arrives: its comments, which came first, all wait.
LEMMA PostKeepsOrder ==
  ASSUME OrderInv, NEW q \in Posts, ReceivePost(q) \/ DeletePost(q)
  PROVE  SeenRight' /\ NoneLost' /\ Settled' /\ StoredRooted'
<1>1. /\ SocialTypes /\ SeenRight /\ job.op = "idle"
      /\ \A c \in comments : Ready(c)
      /\ comments' = comments \ CommentsOf(q)
      /\ UNCHANGED <<orphans, got, evicted, cuts>>
      /\ \A p \in Posts : p # q => (p \in posts' <=> p \in posts)
      /\ \A p \in Posts : p # q => seen'[p] = seen[p]
      /\ seen' \in [Posts -> {"never", "once", "more"}]
  BY DEF OrderInv, StoreInv, ReceivePost, DeletePost, Idle, SeenRight
<1>2. \/ /\ seen[q] = "never" /\ seen'[q] = "once" /\ q \in posts' /\ job' = Promotion(q)
      \/ /\ seen[q] # "never" /\ seen'[q] = "more" /\ job'.op \in {"promote", "idle"}
  <2>1. CASE ReceivePost(q)
    BY <1>1, <2>1, JobShapes DEF ReceivePost, SeenRight
  <2>2. CASE DeletePost(q)
    BY <1>1, <2>2, JobShapes DEF DeletePost, SeenRight
  <2>3. QED
    BY <2>1, <2>2
<1>3. SeenRight'
  BY <1>1, <1>2 DEF SeenRight
<1>4. NoneLost'
  <2>1. job'.op # "unbuffer"
    BY <1>2, JobShapes
  <2>2. ASSUME cuts = 0, evicted = {}, NEW c \in got, seen'[PostOf[c]] # "more"
        PROVE  c \in comments' \cup orphans
    <3>1. PostOf[c] \in Posts /\ c \in Comments
      BY <1>1, SocialAssumption DEF SocialTypes
    <3>2. CASE PostOf[c] = q
      <4>1. q \notin posts
        BY <1>1, <1>2, <2>2, <3>2 DEF SeenRight
      <4>2. c \notin comments
        BY <1>1, <3>2, <4>1 DEF Ready
      <4>3. seen[PostOf[c]] # "more"
        BY <1>2, <2>2, <3>2
      <4>4. QED
        BY <2>2, <4>2, <4>3 DEF OrderInv, NoneLost
    <3>3. CASE PostOf[c] # q
      BY <1>1, <2>2, <3>1, <3>3 DEF OrderInv, NoneLost, CommentsOf
    <3>4. QED
      BY <3>2, <3>3
  <2>3. QED
    BY <1>1, <2>1, <2>2 DEF NoneLost
<1>5. Settled'
  <2> SUFFICES ASSUME cuts = 0, evicted = {}, NEW p \in Posts, Plain(p), seen'[p] = "once", ~Working(p)',
                      NEW c \in orphans, PostOf[c] = p
               PROVE  ~ParentReady(c)'
    BY <1>1 DEF Settled, Plain, OwnComments, Waiting
  <2>1. p # q
    BY <1>2, JobShapes DEF Working
  <2>2. seen[p] = "once" /\ ~Working(p) /\ c \in Waiting(p)
    BY <1>1, <2>1 DEF Working, Waiting
  <2>3. ~ParentReady(c)
    BY <2>2 DEF OrderInv, Settled
  <2>4. QED
    BY <1>1, <2>3 DEF ParentReady
<1>6. StoredRooted'
  BY <1>1, RootedStays DEF OrderInv
<1>7. QED
  BY <1>3, <1>4, <1>5, <1>6

\* A comment is stored: those that waited for it are looked for next.
LEMMA StoringKeepsOrder ==
  ASSUME OrderInv, NEW c \in Comments, Ready(c), job.op = "idle" \/ job = Promotion(PostOf[c]),
         comments' = comments \cup {c}, job' = Unbuffering(c), got' = got \cup {c},
         UNCHANGED <<posts, orphans, seen, evicted, cuts>>
  PROVE  SeenRight' /\ NoneLost' /\ Settled' /\ StoredRooted'
<1>1. SocialTypes /\ SeenRight /\ StoredRooted
  BY DEF OrderInv, StoreInv
<1>2. SeenRight'
  BY <1>1 DEF SeenRight
<1>3. NoneLost'
  BY JobShapes DEF OrderInv, NoneLost
<1>4. Settled'
  <2> SUFFICES ASSUME cuts = 0, evicted = {}, NEW p \in Posts, Plain(p), seen[p] = "once", ~Working(p)',
                      NEW d \in orphans, PostOf[d] = p
               PROVE  ~ParentReady(d)'
    BY DEF Settled, Plain, OwnComments, Waiting
  <2>1. PostOf[c] # p
    BY JobShapes DEF Working
  <2>2. ~Working(p) /\ d \in Waiting(p)
    BY <2>1, JobShapes DEF Working, Waiting
  <2>3. ~ParentReady(d)
    BY <2>2 DEF OrderInv, Settled
  <2>4. d \in OwnComments(p)
    BY <1>1 DEF SocialTypes, Plain
  <2>5. ParentOf[d] # c
    BY <2>1, <2>4, SocialAssumption DEF OwnComments
  <2>6. QED
    BY <2>3, <2>5 DEF ParentReady
<1>5. StoredRooted'
  BY <1>1, RootedStoring
<1>6. QED
  BY <1>2, <1>3, <1>4, <1>5

LEMMA CommentKeepsOrder ==
  ASSUME OrderInv, NEW c \in Comments, ReceiveComment(c)
  PROVE  SeenRight' /\ NoneLost' /\ Settled' /\ StoredRooted'
<1>1. /\ SocialTypes /\ SeenRight /\ StoredRooted
      /\ job.op = "idle" /\ got' = got \cup {c}
      /\ UNCHANGED <<posts, seen, evicted, cuts>>
  BY DEF OrderInv, StoreInv, ReceiveComment, Idle
<1>2. CASE Ready(c)
  <2>1. comments' = comments \cup {c} /\ job' = Unbuffering(c) /\ UNCHANGED orphans
    BY <1>2 DEF ReceiveComment, AfterStoring
  <2>2. QED
    BY <1>1, <1>2, <2>1, StoringKeepsOrder
<1>3. CASE ~Ready(c)
  <2>1. comments' = comments /\ orphans' = orphans \cup {c} /\ job' = [op |-> "cap"]
    BY <1>3 DEF ReceiveComment
  <2>2. job'.op = "cap"
    BY <2>1
  <2>3. SeenRight'
    BY <1>1 DEF SeenRight
  <2>4. NoneLost'
    BY <1>1, <2>1, <2>2 DEF OrderInv, NoneLost
  <2>5. Settled'
    <3> SUFFICES ASSUME cuts = 0, evicted = {}, NEW p \in Posts, Plain(p), seen[p] = "once",
                        NEW d \in orphans', PostOf[d] = p
                 PROVE  ~ParentReady(d)
      BY <1>1, <2>1 DEF Settled, Plain, OwnComments, Waiting, ParentReady
    <3>1. CASE d \in orphans
      BY <1>1, <3>1 DEF OrderInv, Settled, Working, Waiting
    <3>2. CASE d = c
      BY <1>1, <1>3, <3>2 DEF Ready, SeenRight
    <3>3. QED
      BY <2>1, <3>1, <3>2
  <2>6. StoredRooted'
    BY <1>1, <2>1, RootedStays
  <2>7. QED
    BY <2>3, <2>4, <2>5, <2>6
<1>4. QED
  BY <1>2, <1>3

LEMMA PromoteKeepsOrder ==
  ASSUME OrderInv, NEW c \in Comments, Promote(c)
  PROVE  SeenRight' /\ NoneLost' /\ Settled' /\ StoredRooted'
<1>1. /\ job.op = "promote" /\ c \in Waiting(job.post) /\ ParentReady(c)
      /\ comments' = comments \cup {c} /\ job' = Unbuffering(c)
      /\ UNCHANGED <<posts, orphans, seen, got, evicted, cuts>>
  BY DEF Promote, history
<1>2. PICK p \in posts : job = Promotion(p)
  BY <1>1, JobShapes DEF OrderInv, StoreInv, JobSound
<1>3. c \in orphans /\ PostOf[c] = p
  BY <1>1, <1>2, JobShapes DEF Waiting
<1>4. Ready(c)
  BY <1>1, <1>2, <1>3 DEF Ready
<1>5. got' = got \cup {c}
  BY <1>1, <1>3 DEF OrderInv, StoreInv, SocialTypes
<1>6. QED
  BY <1>1, <1>2, <1>3, <1>4, <1>5, StoringKeepsOrder

LEMMA CapKeepsOrder ==
  ASSUME OrderInv, Cap
  PROVE  SeenRight' /\ NoneLost' /\ Settled' /\ StoredRooted'
<1>1. /\ SocialTypes /\ SeenRight /\ StoredRooted
      /\ job.op = "cap" /\ job' = NoJob
      /\ UNCHANGED <<posts, comments, seen, got, cuts>>
  BY DEF OrderInv, StoreInv, Cap
<1>2. PICK S \in SUBSET orphans : orphans' = S /\ evicted' = evicted \cup (orphans \ S)
  BY DEF Cap
<1>3. job'.op = "idle"
  BY <1>1, JobShapes
<1>4. evicted' = {} => evicted = {} /\ orphans' = orphans
  BY <1>2
<1>5. SeenRight'
  BY <1>1 DEF SeenRight
<1>6. NoneLost'
  BY <1>1, <1>3, <1>4 DEF OrderInv, NoneLost
<1>7. Settled'
  <2> SUFFICES ASSUME cuts = 0, evicted' = {}, NEW p \in Posts, Plain(p), seen[p] = "once",
                      NEW d \in orphans', PostOf[d] = p
               PROVE  ~ParentReady(d)
    BY <1>1 DEF Settled, Plain, OwnComments, Waiting, ParentReady
  <2>1. ~Working(p) /\ d \in Waiting(p)
    BY <1>1, <1>4 DEF Working, Waiting
  <2>2. QED
    BY <1>4, <2>1 DEF OrderInv, Settled
<1>8. StoredRooted'
  BY <1>1, RootedStays
<1>9. QED
  BY <1>5, <1>6, <1>7, <1>8

LEMMA UnbufferKeepsOrder ==
  ASSUME OrderInv, Unbuffer
  PROVE  SeenRight' /\ NoneLost' /\ Settled' /\ StoredRooted'
<1>1. /\ SocialTypes /\ SeenRight /\ StoredRooted
      /\ job.op = "unbuffer" /\ orphans' = orphans \ {job.comment} /\ job' = job.next
      /\ UNCHANGED <<posts, comments, seen, got, evicted, cuts>>
  BY DEF OrderInv, StoreInv, Unbuffer, history
<1>2. PICK c \in got : PostOf[c] \in posts /\ job = Unbuffering(c)
  BY <1>1, JobShapes DEF OrderInv, StoreInv, JobSound
<1>3. job' = Promotion(PostOf[c]) /\ job.comment = c /\ c \in comments
  BY <1>1, <1>2, JobShapes DEF OrderInv, NoneLost
<1>4. job'.op = "promote" /\ job'.post = PostOf[c]
  BY <1>3, JobShapes
<1>5. SeenRight'
  BY <1>1 DEF SeenRight
<1>6. NoneLost'
  BY <1>1, <1>3, <1>4 DEF OrderInv, NoneLost
<1>7. Settled'
  <2> SUFFICES ASSUME cuts = 0, evicted = {}, NEW p \in Posts, Plain(p), seen[p] = "once", ~Working(p)',
                      NEW d \in orphans', PostOf[d] = p
               PROVE  ~ParentReady(d)
    BY <1>1 DEF Settled, Plain, OwnComments, Waiting, ParentReady
  <2>1. ~Working(p) /\ d \in Waiting(p)
    BY <1>1, <1>3, <1>4 DEF Working, Waiting
  <2>2. QED
    BY <2>1 DEF OrderInv, Settled
<1>8. StoredRooted'
  BY <1>1, RootedStays
<1>9. QED
  BY <1>5, <1>6, <1>7, <1>8

\* The scan of a plain post sees all the comments that wait, and ends when none is ready.
LEMMA ScanEnds ==
  ASSUME OrderInv, PromoteEnds
  PROVE  SeenRight' /\ NoneLost' /\ Settled' /\ StoredRooted'
<1>1. /\ SocialTypes /\ SeenRight /\ StoredRooted
      /\ job.op = "promote" /\ job' = NoJob
      /\ UNCHANGED <<posts, comments, orphans, seen, got, evicted, cuts>>
  BY DEF OrderInv, StoreInv, PromoteEnds, threads, history
<1>2. PICK q \in posts : job = Promotion(q)
  BY <1>1, JobShapes DEF OrderInv, StoreInv, JobSound
<1>3. PICK W \in SUBSET Waiting(q) : /\ Cardinality(W) = Min({Window, Cardinality(Waiting(q))})
                                     /\ \A c \in W : ~ParentReady(c)
  BY <1>2, JobShapes DEF PromoteEnds
<1>4. job'.op = "idle"
  BY <1>1, JobShapes
<1>5. SeenRight' /\ NoneLost'
  BY <1>1, <1>4 DEF OrderInv, NoneLost, SeenRight
<1>6. Settled'
  <2> SUFFICES ASSUME cuts = 0, evicted = {}, NEW p \in Posts, Plain(p), seen[p] = "once",
                      NEW d \in Waiting(p)
               PROVE  ~ParentReady(d)
    BY <1>1 DEF Settled, Plain, OwnComments, Waiting, ParentReady
  <2>1. CASE p = q
    <3>1. /\ Waiting(q) \subseteq OwnComments(q) /\ OwnComments(q) \subseteq Comments
          /\ Cardinality(OwnComments(q)) <= Window
      BY <1>1, <2>1 DEF Waiting, SocialTypes, Plain, OwnComments
    <3>2. /\ IsFiniteSet(Waiting(q)) /\ Cardinality(Waiting(q)) \in Nat
          /\ IsFiniteSet(OwnComments(q)) /\ Cardinality(OwnComments(q)) \in Nat
      BY <1>1, <3>1, StoreFinite
    <3>3. Cardinality(Waiting(q)) <= Cardinality(OwnComments(q)) /\ Window \in Nat
      BY <3>1, <3>2, FS_Subset, SocialAssumption
    <3>4. Cardinality(W) = Cardinality(Waiting(q))
      <4>1. Cardinality(W) = IF Window <= Cardinality(Waiting(q)) THEN Window ELSE Cardinality(Waiting(q))
        BY <1>3, <3>2, <3>3, MinOfTwo
      <4>2. QED
        BY <3>1, <3>2, <3>3, <4>1
    <3>5. W = Waiting(q)
      BY <3>2, <3>4, FS_Subset
    <3>6. QED
      BY <1>3, <2>1, <3>5
  <2>2. CASE p # q
    <3>1. ~Working(p)
      BY <1>2, <2>2, JobShapes DEF Working
    <3>2. QED
      BY <3>1 DEF OrderInv, Settled
  <2>3. QED
    BY <2>1, <2>2
<1>7. StoredRooted'
  BY <1>1, RootedStays
<1>8. QED
  BY <1>5, <1>6, <1>7

\* What touches no thread, with no scan in progress.
LEMMA OthersKeepOrder ==
  ASSUME OrderInv, UNCHANGED <<posts, comments, orphans, seen, got, evicted, cuts>>,
         \/ job' = job
         \/ job.op \in {"idle", "score"} /\ job'.op \in {"idle", "score"}
  PROVE  SeenRight' /\ NoneLost' /\ Settled' /\ StoredRooted'
<1>1. SeenRight' /\ NoneLost'
  BY DEF OrderInv, NoneLost, SeenRight
<1>2. Settled'
  <2> SUFFICES ASSUME cuts = 0, evicted = {}, NEW p \in Posts, Plain(p), seen[p] = "once", ~Working(p)',
                      NEW d \in Waiting(p)
               PROVE  ~ParentReady(d)
    BY DEF Settled, Plain, OwnComments, Waiting, ParentReady
  <2>1. ~Working(p)
    BY DEF Working
  <2>2. QED
    BY <2>1 DEF OrderInv, Settled
<1>3. StoredRooted'
  BY RootedStays DEF OrderInv
<1>4. QED
  BY <1>1, <1>2, <1>3

LEMMA OrderStep == OrderInv /\ [SocialNext]_socialVars => OrderInv'
<1> SUFFICES ASSUME OrderInv, [SocialNext]_socialVars
             PROVE  SeenRight' /\ NoneLost' /\ Settled' /\ StoredRooted'
  BY StoreStep DEF OrderInv
<1>1. CASE Score
  <2>1. /\ job.op = "score" /\ job' = NoJob
        /\ UNCHANGED <<posts, comments, orphans, seen, got, evicted, cuts>>
    BY <1>1 DEF Score, threads, history
  <2>2. QED
    BY <2>1, JobShapes, OthersKeepOrder
<1>2. CASE Abandon
  <2>1. /\ job' = NoJob /\ cuts' = cuts + 1 /\ cuts \in Nat
        /\ UNCHANGED <<posts, comments, orphans, seen, got, evicted>>
    BY <1>2 DEF Abandon, threads, OrderInv, StoreInv, SocialTypes
  <2>2. cuts' # 0 /\ job'.op = "idle"
    BY <2>1, JobShapes
  <2>3. SeenRight'
    BY <2>1 DEF OrderInv, SeenRight
  <2>4. NoneLost' /\ Settled'
    BY <2>2 DEF NoneLost, Settled
  <2>5. StoredRooted'
    BY <2>1, RootedStays DEF OrderInv
  <2>6. QED
    BY <2>3, <2>4, <2>5
<1>3. ASSUME NEW v \in Voters, NEW t \in Rated, NEW d \in {-1, 1}, NEW b \in Tables, Vote(v, t, d, b)
      PROVE  SeenRight' /\ NoneLost' /\ Settled' /\ StoredRooted'
  <2>1. /\ job.op = "idle"
        /\ job' = NoJob
           \/ job' = [op |-> "score", target |-> t, table |-> b, delta |-> Delta(v, t, d)]
        /\ UNCHANGED <<posts, comments, orphans, seen, got, evicted, cuts>>
    BY <1>3 DEF Vote, Idle, threads, history
  <2>2. job'.op \in {"idle", "score"}
    BY <2>1, JobShapes
  <2>3. QED
    BY <2>1, <2>2, OthersKeepOrder
<1>4. CASE RowNext
  <2>1. job' = job /\ UNCHANGED <<posts, comments, orphans, seen, got, evicted, cuts>>
    BY <1>4 DEF RowNext, Link, Unlink, Deliver, threads, history
  <2>2. QED
    BY <2>1, OthersKeepOrder
<1>5. CASE UNCHANGED socialVars
  BY <1>5, OthersKeepOrder DEF socialVars
<1>6. QED
  BY <1>1, <1>2, <1>3, <1>4, <1>5, PostKeepsOrder, CommentKeepsOrder, PromoteKeepsOrder,
     CapKeepsOrder, UnbufferKeepsOrder, ScanEnds DEF SocialNext, ThreadNext

\* In whatever order a post and its comments come, and however often a comment comes,
\* the cache shows the comments received with all their ancestors, under the
\* conditions of OrderIndependent.
THEOREM OrderNeverShows == SocialSpec => []OrderIndependent
<1>1. OrderInv => OrderIndependent
  <2> SUFFICES ASSUME OrderInv, Idle, cuts = 0, evicted = {}, NEW p \in Posts, seen[p] = "once", Plain(p)
               PROVE  CommentsOf(p) = {c \in OwnComments(p) \cap got : Rooted(c, got \cap OwnComments(p))}
    BY DEF OrderIndependent, Plain
  <2>1. SocialTypes /\ ~Working(p)
    BY DEF OrderInv, StoreInv, Idle, Working
  <2>2. CommentsOf(p) \subseteq got \cap OwnComments(p)
    BY <2>1 DEF CommentsOf, SocialTypes, Plain
  <2>3. \A c \in CommentsOf(p) : Rooted(c, got \cap OwnComments(p))
    BY DEF OrderInv, StoredRooted
  <2>4. ASSUME NEW d \in got \cap OwnComments(p), ParentOf[d] \in CommentsOf(p) \cup {"none"}
        PROVE  d \in CommentsOf(p)
    <3>1. PostOf[d] = p /\ ParentReady(d)
      BY <2>4 DEF OwnComments, CommentsOf, ParentReady
    <3>2. d \in comments \cup orphans
      BY <3>1 DEF OrderInv, NoneLost
    <3>3. d \notin Waiting(p)
      BY <2>1, <3>1 DEF OrderInv, Settled
    <3>4. QED
      BY <3>1, <3>2, <3>3 DEF Waiting, CommentsOf
  <2>5. ASSUME NEW c, Rooted(c, got \cap OwnComments(p))
        PROVE  c \in CommentsOf(p)
    <3>1. CommentsOf(p) \in SUBSET (got \cap OwnComments(p))
      BY <2>2
    <3>2. QED
      BY <2>4, <2>5, <3>1 DEF Rooted
  <2>6. QED
    BY <2>2, <2>3, <2>5
<1>2. QED
  BY OrderStart, OrderStep, <1>1, PTL DEF SocialSpec

-----------------------------------------------------------------------------
(* Scores *)

\* What the handler in progress has still to add to the score of t.
Owed(t) == IF job.op = "score" /\ job.target = t THEN job.delta ELSE 0

ScoreTypes ==
  /\ votes \in [Voters -> [Rated -> {-1, 0, 1}]]
  /\ score \in [Rated -> Int] /\ base \in [Rated -> Int] /\ astray \in [Rated -> Int]
  /\ job.op = "score" => job.target \in Rated /\ job.delta \in Int
  /\ cuts \in Nat

\* The score of a row, what is due to it and what went to another table make up the
\* votes since it was written.
ScoresRight ==
  cuts = 0 => \A t \in Rated : Present(t) => score[t] + Owed(t) = Tally(t) - base[t] - astray[t]

ScoreInv == ScoreTypes /\ ScoresRight

LEMMA VotersFinite ==
  ASSUME NEW S, S \subseteq Voters
  PROVE  IsFiniteSet(S) /\ Cardinality(S) \in Nat
BY FS_Subset, FS_CardinalityType, SocialAssumption

LEMMA TallyType == ASSUME NEW t PROVE Tally(t) \in Int
<1> DEFINE for == {v \in Voters : votes[v][t] = 1}
           against == {v \in Voters : votes[v][t] = -1}
<1>1. Cardinality(for) \in Nat /\ Cardinality(against) \in Nat
  BY VotersFinite
<1>2. Tally(t) = Cardinality(for) - Cardinality(against)
  BY DEF Tally
<1> HIDE DEF for, against
<1>3. QED
  BY <1>1, <1>2

\* The votes of f for a row, less those against it.
Net(f) == Cardinality({w \in Voters : f[w] = 1}) - Cardinality({w \in Voters : f[w] = -1})

\* A voter who moves from one side to another moves the tally by the difference.
LEMMA VoteMovesTally ==
  ASSUME NEW f \in [Voters -> {-1, 0, 1}], NEW v \in Voters, NEW d \in {-1, 1},
         NEW g \in [Voters -> {-1, 0, 1}], g[v] = d, \A w \in Voters \ {v} : g[w] = f[w]
  PROVE  Net(g) = Net(f) + d - f[v]
<1>1. PICK up, down : /\ up = {w \in Voters \ {v} : f[w] = 1}
                      /\ down = {w \in Voters \ {v} : f[w] = -1}
  OBVIOUS
<1>2. /\ IsFiniteSet(up) /\ IsFiniteSet(down) /\ v \notin up /\ v \notin down
      /\ Cardinality(up) \in Nat /\ Cardinality(down) \in Nat
  <2>1. up \subseteq Voters /\ down \subseteq Voters /\ v \notin up /\ v \notin down
    BY <1>1
  <2>2. QED
    BY <2>1, VotersFinite
<1>3. /\ Cardinality(up \cup {v}) = Cardinality(up) + 1
      /\ Cardinality(down \cup {v}) = Cardinality(down) + 1
  BY <1>2, FS_AddElement
<1>4. ASSUME NEW h \in [Voters -> {-1, 0, 1}], \A w \in Voters \ {v} : h[w] = f[w]
      PROVE  Net(h) = Cardinality(up) - Cardinality(down) + h[v]
  <2>1. PICK a, b : a = {w \in Voters : h[w] = 1} /\ b = {w \in Voters : h[w] = -1}
    OBVIOUS
  <2>2. a = (IF h[v] = 1 THEN up \cup {v} ELSE up) /\ b = (IF h[v] = -1 THEN down \cup {v} ELSE down)
    BY <1>1, <1>4, <2>1
  <2>3. h[v] \in {-1, 0, 1}
    OBVIOUS
  <2>4. Cardinality(a) - Cardinality(b) = Cardinality(up) - Cardinality(down) + h[v]
    <3>1. CASE h[v] = 1
      BY <1>2, <1>3, <2>2, <3>1
    <3>2. CASE h[v] = 0
      BY <1>2, <2>2, <3>2
    <3>3. CASE h[v] = -1
      BY <1>2, <1>3, <2>2, <3>3
    <3>4. QED
      BY <2>3, <3>1, <3>2, <3>3
  <2>5. QED
    BY <2>1, <2>4 DEF Net
<1>6. Net(g) = Cardinality(up) - Cardinality(down) + d
  BY <1>4
<1>7. Net(f) = Cardinality(up) - Cardinality(down) + f[v]
  BY <1>4
<1>8. f[v] \in Int /\ d \in Int /\ Cardinality(up) \in Int /\ Cardinality(down) \in Int
  BY <1>2
<1>9. QED
  BY <1>6, <1>7, <1>8

LEMMA VoteStep ==
  ASSUME ScoreInv, NEW v \in Voters, NEW t \in Rated, NEW d \in {-1, 1}, NEW b, Vote(v, t, d, b)
  PROVE  ScoreInv'
<1>1. /\ job.op = "idle" /\ votes' = [votes EXCEPT ![v][t] = d]
      /\ UNCHANGED <<posts, comments, score, base, astray, cuts>>
  BY DEF Vote, Idle, threads, history
<1>2. \/ job'.op = "idle" /\ d - votes[v][t] = 0
      \/ job'.op = "score" /\ job'.target = t /\ job'.delta = d - votes[v][t]
  BY JobShapes DEF Vote, Delta
<1>3. votes[v][t] \in {-1, 0, 1}
  BY DEF ScoreInv, ScoreTypes
<1>4. ScoreTypes'
  BY <1>1, <1>2, <1>3 DEF ScoreInv, ScoreTypes
<1>5. \A s \in Rated : s # t => Tally(s)' = Tally(s)
  <2> SUFFICES ASSUME NEW s \in Rated, s # t PROVE Tally(s)' = Tally(s)
    OBVIOUS
  <2>1. \A w \in Voters : votes'[w][s] = votes[w][s]
    BY <1>1 DEF ScoreInv, ScoreTypes
  <2>2. /\ {w \in Voters : votes'[w][s] = 1} = {w \in Voters : votes[w][s] = 1}
        /\ {w \in Voters : votes'[w][s] = -1} = {w \in Voters : votes[w][s] = -1}
    BY <2>1
  <2>3. QED
    BY <2>2 DEF Tally
<1>6. Tally(t)' = Tally(t) + d - votes[v][t]
  <2>1. PICK f : f = [w \in Voters |-> votes[w][t]]
    OBVIOUS
  <2>2. PICK g : g = [f EXCEPT ![v] = d]
    OBVIOUS
  <2>3. f \in [Voters -> {-1, 0, 1}] /\ f[v] = votes[v][t]
    BY <2>1 DEF ScoreInv, ScoreTypes
  <2>4. \A w \in Voters : f[w] = votes[w][t] /\ g[w] = votes'[w][t]
    BY <1>1, <2>1, <2>2 DEF ScoreInv, ScoreTypes
  <2>5. Tally(t) = Net(f) /\ Tally(t)' = Net(g)
    <3>1. /\ {w \in Voters : f[w] = 1} = {w \in Voters : votes[w][t] = 1}
          /\ {w \in Voters : f[w] = -1} = {w \in Voters : votes[w][t] = -1}
          /\ {w \in Voters : g[w] = 1} = {w \in Voters : votes'[w][t] = 1}
          /\ {w \in Voters : g[w] = -1} = {w \in Voters : votes'[w][t] = -1}
      BY <2>4
    <3>2. QED
      BY <3>1 DEF Tally, Net
  <2>6. g \in [Voters -> {-1, 0, 1}]
    BY <2>2, <2>3
  <2>7. Net(g) = Net(f) + d - f[v]
    <3>1. f \in [Voters -> {-1, 0, 1}]
      BY <2>3
    <3>2. g[v] = d /\ \A w \in Voters \ {v} : g[w] = f[w]
      BY <2>2, <2>3
    <3>3. QED
      BY <3>1, <3>2, <2>6, VoteMovesTally
  <2>8. QED
    BY <2>3, <2>5, <2>7
<1>7. ScoresRight'
  <2> SUFFICES ASSUME cuts = 0, NEW s \in Rated, Present(s)
               PROVE  score[s] + Owed(s)' = Tally(s)' - base[s] - astray[s]
    BY <1>1 DEF ScoresRight, Present
  <2>1. /\ score[s] + Owed(s) = Tally(s) - base[s] - astray[s] /\ Owed(s) = 0
        /\ score[s] \in Int /\ base[s] \in Int /\ astray[s] \in Int /\ Tally(s) \in Int
    BY <1>1, TallyType DEF ScoreInv, ScoreTypes, ScoresRight, Owed
  <2>2. CASE s = t
    BY <1>2, <1>3, <1>6, <2>1, <2>2 DEF Owed
  <2>3. CASE s # t
    BY <1>2, <1>5, <2>1, <2>3 DEF Owed
  <2>4. QED
    BY <2>2, <2>3
<1>8. QED
  BY <1>4, <1>7 DEF ScoreInv

\* Rows that leave, and rows written anew, which start at nothing.
LEMMA ResetStep ==
  ASSUME ScoreInv, NEW S, Reset(S), cuts' = cuts,
         \A t \in Rated : Present(t)' => Present(t) \/ t \in S,
         job.op # "score", job'.op # "score"
  PROVE  ScoreInv'
<1>1. /\ score' = [t \in Rated |-> IF t \in S THEN 0 ELSE score[t]]
      /\ base' = [t \in Rated |-> IF t \in S THEN Tally(t) ELSE base[t]]
      /\ astray' = [t \in Rated |-> IF t \in S THEN 0 ELSE astray[t]]
      /\ votes' = votes
  BY DEF Reset
<1>2. \A t \in Rated : Tally(t) \in Int /\ Tally(t)' = Tally(t)
  BY <1>1, TallyType DEF Tally
<1>3. ScoreTypes'
  BY <1>1, <1>2 DEF ScoreInv, ScoreTypes
<1>4. ScoresRight'
  <2> SUFFICES ASSUME cuts = 0, NEW t \in Rated, Present(t)'
               PROVE  score'[t] + Owed(t)' = Tally(t)' - base'[t] - astray'[t]
    BY DEF ScoresRight
  <2>1. Owed(t)' = 0 /\ Owed(t) = 0
    BY DEF Owed
  <2>2. CASE t \in S
    BY <1>1, <1>2, <2>1, <2>2
  <2>3. CASE t \notin S
    BY <1>1, <1>2, <2>1, <2>3 DEF ScoreInv, ScoresRight
  <2>4. QED
    BY <2>2, <2>3
<1>5. QED
  BY <1>3, <1>4 DEF ScoreInv

\* What touches no tally: rows may leave, and the handler goes on.
LEMMA TalliesKept ==
  ASSUME ScoreInv, UNCHANGED tallies, cuts' = cuts,
         \A t \in Rated : Present(t)' => Present(t),
         job' = job \/ (job.op # "score" /\ job'.op # "score")
  PROVE  ScoreInv'
<1>1. votes' = votes /\ score' = score /\ base' = base /\ astray' = astray
  BY DEF tallies
<1>2. \A t : Tally(t)' = Tally(t) /\ Owed(t)' = Owed(t)
  BY <1>1 DEF Tally, Owed
<1>3. QED
  BY <1>1, <1>2 DEF ScoreInv, ScoreTypes, ScoresRight

\* The score of a row is the sum of the votes cast since it was written, less what the
\* votes that named another table moved it by, for every number of voters and however
\* the votes, the rows and their deletions follow.
THEOREM ScoresTrackVotes == SocialSpec => []ScoreTracksVotes
<1>1. SocialInit => ScoreInv
  <2> SUFFICES ASSUME SocialInit PROVE ScoreInv
    OBVIOUS
  <2>1. ScoreTypes
    BY JobShapes DEF SocialInit, ScoreTypes
  <2>2. ScoresRight
    BY DEF SocialInit, ScoresRight, Present
  <2>3. QED
    BY <2>1, <2>2 DEF ScoreInv
<1>2. StoreInv /\ ScoreInv /\ [SocialNext]_socialVars => ScoreInv'
  <2> SUFFICES ASSUME StoreInv, ScoreInv, [SocialNext]_socialVars PROVE ScoreInv'
    OBVIOUS
  <2>1. ASSUME NEW p \in Posts, ReceivePost(p) PROVE ScoreInv'
    <3>1. /\ job.op = "idle" /\ posts' = posts \cup {p} /\ comments' \subseteq comments
          /\ Reset({p}) /\ job' = Promotion(p) /\ cuts' = cuts
      BY <2>1 DEF ReceivePost, Idle
    <3>2. job'.op = "promote" /\ \A t \in Rated : Present(t)' => Present(t) \/ t \in {p}
      BY <3>1, JobShapes DEF Present
    <3>3. job.op # "score" /\ job'.op # "score"
      BY <3>1, <3>2
    <3>4. QED
      BY <3>1, <3>2, <3>3, ResetStep
  <2>2. ASSUME NEW p \in Posts, DeletePost(p) PROVE ScoreInv'
    <3>1. UNCHANGED tallies /\ cuts' = cuts /\ job' = job
          /\ posts' \subseteq posts /\ comments' \subseteq comments
      BY <2>2 DEF DeletePost
    <3>2. \A t \in Rated : Present(t)' => Present(t)
      BY <3>1 DEF Present
    <3>3. QED
      BY <3>1, <3>2, TalliesKept
  <2>3. ASSUME NEW c \in Comments, ReceiveComment(c) PROVE ScoreInv'
    <3>1. job.op = "idle" /\ posts' = posts /\ cuts' = cuts
      BY <2>3 DEF ReceiveComment, Idle
    <3>2. CASE Ready(c)
      <4>1. comments' = comments \cup {c} /\ Reset({c}) /\ job' = Unbuffering(c)
        BY <2>3, <3>2 DEF ReceiveComment, AfterStoring
      <4>2. job.op # "score" /\ job'.op # "score" /\ \A t \in Rated : Present(t)' => Present(t) \/ t \in {c}
        BY <3>1, <4>1, JobShapes DEF Present
      <4>3. QED
        BY <3>1, <4>1, <4>2, ResetStep
    <3>3. CASE ~Ready(c)
      <4>1. UNCHANGED <<comments, tallies>> /\ job' = [op |-> "cap"]
        BY <2>3, <3>3 DEF ReceiveComment
      <4>2. job.op # "score" /\ job'.op # "score" /\ \A t \in Rated : Present(t)' => Present(t)
        BY <3>1, <4>1 DEF Present
      <4>3. QED
        BY <3>1, <4>1, <4>2, TalliesKept
    <3>4. QED
      BY <3>2, <3>3
  <2>4. ASSUME NEW c \in Comments, Promote(c) PROVE ScoreInv'
    <3>1. /\ job.op = "promote" /\ posts' = posts /\ comments' = comments \cup {c}
          /\ Reset({c} \ comments) /\ job' = Unbuffering(c) /\ cuts' = cuts
      BY <2>4 DEF Promote, history
    <3>2. job.op # "score" /\ job'.op # "score"
          /\ \A t \in Rated : Present(t)' => Present(t) \/ t \in {c} \ comments
      BY <3>1, JobShapes DEF Present
    <3>3. QED
      BY <3>1, <3>2, ResetStep
  <2>5. CASE Cap \/ Unbuffer \/ PromoteEnds
    <3>1. UNCHANGED tallies /\ cuts' = cuts /\ posts' = posts /\ comments' = comments
      BY <2>5 DEF Cap, Unbuffer, PromoteEnds, threads, history
    <3>2. job.op # "score" /\ job'.op # "score"
      <4>1. CASE Cap \/ PromoteEnds
        BY <4>1, JobShapes DEF Cap, PromoteEnds
      <4>2. CASE Unbuffer
        <5>1. job.op = "unbuffer" /\ job' = job.next
          BY <4>2 DEF Unbuffer
        <5>2. PICK c \in got : job = Unbuffering(c)
          BY <5>1, JobShapes DEF StoreInv, JobSound
        <5>3. job'.op = "promote"
          BY <5>1, <5>2, JobShapes
        <5>4. QED
          BY <5>1, <5>3
      <4>3. QED
        BY <2>5, <4>1, <4>2
    <3>3. \A t \in Rated : Present(t)' => Present(t)
      BY <3>1 DEF Present
    <3>4. QED
      BY <3>1, <3>2, <3>3, TalliesKept
  <2>6. CASE Score
    <3>1. /\ job.op = "score" /\ job' = NoJob
          /\ UNCHANGED <<posts, comments, votes, base, cuts>>
      BY <2>6 DEF Score, threads, history
    <3>2. job'.op = "idle" /\ job.target \in Rated /\ job.delta \in Int
      BY <3>1, JobShapes DEF ScoreInv, ScoreTypes
    <3>3. \/ /\ astray' = astray
             /\ score' = [score EXCEPT ![job.target] = IF Present(job.target) THEN @ + job.delta ELSE @]
          \/ score' = score /\ astray' = [astray EXCEPT ![job.target] = @ + job.delta]
      BY <2>6 DEF Score
    <3>4. ScoreTypes'
      BY <3>1, <3>2, <3>3 DEF ScoreInv, ScoreTypes
    <3>5. ScoresRight'
      <4> SUFFICES ASSUME cuts = 0, NEW t \in Rated, Present(t)
                   PROVE  score'[t] + Owed(t)' = Tally(t)' - base[t] - astray'[t]
        BY <3>1 DEF ScoresRight, Present
      <4>1. /\ Tally(t)' = Tally(t) /\ Owed(t)' = 0
            /\ score[t] + Owed(t) = Tally(t) - base[t] - astray[t]
        BY <3>1, <3>2 DEF Tally, Owed, ScoreInv, ScoresRight
      <4>2. /\ score[t] \in Int /\ base[t] \in Int /\ astray[t] \in Int /\ Tally(t) \in Int
            /\ Owed(t) \in Int
        BY <3>2, TallyType DEF ScoreInv, ScoreTypes, Owed
      <4>3. score'[t] + astray'[t] = score[t] + astray[t] + Owed(t)
        <5>1. CASE t = job.target
          BY <3>1, <3>2, <3>3, <4>2, <5>1 DEF ScoreInv, ScoreTypes, Owed
        <5>2. CASE t # job.target
          BY <3>1, <3>2, <3>3, <4>2, <5>2 DEF ScoreInv, ScoreTypes, Owed
        <5>3. QED
          BY <5>1, <5>2
      <4>4. score'[t] \in Int /\ astray'[t] \in Int
        BY <3>4 DEF ScoreTypes
      <4>5. QED
        BY <4>1, <4>2, <4>3, <4>4
    <3>6. QED
      BY <3>4, <3>5 DEF ScoreInv
  <2>7. CASE Abandon
    <3>1. /\ job' = NoJob /\ cuts' = cuts + 1 /\ UNCHANGED <<votes, score, base, astray>>
      BY <2>7 DEF Abandon, tallies
    <3>2. job'.op = "idle"
      BY <3>1, JobShapes
    <3>3. ScoreTypes' /\ cuts' # 0
      BY <3>1, <3>2 DEF ScoreInv, ScoreTypes
    <3>4. QED
      BY <3>3 DEF ScoreInv, ScoresRight
  <2>8. ASSUME NEW v \in Voters, NEW t \in Rated, NEW d \in {-1, 1}, NEW b \in Tables, Vote(v, t, d, b)
        PROVE  ScoreInv'
    BY <2>8, VoteStep
  <2>9. CASE RowNext \/ UNCHANGED socialVars
    <3>1. UNCHANGED tallies /\ cuts' = cuts /\ job' = job /\ posts' = posts /\ comments' = comments
      BY <2>9 DEF RowNext, Link, Unlink, Deliver, threads, history, socialVars, tallies
    <3>2. \A t \in Rated : Present(t)' => Present(t)
      BY <3>1 DEF Present
    <3>3. QED
      BY <3>1, <3>2, TalliesKept
  <2>10. QED
    BY <2>1, <2>2, <2>3, <2>4, <2>5, <2>6, <2>7, <2>8, <2>9 DEF SocialNext, ThreadNext
<1>3. ScoreInv => ScoreTracksVotes
  <2> SUFFICES ASSUME ScoreInv, Idle, cuts = 0, NEW t \in Rated \cap (posts \cup comments)
               PROVE  score[t] = Tally(t) - base[t] - astray[t]
    BY DEF ScoreTracksVotes
  <2>1. Owed(t) = 0 /\ Present(t) /\ score[t] \in Int
    BY DEF Idle, Owed, Present, ScoreInv, ScoreTypes
  <2>2. QED
    BY <2>1 DEF ScoreInv, ScoresRight
<1>4. QED
  BY StoreStart, StoreStep, <1>1, <1>2, <1>3, PTL DEF SocialSpec

-----------------------------------------------------------------------------
(* A reader misses no more than was removed *)

FeedTypes ==
  /\ second \in Nat /\ written \in Nat /\ removed \in Nat
  /\ row \in [FeedPosts -> 0 .. written]
  /\ dated \in [FeedPosts -> Nat] /\ \A p \in FeedPosts : dated[p] <= second
  /\ \A p, q \in Stored : row[p] = row[q] => p = q
  /\ offset \in Nat \cup {Done}
  /\ steady \subseteq Stored

\* The posts the reader has gone past without getting them.
Missed == {p \in steady \ read : offset = Done \/ Rank(p) < offset}

FeedInv == FeedTypes /\ Cardinality(Missed) <= removed

\* The posts ahead of x in the list: Rank(x) counts them.
Ahead(x) == {q \in Stored : Before(q, x)}

LEMMA FeedFinite ==
  ASSUME NEW S, S \subseteq FeedPosts
  PROVE  IsFiniteSet(S) /\ Cardinality(S) \in Nat
BY FS_Subset, FS_CardinalityType, FeedAssumption

LEMMA RankType ==
  ASSUME NEW x
  PROVE  /\ Rank(x) = Cardinality(Ahead(x)) /\ Rank(x) \in Nat
         /\ Ahead(x) \subseteq FeedPosts /\ IsFiniteSet(Ahead(x))
<1>1. Ahead(x) \subseteq FeedPosts
  BY DEF Ahead, Stored
<1>2. Rank(x) = Cardinality(Ahead(x))
  BY DEF Rank, Ahead
<1>3. QED
  BY <1>1, <1>2, FeedFinite

\* The list is in a strict order.
LEMMA RankFollowsOrder ==
  ASSUME FeedTypes, NEW x \in Stored, NEW y \in Stored, Before(x, y)
  PROVE  Rank(x) < Rank(y)
<1>1. /\ \A p \in Stored : p \in FeedPosts /\ dated[p] \in Int /\ row[p] \in Int
  BY DEF FeedTypes, Stored
<1>2. Ahead(x) \subseteq Ahead(y)
  BY <1>1 DEF Ahead, Before
<1>3. x \in Ahead(y) /\ x \notin Ahead(x)
  BY <1>1 DEF Ahead, Before
<1>4. Ahead(x) # Ahead(y)
  BY <1>3
<1>5. QED
  BY <1>2, <1>4, RankType, FS_Subset

LEMMA RankInjective ==
  ASSUME FeedTypes, NEW x \in Stored, NEW y \in Stored, Rank(x) = Rank(y)
  PROVE  x = y
<1>1. \A p \in Stored : p \in FeedPosts /\ dated[p] \in Int /\ row[p] \in Int
  BY DEF FeedTypes, Stored
<1>2. x = y \/ Before(x, y) \/ Before(y, x)
  BY <1>1 DEF Before, FeedTypes
<1>3. QED
  BY <1>2, RankFollowsOrder, RankType

\* No more posts than there are ranks.
LEMMA AsManyAsRanks ==
  ASSUME FeedTypes, NEW S \in SUBSET Stored, NEW m \in Nat, NEW n \in Nat,
         \A x \in S : Rank(x) \in m .. m + n - 1
  PROVE  Cardinality(S) <= n
<1>1. S \subseteq FeedPosts /\ IsFiniteSet(S) /\ Cardinality(S) \in Nat
  BY FeedFinite DEF Stored
<1>2. PICK f : f = [x \in S |-> Rank(x)]
  OBVIOUS
<1>3. f \in [S -> m .. m + n - 1]
  BY <1>2
<1>4. \A x, y \in S : f[x] = f[y] => x = y
  BY <1>2, RankInjective
<1>5. m \in Int /\ m + n - 1 \in Int
  OBVIOUS
<1>6. /\ IsFiniteSet(m .. m + n - 1)
      /\ Cardinality(m .. m + n - 1) = IF m > m + n - 1 THEN 0 ELSE (m + n - 1) - m + 1
  BY <1>5, FS_Interval
<1>7. Cardinality(m .. m + n - 1) = n
  BY <1>6
<1>8. f \in Injection(S, m .. m + n - 1)
  BY <1>3, <1>4 DEF Injection, IsInjective
<1>9. Cardinality(S) <= Cardinality(m .. m + n - 1)
  BY <1>6, <1>8, FS_Injection
<1>10. QED
  BY <1>7, <1>9

\* No rank is skipped.
LEMMA RankReached ==
  ASSUME FeedTypes, NEW k \in Nat, NEW p \in Stored, Rank(p) >= k
  PROVE  \E x \in Stored : Rank(x) = k
<1> DEFINE T == {n \in Nat : n >= k /\ \E x \in Stored : Rank(x) = n}
<1>1. T \in SUBSET Nat /\ T # {}
  BY RankType
<1>2. PICK r \in T : \A n \in T : r <= n
  <2> HIDE DEF T
  <2> QED
    BY <1>1, LeastNatural
<1>3. PICK x \in Stored : Rank(x) = r
  BY <1>2
<1>4. r \in Nat /\ r >= k
  BY <1>2
<1>5. \A y \in Ahead(x) : Rank(y) \in 0 .. 0 + k - 1
  <2> TAKE y \in Ahead(x)
  <2>1. y \in Stored /\ Rank(y) < r /\ Rank(y) \in Nat
    BY <1>3, RankFollowsOrder, RankType DEF Ahead
  <2>2. Rank(y) < k
    BY <1>2, <1>4, <2>1
  <2>3. QED
    BY <2>1, <2>2
<1>6. Cardinality(Ahead(x)) <= k
  <2>1. Ahead(x) \in SUBSET Stored /\ 0 \in Nat
    BY DEF Ahead
  <2>2. QED
    BY <1>5, <2>1, AsManyAsRanks
<1>7. r = k
  BY <1>3, <1>4, <1>6, RankType
<1>8. QED
  BY <1>3, <1>7

\* A page: the reader passes over no post it does not get, and at the end none is left.
LEMMA PageStep ==
  ASSUME FeedInv, NEW limit \in Limits, ReadPage(limit)
  PROVE  FeedInv'
<1>1. /\ FeedTypes /\ offset \in Nat
      /\ UNCHANGED <<second, row, dated, written, steady, removed>>
  BY DEF FeedInv, FeedTypes, ReadPage
<1>2. limit \in Nat /\ limit > 0 /\ PageCap \in Nat /\ PageCap > 0
  BY FeedAssumption
<1>3. PICK size : size = Min({limit, PageCap})
  OBVIOUS
<1>4. size \in Nat /\ size > 0
  BY <1>2, <1>3, MinOfTwo
<1>5. PICK page : page = Page(size)
  OBVIOUS
<1>6. /\ read' = read \cup page
      /\ offset' = IF page = {} THEN Done ELSE offset + Cardinality(page)
  BY <1>3, <1>5 DEF ReadPage
<1>7. page = {x \in Stored : Rank(x) \in offset .. offset + size - 1}
  BY <1>5 DEF Page
<1>8. Cardinality(page) <= size /\ Cardinality(page) \in Nat
  <2>1. page \in SUBSET Stored /\ page \subseteq FeedPosts
    BY <1>7 DEF Stored
  <2>2. \A x \in page : Rank(x) \in offset .. offset + size - 1
    BY <1>7
  <2>3. QED
    BY <1>1, <1>4, <2>1, <2>2, AsManyAsRanks, FeedFinite
<1>9. FeedTypes'
  BY <1>1, <1>6, <1>8 DEF FeedTypes, Stored
<1>10. Missed' \subseteq Missed
  <2> SUFFICES ASSUME NEW x \in steady, x \notin read, x \notin page,
                      offset' = Done \/ Rank(x) < offset'
               PROVE  Rank(x) < offset
    BY <1>1, <1>6 DEF Missed, Rank, Stored, Before
  <2>1. x \in Stored /\ Rank(x) \in Nat
    BY <1>1, RankType DEF FeedTypes
  <2>2. CASE page = {}
    <3>1. SUFFICES ASSUME Rank(x) >= offset PROVE FALSE
      BY <1>1, <2>1
    <3>2. PICK y \in Stored : Rank(y) = offset
      BY <1>1, <2>1, <3>1, RankReached
    <3>3. y \in page
      BY <1>1, <1>4, <1>7, <3>2
    <3>4. QED
      BY <2>2, <3>3
  <2>3. CASE page # {}
    <3>1. offset' = offset + Cardinality(page) /\ offset' # Done
      BY <1>1, <1>6, <1>8, <2>3 DEF Done
    <3>2. Rank(x) < offset + size
      BY <1>1, <1>4, <1>8, <2>1, <3>1
    <3>3. ~ (Rank(x) \in offset .. offset + size - 1)
      BY <1>7, <2>1
    <3>4. QED
      BY <1>1, <1>4, <2>1, <3>2, <3>3
  <2>4. QED
    BY <2>2, <2>3
<1>11. Cardinality(Missed') <= removed'
  <2> DEFINE m == Missed'
  <2>1. m \subseteq Missed
    BY <1>10
  <2> HIDE DEF m
  <2>2. Missed \subseteq FeedPosts
    BY <1>1 DEF Missed, FeedTypes, Stored
  <2>3. IsFiniteSet(Missed) /\ Cardinality(Missed) \in Nat
    BY <2>2, FeedFinite
  <2>4. Cardinality(m) <= Cardinality(Missed) /\ Cardinality(m) \in Nat
    BY <2>1, <2>3, FS_Subset, FS_CardinalityType
  <2>5. Cardinality(m) <= removed /\ removed' = removed
    BY <1>1, <2>3, <2>4 DEF FeedInv, FeedTypes
  <2>6. QED
    BY <2>5 DEF m
<1>12. QED
  BY <1>9, <1>11 DEF FeedInv

\* A row that is written or deleted moves the others: none to the front, unless one
\* ahead of them left its place, and then by one place.
LEMMA RowStep ==
  ASSUME FeedInv, NEW p \in FeedPosts, Insert(p) \/ Delete(p)
  PROVE  FeedInv'
<1>1. /\ FeedTypes /\ removed \in Nat
      /\ UNCHANGED <<second, offset, read>> /\ steady' = steady \ {p}
      /\ removed' \in {removed, removed + 1}
      /\ \A q \in FeedPosts : q # p => row'[q] = row[q] /\ dated'[q] = dated[q]
  BY DEF FeedInv, FeedTypes, Insert, Delete
<1>2. FeedTypes'
  <2>1. CASE Insert(p)
    <3>1. /\ written' = written + 1 /\ row' = [row EXCEPT ![p] = written + 1]
          /\ dated' = [dated EXCEPT ![p] = second]
      BY <2>1 DEF Insert
    <3>2. written' \in Nat /\ row' \in [FeedPosts -> 0 .. written']
      BY <1>1, <3>1 DEF FeedTypes
    <3>3. dated' \in [FeedPosts -> Nat] /\ \A q \in FeedPosts : dated'[q] <= second
      BY <1>1, <3>1 DEF FeedTypes
    <3>4. \A q \in FeedPosts : row[q] \in 0 .. written
      BY <1>1 DEF FeedTypes
    <3>5. \A q, s \in Stored' : row'[q] = row'[s] => q = s
      BY <1>1, <3>1, <3>4 DEF FeedTypes, Stored
    <3>6. steady' \subseteq Stored'
      BY <1>1, <3>1 DEF FeedTypes, Stored
    <3>7. QED
      BY <1>1, <3>2, <3>3, <3>5, <3>6 DEF FeedTypes
  <2>2. CASE Delete(p)
    <3>1. row' = [row EXCEPT ![p] = 0] /\ UNCHANGED <<written, dated>>
      BY <2>2 DEF Delete
    <3>2. row' \in [FeedPosts -> 0 .. written']
      BY <1>1, <3>1 DEF FeedTypes
    <3>3. steady' \subseteq Stored' /\ Stored' \subseteq Stored \ {p}
      BY <1>1, <3>1 DEF FeedTypes, Stored
    <3>4. \A q, s \in Stored' : row'[q] = row'[s] => q = s
      BY <1>1, <3>3 DEF FeedTypes, Stored
    <3>5. QED
      BY <1>1, <3>1, <3>2, <3>3, <3>4 DEF FeedTypes
  <2>3. QED
    BY <2>1, <2>2
<1>3. \A x \in steady' : /\ x \in Stored /\ x # p /\ x \in steady
                         /\ x \in FeedPosts /\ row'[x] = row[x] /\ dated'[x] = dated[x]
  BY <1>1 DEF FeedTypes, Stored
<1>4. \A x \in steady' : Ahead(x) \ {p} \subseteq Ahead(x)'
  BY <1>1, <1>3 DEF Ahead, Before, Stored
<1>5. \A x \in steady' : p \in Ahead(x) /\ p \notin Ahead(x)' => removed' = removed + 1
  <2> SUFFICES ASSUME NEW x \in steady', p \in Ahead(x), p \notin Ahead(x)', Insert(p),
                      ~ (p \in Stored /\ dated[p] = second)
               PROVE  FALSE
    BY DEF Insert, Delete
  <2>1. row'[p] = written + 1 /\ dated'[p] = second /\ p \in Stored /\ Before(p, x)
    BY <1>1 DEF Insert, FeedTypes, Ahead
  <2>2. written + 1 # 0
    BY <1>1 DEF FeedTypes
  <2>3. p \in Stored'
    BY <2>1, <2>2 DEF Stored
  <2>4. dated[x] \in Nat /\ dated[p] \in Nat /\ second \in Nat /\ dated[x] <= second /\ dated[p] <= second
    BY <1>1, <1>3 DEF FeedTypes
  <2>5. ~ (second > dated[x])
    BY <1>3, <2>1, <2>3 DEF Ahead, Before
  <2>6. dated[p] >= dated[x]
    BY <2>1, <2>4 DEF Before
  <2>7. QED
    BY <2>1, <2>4, <2>5, <2>6
<1>6. \A x \in steady' : /\ Rank(x)' \in Nat /\ Rank(x) \in Nat /\ Rank(x) <= Rank(x)' + 1
                         /\ removed' = removed => Rank(x) <= Rank(x)'
  <2> TAKE x \in steady'
  <2>1. PICK a, b : a = Ahead(x) /\ b = Ahead(x)'
    OBVIOUS
  <2>2. a \subseteq FeedPosts /\ b \subseteq FeedPosts
    BY <2>1 DEF Ahead, Stored
  <2>3. Rank(x) = Cardinality(a) /\ Rank(x)' = Cardinality(b)
    BY <2>1 DEF Rank, Ahead
  <2>4. /\ IsFiniteSet(a) /\ IsFiniteSet(b) /\ Cardinality(a) \in Nat /\ Cardinality(b) \in Nat
    BY <2>2, FeedFinite
  <2>5. a \subseteq b \cup {p}
    BY <1>4, <2>1
  <2>6. removed' = removed => a \subseteq b
    BY <1>1, <1>4, <1>5, <2>1
  <2>7. /\ Cardinality(a) <= Cardinality(b) + 1
        /\ a \subseteq b => Cardinality(a) <= Cardinality(b)
    BY <2>4, <2>5, CardinalityGrowth
  <2>8. QED
    BY <2>3, <2>4, <2>6, <2>7
<1>7. PICK m : m = Missed'
  OBVIOUS
<1>8. m = {x \in steady' \ read : offset = Done \/ Rank(x)' < offset}
  BY <1>1, <1>7 DEF Missed
<1>9. Missed \subseteq FeedPosts /\ IsFiniteSet(Missed) /\ Cardinality(Missed) \in Nat
      /\ Cardinality(Missed) <= removed
  <2>1. Missed \subseteq FeedPosts
    BY <1>1 DEF Missed, FeedTypes, Stored
  <2>2. QED
    BY <2>1, FeedFinite DEF FeedInv
<1>10. CASE removed' = removed
  <2>1. m \subseteq Missed
    <3> SUFFICES ASSUME NEW x \in m, offset # Done PROVE Rank(x) < offset
      BY <1>3, <1>8 DEF Missed
    <3>1. offset \in Nat
      BY <1>1 DEF FeedTypes
    <3>2. QED
      BY <1>6, <1>8, <1>10, <3>1
  <2>2. Cardinality(m) <= Cardinality(Missed) /\ Cardinality(m) \in Nat
    BY <1>9, <2>1, FS_Subset, FS_CardinalityType
  <2>3. Cardinality(m) <= removed'
    BY <1>1, <1>9, <1>10, <2>2
  <2>4. QED
    BY <1>2, <1>7, <2>3 DEF FeedInv
<1>11. CASE removed' = removed + 1
  <2>1. \E y : m \subseteq Missed \cup {y}
    <3>1. CASE offset = Done
      <4>1. m \subseteq Missed
        BY <1>3, <1>8, <3>1 DEF Missed
      <4>2. QED
        BY <4>1
    <3>2. CASE offset # Done
      <4>1. offset \in Nat
        BY <1>1, <3>2 DEF FeedTypes
      <4>2. \A x \in m : x \in Missed \/ (x \in Stored /\ Rank(x) = offset)
        <5> TAKE x \in m
        <5>1. x \in steady' /\ x \notin read /\ Rank(x)' < offset
          BY <1>8, <3>2
        <5>2. Rank(x) \in Nat /\ Rank(x)' \in Nat /\ Rank(x) <= Rank(x)' + 1
          BY <1>6, <5>1
        <5>3. Rank(x) <= offset
          BY <4>1, <5>1, <5>2
        <5>4. CASE Rank(x) = offset
          BY <1>3, <5>1, <5>4
        <5>5. CASE Rank(x) < offset
          BY <1>3, <5>1, <5>5 DEF Missed
        <5>6. QED
          BY <4>1, <5>2, <5>3, <5>4, <5>5
      <4>3. CASE m \subseteq Missed
        BY <4>3
      <4>4. CASE ~ (m \subseteq Missed)
        <5>1. PICK y \in m : y \notin Missed
          BY <4>4
        <5>2. y \in Stored /\ Rank(y) = offset
          BY <4>2, <5>1
        <5>3. \A x \in m : x \in Missed \/ x = y
          BY <1>1, <4>2, <5>2, RankInjective
        <5>4. QED
          BY <5>3
      <4>5. QED
        BY <4>3, <4>4
    <3>3. QED
      BY <3>1, <3>2
  <2>2. PICK y : m \subseteq Missed \cup {y}
    BY <2>1
  <2>3. Cardinality(m) <= Cardinality(Missed) + 1
    BY <1>9, <2>2, CardinalityGrowth
  <2>4. m \subseteq FeedPosts
    BY <1>3, <1>8
  <2>5. Cardinality(m) \in Nat
    BY <2>4, FeedFinite
  <2>6. Cardinality(m) <= removed'
    BY <1>1, <1>9, <1>11, <2>3, <2>5
  <2>7. QED
    BY <1>2, <1>7, <2>6 DEF FeedInv
<1>12. QED
  BY <1>1, <1>10, <1>11

\* Whatever arrives, arrives again or is deleted while it reads, a reader that reached
\* the end missed no more of the posts that stayed than lost their place meanwhile.
THEOREM PagesMissFew == FeedSpec => []PagesComplete
<1>1. FeedInit => FeedInv
  <2> SUFFICES ASSUME FeedInit PROVE FeedInv
    OBVIOUS
  <2>1. FeedTypes
    BY DEF FeedInit, FeedTypes, Stored
  <2>2. Missed = {} /\ removed = 0
    BY DEF FeedInit, Missed
  <2>3. QED
    BY <2>1, <2>2, FS_EmptySet DEF FeedInv
<1>2. FeedInv /\ [FeedNext]_feedVars => FeedInv'
  <2> SUFFICES ASSUME FeedInv, [FeedNext]_feedVars PROVE FeedInv'
    OBVIOUS
  <2>1. CASE SecondPasses
    <3>1. second' = second + 1 /\ UNCHANGED <<row, dated, written, offset, read, steady, removed>>
      BY <2>1 DEF SecondPasses
    <3>2. FeedTypes'
      BY <3>1 DEF FeedInv, FeedTypes, Stored
    <3>3. Missed' = Missed
      BY <3>1 DEF Missed, Rank, Before, Stored
    <3>4. QED
      BY <3>1, <3>2, <3>3 DEF FeedInv
  <2>2. CASE Reopen
    <3>1. /\ offset' = 0 /\ read' = {} /\ removed' = 0 /\ steady' = Stored
          /\ UNCHANGED <<second, row, dated, written>>
      BY <2>2 DEF Reopen
    <3>2. FeedTypes'
      BY <3>1 DEF FeedInv, FeedTypes, Stored
    <3>3. Missed' = {}
      <4>1. \A x : Rank(x)' \in Nat
        <5> TAKE x
        <5>1. PICK b : b = {q \in Stored' : Before(q, x)'}
          OBVIOUS
        <5>2. b \subseteq FeedPosts
          BY <5>1 DEF Stored
        <5>3. Cardinality(b) \in Nat
          BY <5>2, FeedFinite
        <5>4. QED
          BY <5>1, <5>3 DEF Rank
      <4>2. 0 # Done
        BY DEF Done
      <4>3. QED
        BY <3>1, <4>1, <4>2 DEF Missed
    <3>4. QED
      BY <3>1, <3>2, <3>3, FS_EmptySet DEF FeedInv
  <2>3. ASSUME NEW p \in FeedPosts, Insert(p) \/ Delete(p) PROVE FeedInv'
    BY <2>3, RowStep
  <2>4. ASSUME NEW limit \in Limits, ReadPage(limit) PROVE FeedInv'
    BY <2>4, PageStep
  <2>5. CASE UNCHANGED feedVars
    <3>1. FeedTypes' /\ removed' = removed
      BY <2>5 DEF feedVars, FeedInv, FeedTypes, Stored
    <3>2. Missed' = Missed
      BY <2>5 DEF feedVars, Missed, Rank, Before, Stored
    <3>3. QED
      BY <3>1, <3>2 DEF FeedInv
  <2>6. QED
    BY <2>1, <2>2, <2>3, <2>4, <2>5 DEF FeedNext
<1>3. FeedInv => PagesComplete
  BY DEF FeedInv, PagesComplete, Missed
<1>4. QED
  BY <1>1, <1>2, <1>3, PTL DEF FeedSpec

-----------------------------------------------------------------------------
(* The pool of transactions: nonces below the width of their type, and the    *)
(* last root covers no more than is committed.                                *)

Tx == [sender : Senders, nonce : 0 .. NonceCap - 1]

PoolOrdered ==
  /\ waiting \in Seq(Tx) /\ committed \in Seq(Tx) /\ roots \in Seq(Nat)
  /\ \A i \in DOMAIN roots : roots[i] <= Len(committed)
  /\ NoncesIncrease

\* A set of numbers below a bound has a largest one.
LEMMA Largest ==
  ASSUME NEW n \in Nat, NEW S \in SUBSET (0 .. n), S # {}
  PROVE  /\ Max(S) \in S
         /\ \A y \in S : Max(S) >= y
<1> DEFINE Above(u) == \A y \in S : u >= y
           A == {u \in Nat : Above(u)}
<1>1. A \in SUBSET Nat /\ n \in A
  OBVIOUS
<1>2. A # {}
  BY <1>1
<1> HIDE DEF A
<1>3. PICK u \in A : \A w \in A : u <= w
  BY <1>1, <1>2, LeastNatural
<1>4. u \in Nat /\ Above(u)
  BY <1>3 DEF A
<1>5. u \in S
  <2>1. SUFFICES ASSUME u \notin S PROVE FALSE
    OBVIOUS
  <2>2. \A y \in S : y \in Nat /\ u > y
    BY <1>4, <2>1
  <2>3. u > 0
    <3>1. PICK y \in S : y \in Nat /\ u > y
      BY <2>2
    <3>2. QED
      BY <1>4, <3>1
  <2>4. u - 1 \in Nat /\ Above(u - 1)
    BY <1>4, <2>2, <2>3
  <2>5. u - 1 \in A
    BY <2>4 DEF A
  <2>6. QED
    BY <1>3, <1>4, <2>5
<1>6. u \in S /\ \A y \in S : u >= y
  BY <1>4, <1>5
<1>7. QED
  BY <1>6 DEF Max

LEMMA Below ==
  ASSUME NEW a \in Nat, NEW b \in Nat, a < b
  PROVE  a % b = a
OBVIOUS

LEMMA InRange ==
  ASSUME NEW a \in Nat, NEW b \in Nat \ {0}
  PROVE  a % b \in 0 .. b - 1
OBVIOUS

\* The next nonce of a sender is one the type holds, beyond all that were seen of it
\* but the last of the type.
LEMMA NextBeyond ==
  ASSUME PoolOrdered, NEW s \in Senders
  PROVE  /\ NextNonce(s) \in 0 .. NonceCap - 1
         /\ \A i \in DOMAIN All : All[i].sender = s /\ All[i].nonce # NonceCap - 1
                                  => All[i].nonce < NextNonce(s)
<1>1. All \in Seq(Tx) /\ NonceCap \in Nat \ {0}
  BY TxPoolAssumption DEF PoolOrdered, All
<1>2. PICK a : a = All
  OBVIOUS
<1>3. a \in Seq(Tx)
  BY <1>1, <1>2
<1> DEFINE S == {0} \cup {(n + 1) % NonceCap : n \in NoncesOf(s, a)}
<1>4. \A n \in NoncesOf(s, a) : n \in 0 .. NonceCap - 1
  <2>1. \A i \in DOMAIN a : a[i] \in Tx
    BY <1>3
  <2>2. \A i \in DOMAIN a : a[i].nonce \in 0 .. NonceCap - 1
    BY <2>1 DEF Tx
  <2>3. QED
    BY <2>2 DEF NoncesOf
<1>5. \A n \in NoncesOf(s, a) : (n + 1) % NonceCap \in 0 .. NonceCap - 1
  <2> TAKE n \in NoncesOf(s, a)
  <2>1. n + 1 \in Nat
    BY <1>4, <1>1
  <2>2. QED
    BY <1>1, <2>1, InRange
<1>6. NonceCap - 1 \in Nat /\ S \in SUBSET (0 .. NonceCap - 1) /\ S # {}
  BY <1>1, <1>5
<1>7. NextNonce(s) = Max(S)
  BY <1>2 DEF NextNonce
<1>8. Max(S) \in S /\ \A y \in S : Max(S) >= y
  <2> HIDE DEF S
  <2> QED
    BY <1>6, Largest
<1>9. ASSUME NEW i \in DOMAIN a, a[i].sender = s, a[i].nonce # NonceCap - 1
      PROVE  a[i].nonce < NextNonce(s)
  <2>1. a[i] \in Tx
    BY <1>3
  <2>2. a[i].nonce \in 0 .. NonceCap - 1
    BY <2>1 DEF Tx
  <2>3. a[i].nonce + 1 \in Nat /\ a[i].nonce + 1 < NonceCap
    BY <1>1, <1>9, <2>2
  <2>4. (a[i].nonce + 1) % NonceCap = a[i].nonce + 1
    BY <1>1, <2>3, Below
  <2>5. a[i].nonce \in NoncesOf(s, a)
    BY <1>9 DEF NoncesOf
  <2>6. a[i].nonce + 1 \in S
    BY <2>4, <2>5
  <2>7. Max(S) >= a[i].nonce + 1 /\ Max(S) \in Int
    <3>1. \A x \in S : x \in Int
      BY <1>1, <1>6
    <3> HIDE DEF S
    <3>2. QED
      BY <1>8, <2>6, <3>1
  <2>8. QED
    BY <1>7, <2>2, <2>7
<1>10. QED
  BY <1>2, <1>6, <1>7, <1>8, <1>9

LEMMA SubmitKeepsOrder ==
  ASSUME PoolOrdered, NEW s \in Senders, NEW n \in 0 .. NonceCap - 1,
         Submit([sender |-> s, nonce |-> n])
  PROVE  PoolOrdered'
<1>1. PICK tx : tx = [sender |-> s, nonce |-> n]
  OBVIOUS
<1>2. tx \in Tx /\ tx.sender = s /\ tx.nonce = n
  BY <1>1 DEF Tx
<1>3. /\ waiting' = Append(waiting, tx) /\ committed' = committed /\ roots' = roots
      /\ n >= NextNonce(s)
  BY <1>1, <1>2 DEF Submit
<1>4. waiting \in Seq(Tx) /\ committed \in Seq(Tx) /\ roots \in Seq(Nat) /\ All \in Seq(Tx)
  BY DEF PoolOrdered, All
<1>5. waiting' \in Seq(Tx) /\ committed' \in Seq(Tx) /\ roots' \in Seq(Nat)
  BY <1>2, <1>3, <1>4
<1>6. All' = Append(All, tx)
  <2>1. Len(committed \o Append(waiting, tx)) = Len(All) + 1
    BY <1>2, <1>4 DEF All
  <2>2. QED
    BY <1>2, <1>3, <1>4 DEF All
<1>7. /\ Len(All) \in Nat /\ DOMAIN All' = 1 .. Len(All) + 1
      /\ \A i \in 1 .. Len(All) : All'[i] = All[i] /\ All[i] \in Tx
      /\ All'[Len(All) + 1] = tx
  BY <1>2, <1>4, <1>6
<1>8. ASSUME NEW i \in DOMAIN All', NEW j \in DOMAIN All', i < j,
             All'[i].sender = All'[j].sender, All'[i].nonce # NonceCap - 1
      PROVE  All'[i].nonce < All'[j].nonce
  <2>1. i \in 1 .. Len(All) /\ i \in DOMAIN All
    BY <1>4, <1>7, <1>8
  <2>2. CASE j \in 1 .. Len(All)
    <3>1. j \in DOMAIN All
      BY <1>4, <2>2
    <3>2. QED
      BY <1>7, <1>8, <2>1, <2>2, <3>1 DEF PoolOrdered, NoncesIncrease
  <2>3. CASE j = Len(All) + 1
    <3>1. All[i].sender = s /\ All[i].nonce # NonceCap - 1 /\ All'[j].nonce = n /\ All'[i] = All[i]
      BY <1>2, <1>7, <1>8, <2>1, <2>3
    <3>2. All[i].nonce < NextNonce(s) /\ NextNonce(s) \in 0 .. NonceCap - 1
      BY <2>1, <3>1, NextBeyond
    <3>3. All[i].nonce \in Int /\ NextNonce(s) \in Int /\ n \in Int
      BY <1>7, <2>1, <3>2 DEF Tx
    <3>4. QED
      BY <1>3, <3>1, <3>2, <3>3
  <2>4. QED
    BY <1>7, <2>2, <2>3
<1>9. NoncesIncrease'
  BY <1>3, <1>8 DEF PoolOrdered, NoncesIncrease
<1>10. QED
  BY <1>3, <1>5, <1>9 DEF PoolOrdered

LEMMA CommitKeepsOrder ==
  ASSUME PoolOrdered, NEW n \in 1 .. MaxPool, CommitBatch(n)
  PROVE  PoolOrdered'
<1>1. waiting \in Seq(Tx) /\ committed \in Seq(Tx) /\ roots \in Seq(Nat)
      /\ Len(waiting) \in Nat /\ Len(committed) \in Nat /\ Len(roots) \in Nat
  BY DEF PoolOrdered
<1>2. n \in Nat
  BY TxPoolAssumption
<1>3. PICK size : size = Min({n, Len(waiting)})
  OBVIOUS
<1>4. size \in Nat /\ size <= Len(waiting)
  BY <1>1, <1>2, <1>3, MinOfTwo
<1>5. /\ size > 0
      /\ waiting' = SubSeq(waiting, size + 1, Len(waiting))
      /\ committed' = committed \o SubSeq(waiting, 1, size)
      /\ roots' = Append(roots, Len(committed'))
  BY <1>3 DEF CommitBatch
<1>6. PICK front, back : front = SubSeq(waiting, 1, size) /\ back = SubSeq(waiting, size + 1, Len(waiting))
  OBVIOUS
<1>7. front \in Seq(Tx) /\ back \in Seq(Tx) /\ Len(front) = size
  <2>1. /\ 1 \in Int /\ size \in Int /\ size + 1 \in Int /\ Len(waiting) \in Int
        /\ \A i \in 1 .. size : waiting[i] \in Tx
        /\ \A i \in size + 1 .. Len(waiting) : waiting[i] \in Tx
    BY <1>1, <1>4
  <2> HIDE DEF Tx
  <2>2. front \in Seq(Tx) /\ Len(front) = IF 1 <= size THEN size - 1 + 1 ELSE 0
    BY <1>6, <2>1, SubSeqProperties
  <2>3. back \in Seq(Tx)
    BY <1>6, <2>1, SubSeqProperties
  <2>4. QED
    BY <1>4, <2>2, <2>3
<1>8. front \o back = waiting
  <2>1. 1 \in 1 .. Len(waiting) + 1 /\ size \in 1 - 1 .. Len(waiting) /\ Len(waiting) \in size .. Len(waiting)
    BY <1>1, <1>4
  <2>2. front \o back = SubSeq(waiting, 1, Len(waiting))
    BY <1>1, <1>6, <2>1, ConcatAdjacentSubSeq
  <2>3. QED
    BY <1>1, <2>2, SubSeqFull
<1>9. waiting' = back /\ committed' = committed \o front
  BY <1>5, <1>6
<1>10. (committed \o front) \o back = committed \o waiting
  <2>1. (committed \o front) \o back = committed \o (front \o back)
    <3>1. committed \in Seq(Tx) /\ front \in Seq(Tx) /\ back \in Seq(Tx)
      BY <1>1, <1>7
    <3>2. QED
      BY <3>1, ConcatAssociative
  <2>2. QED
    BY <1>8, <2>1
<1>11. committed' \in Seq(Tx) /\ waiting' \in Seq(Tx) /\ Len(committed') = Len(committed) + size
  <2>1. committed \o front \in Seq(Tx) /\ Len(committed \o front) = Len(committed) + Len(front)
    BY <1>1, <1>7, ConcatProperties
  <2>2. QED
    BY <1>7, <1>9, <2>1
<1>14. All' = All
  BY <1>9, <1>10 DEF All
<1>15. roots' \in Seq(Nat) /\ Len(committed') \in Nat
  BY <1>1, <1>5, <1>11
<1>16. PICK covered : covered = Len(committed')
  OBVIOUS
<1>17. covered \in Nat /\ covered > Len(committed) /\ roots' = Append(roots, covered)
  BY <1>1, <1>4, <1>5, <1>11, <1>16
<1>18. /\ \A i \in DOMAIN roots' : roots'[i] <= covered
       /\ \A i, j \in DOMAIN roots' : i < j => roots'[i] < roots'[j]
  <2>1. /\ DOMAIN roots' = 1 .. Len(roots) + 1 /\ DOMAIN roots = 1 .. Len(roots)
        /\ \A i \in 1 .. Len(roots) : roots'[i] = roots[i] /\ roots[i] \in Nat
        /\ roots'[Len(roots) + 1] = covered
    BY <1>1, <1>17
  <2>2. /\ \A i \in 1 .. Len(roots) : roots[i] <= Len(committed)
        /\ \A i, j \in 1 .. Len(roots) : i < j => roots[i] < roots[j]
    BY <2>1 DEF PoolOrdered, NoncesIncrease
  <2>3. \A i \in 1 .. Len(roots) : roots[i] < covered
    BY <1>1, <1>17, <2>1, <2>2
  <2>4. ASSUME NEW i \in DOMAIN roots', NEW j \in DOMAIN roots', i < j
        PROVE  roots'[i] < roots'[j]
    <3>1. i \in 1 .. Len(roots)
      BY <1>1, <2>1, <2>4
    <3>2. j \in 1 .. Len(roots) \/ j = Len(roots) + 1
      BY <1>1, <2>1
    <3>3. QED
      BY <2>1, <2>2, <2>3, <2>4, <3>1, <3>2
  <2>5. ASSUME NEW i \in DOMAIN roots'
        PROVE  roots'[i] <= covered
    <3>1. i \in 1 .. Len(roots) \/ i = Len(roots) + 1
      BY <1>1, <2>1
    <3>2. QED
      BY <1>17, <2>1, <2>3, <3>1
  <2>6. QED
    BY <2>4, <2>5
<1>19. QED
  BY <1>11, <1>14, <1>15, <1>16, <1>18 DEF PoolOrdered, NoncesIncrease

\* A sender's nonces increase in the order of commitment, over every way of submitting
\* and committing, but for the last nonce of the type; and the roots never go back.
THEOREM NoncesAlwaysIncrease == TxPoolSpec => []NoncesIncrease
<1>1. PoolInit => PoolOrdered
  <2> SUFFICES ASSUME PoolInit PROVE PoolOrdered
    OBVIOUS
  <2>1. waiting = <<>> /\ committed = <<>> /\ roots = <<0>> /\ All = <<>>
    BY DEF PoolInit, All
  <2>2. DOMAIN All = {} /\ DOMAIN roots = {1} /\ roots[1] = 0 /\ roots \in Seq(Nat) /\ Len(committed) = 0
    BY <2>1
  <2>3. QED
    BY <2>1, <2>2 DEF PoolOrdered, NoncesIncrease
<1>2. PoolOrdered /\ [PoolNext]_poolVars => PoolOrdered'
  <2> SUFFICES ASSUME PoolOrdered, [PoolNext]_poolVars PROVE PoolOrdered'
    OBVIOUS
  <2>1. CASE Send
    <3>1. Me \in Senders
      BY TxPoolAssumption
    <3>2. NextNonce(Me) \in 0 .. NonceCap - 1
      BY <3>1, NextBeyond
    <3>3. Submit([sender |-> Me, nonce |-> NextNonce(Me)])
      BY <2>1 DEF Send
    <3>4. QED
      BY <3>1, <3>2, <3>3, SubmitKeepsOrder
  <2>2. ASSUME NEW s \in Senders, NEW n \in 0 .. NonceCap - 1, Submit([sender |-> s, nonce |-> n])
        PROVE  PoolOrdered'
    BY <2>2, SubmitKeepsOrder
  <2>3. ASSUME NEW n \in 1 .. MaxPool, CommitBatch(n)
        PROVE  PoolOrdered'
    BY <2>3, CommitKeepsOrder
  <2>4. CASE UNCHANGED poolVars
    BY <2>4 DEF poolVars, PoolOrdered, NoncesIncrease, All
  <2>5. QED
    BY <2>1, <2>2, <2>3, <2>4 DEF PoolNext
<1>3. PoolOrdered => NoncesIncrease
  BY DEF PoolOrdered
<1>4. QED
  BY <1>1, <1>2, <1>3, PTL DEF TxPoolSpec

-----------------------------------------------------------------------------
(* What is read as valid is what was sealed *)

Leading == \A id, nonce : Zeros(id, nonce) \in Nat

Fields == {"pubkey", "at", "kind", "tags", "content", "id", "sig", "nonce", "difficulty"}

\* An event as its author made it.
Original(e, now) ==
  /\ e.pubkey \in Signers /\ e.kind \in DOMAIN KindCode
  /\ e.at \in Nat /\ (e.at <= now + Fuzz \/ e.at = 0)
  /\ e.id = Id(e) /\ e.sig = Signed(e.pubkey, e.id)
  /\ e.difficulty \in Nat /\ Works(e)

\* The signatures there are: of this event by some key, or none.
Signatures == {Signed(a, sealed.event.id) : a \in Signers} \cup {Unsigned}

EventInv ==
  IF event = Unmade THEN changes = 0
  ELSE /\ changes \in Nat /\ sealed.clock \in Nat /\ Original(sealed.event, sealed.clock)
       /\ DOMAIN event = Fields
       /\ event.kind \in DOMAIN KindCode /\ event.sig \in Signatures
       /\ event.difficulty \in Nat
       /\ changes = 0 => event = sealed.event

EnvelopeInv ==
  envelope # Unmade =>
    \E from, to \in Signers, sender \in Signers, ephemeral \in {"ephemeral", "another"} : \E text :
      envelope = [sender |-> sender, ephemeral |-> ephemeral,
                  box |-> [secret |-> {"ephemeral", to}, bound |-> from, text |-> text],
                  made |-> [from |-> from, to |-> to, text |-> text]]

SealInv == EventInv /\ EnvelopeInv

LEMMA KindsApart ==
  ASSUME NEW k \in DOMAIN KindCode, NEW l \in DOMAIN KindCode, KindCode[k] = KindCode[l]
  PROVE  k = l
BY DEF KindCode


LEMMA LargerOfTwo ==
  ASSUME NEW x \in Int
  PROVE  Max({x, 0}) \in Nat /\ (Max({x, 0}) = x \/ Max({x, 0}) = 0)
<1>1. \E y \in {x, 0} : \A z \in {x, 0} : y >= z
  BY SMT
<1>2. Max({x, 0}) \in {x, 0} /\ \A z \in {x, 0} : Max({x, 0}) >= z
  BY <1>1, Zenon DEF Max
<1>3. QED
  BY <1>2

\* The id tells events apart that mean something else.
LEMMA IdMeans ==
  ASSUME NEW e, NEW f, Id(e) = Id(f), e.kind \in DOMAIN KindCode, f.kind \in DOMAIN KindCode
  PROVE  Meaning(e) = Meaning(f)
<1>1. /\ e.pubkey = f.pubkey /\ e.at = f.at /\ e.tags = f.tags /\ e.content = f.content
      /\ KindCode[e.kind] = KindCode[f.kind]
  BY DEF Id
<1>2. e.kind = f.kind
  BY <1>1, KindsApart
<1>3. QED
  BY <1>1, <1>2 DEF Meaning

LEMMA MakingStep ==
  ASSUME SealInv, event = Unmade, NEW a \in Signers, NEW d \in Drafts, NEW now \in 0 .. MaxClock,
         NEW difficulty \in 0 .. MaxDifficulty, SealEvent(a, d, now, difficulty), Leading
  PROVE  SealInv'
<1>1. PICK at \in FuzzyTimestamps(now) :
        LET e == [pubkey |-> a, at |-> at, kind |-> d.kind,
                  tags |-> d.tags, content |-> d.content]
        IN  /\ Solutions(Id(e), difficulty) # {}
            /\ event' = [pubkey |-> a, at |-> at, kind |-> d.kind, tags |-> d.tags,
                         content |-> d.content, id |-> Id(e), sig |-> Signed(a, Id(e)),
                         nonce |-> Min(Solutions(Id(e), difficulty)), difficulty |-> difficulty]
            /\ sealed' = [event |-> event', clock |-> now]
            /\ UNCHANGED <<envelope, changes>>
  BY DEF SealEvent
<1>2. PICK id : id = Id([pubkey |-> a, at |-> at, kind |-> d.kind, tags |-> d.tags, content |-> d.content])
  OBVIOUS
<1>3. PICK nonce : nonce = Min(Solutions(id, difficulty))
  OBVIOUS
<1>4. PICK e : e = [pubkey |-> a, at |-> at, kind |-> d.kind, tags |-> d.tags, content |-> d.content,
                    id |-> id, sig |-> Signed(a, id), nonce |-> nonce, difficulty |-> difficulty]
  OBVIOUS
<1>5. /\ Solutions(id, difficulty) # {} /\ event' = e /\ sealed' = [event |-> e, clock |-> now]
      /\ envelope' = envelope /\ changes' = changes
  BY <1>1, <1>2, <1>3, <1>4
<1>6. at \in Nat /\ (at <= now + Fuzz \/ at = 0)
  <2>1. PICK shift \in -Fuzz .. Fuzz : at = Max({now + shift, 0})
    BY <1>1 DEF FuzzyTimestamps
  <2>2. Fuzz \in Nat /\ MaxClock \in Nat
    BY SealAssumption
  <2>3. now \in Nat /\ shift \in Int /\ shift <= Fuzz /\ now + shift \in Int
    BY <2>1, <2>2
  <2>4. at \in Nat /\ (at = now + shift \/ at = 0)
    BY <2>1, <2>3, LargerOfTwo
  <2>5. QED
    BY <2>2, <2>3, <2>4
<1>7. Zeros(id, nonce) >= difficulty
  <2>1. PICK S : S = Solutions(id, difficulty)
    OBVIOUS
  <2>2. Nonces \in Nat
    BY SealAssumption
  <2>3. S \in SUBSET Nat /\ S # {}
    BY <1>5, <2>1, <2>2 DEF Solutions
  <2>4. \E n \in S : \A m \in S : n <= m
    BY <2>3, LeastNatural
  <2>5. nonce \in S
    BY <1>3, <2>1, <2>4, Zenon DEF Min
  <2>6. QED
    BY <2>1, <2>5 DEF Solutions
<1>8. difficulty \in Nat /\ now \in Nat /\ d.kind \in DOMAIN KindCode
  BY SealAssumption
<1>9. Original(e, now)
  <2>1. Id(e) = id
    BY <1>2, <1>4 DEF Id
  <2>2. QED
    BY <1>4, <1>6, <1>7, <1>8, <2>1 DEF Original, Works
<1>10. EventInv'
  <2>1. changes = 0
    BY DEF SealInv, EventInv
  <2>2. DOMAIN e = Fields /\ e.sig = Signed(a, e.id)
    BY <1>4 DEF Fields
  <2>3. e.sig \in {Signed(b, e.id) : b \in Signers} \cup {Unsigned}
    BY <2>2
  <2>4. Signatures' = {Signed(b, e.id) : b \in Signers} \cup {Unsigned}
    BY <1>5 DEF Signatures
  <2>5. e.kind \in DOMAIN KindCode /\ e.difficulty \in Nat
    BY <1>4, <1>8
  <2>6. QED
    BY <1>5, <1>8, <1>9, <2>1, <2>2, <2>3, <2>4, <2>5 DEF EventInv
<1>11. QED
  BY <1>5, <1>10 DEF SealInv, EnvelopeInv

LEMMA ChangeStep ==
  ASSUME SealInv, event # Unmade, NEW field \in DOMAIN event, Changes(field)
  PROVE  SealInv'
<1>1. PICK v \in Others(field) : v # event[field] /\ event' = [event EXCEPT ![field] = v]
  BY DEF Changes
<1>2. changes \in Nat /\ changes' = changes + 1 /\ sealed' = sealed /\ envelope' = envelope
  BY DEF Changes, SealInv, EventInv
<1>3. /\ DOMAIN event = Fields /\ event.kind \in DOMAIN KindCode /\ event.sig \in Signatures
      /\ event.difficulty \in Nat /\ sealed.clock \in Nat /\ Original(sealed.event, sealed.clock)
  BY DEF SealInv, EventInv
<1>4. DOMAIN event' = Fields /\ \A x \in Fields : event'[x] = IF x = field THEN v ELSE event[x]
  BY <1>1, <1>3
<1>5. event'.kind \in DOMAIN KindCode
  <2>1. field = "kind" => v \in {d.kind : d \in Drafts}
    BY <1>1 DEF Others
  <2>2. event'["kind"] \in DOMAIN KindCode
    BY <1>3, <1>4, <2>1, SealAssumption DEF Fields
  <2>3. QED
    BY <2>2
<1>6. event'.sig \in Signatures
  <2>1. field = "sig" => v \in Signatures
    BY <1>1 DEF Others, Signatures
  <2>2. event'["sig"] \in Signatures
    BY <1>3, <1>4, <2>1 DEF Fields
  <2>3. QED
    BY <2>2
<1>7. event'.difficulty \in Nat
  <2>1. field = "difficulty" => v \in 0 .. MaxDifficulty
    BY <1>1 DEF Others
  <2>2. event'["difficulty"] \in Nat
    BY <1>3, <1>4, <2>1, SealAssumption DEF Fields
  <2>3. QED
    BY <2>2
<1>8. Signatures' = Signatures
  BY <1>2 DEF Signatures
<1>9. event' # Unmade
  <2>1. DOMAIN Unmade = {"id"} /\ "kind" \in Fields /\ "kind" # "id"
    BY DEF Unmade, Fields
  <2>2. QED
    BY <1>4, <2>1
<1>10. changes' \in Nat /\ changes' # 0
  BY <1>2
<1>11. EventInv'
  BY <1>2, <1>3, <1>4, <1>5, <1>6, <1>7, <1>8, <1>9, <1>10 DEF EventInv
<1>12. QED
  BY <1>2, <1>11 DEF SealInv, EnvelopeInv


LEMMA EnvelopeStep ==
  ASSUME SealInv, EnvelopeNext
  PROVE  SealInv'
<1>1. UNCHANGED <<sealed, event, changes>>
  BY DEF EnvelopeNext, Enclose, Readdressed
<1>2. EnvelopeInv'
  <2>1. ASSUME NEW from \in Signers, NEW to \in Signers, NEW text, Enclose(from, to, text)
        PROVE  EnvelopeInv'
    BY <2>1 DEF Enclose, EnvelopeInv
  <2>2. CASE Readdressed
    <3>1. PICK from \in Signers, to \in Signers, sender \in Signers,
               ephemeral \in {"ephemeral", "another"} : \E text :
            envelope = [sender |-> sender, ephemeral |-> ephemeral,
                        box |-> [secret |-> {"ephemeral", to}, bound |-> from, text |-> text],
                        made |-> [from |-> from, to |-> to, text |-> text]]
      BY <2>2 DEF Readdressed, SealInv, EnvelopeInv
    <3>2. PICK text :
            envelope = [sender |-> sender, ephemeral |-> ephemeral,
                        box |-> [secret |-> {"ephemeral", to}, bound |-> from, text |-> text],
                        made |-> [from |-> from, to |-> to, text |-> text]]
      BY <3>1
    <3>3. PICK box, made : /\ box = [secret |-> {"ephemeral", to}, bound |-> from, text |-> text]
                           /\ made = [from |-> from, to |-> to, text |-> text]
      OBVIOUS
    <3>4. \E s \in Signers, x \in {"ephemeral", "another"} :
            envelope' = [sender |-> s, ephemeral |-> x, box |-> box, made |-> made]
      <4>1. envelope = [sender |-> sender, ephemeral |-> ephemeral, box |-> box, made |-> made]
        BY <3>2, <3>3
      <4>2. ASSUME NEW a \in Signers, envelope' = [envelope EXCEPT !.sender = a]
            PROVE  envelope' = [sender |-> a, ephemeral |-> ephemeral, box |-> box, made |-> made]
        BY <4>1, <4>2
      <4>3. ASSUME envelope' = [envelope EXCEPT !.ephemeral = "another"]
            PROVE  envelope' = [sender |-> sender, ephemeral |-> "another", box |-> box, made |-> made]
        BY <4>1, <4>3
      <4>4. QED
        BY <2>2, <4>2, <4>3, Zenon DEF Readdressed
    <3>5. QED
      BY <3>3, <3>4 DEF EnvelopeInv
  <2>3. QED
    BY <2>1, <2>2 DEF EnvelopeNext
<1>3. EventInv'
  BY <1>1 DEF SealInv, EventInv, Signatures
<1>4. QED
  BY <1>2, <1>3 DEF SealInv

\* Nobody else's signature fits, so what is valid has the id that was signed.
LEMMA ValidIsSealed ==
  ASSUME SealInv, event # Unmade, NEW required \in Nat, NEW now \in Nat,
         Validates(event, required, now), Leading
  PROVE  /\ Meaning(event) = Meaning(sealed.event)
         /\ Zeros(Id(sealed.event), event.nonce) >= required
<1>1. /\ Original(sealed.event, sealed.clock) /\ event.kind \in DOMAIN KindCode
      /\ event.sig \in Signatures /\ event.difficulty \in Nat
  BY DEF SealInv, EventInv
<1>2. /\ event.id = Id(event) /\ event.pubkey \in Signers
      /\ event.sig = [by |-> event.pubkey, text |-> event.id]
      /\ event.difficulty >= required /\ Zeros(event.id, event.nonce) >= event.difficulty
  BY DEF Validates, SignatureValid, Verifies, Signed, Works
<1>3. event.pubkey # "unreadable"
  BY <1>2, SealAssumption
<1>4. event.id = sealed.event.id
  <2>1. CASE event.sig = Unsigned
    <3>1. event.sig.by = "unreadable"
      BY <2>1 DEF Unsigned, Signed
    <3>2. event.sig.by = event.pubkey
      BY <1>2
    <3>3. QED
      BY <1>3, <3>1, <3>2
  <2>2. ASSUME NEW a \in Signers, event.sig = Signed(a, sealed.event.id)
        PROVE  event.id = sealed.event.id
    <3>1. event.sig.text = sealed.event.id
      BY <2>2 DEF Signed
    <3>2. event.sig.text = event.id
      BY <1>2
    <3>3. QED
      BY <3>1, <3>2
  <2>3. QED
    BY <1>1, <2>1, <2>2, Zenon DEF Signatures
<1>5. Id(event) = Id(sealed.event)
  BY <1>1, <1>2, <1>4 DEF Original
<1>6. Meaning(event) = Meaning(sealed.event)
  <2>1. PICK e, f : e = event /\ f = sealed.event
    OBVIOUS
  <2>2. Id(e) = Id(f) /\ e.kind \in DOMAIN KindCode /\ f.kind \in DOMAIN KindCode
    BY <1>1, <1>5, <2>1 DEF Original
  <2>3. QED
    BY <2>1, <2>2, IdMeans
<1>7. Zeros(event.id, event.nonce) \in Nat
  BY DEF Leading
<1>8. Zeros(event.id, event.nonce) >= required
  BY <1>1, <1>2, <1>7
<1>9. QED
  BY <1>2, <1>5, <1>6, <1>8

\* What nothing changed is taken for valid.
LEMMA SealedIsValid ==
  ASSUME SealInv, event # Unmade, NEW required \in Nat, NEW now \in Nat, changes = 0,
         ~ TooLong(event), required <= event.difficulty, sealed.clock - now <= Skew - Fuzz
  PROVE  Validates(event, required, now)
<1>1. Original(event, sealed.clock) /\ sealed.clock \in Nat
  BY DEF SealInv, EventInv
<1>2. Skew \in Nat /\ Fuzz \in Nat /\ Fuzz <= Skew
  BY SealAssumption
<1>3. ~ FromFuture(event, now)
  BY <1>1, <1>2 DEF Original, FromFuture
<1>4. SignatureValid(event)
  BY <1>1 DEF Original, SignatureValid, Verifies
<1>5. event.difficulty >= required
  BY <1>1 DEF Original
<1>6. QED
  BY <1>1, <1>3, <1>4, <1>5 DEF Validates, Original

LEMMA EnvelopeKeeps == SealInv /\ envelope # Unmade => EnvelopeSealed
<1> SUFFICES ASSUME SealInv, envelope # Unmade, NEW who \in Signers
             PROVE  Opens(envelope, who) <=>
                      /\ who = envelope.made.to
                      /\ envelope.sender = envelope.made.from /\ envelope.ephemeral = "ephemeral"
  BY DEF EnvelopeSealed
<1>1. PICK from \in Signers, to \in Signers, sender \in Signers,
           ephemeral \in {"ephemeral", "another"} : \E text :
        envelope = [sender |-> sender, ephemeral |-> ephemeral,
                    box |-> [secret |-> {"ephemeral", to}, bound |-> from, text |-> text],
                    made |-> [from |-> from, to |-> to, text |-> text]]
  BY DEF SealInv, EnvelopeInv
<1>2. /\ envelope.sender = sender /\ envelope.ephemeral = ephemeral
      /\ envelope.box.secret = {"ephemeral", to} /\ envelope.box.bound = from
      /\ envelope.made.from = from /\ envelope.made.to = to
  BY <1>1
<1>3. Opens(envelope, who) <=> {"ephemeral", to} = {ephemeral, who} /\ from = sender
  BY <1>2 DEF Opens
<1>4. "ephemeral" \notin Signers /\ "another" \notin Signers
  BY SealAssumption
<1>5. who # "ephemeral" /\ to # "ephemeral" /\ to # "another" /\ who # "another"
  BY <1>1, <1>4
<1>6. {"ephemeral", to} = {ephemeral, who} <=> ephemeral = "ephemeral" /\ who = to
  BY <1>1, <1>5
<1>7. QED
  BY <1>2, <1>3, <1>6

\* Whatever changed under way: what a reader takes for valid is what was sealed, what
\* nothing changed is valid, and an envelope opens for the one it was written to, as
\* it was written.  For all authors, contents and hashes that count leading zeros.
THEOREM SealsHold == Leading => (SealSpec => []SealHolds)
<1>1. SealInit => SealInv
  BY DEF SealInit, SealInv, EventInv, EnvelopeInv
<1>2. Leading /\ SealInv /\ [SealNext]_sealVars => SealInv'
  <2> SUFFICES ASSUME Leading, SealInv, [SealNext]_sealVars PROVE SealInv'
    OBVIOUS
  <2>1. ASSUME event = Unmade, NEW a \in Signers, NEW d \in Drafts, NEW now \in 0 .. MaxClock,
               NEW difficulty \in 0 .. MaxDifficulty, SealEvent(a, d, now, difficulty)
        PROVE  SealInv'
    BY <2>1, MakingStep
  <2>2. ASSUME event # Unmade, NEW field \in DOMAIN event, Changes(field) PROVE SealInv'
    BY <2>2, ChangeStep
  <2>3. CASE EventNext
    <3>1. CASE event = Unmade
      BY <2>1, <2>3, <3>1 DEF EventNext
    <3>2. CASE event # Unmade
      BY <2>2, <2>3, <3>2 DEF EventNext
    <3>3. QED
      BY <3>1, <3>2
  <2>4. CASE EnvelopeNext
    BY <2>4, EnvelopeStep
  <2>5. CASE UNCHANGED sealVars
    BY <2>5 DEF sealVars, SealInv, EventInv, EnvelopeInv, Signatures
  <2>6. QED
    BY <2>3, <2>4, <2>5 DEF SealNext
<1>3. Leading /\ SealInv => SealHolds
  <2> SUFFICES ASSUME Leading, SealInv PROVE SealHolds
    OBVIOUS
  <2>1. ASSUME event # Unmade PROVE EventSealed
    <3> SUFFICES ASSUME NEW required \in 0 .. MaxDifficulty, NEW now \in 0 .. MaxClock
                 PROVE  /\ Validates(event, required, now) =>
                             /\ Meaning(event) = Meaning(sealed.event)
                             /\ Zeros(Id(sealed.event), event.nonce) >= required
                        /\ /\ changes = 0 /\ ~ TooLong(event)
                           /\ required <= event.difficulty
                           /\ sealed.clock - now <= Skew - Fuzz
                           => Validates(event, required, now)
      BY DEF EventSealed
    <3>1. required \in Nat /\ now \in Nat
      BY SealAssumption
    <3>2. Validates(event, required, now) =>
            /\ Meaning(event) = Meaning(sealed.event)
            /\ Zeros(Id(sealed.event), event.nonce) >= required
      BY <2>1, <3>1, ValidIsSealed
    <3>3. /\ changes = 0 /\ ~ TooLong(event)
          /\ required <= event.difficulty
          /\ sealed.clock - now <= Skew - Fuzz
          => Validates(event, required, now)
      BY <2>1, <3>1, SealedIsValid
    <3>4. QED
      BY <3>2, <3>3
  <2>2. QED
    BY <2>1, EnvelopeKeeps DEF SealHolds
<1>4. QED
  <2> SUFFICES ASSUME Leading PROVE SealSpec => []SealHolds
    OBVIOUS
  <2>1. SealInv /\ [SealNext]_sealVars => SealInv'
    BY <1>2
  <2>2. SealInv => SealHolds
    BY <1>3
  <2>3. QED
    BY <1>1, <2>1, <2>2, PTL DEF SealSpec

-----------------------------------------------------------------------------
(* The first request to a context has room *)

Stages == {"not loaded", "too long", "overflow", "no room", "drawing", "answered", "invalid", "failed"}

ContextShape ==
  \/ context = NoContext
  \/ \E mb \in Memories, budget \in Budgets, asks \in Nat : \E loaded, cells :
       context = [made |-> TRUE, mb |-> mb, need |-> QwenForRam(mb), budget |-> budget,
                  loaded |-> loaded, cells |-> cells, asks |-> asks]

RequestShape ==
  \/ request = NoRequest
  \/ /\ context.made
     /\ \E n \in Prompts, d \in Nat, s \in Stages : \E text :
          request = [stage |-> s, prompt |-> n, drawn |-> d, text |-> text]

\* Tokens are drawn only within the budget that the context was found to have room for.
WithinBudget ==
  request.stage = "drawing" =>
    request.drawn <= context.budget /\ request.prompt + context.budget <= ContextSize

\* Cells that count from 0.
Counting(n) == [i \in 1 .. n |-> i - 1]

FirstRequest ==
  context.made =>
    /\ context.asks = 0 => context.cells = <<>> /\ request = NoRequest
    /\ context.asks = 1 =>
         /\ request.stage # "no room"
         /\ request.stage \in {"drawing", "answered", "invalid", "failed"} =>
              context.cells = Counting(request.prompt + request.drawn)

RequestInv == ContextShape /\ RequestShape /\ WithinBudget /\ FirstRequest

\* The cells of the next token.
LEMMA CountingOn ==
  ASSUME NEW n \in Nat
  PROVE  /\ Counting(n) \in Seq(Int) /\ Len(Counting(n)) = n
         /\ Append(Counting(n), n) = Counting(n + 1)
         /\ <<>> \o Counting(n) = Counting(n)
<1>1. Counting(n) \in Seq(Int) /\ Len(Counting(n)) = n
  BY DEF Counting
<1>2. Append(Counting(n), n) = Counting(n + 1)
  <2> DEFINE more == Append(Counting(n), n)
  <2>1. more \in Seq(Int) /\ Len(more) = n + 1
    BY <1>1
  <2>2. \A i \in 1 .. n + 1 : more[i] = i - 1
    BY <1>1 DEF Counting
  <2>3. /\ Counting(n + 1) \in Seq(Int) /\ Len(Counting(n + 1)) = n + 1
        /\ \A i \in 1 .. n + 1 : Counting(n + 1)[i] = i - 1
    BY DEF Counting
  <2> HIDE DEF more
  <2>4. more = Counting(n + 1)
    BY <2>1, <2>2, <2>3, SeqEqual
  <2>5. QED
    BY <2>4 DEF more
<1>3. <<>> \o Counting(n) = Counting(n)
  BY <1>1, EmptySeq, ConcatEmptySeq
<1>4. QED
  BY <1>1, <1>2, <1>3

\* The model recommended fits wherever the smallest does.
LEMMA RecommendedFits ==
  ASSUME NEW mb \in Nat, mb >= Q4K(5)
  PROVE  QwenForRam(mb) <= mb
BY DEF QwenForRam, Q4K

LEMMA ContextFields ==
  ASSUME ContextShape, context.made
  PROVE  /\ context.mb \in Memories /\ context.need = QwenForRam(context.mb)
         /\ context.budget \in Budgets /\ context.asks \in Nat
BY DEF ContextShape, NoContext

LEMMA RequestStarts == InferenceInit => RequestInv
BY DEF InferenceInit, RequestInv, ContextShape, RequestShape, WithinBudget, FirstRequest, NoContext, NoRequest

LEMMA AskStep ==
  ASSUME RequestInv, NEW n \in Prompts, Ask(n)
  PROVE  RequestInv'
<1>1. /\ context.made /\ n \in Nat /\ ContextSize \in Nat /\ Budgets \subseteq Nat
  BY InferenceAssumption DEF Ask
<1>2. PICK mb \in Memories, budget \in Budgets, asks \in Nat : \E loaded, cells :
        context = [made |-> TRUE, mb |-> mb, need |-> QwenForRam(mb), budget |-> budget,
                   loaded |-> loaded, cells |-> cells, asks |-> asks]
  <2>1. ContextShape /\ context # NoContext
    BY <1>1 DEF RequestInv, NoContext
  <2>2. QED
    BY <2>1, Zenon DEF ContextShape
<1>3. PICK loaded, cells :
        context = [made |-> TRUE, mb |-> mb, need |-> QwenForRam(mb), budget |-> budget,
                   loaded |-> loaded, cells |-> cells, asks |-> asks]
  BY <1>2
<1>4. PICK stage : stage = Asked(n)
  OBVIOUS
<1>5. PICK after : after = IF stage = "drawing" THEN cells \o Counting(n) ELSE cells
  OBVIOUS
<1>6. /\ request' = [stage |-> stage, prompt |-> n, drawn |-> 0, text |-> <<>>]
      /\ context' = [made |-> TRUE, mb |-> mb, need |-> QwenForRam(mb), budget |-> budget,
                     loaded |-> loaded, cells |-> after, asks |-> asks + 1]
  BY <1>3, <1>4, <1>5 DEF Ask, Counting
<1>7. stage \in Stages
  BY <1>4 DEF Asked, Stages
<1>8. stage = "drawing" => n + budget <= ContextSize
  BY <1>3, <1>4 DEF Asked, Fits
<1>9. ContextShape'
  <2>1. asks + 1 \in Nat
    OBVIOUS
  <2>2. QED
    BY <1>6, <2>1 DEF ContextShape
<1>10. RequestShape'
  BY <1>6, <1>7 DEF RequestShape
<1>11. WithinBudget'
  BY <1>1, <1>6, <1>8 DEF WithinBudget
<1>12. FirstRequest'
  <2>1. n + 0 = n /\ asks + 1 # 0
    BY <1>1
  <2> SUFFICES ASSUME asks + 1 = 1
               PROVE  /\ stage # "no room"
                      /\ stage \in {"drawing", "answered", "invalid", "failed"} =>
                           after = Counting(n)
    <3>1. /\ context'.asks = asks + 1 /\ context'.cells = after /\ request'.stage = stage
          /\ request'.prompt = n /\ request'.drawn = 0
      BY <1>6
    <3>2. QED
      BY <2>1, <3>1 DEF FirstRequest
  <2>2. cells = <<>>
    <3>1. context.asks = 0 /\ context.cells = cells
      BY <1>3
    <3>2. QED
      BY <1>1, <3>1 DEF RequestInv, FirstRequest
  <2>3. stage # "no room"
    <3>1. CASE n + budget <= ContextSize
      <4>1. n <= ContextSize /\ Len(context.cells) = 0
        BY <1>1, <1>3, <2>2, <3>1
      <4>2. Room(n)
        BY <1>1, <4>1 DEF Room
      <4>3. QED
        BY <1>4, <4>2 DEF Asked
    <3>2. CASE ~ (n + budget <= ContextSize)
      BY <1>3, <1>4, <3>2 DEF Asked, Fits
    <3>3. QED
      BY <3>1, <3>2
  <2>4. stage \in {"drawing", "answered", "invalid", "failed"} => stage = "drawing"
    BY <1>4 DEF Asked
  <2>5. QED
    BY <1>1, <1>5, <2>2, <2>3, <2>4, CountingOn
<1>13. QED
  BY <1>9, <1>10, <1>11, <1>12 DEF RequestInv

\* A token is drawn, and fed back if there is a cell for it.
LEMMA DrawStep ==
  ASSUME RequestInv, NEW piece \in Pieces, Draw(piece)
  PROVE  RequestInv'
<1>1. /\ request.stage = "drawing" /\ request.drawn < context.budget
      /\ ContextSize \in Nat /\ Budgets \subseteq Nat /\ Prompts \subseteq Nat
  BY InferenceAssumption DEF Draw, Drawing
<1>2. PICK n \in Prompts, d \in Nat, s \in Stages : \E text :
        request = [stage |-> s, prompt |-> n, drawn |-> d, text |-> text]
  BY <1>1 DEF RequestInv, RequestShape, NoRequest
<1>3. PICK text : request = [stage |-> "drawing", prompt |-> n, drawn |-> d, text |-> text]
  BY <1>1, <1>2
<1>4. context.made
  BY <1>1 DEF RequestInv, RequestShape, NoRequest
<1>5. PICK mb \in Memories, budget \in Budgets, asks \in Nat : \E loaded, cells :
        context = [made |-> TRUE, mb |-> mb, need |-> QwenForRam(mb), budget |-> budget,
                   loaded |-> loaded, cells |-> cells, asks |-> asks]
  BY <1>4 DEF RequestInv, ContextShape, NoContext
<1>6. PICK loaded, cells :
        context = [made |-> TRUE, mb |-> mb, need |-> QwenForRam(mb), budget |-> budget,
                   loaded |-> loaded, cells |-> cells, asks |-> asks]
  BY <1>5
<1>7. PICK stage, after : /\ stage = (IF Room(1) THEN "drawing" ELSE "no room")
                          /\ after = (IF Room(1) THEN Append(cells, n + d) ELSE cells)
  OBVIOUS
<1>8. n + d = Position(n, d + 1)
  BY <1>1 DEF Position
<1>9. PICK said : said = text \o piece
  OBVIOUS
<1>10. /\ request' = [stage |-> stage, prompt |-> n, drawn |-> d + 1, text |-> said]
       /\ context' = [made |-> TRUE, mb |-> mb, need |-> QwenForRam(mb), budget |-> budget,
                      loaded |-> loaded, cells |-> after, asks |-> asks]
  BY <1>3, <1>6, <1>7, <1>8, <1>9 DEF Draw
<1>11. d < budget /\ n + budget <= ContextSize /\ n \in Nat /\ budget \in Nat
  BY <1>1, <1>3, <1>6 DEF RequestInv, WithinBudget
<1>12. ContextShape'
  BY <1>10 DEF ContextShape
<1>13. RequestShape'
  <2>1. d + 1 \in Nat
    OBVIOUS
  <2>2. stage \in Stages
    BY <1>7, Zenon DEF Stages
  <2>3. QED
    BY <1>10, <2>1, <2>2 DEF RequestShape
<1>14. WithinBudget'
  BY <1>10, <1>11 DEF WithinBudget
<1>15. FirstRequest'
  <2> SUFFICES ASSUME asks = 1
               PROVE  stage # "no room" /\ after = Counting(n + (d + 1))
    <3>1. /\ context'.asks = asks /\ context'.cells = after /\ request'.stage = stage
          /\ request'.prompt = n /\ request'.drawn = d + 1
      BY <1>10
    <3>2. asks # 0
      BY <1>3, <1>4, <1>6 DEF RequestInv, FirstRequest, NoRequest
    <3>3. QED
      BY <3>1, <3>2 DEF FirstRequest
  <2>1. cells = Counting(n + d)
    <3>1. context.asks = 1 /\ context.cells = cells /\ request.stage = "drawing"
          /\ request.prompt = n /\ request.drawn = d
      BY <1>3, <1>6
    <3>2. QED
      BY <1>4, <3>1 DEF RequestInv, FirstRequest
  <2>2. n + d \in Nat /\ n + (d + 1) = (n + d) + 1
    BY <1>11
  <2>3. Room(1)
    <3>1. Len(context.cells) = n + d
      BY <1>6, <2>1, <2>2, CountingOn
    <3>2. QED
      BY <1>1, <1>11, <3>1 DEF Room
  <2>4. QED
    BY <1>7, <2>1, <2>2, <2>3, CountingOn
<1>16. QED
  BY <1>12, <1>13, <1>14, <1>15 DEF RequestInv

\* The request ends, with its tokens and cells as they are.
LEMMA EndStep ==
  ASSUME RequestInv, request.stage = "drawing", UNCHANGED context,
         NEW stage \in {"answered", "invalid", "failed"}, NEW said,
         request' = [request EXCEPT !.stage = stage, !.text = said]
  PROVE  RequestInv'
<1>1. PICK n \in Prompts, d \in Nat, s \in Stages : \E text :
        request = [stage |-> s, prompt |-> n, drawn |-> d, text |-> text]
  BY DEF RequestInv, RequestShape, NoRequest
<1>2. PICK text : request = [stage |-> s, prompt |-> n, drawn |-> d, text |-> text]
  BY <1>1
<1>3. request' = [stage |-> stage, prompt |-> n, drawn |-> d, text |-> said]
  BY <1>2
<1>4. context.made /\ stage \in Stages
  <2>1. context.made
    BY DEF RequestInv, RequestShape, NoRequest
  <2>2. stage \in Stages
    BY Zenon DEF Stages
  <2>3. QED
    BY <2>1, <2>2
<1>5. ContextShape'
  BY DEF RequestInv, ContextShape
<1>6. RequestShape' /\ WithinBudget'
  <2>1. context'.made
    BY <1>4
  <2>2. RequestShape'
    <3>1. \E x : request' = [stage |-> stage, prompt |-> n, drawn |-> d, text |-> x]
      BY <1>3
    <3>2. \E m \in Prompts, e \in Nat, t \in Stages : \E x :
            request' = [stage |-> t, prompt |-> m, drawn |-> e, text |-> x]
      <4>1. n \in Prompts /\ d \in Nat /\ stage \in Stages
        BY <1>4
      <4>2. QED
        BY <3>1, <4>1, Zenon
    <3>3. QED
      BY <2>1, <3>2 DEF RequestShape
  <2>3. request'.stage # "drawing"
    BY <1>3
  <2>4. QED
    BY <2>2, <2>3 DEF WithinBudget
<1>7. FirstRequest'
  <2>1. /\ request.stage = "drawing" /\ request'.stage # "no room"
        /\ request'.prompt = request.prompt /\ request'.drawn = request.drawn
    BY <1>2, <1>3
  <2>2. context.asks # 0
    <3>1. request # NoRequest
      BY DEF NoRequest
    <3>2. QED
      BY <1>4, <3>1 DEF RequestInv, FirstRequest
  <2>3. QED
    BY <1>4, <2>1, <2>2 DEF RequestInv, FirstRequest
<1>8. QED
  BY <1>5, <1>6, <1>7 DEF RequestInv

\* The model recommended fits in the memory, and the first request to a context never
\* runs out of cells once it is accepted, for every context, prompt and budget and
\* whatever tokens are drawn.
THEOREM FirstRequestFits == InferenceSpec => []RequestFits
<1>1. RequestInv /\ [InferenceNext]_inferenceVars => RequestInv'
  <2> SUFFICES ASSUME RequestInv, [InferenceNext]_inferenceVars PROVE RequestInv'
    OBVIOUS
  <2>1. ASSUME NEW mb \in Memories, NEW budget \in Budgets, NewContext(mb, budget) PROVE RequestInv'
    <3>1. /\ context' = [made |-> TRUE, mb |-> mb, need |-> QwenForRam(mb), budget |-> budget,
                         loaded |-> FALSE, cells |-> <<>>, asks |-> 0]
          /\ request' = NoRequest
      BY <2>1 DEF NewContext
    <3>2. QED
      BY <3>1 DEF RequestInv, ContextShape, RequestShape, WithinBudget, FirstRequest, NoRequest
  <2>2. CASE Load
    <3>1. context.made /\ request' = NoRequest
          /\ context' = [context EXCEPT !.loaded = TRUE, !.cells = <<>>, !.asks = 0]
      BY <2>2 DEF Load
    <3>2. PICK mb \in Memories, budget \in Budgets, asks \in Nat : \E loaded, cells :
            context = [made |-> TRUE, mb |-> mb, need |-> QwenForRam(mb), budget |-> budget,
                       loaded |-> loaded, cells |-> cells, asks |-> asks]
      BY <3>1 DEF RequestInv, ContextShape, NoContext
    <3>3. context' = [made |-> TRUE, mb |-> mb, need |-> QwenForRam(mb), budget |-> budget,
                      loaded |-> TRUE, cells |-> <<>>, asks |-> 0]
      <4>1. PICK loaded, cells :
              context = [made |-> TRUE, mb |-> mb, need |-> QwenForRam(mb), budget |-> budget,
                         loaded |-> loaded, cells |-> cells, asks |-> asks]
        BY <3>2
      <4>2. PICK r : r = [context EXCEPT !.loaded = TRUE]
        OBVIOUS
      <4>3. r = [made |-> TRUE, mb |-> mb, need |-> QwenForRam(mb), budget |-> budget,
                 loaded |-> TRUE, cells |-> cells, asks |-> asks]
        BY <4>1, <4>2
      <4>4. PICK s : s = [r EXCEPT !.cells = <<>>]
        OBVIOUS
      <4>5. s = [made |-> TRUE, mb |-> mb, need |-> QwenForRam(mb), budget |-> budget,
                 loaded |-> TRUE, cells |-> <<>>, asks |-> asks]
        BY <4>3, <4>4
      <4>6. context' = [s EXCEPT !.asks = 0]
        BY <3>1, <4>2, <4>4
      <4>7. QED
        BY <4>5, <4>6
    <3>4. ContextShape'
      BY <3>3 DEF ContextShape
    <3>5. QED
      BY <3>1, <3>3, <3>4 DEF RequestInv, RequestShape, WithinBudget, FirstRequest, NoRequest
  <2>3. ASSUME NEW n \in Prompts, Ask(n) PROVE RequestInv'
    BY <2>3, AskStep
  <2>4. ASSUME NEW piece \in Pieces, DrawLast(piece) PROVE RequestInv'
    <3>1. PICK said : said = request.text \o piece
      OBVIOUS
    <3>2. /\ request.stage = "drawing" /\ UNCHANGED context
          /\ request' = [request EXCEPT !.stage = Concluded(said), !.text = said]
      BY <2>4, <3>1 DEF DrawLast, Drawing
    <3>3. Concluded(said) \in {"answered", "invalid", "failed"}
      BY DEF Concluded
    <3>4. QED
      BY <3>2, <3>3, EndStep
  <2>5. ASSUME NEW piece \in Pieces, Draw(piece) PROVE RequestInv'
    BY <2>5, DrawStep
  <2>6. CASE DrawFails \/ Conclude
    <3>1. PICK stage : stage = IF DrawFails THEN "failed" ELSE Concluded(request.text)
      OBVIOUS
    <3>2. stage \in {"answered", "invalid", "failed"}
      BY <3>1 DEF Concluded
    <3>3. /\ request.stage = "drawing" /\ UNCHANGED context
          /\ request' = [request EXCEPT !.stage = stage]
      BY <2>6, <3>1 DEF DrawFails, Conclude, Drawing
    <3>4. request' = [request EXCEPT !.stage = stage, !.text = request.text]
      BY <3>3 DEF RequestInv, RequestShape, NoRequest
    <3>5. QED
      BY <3>2, <3>3, <3>4, EndStep
  <2>7. CASE UNCHANGED inferenceVars
    BY <2>7 DEF inferenceVars, RequestInv, ContextShape, RequestShape, WithinBudget, FirstRequest
  <2>8. QED
    BY <2>1, <2>2, <2>3, <2>4, <2>5, <2>6, <2>7 DEF InferenceNext
<1>2. RequestInv => RequestFits
  <2> SUFFICES ASSUME RequestInv PROVE RequestFits
    OBVIOUS
  <2>1. context.made /\ context.mb >= Q4K(5) => context.need <= context.mb
    BY ContextFields, RecommendedFits, InferenceAssumption DEF RequestInv
  <2>2. QED
    BY <2>1 DEF RequestInv, FirstRequest, RequestFits, Counting
<1>3. QED
  BY RequestStarts, <1>1, <1>2, PTL DEF InferenceSpec

LEMMA StepsStay ==
  ASSUME NEW D, NEW n \in Nat, NEW g, g[0] \in D, \A k \in 1 .. n : g[k - 1] \in D => g[k] \in D
  PROVE  \A k \in 0 .. n : g[k] \in D
<1> DEFINE G == {k \in Nat : k <= n => g[k] \in D}
<1>1. 0 \in G
  OBVIOUS
<1>2. ASSUME NEW k \in G PROVE k + 1 \in G
  <2>1. k \in Nat /\ (k + 1) - 1 = k
    OBVIOUS
  <2>2. ASSUME k + 1 <= n PROVE g[k + 1] \in D
    <3>1. PICK j : j = k + 1
      OBVIOUS
    <3>2. j \in 1 .. n /\ j - 1 = k /\ k <= n
      BY <2>1, <2>2, <3>1
    <3>3. g[j - 1] \in D
      BY <3>2
    <3>4. QED
      BY <3>1, <3>2, <3>3
  <2>3. QED
    BY <2>1, <2>2
<1>3. G \in SUBSET Nat
  OBVIOUS
<1>4. \A k \in Nat : k \in G
  <2> HIDE DEF G
  <2>1. QED
    BY <1>1, <1>2, <1>3, UpFrom0
<1>5. QED
  BY <1>4

-----------------------------------------------------------------------------
(* The wire form: reading what was written *)

Readers == [at : Nat, got : Seq(Nat \cup Seq(Nat)), ok : BOOLEAN]

LEMMA TakeType ==
  ASSUME NEW s \in Seq(Nat), NEW r \in Readers
  PROVE  Take(s, r) \in Readers /\ TakeString(s, r) \in Readers
<1>1. r.at \in Nat /\ r.got \in Seq(Nat \cup Seq(Nat)) /\ r.ok \in BOOLEAN /\ Len(s) \in Nat
  BY DEF Readers
<1>2. Failed(r) \in Readers
  BY DEF Failed, Readers
<1>3. ASSUME r.at < Len(s) PROVE s[r.at + 1] \in Nat
  BY <1>1, <1>3
<1>4. Take(s, r) \in Readers
  <2>1. CASE r.ok /\ r.at < Len(s)
    <3>1. PICK v \in Nat : v = s[r.at + 1]
      BY <1>3, <2>1
    <3>2. Append(r.got, v) \in Seq(Nat \cup Seq(Nat))
      BY <1>1
    <3>3. PICK a \in Nat : a = r.at
      BY <1>1
    <3>4. a + 1 \in Nat
      OBVIOUS
    <3>5. Take(s, r) = [at |-> a + 1, got |-> Append(r.got, v), ok |-> TRUE]
      BY <2>1, <3>1, <3>3 DEF Take, Readers
    <3>6. QED
      BY <3>2, <3>4, <3>5 DEF Readers
  <2>2. QED
    BY <1>2, <2>1 DEF Take
<1>5. TakeString(s, r) \in Readers
  <2>1. CASE r.ok /\ r.at < Len(s) /\ r.at + 1 + s[r.at + 1] <= Len(s)
    <3>1. PICK v \in Nat, a \in Nat : v = s[r.at + 1] /\ a = r.at
      BY <1>1, <1>3, <2>1
    <3>2. PICK t : t = SubSeq(s, a + 2, a + 1 + v)
      OBVIOUS
    <3>3. t \in Seq(Nat)
      <4>1. PICK l \in Nat : l = Len(s)
        BY <1>1
      <4>2. a + 1 + v <= l
        BY <2>1, <3>1, <4>1
      <4>3. \A i \in 1 .. (a + 1 + v) - (a + 2) + 1 : s[(a + 2) + i - 1] \in Nat
        BY <4>1, <4>2
      <4>4. QED
        BY <3>2, <4>1, <4>2, <4>3
    <3>4. Append(r.got, t) \in Seq(Nat \cup Seq(Nat))
      BY <1>1, <3>3
    <3>5. a + 1 + v \in Nat
      BY <3>1
    <3>6. TakeString(s, r) = [at |-> a + 1 + v, got |-> Append(r.got, t), ok |-> TRUE]
      BY <2>1, <3>1, <3>2 DEF TakeString, Readers
    <3>7. QED
      BY <3>4, <3>5, <3>6 DEF Readers
  <2>2. QED
    BY <1>2, <2>1 DEF TakeString
<1>6. QED
  BY <1>4, <1>5

\* The readings that Times makes, one after the other.
CellRuns(f, n, s, r) == f \in [0 .. n -> Readers] /\ f[0] = r /\ \A k \in 1 .. n : f[k] = Take(s, f[k - 1])
StringRuns(f, n, s, r) == f \in [0 .. n -> Readers] /\ f[0] = r /\ \A k \in 1 .. n : f[k] = TakeString(s, f[k - 1])

LEMMA CellTimes ==
  ASSUME NEW s \in Seq(Nat), NEW r \in Readers, NEW n \in Nat
  PROVE  \E f : CellRuns(f, n, s, r) /\ Times(n, Take, s, r) = f[n]
<1>1. PICK g : g = [k \in 1 .. n |-> [x \in Readers |-> Take(s, x)]]
  OBVIOUS
<1>2. g \in [1 .. n -> [Readers -> Readers]]
  BY <1>1, TakeType
<1>3. Stepping(Readers, n, g, r)
  BY <1>2, StepByStep, Zenon
<1>4. PICK h \in [0 .. n -> Readers] : h[0] = r /\ \A k \in 1 .. n : h[k] = g[k][h[k - 1]]
  BY <1>3 DEF Stepping
<1>5. ASSUME NEW k \in 0 .. n PROVE h[k] = IF k = 0 THEN r ELSE Take(s, h[k - 1])
  <2>1. CASE k = 0
    BY <1>4, <2>1
  <2>2. CASE k # 0
    <3>1. k \in 1 .. n /\ k - 1 \in 0 .. n
      BY <2>2
    <3>2. h[k - 1] \in Readers
      BY <3>1
    <3>3. QED
      BY <1>1, <1>4, <2>2, <3>1, <3>2
  <2>3. QED
    BY <2>1, <2>2
<1>6. h = [k \in 0 .. n |-> IF k = 0 THEN r ELSE Take(s, h[k - 1])]
  BY <1>5
<1>7. PICK f : /\ f = [k \in 0 .. n |-> IF k = 0 THEN r ELSE Take(s, f[k - 1])]
               /\ Times(n, Take, s, r) = f[n]
  BY <1>6 DEF Times
<1>8. f[0] = r /\ \A k \in 1 .. n : f[k] = Take(s, f[k - 1])
  BY <1>7
<1>9. \A k \in 1 .. n : f[k - 1] \in Readers => f[k] \in Readers
  BY <1>8, TakeType
<1>10. \A k \in 0 .. n : f[k] \in Readers
  BY <1>8, <1>9, StepsStay
<1>11. f \in [0 .. n -> Readers]
  <2>1. DOMAIN f = 0 .. n /\ f = [k \in 0 .. n |-> f[k]]
    BY <1>7
  <2>2. QED
    BY <1>10, <2>1
<1>12. QED
  BY <1>7, <1>8, <1>11 DEF CellRuns

LEMMA StringTimes ==
  ASSUME NEW s \in Seq(Nat), NEW r \in Readers, NEW n \in Nat
  PROVE  \E f : StringRuns(f, n, s, r) /\ Times(n, TakeString, s, r) = f[n]
<1>1. PICK g : g = [k \in 1 .. n |-> [x \in Readers |-> TakeString(s, x)]]
  OBVIOUS
<1>2. g \in [1 .. n -> [Readers -> Readers]]
  BY <1>1, TakeType
<1>3. Stepping(Readers, n, g, r)
  BY <1>2, StepByStep, Zenon
<1>4. PICK h \in [0 .. n -> Readers] : h[0] = r /\ \A k \in 1 .. n : h[k] = g[k][h[k - 1]]
  BY <1>3 DEF Stepping
<1>5. ASSUME NEW k \in 0 .. n PROVE h[k] = IF k = 0 THEN r ELSE TakeString(s, h[k - 1])
  <2>1. CASE k = 0
    BY <1>4, <2>1
  <2>2. CASE k # 0
    <3>1. k \in 1 .. n /\ k - 1 \in 0 .. n
      BY <2>2
    <3>2. h[k - 1] \in Readers
      BY <3>1
    <3>3. QED
      BY <1>1, <1>4, <2>2, <3>1, <3>2
  <2>3. QED
    BY <2>1, <2>2
<1>6. h = [k \in 0 .. n |-> IF k = 0 THEN r ELSE TakeString(s, h[k - 1])]
  BY <1>5
<1>7. PICK f : /\ f = [k \in 0 .. n |-> IF k = 0 THEN r ELSE TakeString(s, f[k - 1])]
               /\ Times(n, TakeString, s, r) = f[n]
  BY <1>6 DEF Times
<1>8. f[0] = r /\ \A k \in 1 .. n : f[k] = TakeString(s, f[k - 1])
  BY <1>7
<1>9. \A k \in 1 .. n : f[k - 1] \in Readers => f[k] \in Readers
  BY <1>8, TakeType
<1>10. \A k \in 0 .. n : f[k] \in Readers
  BY <1>8, <1>9, StepsStay
<1>11. f \in [0 .. n -> Readers]
  <2>1. DOMAIN f = 0 .. n /\ f = [k \in 0 .. n |-> f[k]]
    BY <1>7
  <2>2. QED
    BY <1>10, <2>1
<1>12. QED
  BY <1>7, <1>8, <1>11 DEF StringRuns

\* A reader that has failed reads no more.
LEMMA FailuresLast ==
  ASSUME NEW s \in Seq(Nat), NEW r \in Readers, ~r.ok, NEW n \in Nat
  PROVE  ~Times(n, Take, s, r).ok /\ ~Times(n, TakeString, s, r).ok
<1> DEFINE Stuck == {x \in Readers : ~x.ok}
<1>1. \A x \in Stuck : Take(s, x) \in Stuck /\ TakeString(s, x) \in Stuck
  BY DEF Take, TakeString, Failed, Readers
<1>2. ~Times(n, Take, s, r).ok
  <2>1. PICK f : CellRuns(f, n, s, r) /\ Times(n, Take, s, r) = f[n]
    BY CellTimes
  <2>2. f[0] \in Stuck /\ \A k \in 1 .. n : f[k - 1] \in Stuck => f[k] \in Stuck
    BY <1>1, <2>1 DEF CellRuns
  <2>3. \A k \in 0 .. n : f[k] \in Stuck
    <3> HIDE DEF Stuck
    <3>1. QED
      BY <2>2, StepsStay
  <2>4. n \in 0 .. n
    OBVIOUS
  <2>5. QED
    BY <2>1, <2>3, <2>4
<1>3. ~Times(n, TakeString, s, r).ok
  <2>1. PICK f : StringRuns(f, n, s, r) /\ Times(n, TakeString, s, r) = f[n]
    BY StringTimes
  <2>2. f[0] \in Stuck /\ \A k \in 1 .. n : f[k - 1] \in Stuck => f[k] \in Stuck
    BY <1>1, <2>1 DEF StringRuns
  <2>3. \A k \in 0 .. n : f[k] \in Stuck
    <3> HIDE DEF Stuck
    <3>1. QED
      BY <2>2, StepsStay
  <2>4. n \in 0 .. n
    OBVIOUS
  <2>5. QED
    BY <2>1, <2>3, <2>4
<1>4. QED
  BY <1>2, <1>3

LEMMA SameCells ==
  ASSUME NEW B, NEW x \in Seq(B), NEW y \in Seq(B), Len(x) = Len(y), \A i \in 1 .. Len(x) : x[i] = y[i]
  PROVE  x = y
OBVIOUS

\* The k cells after place a.
Stretch(s, a, k) == SubSeq(s, a + 1, a + k)

LEMMA Stretches ==
  ASSUME NEW B, NEW s \in Seq(B), NEW a \in Nat, NEW k \in Nat, a + k <= Len(s)
  PROVE  /\ Stretch(s, a, k) \in Seq(B) /\ Len(Stretch(s, a, k)) = k
         /\ \A i \in 1 .. k : Stretch(s, a, k)[i] = s[a + i]
<1>1. PICK l \in Nat : l = Len(s)
  OBVIOUS
<1>2. PICK m \in Int, n \in Int : m = a + 1 /\ n = a + k
  OBVIOUS
<1>3. \A i \in m .. n : i \in 1 .. l
  BY <1>1, <1>2
<1>4. \A i \in m .. n : s[i] \in B
  BY <1>1, <1>3
<1>5. /\ SubSeq(s, m, n) \in Seq(B)
      /\ Len(SubSeq(s, m, n)) = IF m <= n THEN n - m + 1 ELSE 0
      /\ \A i \in 1 .. n - m + 1 : SubSeq(s, m, n)[i] = s[m + i - 1]
  BY <1>4, SubSeqProperties
<1>6. PICK w : w = SubSeq(s, m, n)
  OBVIOUS
<1>7. w \in Seq(B) /\ Len(w) = k
  <2>1. w \in Seq(B) /\ Len(w) = IF m <= n THEN n - m + 1 ELSE 0
    BY <1>5, <1>6, Zenon
  <2>2. (IF m <= n THEN n - m + 1 ELSE 0) = k
    BY <1>2
  <2>3. QED
    BY <2>1, <2>2, Zenon
<1>8. ASSUME NEW i \in 1 .. k PROVE w[i] = s[a + i]
  <2>1. i \in 1 .. n - m + 1 /\ m + i - 1 = a + i
    BY <1>2
  <2>2. QED
    BY <1>5, <1>6, <2>1
<1>9. QED
  BY <1>2, <1>6, <1>7, <1>8 DEF Stretch

LEMMA StretchGrows ==
  ASSUME NEW B, NEW s \in Seq(B), NEW a \in Nat, NEW k \in Nat, a + k < Len(s)
  PROVE  Append(Stretch(s, a, k), s[a + k + 1]) = Stretch(s, a, k + 1)
<1>1. PICK l \in Nat : l = Len(s)
  OBVIOUS
<1>2. PICK u, v : u = Stretch(s, a, k) /\ v = Stretch(s, a, k + 1)
  OBVIOUS
<1>3. k + 1 \in Nat /\ a + k <= l /\ a + (k + 1) <= l
  BY <1>1
<1>4. u \in Seq(B) /\ Len(u) = k /\ \A i \in 1 .. k : u[i] = s[a + i]
  BY <1>1, <1>2, <1>3, Stretches
<1>5. v \in Seq(B) /\ Len(v) = k + 1 /\ \A i \in 1 .. k + 1 : v[i] = s[a + i]
  BY <1>1, <1>2, <1>3, Stretches
<1>6. PICK x : x = s[a + k + 1]
  OBVIOUS
<1>7. a + k + 1 \in 1 .. l /\ a + k + 1 = a + (k + 1) /\ k + 1 \in 1 .. k + 1
  BY <1>1, <1>3
<1>8. x \in B /\ v[k + 1] = x
  BY <1>1, <1>5, <1>6, <1>7
<1>9. PICK w : w = Append(u, x)
  OBVIOUS
<1>10. w \in Seq(B) /\ Len(w) = k + 1 /\ (\A i \in 1 .. k : w[i] = u[i]) /\ w[k + 1] = x
  BY <1>4, <1>8, <1>9
<1>11. ASSUME NEW i \in 1 .. k + 1 PROVE w[i] = v[i]
  <2>1. CASE i = k + 1
    BY <1>8, <1>10, <2>1
  <2>2. CASE i # k + 1
    <3>1. i \in 1 .. k
      BY <2>2
    <3>2. QED
      BY <1>4, <1>5, <1>10, <3>1
  <2>3. QED
    BY <2>1, <2>2
<1>12. w = v
  BY <1>5, <1>10, <1>11
<1>13. QED
  BY <1>2, <1>6, <1>9, <1>12

\* A reading that has not failed.
At(a, w) == [at |-> a, got |-> w, ok |-> TRUE]

LEMMA AtReads ==
  ASSUME NEW a \in Nat, NEW w \in Seq(Nat \cup Seq(Nat))
  PROVE  At(a, w) \in Readers /\ At(a, w).ok /\ At(a, w).at = a /\ At(a, w).got = w
BY DEF At, Readers

LEMMA TakeReads ==
  ASSUME NEW s \in Seq(Nat), NEW a \in Nat, NEW w \in Seq(Nat \cup Seq(Nat))
  PROVE  /\ a < Len(s) => Take(s, At(a, w)) = At(a + 1, Append(w, s[a + 1]))
         /\ ~(a < Len(s)) => ~Take(s, At(a, w)).ok
<1>1. PICK r : r = At(a, w)
  OBVIOUS
<1>2. r = [at |-> a, got |-> w, ok |-> TRUE] /\ r.ok /\ r.at = a /\ r.got = w
  BY <1>1 DEF At
<1>3. ASSUME a < Len(s) PROVE Take(s, r) = At(a + 1, Append(w, s[a + 1]))
  BY <1>2, <1>3 DEF Take, At
<1>4. ASSUME ~(a < Len(s)) PROVE ~Take(s, r).ok
  BY <1>2, <1>4 DEF Take, Failed
<1>5. QED
  BY <1>1, <1>3, <1>4

\* n cells are read one after the other, or the reading fails.
LEMMA CellsRead ==
  ASSUME NEW s \in Seq(Nat), NEW a \in Nat, a <= Len(s), NEW n \in Nat
  PROVE  /\ a + n <= Len(s) => Times(n, Take, s, At(a, <<>>)) = At(a + n, Stretch(s, a, n))
         /\ ~(a + n <= Len(s)) => ~Times(n, Take, s, At(a, <<>>)).ok
<1>1. At(a, <<>>) \in Readers
  BY AtReads, EmptySeq
<1>2. PICK f : CellRuns(f, n, s, At(a, <<>>)) /\ Times(n, Take, s, At(a, <<>>)) = f[n]
  BY <1>1, CellTimes
<1>3. f[0] = At(a, <<>>) /\ \A k \in 1 .. n : f[k] = Take(s, f[k - 1])
  BY <1>2 DEF CellRuns
<1>4. PICK l \in Nat : l = Len(s)
  OBVIOUS
<1> DEFINE Read(k) == /\ a + k <= l => f[k] = At(a + k, Stretch(s, a, k))
                      /\ ~(a + k <= l) => ~f[k].ok
           G == {k \in Nat : k <= n => Read(k)}
<1>5. 0 \in G
  <2>1. SubSeq(s, a + 1, a) = <<>>
    BY SubSeqEmpty
  <2>2. a + 0 = a /\ Stretch(s, a, 0) = <<>>
    BY <2>1 DEF Stretch
  <2>3. a + 0 <= l
    BY <1>4, <2>2
  <2>4. f[0] = At(a + 0, Stretch(s, a, 0))
    BY <1>3, <2>2
  <2>5. QED
    BY <2>3, <2>4
<1>6. ASSUME NEW k \in G PROVE k + 1 \in G
  <2>1. k \in Nat /\ (k + 1) - 1 = k
    OBVIOUS
  <2>2. ASSUME k + 1 <= n PROVE Read(k + 1)
    <3>1. PICK j : j = k + 1
      OBVIOUS
    <3>2. j \in 1 .. n /\ j - 1 = k /\ k <= n
      BY <2>1, <2>2, <3>1
    <3>3. f[j] = Take(s, f[k]) /\ Read(k)
      BY <1>3, <3>2
    <3>4. PICK b \in Nat : b = a + k
      BY <2>1
    <3>5. PICK w : w = Stretch(s, a, k)
      OBVIOUS
    <3>6. ASSUME b <= l PROVE f[k] = At(b, w) /\ w \in Seq(Nat \cup Seq(Nat))
      <4>1. w \in Seq(Nat)
        BY <1>4, <2>1, <3>4, <3>5, <3>6, Stretches
      <4>2. QED
        BY <3>3, <3>4, <3>5, <3>6, <4>1
    <3>7. CASE b < l
      <4>1. f[k] = At(b, w) /\ w \in Seq(Nat \cup Seq(Nat))
        BY <1>4, <3>4, <3>6, <3>7
      <4>2. f[j] = At(b + 1, Append(w, s[b + 1]))
        BY <1>4, <3>3, <3>7, <4>1, TakeReads
      <4>3. Append(w, s[b + 1]) = Stretch(s, a, j)
        BY <1>4, <2>1, <3>1, <3>4, <3>5, <3>7, StretchGrows
      <4>4. a + j = b + 1 /\ a + j <= l
        BY <1>4, <2>1, <3>1, <3>4, <3>7
      <4>5. QED
        BY <3>1, <4>2, <4>3, <4>4
    <3>8. CASE b = l
      <4>1. f[k] = At(b, w) /\ w \in Seq(Nat \cup Seq(Nat))
        BY <1>4, <3>4, <3>6, <3>8
      <4>2. ~f[j].ok
        BY <1>4, <3>3, <3>8, <4>1, TakeReads
      <4>3. ~(a + j <= l)
        BY <1>4, <2>1, <3>1, <3>4, <3>8
      <4>4. QED
        BY <3>1, <4>2, <4>3
    <3>9. CASE b > l
      <4>1. ~f[k].ok /\ f[k] \in Readers
        BY <1>2, <1>4, <2>1, <3>2, <3>3, <3>4, <3>9 DEF CellRuns
      <4>2. ~f[j].ok
        BY <3>3, <4>1 DEF Take, Failed, Readers
      <4>3. ~(a + j <= l)
        BY <1>4, <2>1, <3>1, <3>4, <3>9
      <4>4. QED
        BY <3>1, <4>2, <4>3
    <3>10. QED
      BY <1>4, <3>4, <3>7, <3>8, <3>9
  <2>3. QED
    BY <2>1, <2>2
<1>7. G \in SUBSET Nat
  OBVIOUS
<1>8. n \in G
  <2> HIDE DEF G
  <2>1. QED
    BY <1>5, <1>6, <1>7, UpFrom0
<1>9. QED
  BY <1>2, <1>4, <1>8

\* A packet that begins like an encoded event, as far as it goes.
Begins(s, E) == s \in Seq(Nat) /\ \A i \in 1 .. Len(s) : i <= Len(E) => s[i] = E[i]

\* A string with its length, from the place after a on.
Holds(E, a, t) == a + 1 + Len(t) <= Len(E) /\ E[a + 1] = Len(t) /\ \A i \in 1 .. Len(t) : E[a + 1 + i] = t[i]

LEMMA StringReads ==
  ASSUME NEW s, NEW E \in Seq(Nat), Begins(s, E), NEW a \in Nat, a <= Len(s),
         NEW w \in Seq(Nat \cup Seq(Nat)), NEW t \in Seq(Nat), Holds(E, a, t)
  PROVE  /\ a + 1 + Len(t) <= Len(s) => TakeString(s, At(a, w)) = At(a + 1 + Len(t), Append(w, t))
         /\ ~(a + 1 + Len(t) <= Len(s)) => ~TakeString(s, At(a, w)).ok
<1>1. s \in Seq(Nat) /\ \A i \in 1 .. Len(s) : i <= Len(E) => s[i] = E[i]
  BY DEF Begins
<1>2. PICK l \in Nat, m \in Nat, n \in Nat : l = Len(s) /\ m = Len(E) /\ n = Len(t)
  BY <1>1
<1>3. a + 1 + n <= m /\ E[a + 1] = n /\ \A i \in 1 .. n : E[a + 1 + i] = t[i]
  BY <1>2 DEF Holds
<1>4. PICK r : r = At(a, w)
  OBVIOUS
<1>5. r = [at |-> a, got |-> w, ok |-> TRUE] /\ r.ok /\ r.at = a /\ r.got = w
  BY <1>4 DEF At
<1>6. ASSUME a < l PROVE s[a + 1] = n
  <2>1. a + 1 \in 1 .. l /\ a + 1 <= m
    BY <1>2, <1>3, <1>6
  <2>2. QED
    BY <1>1, <1>2, <1>3, <2>1
<1>7. ASSUME a + 1 + n <= l PROVE TakeString(s, r) = At(a + 1 + n, Append(w, t))
  <2>1. a < l /\ a + 1 \in Nat
    BY <1>2, <1>7
  <2>2. s[a + 1] = n
    BY <1>6, <2>1
  <2>3. PICK x : x = Stretch(s, a + 1, n)
    OBVIOUS
  <2>4. x \in Seq(Nat) /\ Len(x) = n /\ \A i \in 1 .. n : x[i] = s[a + 1 + i]
    <3>1. PICK b \in Nat : b = a + 1
      OBVIOUS
    <3>2. b + n <= Len(s)
      BY <1>2, <1>7, <3>1
    <3>3. /\ Stretch(s, b, n) \in Seq(Nat) /\ Len(Stretch(s, b, n)) = n
          /\ \A i \in 1 .. n : Stretch(s, b, n)[i] = s[b + i]
      <4>1. s \in Seq(Nat) /\ b \in Nat /\ n \in Nat
        BY <1>1
      <4>2. QED
        BY <3>2, <4>1, Stretches
    <3>4. QED
      BY <2>3, <3>1, <3>3
  <2>5. ASSUME NEW i \in 1 .. n PROVE x[i] = t[i]
    <3>1. a + 1 + i \in 1 .. l /\ a + 1 + i <= m
      BY <1>2, <1>3, <1>7
    <3>2. s[a + 1 + i] = E[a + 1 + i]
      BY <1>1, <1>2, <3>1
    <3>3. QED
      BY <1>3, <2>4, <3>2
  <2>6. x = t
    <3>1. Len(x) = Len(t) /\ \A i \in 1 .. Len(x) : x[i] = t[i]
      BY <1>2, <2>4, <2>5
    <3>2. x \in Seq(Nat) /\ t \in Seq(Nat)
      BY <2>4
    <3>3. QED
      BY <3>1, <3>2, SameCells, Zenon
  <2>7. SubSeq(s, a + 2, a + 1 + n) = x
    BY <2>3, <1>2 DEF Stretch
  <2>8. QED
    BY <1>2, <1>5, <1>7, <2>1, <2>2, <2>6, <2>7 DEF TakeString, At
<1>8. ASSUME ~(a + 1 + n <= l) PROVE ~TakeString(s, r).ok
  <2>1. CASE a < l
    <3>1. s[a + 1] = n
      BY <1>6, <2>1
    <3>2. TakeString(s, r) = Failed(r)
      BY <1>2, <1>5, <1>8, <3>1 DEF TakeString
    <3>3. QED
      BY <1>5, <3>2 DEF Failed
  <2>2. CASE ~(a < l)
    BY <1>2, <1>5, <2>2 DEF TakeString, Failed
  <2>3. QED
    BY <2>1, <2>2
<1>9. QED
  BY <1>2, <1>4, <1>7, <1>8

\* Strings written one after the other from place a on: string k begins after place Q[k - 1].
Written(E, L, Q) ==
  /\ Q \in [0 .. Len(L) -> Nat]
  /\ \A k \in 1 .. Len(L) : Q[k] = Q[k - 1] + 1 + Len(L[k]) /\ Holds(E, Q[k - 1], L[k])

\* They are read one after the other, or the reading fails.
LEMMA StringsRead ==
  ASSUME NEW s, NEW E \in Seq(Nat), Begins(s, E), NEW L \in Seq(Seq(Nat)), NEW Q, Written(E, L, Q),
         Q[0] <= Len(s)
  PROVE  /\ Q[Len(L)] <= Len(s) => Times(Len(L), TakeString, s, At(Q[0], <<>>)) = At(Q[Len(L)], L)
         /\ ~(Q[Len(L)] <= Len(s)) => ~Times(Len(L), TakeString, s, At(Q[0], <<>>)).ok
<1>1. s \in Seq(Nat)
  BY DEF Begins
<1>2. PICK n \in Nat, l \in Nat : n = Len(L) /\ l = Len(s)
  BY <1>1
<1>3. /\ \A k \in 0 .. n : Q[k] \in Nat
      /\ \A k \in 1 .. n : Q[k] = Q[k - 1] + 1 + Len(L[k]) /\ Holds(E, Q[k - 1], L[k]) /\ L[k] \in Seq(Nat)
  <2>1. \A k \in 1 .. n : L[k] \in Seq(Nat)
    BY <1>2
  <2>2. \A k \in 0 .. n : Q[k] \in Nat
    BY <1>2 DEF Written
  <2>3. \A k \in 1 .. n : Q[k] = Q[k - 1] + 1 + Len(L[k]) /\ Holds(E, Q[k - 1], L[k])
    BY <1>2, Zenon DEF Written
  <2>4. QED
    BY <2>1, <2>2, <2>3
<1>4. 0 \in 0 .. n /\ Q[0] \in Nat
  BY <1>3
<1>5. At(Q[0], <<>>) \in Readers
  BY <1>4, AtReads, EmptySeq
<1>6. PICK f : StringRuns(f, n, s, At(Q[0], <<>>)) /\ Times(n, TakeString, s, At(Q[0], <<>>)) = f[n]
  BY <1>1, <1>5, StringTimes
<1>7. f[0] = At(Q[0], <<>>) /\ \A k \in 1 .. n : f[k] = TakeString(s, f[k - 1])
  BY <1>6 DEF StringRuns
<1> DEFINE Read(k) == /\ Q[k] <= l => f[k] = At(Q[k], Stretch(L, 0, k))
                      /\ ~(Q[k] <= l) => ~f[k].ok
           G == {k \in Nat : k <= n => Read(k)}
<1>8. 0 \in G
  <2>1. SubSeq(L, 0 + 1, 0 + 0) = <<>>
    BY SubSeqEmpty
  <2>2. Stretch(L, 0, 0) = <<>>
    BY <2>1 DEF Stretch
  <2>3. QED
    BY <1>2, <1>7, <2>2
<1>9. ASSUME NEW k \in G PROVE k + 1 \in G
  <2>1. k \in Nat /\ (k + 1) - 1 = k
    OBVIOUS
  <2>2. ASSUME k + 1 <= n PROVE Read(k + 1)
    <3>1. PICK j : j = k + 1
      OBVIOUS
    <3>2. j \in 1 .. n /\ j - 1 = k /\ k <= n /\ k \in 0 .. n /\ j \in 0 .. n
      BY <2>1, <2>2, <3>1
    <3>3. f[j] = TakeString(s, f[k]) /\ Read(k)
      BY <1>7, <3>2
    <3>4. PICK a \in Nat, c \in Nat : a = Q[k] /\ c = Q[j]
      BY <1>3, <3>2
    <3>5. PICK t \in Seq(Nat) : t = L[j]
      BY <1>3, <3>2
    <3>6. Len(t) \in Nat /\ c = a + 1 + Len(t) /\ Holds(E, a, t)
      BY <1>3, <3>2, <3>4, <3>5
    <3>7. PICK w : w = Stretch(L, 0, k)
      OBVIOUS
    <3>8. w \in Seq(Seq(Nat))
      BY <1>2, <2>1, <3>2, <3>7, Stretches
    <3>9. w \in Seq(Nat \cup Seq(Nat))
      BY <3>8
    <3>10. CASE a <= l
      <4>1. f[k] = At(a, w)
        BY <3>3, <3>4, <3>7, <3>10
      <4>2. /\ c <= l => f[j] = At(c, Append(w, t))
            /\ ~(c <= l) => ~f[j].ok
        <5>1. f[j] = TakeString(s, At(a, w))
          BY <3>3, <4>1
        <5>2. a <= Len(s)
          BY <1>2, <3>10
        <5>3. /\ a + 1 + Len(t) <= Len(s) => TakeString(s, At(a, w)) = At(a + 1 + Len(t), Append(w, t))
              /\ ~(a + 1 + Len(t) <= Len(s)) => ~TakeString(s, At(a, w)).ok
          BY <3>6, <3>9, <5>2, StringReads
        <5>4. QED
          BY <1>2, <3>6, <5>1, <5>3
      <4>3. Append(w, t) = Stretch(L, 0, j)
        <5>1. 0 + k < Len(L) /\ 0 + k + 1 = j
          BY <1>2, <3>2
        <5>2. Append(Stretch(L, 0, k), L[0 + k + 1]) = Stretch(L, 0, k + 1)
          BY <2>1, <5>1, StretchGrows
        <5>3. QED
          BY <3>1, <3>5, <3>7, <5>1, <5>2
      <4>4. QED
        BY <3>1, <3>4, <4>2, <4>3
    <3>11. CASE ~(a <= l)
      <4>1. ~f[k].ok /\ f[k] \in Readers
        BY <1>6, <3>2, <3>3, <3>4, <3>11 DEF StringRuns
      <4>2. ~f[j].ok
        BY <3>3, <4>1 DEF TakeString, Failed, Readers
      <4>3. ~(c <= l)
        BY <1>2, <3>6, <3>11
      <4>4. QED
        BY <3>1, <3>4, <4>2, <4>3
    <3>12. QED
      BY <3>10, <3>11
  <2>3. QED
    BY <2>1, <2>2
<1>10. G \in SUBSET Nat
  OBVIOUS
<1>11. n \in G
  <2> HIDE DEF G
  <2>1. QED
    BY <1>8, <1>9, <1>10, UpFrom0
<1>12. Stretch(L, 0, n) = L
  <2>1. SubSeq(L, 1, Len(L)) = L
    BY SubSeqFull
  <2>2. QED
    BY <1>2, <2>1 DEF Stretch
<1>13. QED
  BY <1>2, <1>6, <1>11, <1>12

LEMMA EdgesRise ==
  ASSUME NEW B, NEW S \in Seq(Seq(B)), NEW P, Edges(S, P)
  PROVE  \A k \in 0 .. Len(S) : P[k] <= P[Len(S)]
<1>1. PICK T \in Nat : T = Len(S)
  OBVIOUS
<1>2. \A k \in 0 .. T : P[k] \in Nat
  BY <1>1 DEF Edges
<1>3. \A k \in 1 .. T : S[k] \in Seq(B)
  BY <1>1
<1>4. \A k \in 1 .. T : Len(S[k]) \in Nat
  BY <1>3
<1>5. \A k \in 1 .. T : P[k] = P[k - 1] + Len(S[k])
  BY <1>1, Zenon DEF Edges
<1> DEFINE G == {m \in Nat : m <= T => P[T - m] <= P[T]}
<1>6. 0 \in G
  <2>1. T - 0 = T /\ P[T] \in Nat
    BY <1>2
  <2>2. QED
    BY <2>1
<1>7. ASSUME NEW m \in G PROVE m + 1 \in G
  <2>1. m \in Nat /\ m + 1 \in Nat
    OBVIOUS
  <2>2. ASSUME m + 1 <= T PROVE P[T - (m + 1)] <= P[T]
    <3>1. PICK k \in Int, j \in Int : k = T - m /\ j = T - (m + 1)
      BY <2>1
    <3>2. k \in 1 .. T /\ j = k - 1 /\ j \in 0 .. T /\ k \in 0 .. T /\ T \in 0 .. T /\ m <= T
      BY <2>1, <2>2, <3>1
    <3>3. PICK p \in Nat, q \in Nat, r \in Nat, n \in Nat : p = P[j] /\ q = P[k] /\ r = P[T] /\ n = Len(S[k])
      BY <1>2, <1>4, <3>2
    <3>4. q = p + n /\ q <= r
      BY <1>5, <3>1, <3>2, <3>3
    <3>5. p <= r
      BY <3>4
    <3>6. QED
      BY <3>1, <3>3, <3>5
  <2>3. QED
    BY <2>1, <2>2
<1>8. G \in SUBSET Nat
  OBVIOUS
<1>9. \A m \in Nat : m \in G
  <2> HIDE DEF G
  <2>1. QED
    BY <1>6, <1>7, <1>8, UpFrom0
<1>10. ASSUME NEW k \in 0 .. T PROVE P[k] <= P[T]
  <2>1. PICK m \in Nat : m = T - k
    OBVIOUS
  <2>2. m <= T /\ T - m = k
    BY <2>1
  <2>3. QED
    BY <1>9, <2>2
<1>11. QED
  BY <1>1, <1>10

\* Where the cells of four sequences written one after the other lie.
InFour(w, s, t, u, v) ==
  /\ Len(w) = Len(s) + Len(t) + Len(u) + Len(v)
  /\ \A i \in 1 .. Len(s) : w[i] = s[i]
  /\ \A i \in 1 .. Len(t) : w[Len(s) + i] = t[i]
  /\ \A i \in 1 .. Len(u) : w[Len(s) + Len(t) + i] = u[i]
  /\ \A i \in 1 .. Len(v) : w[Len(s) + Len(t) + Len(u) + i] = v[i]

LEMMA FourParts ==
  ASSUME NEW B, NEW s \in Seq(B), NEW t \in Seq(B), NEW u \in Seq(B), NEW v \in Seq(B)
  PROVE  s \o t \o u \o v \in Seq(B) /\ InFour(s \o t \o u \o v, s, t, u, v)
<1>1. PICK x : x = s \o t
  OBVIOUS
<1>2. PICK y : y = x \o u
  OBVIOUS
<1>3. PICK z : z = y \o v
  OBVIOUS
<1>4. PICK k \in Nat, l \in Nat, m \in Nat, n \in Nat : k = Len(s) /\ l = Len(t) /\ m = Len(u) /\ n = Len(v)
  OBVIOUS
<1>5. x \in Seq(B) /\ Len(x) = k + l /\ (\A i \in 1 .. k : x[i] = s[i]) /\ (\A i \in 1 .. l : x[k + i] = t[i])
  BY <1>1, <1>4, ConcatPlaces
<1>6. y \in Seq(B) /\ Len(y) = k + l + m /\ (\A i \in 1 .. k + l : y[i] = x[i]) /\ (\A i \in 1 .. m : y[k + l + i] = u[i])
  <2>1. x \in Seq(B)
    BY <1>5
  <2>2. /\ x \o u \in Seq(B) /\ Len(x \o u) = Len(x) + Len(u)
        /\ \A i \in 1 .. Len(x) : (x \o u)[i] = x[i]
        /\ \A i \in 1 .. Len(u) : (x \o u)[Len(x) + i] = u[i]
    BY <2>1, ConcatPlaces
  <2>3. QED
    BY <1>2, <1>4, <1>5, <2>2
<1>7. z \in Seq(B) /\ Len(z) = k + l + m + n /\ (\A i \in 1 .. k + l + m : z[i] = y[i]) /\ (\A i \in 1 .. n : z[k + l + m + i] = v[i])
  <2>1. y \in Seq(B)
    BY <1>6
  <2>2. /\ y \o v \in Seq(B) /\ Len(y \o v) = Len(y) + Len(v)
        /\ \A i \in 1 .. Len(y) : (y \o v)[i] = y[i]
        /\ \A i \in 1 .. Len(v) : (y \o v)[Len(y) + i] = v[i]
    BY <2>1, ConcatPlaces
  <2>3. QED
    BY <1>3, <1>4, <1>6, <2>2
<1>8. \A i \in 1 .. k : z[i] = s[i]
  <2>1. \A i \in 1 .. k : i \in 1 .. k + l /\ i \in 1 .. k + l + m
    OBVIOUS
  <2>2. QED
    BY <1>5, <1>6, <1>7, <2>1, Zenon
<1>9. \A i \in 1 .. l : z[k + i] = t[i]
  <2>1. \A i \in 1 .. l : k + i \in 1 .. k + l /\ k + i \in 1 .. k + l + m
    OBVIOUS
  <2>2. QED
    BY <1>5, <1>6, <1>7, <2>1, Zenon
<1>10. \A i \in 1 .. m : z[k + l + i] = u[i]
  <2>1. \A i \in 1 .. m : k + l + i \in 1 .. k + l + m
    OBVIOUS
  <2>2. QED
    BY <1>6, <1>7, <2>1, Zenon
<1>11. QED
  BY <1>1, <1>2, <1>3, <1>4, <1>7, <1>8, <1>9, <1>10, Zenon DEF InFour

LEMMA LengthyPlaces ==
  ASSUME NEW t \in Seq(Nat)
  PROVE  /\ Lengthy(t) \in Seq(Nat) /\ Len(Lengthy(t)) = 1 + Len(t) /\ Lengthy(t)[1] = Len(t)
         /\ \A i \in 1 .. Len(t) : Lengthy(t)[1 + i] = t[i]
<1>1. PICK n \in Nat : n = Len(t)
  OBVIOUS
<1>2. PICK h : h = <<n>>
  OBVIOUS
<1>3. h \in Seq(Nat) /\ Len(h) = 1 /\ h[1] = n /\ 1 \in 1 .. 1
  BY <1>2
<1>4. h \in Seq(Nat) /\ t \in Seq(Nat)
  BY <1>3
<1>5. /\ h \o t \in Seq(Nat) /\ Len(h \o t) = Len(h) + Len(t)
      /\ \A i \in 1 .. Len(h) : (h \o t)[i] = h[i]
      /\ \A i \in 1 .. Len(t) : (h \o t)[Len(h) + i] = t[i]
  BY <1>4, ConcatPlaces
<1>6. QED
  BY <1>1, <1>2, <1>3, <1>5 DEF Lengthy

\* Where the fields of an encoded event lie: the tags from place 4 on, the content after the last
\* tag, and the three last cells at the end.
Placed(E, e, Q) ==
  /\ E \in Seq(Nat) /\ Written(E, e.tags, Q) /\ Q[0] = 4
  /\ E[1] = e.id /\ E[2] = e.at /\ E[3] = e.kind /\ E[4] = Len(e.tags)
  /\ Holds(E, Q[Len(e.tags)], e.content)
  /\ \E q \in Nat : /\ q = Q[Len(e.tags)] + 1 + Len(e.content) /\ Len(E) = q + 3
                    /\ E[q + 1] = e.sig /\ E[q + 2] = e.pow /\ E[q + 3] = e.ttl

LEMMA EncodedPlaces ==
  ASSUME NEW e \in WireEvents
  PROVE  \E Q : Placed(Encoded(e), e, Q)
<1>1. /\ e.id \in Nat /\ e.at \in Nat /\ e.kind \in Nat /\ e.sig \in Nat /\ e.pow \in Nat /\ e.ttl \in Nat
      /\ e.tags \in Seq(Seq(Nat)) /\ e.content \in Seq(Nat)
  BY PacketAssumption
<1>2. PICK L \in Seq(Seq(Nat)), c \in Seq(Nat) : L = e.tags /\ c = e.content
  BY <1>1
<1>3. PICK T \in Nat, n \in Nat : T = Len(L) /\ n = Len(c)
  OBVIOUS
<1>4. PICK S : S = [i \in DOMAIN L |-> Lengthy(L[i])]
  OBVIOUS
<1>5. \A k \in 1 .. T : L[k] \in Seq(Nat)
  BY <1>3
<1>6. DOMAIN L = 1 .. T
  BY <1>3
<1>7. \A k \in 1 .. T : S[k] = Lengthy(L[k]) /\ S[k] \in Seq(Nat)
  BY <1>4, <1>5, <1>6, LengthyPlaces
<1>8. S \in Seq(Seq(Nat)) /\ Len(S) = T
  <2>1. PICK D : D = Seq(Nat)
    OBVIOUS
  <2>2. S \in [1 .. T -> D]
    BY <1>4, <1>6, <1>7, <2>1
  <2>3. S \in Seq(D) /\ Len(S) = T
    BY <2>2
  <2>4. QED
    BY <2>1, <2>3
<1>9. PICK F : F = FlattenSeq(S)
  OBVIOUS
<1>10. PICK P : Edges(S, P) /\ Laid(F, S, P) /\ Len(F) = P[T]
  BY <1>8, <1>9, FlattenPlaces
<1>11. F \in Seq(Nat)
  BY <1>8, <1>9, FlattenPlaces
<1>12. PICK H, W, C : H = <<e.id, e.at, e.kind, T>> /\ W = <<e.sig, e.pow, e.ttl>> /\ C = Lengthy(c)
  OBVIOUS
<1>13. H \in Seq(Nat) /\ Len(H) = 4 /\ H[1] = e.id /\ H[2] = e.at /\ H[3] = e.kind /\ H[4] = T
  BY <1>1, <1>12
<1>14. W \in Seq(Nat) /\ Len(W) = 3 /\ W[1] = e.sig /\ W[2] = e.pow /\ W[3] = e.ttl
  BY <1>1, <1>12
<1>15. C \in Seq(Nat) /\ Len(C) = 1 + n /\ C[1] = n /\ \A i \in 1 .. n : C[1 + i] = c[i]
  BY <1>3, <1>12, LengthyPlaces
<1>16. PICK E : E = Encoded(e)
  OBVIOUS
<1>17. E = H \o F \o C \o W
  BY <1>2, <1>3, <1>4, <1>9, <1>12, <1>16 DEF Encoded
<1>18. PICK f \in Nat : f = P[T] /\ f = Len(F)
  BY <1>10, <1>11
<1>19. /\ E \in Seq(Nat) /\ Len(E) = 4 + f + (1 + n) + 3
       /\ \A i \in 1 .. 4 : E[i] = H[i]
       /\ \A i \in 1 .. f : E[4 + i] = F[i]
       /\ \A i \in 1 .. 1 + n : E[4 + f + i] = C[i]
       /\ \A i \in 1 .. 3 : E[4 + f + (1 + n) + i] = W[i]
  <2>1. H \in Seq(Nat) /\ F \in Seq(Nat) /\ C \in Seq(Nat) /\ W \in Seq(Nat)
    BY <1>11, <1>13, <1>14, <1>15
  <2>2. H \o F \o C \o W \in Seq(Nat) /\ InFour(H \o F \o C \o W, H, F, C, W)
    BY <2>1, FourParts
  <2>3. Len(H) = 4 /\ Len(F) = f /\ Len(C) = 1 + n /\ Len(W) = 3
    BY <1>13, <1>14, <1>15, <1>18
  <2>4. QED
    BY <1>17, <2>2, <2>3, Zenon DEF InFour
<1>20. PICK Q : Q = [k \in 0 .. T |-> 4 + P[k]]
  OBVIOUS
<1>21. \A k \in 0 .. T : P[k] \in Nat /\ Q[k] = 4 + P[k] /\ Q[k] \in Nat /\ P[k] <= f
  <2>1. \A k \in 0 .. T : P[k] \in Nat
    BY <1>8, <1>10 DEF Edges
  <2>2. \A k \in 0 .. T : P[k] <= f
    BY <1>8, <1>10, <1>18, EdgesRise
  <2>3. QED
    BY <1>20, <2>1, <2>2
<1>22. ASSUME NEW k \in 1 .. T PROVE Q[k] = Q[k - 1] + 1 + Len(L[k]) /\ Holds(E, Q[k - 1], L[k])
  <2>1. PICK t \in Seq(Nat) : t = L[k]
    BY <1>5
  <2>2. PICK m \in Nat : m = Len(t)
    OBVIOUS
  <2>3. PICK v \in Seq(Nat) : v = S[k]
    BY <1>7
  <2>4. Len(v) = 1 + m /\ v[1] = m /\ \A i \in 1 .. m : v[1 + i] = t[i]
    <3>1. v = Lengthy(t)
      BY <1>7, <2>1, <2>3
    <3>2. QED
      BY <2>2, <3>1, LengthyPlaces
  <2>5. k - 1 \in 0 .. T /\ k \in 0 .. T
    OBVIOUS
  <2>6. PICK p \in Nat, r \in Nat : p = P[k - 1] /\ r = P[k]
    BY <1>21, <2>5
  <2>7. r = p + (1 + m) /\ r <= f /\ Q[k - 1] = 4 + p /\ Q[k] = 4 + r
    <3>1. P[k] = P[k - 1] + Len(S[k])
      BY <1>8, <1>10, Zenon DEF Edges
    <3>2. QED
      BY <1>21, <2>3, <2>4, <2>5, <2>6, <3>1
  <2>8. \A i \in 1 .. 1 + m : F[p + i] = v[i]
    <3>1. \A i \in 1 .. Len(S[k]) : F[P[k - 1] + i] = S[k][i]
      BY <1>8, <1>10, Zenon DEF Laid
    <3>2. QED
      BY <2>3, <2>4, <2>6, <3>1, Zenon
  <2>9. ASSUME NEW i \in 1 .. 1 + m PROVE E[4 + p + i] = v[i]
    <3>1. PICK j : j = p + i
      OBVIOUS
    <3>2. j \in 1 .. f /\ 4 + j = 4 + p + i
      BY <2>7, <3>1
    <3>3. E[4 + j] = F[j]
      BY <1>19, <3>2
    <3>4. QED
      BY <2>8, <3>1, <3>2, <3>3
  <2>10. PICK a \in Nat : a = 4 + p
    OBVIOUS
  <2>11. E[a + 1] = m
    BY <2>4, <2>9, <2>10
  <2>12. ASSUME NEW i \in 1 .. m PROVE E[a + 1 + i] = t[i]
    <3>1. PICK j : j = 1 + i
      OBVIOUS
    <3>2. j \in 1 .. 1 + m /\ 4 + p + j = a + 1 + i
      BY <2>10, <3>1
    <3>3. QED
      BY <2>4, <2>9, <3>1, <3>2
  <2>13. a + 1 + m <= Len(E)
    BY <1>19, <2>7, <2>10
  <2>14. Holds(E, a, t)
    BY <2>2, <2>11, <2>12, <2>13, Zenon DEF Holds
  <2>15. Q[k - 1] = a /\ Q[k] = a + 1 + m
    BY <2>7, <2>10
  <2>16. QED
    BY <2>1, <2>2, <2>14, <2>15, Zenon
<1>23. Written(E, L, Q)
  <2>1. Q \in [0 .. T -> Nat]
    BY <1>20, <1>21
  <2>2. QED
    BY <1>3, <1>22, <2>1, Zenon DEF Written
<1>24. PICK a \in Nat : a = 4 + f /\ a = Q[T]
  <2>1. T \in 0 .. T
    OBVIOUS
  <2>2. QED
    BY <1>18, <1>21, <2>1
<1>25. Holds(E, a, c)
  <2>1. E[a + 1] = n
    <3>1. 1 \in 1 .. 1 + n
      OBVIOUS
    <3>2. QED
      BY <1>15, <1>19, <1>24, <3>1
  <2>2. ASSUME NEW i \in 1 .. n PROVE E[a + 1 + i] = c[i]
    <3>1. PICK j : j = 1 + i
      OBVIOUS
    <3>2. j \in 1 .. 1 + n /\ 4 + f + j = a + 1 + i
      BY <1>24, <3>1
    <3>3. E[4 + f + j] = C[j]
      BY <1>19, <3>2
    <3>4. QED
      BY <1>15, <3>1, <3>2, <3>3
  <2>3. a + 1 + n <= Len(E)
    BY <1>19, <1>24
  <2>4. QED
    BY <1>3, <2>1, <2>2, <2>3, Zenon DEF Holds
<1>26. PICK q \in Nat : q = a + 1 + n
  OBVIOUS
<1>27. Len(E) = q + 3 /\ E[q + 1] = e.sig /\ E[q + 2] = e.pow /\ E[q + 3] = e.ttl
  <2>1. q = 4 + f + (1 + n) /\ 1 \in 1 .. 3 /\ 2 \in 1 .. 3 /\ 3 \in 1 .. 3
    BY <1>24, <1>26
  <2>2. E[q + 1] = W[1] /\ E[q + 2] = W[2] /\ E[q + 3] = W[3]
    BY <1>19, <2>1
  <2>3. Len(E) = q + 3
    BY <1>19, <2>1
  <2>4. QED
    BY <1>14, <2>2, <2>3
<1>28. E[1] = e.id /\ E[2] = e.at /\ E[3] = e.kind /\ E[4] = T
  <2>1. 1 \in 1 .. 4 /\ 2 \in 1 .. 4 /\ 3 \in 1 .. 4 /\ 4 \in 1 .. 4
    OBVIOUS
  <2>2. E[1] = H[1] /\ E[2] = H[2] /\ E[3] = H[3] /\ E[4] = H[4]
    BY <1>19, <2>1
  <2>3. QED
    BY <1>13, <2>2
<1>29. Q[0] = 4
  <2>1. 0 \in 0 .. T /\ P[0] = 0
    BY <1>8, <1>10 DEF Edges
  <2>2. QED
    BY <1>21, <2>1
<1>30. Placed(E, e, Q)
  <2>1. \E x \in Nat : /\ x = Q[Len(e.tags)] + 1 + Len(e.content) /\ Len(E) = x + 3
                       /\ E[x + 1] = e.sig /\ E[x + 2] = e.pow /\ E[x + 3] = e.ttl
    BY <1>2, <1>3, <1>24, <1>26, <1>27, Zenon
  <2>2. Holds(E, Q[Len(e.tags)], e.content) /\ Written(E, e.tags, Q) /\ E[4] = Len(e.tags)
    BY <1>2, <1>3, <1>23, <1>24, <1>25, <1>28, Zenon
  <2>3. E \in Seq(Nat)
    BY <1>19
  <2>4. QED
    BY <1>28, <1>29, <2>1, <2>2, <2>3, Zenon DEF Placed
<1>31. QED
  BY <1>16, <1>30

LEMMA WiderSeq ==
  /\ \A w \in Seq(Nat) : w \in Seq(Nat \cup Seq(Nat)) /\ <<w>> \in Seq(Nat \cup Seq(Nat))
  /\ \A w \in Seq(Seq(Nat)) : w \in Seq(Nat \cup Seq(Nat))
  /\ <<>> \in Seq(Nat \cup Seq(Nat))
<1>1. \A w \in Seq(Nat) : w \in Seq(Nat \cup Seq(Nat)) /\ <<w>> \in Seq(Nat \cup Seq(Nat))
  OBVIOUS
<1>2. \A w \in Seq(Seq(Nat)) : w \in Seq(Nat \cup Seq(Nat))
  OBVIOUS
<1>3. <<>> \in Seq(Nat \cup Seq(Nat))
  OBVIOUS
<1>4. QED
  BY <1>1, <1>2, <1>3

LEMMA FirstFour ==
  ASSUME NEW s \in Seq(Nat), 4 <= Len(s), NEW w, w = Stretch(s, 0, 4)
  PROVE  w \in Seq(Nat) /\ w[1] = s[1] /\ w[2] = s[2] /\ w[3] = s[3] /\ w[4] = s[4]
<1>1. 0 + 4 <= Len(s) /\ 0 \in Nat /\ 4 \in Nat
  OBVIOUS
<1>2. w \in Seq(Nat) /\ \A i \in 1 .. 4 : w[i] = s[0 + i]
  BY <1>1, Stretches
<1>3. QED
  BY <1>2

LEMMA LastThree ==
  ASSUME NEW s \in Seq(Nat), NEW q \in Nat, q + 3 <= Len(s), NEW x, x = Stretch(s, q, 3)
  PROVE  x \in Seq(Nat) /\ x[1] = s[q + 1] /\ x[2] = s[q + 2] /\ x[3] = s[q + 3]
<1>1. 3 \in Nat
  OBVIOUS
<1>2. x \in Seq(Nat) /\ \A i \in 1 .. 3 : x[i] = s[q + i]
  BY <1>1, Stretches
<1>3. QED
  BY <1>2

LEMMA TimesType ==
  ASSUME NEW s \in Seq(Nat), NEW r \in Readers, NEW n \in Nat
  PROVE  Times(n, Take, s, r) \in Readers /\ Times(n, TakeString, s, r) \in Readers
<1>1. n \in 0 .. n
  OBVIOUS
<1>2. Times(n, Take, s, r) \in Readers
  <2>1. PICK f : CellRuns(f, n, s, r) /\ Times(n, Take, s, r) = f[n]
    BY CellTimes
  <2>2. QED
    BY <1>1, <2>1 DEF CellRuns
<1>3. Times(n, TakeString, s, r) \in Readers
  <2>1. PICK f : StringRuns(f, n, s, r) /\ Times(n, TakeString, s, r) = f[n]
    BY StringTimes
  <2>2. QED
    BY <1>1, <2>1 DEF StringRuns
<1>4. QED
  BY <1>2, <1>3

LEMMA OnwardReads ==
  ASSUME NEW r \in Readers
  PROVE  Onward(r) \in Readers /\ (r.ok => Onward(r) = At(r.at, <<>>)) /\ (~r.ok => ~Onward(r).ok)
<1>1. r.at \in Nat /\ r.ok \in BOOLEAN /\ <<>> \in Seq(Nat \cup Seq(Nat))
  BY EmptySeq DEF Readers
<1>2. Onward(r) \in Readers
  BY <1>1 DEF Onward, Readers
<1>3. ASSUME r.ok PROVE Onward(r) = At(r.at, <<>>)
  <2>1. r.ok = TRUE
    BY <1>1, <1>3
  <2>2. QED
    BY <2>1 DEF Onward, At
<1>4. ~r.ok => ~Onward(r).ok
  BY <1>1 DEF Onward
<1>5. QED
  BY <1>2, <1>3, <1>4

\* What is decoded of the beginning of an encoded event: the event, or nothing.
LEMMA DecodedPrefix ==
  ASSUME NEW e \in WireEvents, NEW s, Begins(s, Encoded(e))
  PROVE  Decoded(s) = IF Len(s) >= Len(Encoded(e)) /\ Len(e.tags) <= MaxTags THEN e ELSE None
<1>1. PICK E : E = Encoded(e)
  OBVIOUS
<1>2. Begins(s, E)
  BY <1>1
<1>3. s \in Seq(Nat) /\ \A i \in 1 .. Len(s) : i <= Len(E) => s[i] = E[i]
  BY <1>2 DEF Begins
<1>4. /\ e.id \in Nat /\ e.at \in Nat /\ e.kind \in Nat /\ e.kind \in Kinds
      /\ e.sig \in Nat /\ e.pow \in Nat /\ e.ttl \in Nat
      /\ e.tags \in Seq(Seq(Nat)) /\ e.content \in Seq(Nat) /\ e.id # 0 /\ MaxTags \in Nat
  BY PacketAssumption
<1>5. PICK L \in Seq(Seq(Nat)), c \in Seq(Nat) : L = e.tags /\ c = e.content
  BY <1>4
<1>6. PICK T \in Nat : T = Len(L)
  OBVIOUS
<1>7. PICK Q : Placed(E, e, Q)
  BY <1>1, EncodedPlaces
<1>8. /\ E \in Seq(Nat) /\ Written(E, L, Q) /\ Q[0] = 4 /\ Holds(E, Q[T], c)
      /\ E[1] = e.id /\ E[2] = e.at /\ E[3] = e.kind /\ E[4] = T
  BY <1>5, <1>6, <1>7, Zenon DEF Placed
<1>9. PICK q \in Nat : q = Q[T] + 1 + Len(c) /\ Len(E) = q + 3 /\ E[q + 1] = e.sig /\ E[q + 2] = e.pow /\ E[q + 3] = e.ttl
  BY <1>5, <1>6, <1>7, Zenon DEF Placed
<1>10. PICK a \in Nat : a = Q[T]
  <2>1. T \in 0 .. T
    OBVIOUS
  <2>2. QED
    BY <1>6, <1>8, <2>1 DEF Written
<1>11. PICK n \in Nat : n = Len(c)
  OBVIOUS
<1>12. PICK l \in Nat : l = Len(s)
  BY <1>3
<1>13. q = a + 1 + n /\ Len(E) = q + 3
  BY <1>9, <1>10, <1>11
<1>14. ASSUME NEW i \in 1 .. l, i <= q + 3 PROVE s[i] = E[i]
  <2>1. i \in 1 .. Len(s) /\ i <= Len(E)
    BY <1>12, <1>13, <1>14
  <2>2. QED
    BY <1>3, <2>1
<1>15. PICK head : head = Times(4, Take, s, Reader)
  OBVIOUS
<1>16. PICK tags : tags = Times(head.got[4], TakeString, s, Onward(head))
  OBVIOUS
<1>17. PICK text : text = TakeString(s, Onward(tags))
  OBVIOUS
<1>18. PICK tail : tail = Times(3, Take, s, Onward(text))
  OBVIOUS
<1>19. Decoded(s) =
         IF \/ \A i \in DOMAIN s : s[i] = 0
            \/ ~head.ok
            \/ head.got[3] \notin Kinds
            \/ head.got[4] > MaxTags
            \/ ~tail.ok
         THEN None
         ELSE [id |-> head.got[1], at |-> head.got[2], kind |-> head.got[3],
               tags |-> tags.got, content |-> text.got[1],
               sig |-> tail.got[1], pow |-> tail.got[2], ttl |-> tail.got[3]]
  BY <1>15, <1>16, <1>17, <1>18, Zenon DEF Decoded, Readable
<1>20. Reader = At(0, <<>>) /\ Reader \in Readers
  BY EmptySeq, AtReads DEF Reader, At
<1>21. /\ 4 <= l => head = At(4, Stretch(s, 0, 4))
       /\ ~(4 <= l) => ~head.ok
  <2>1. 0 <= Len(s)
    BY <1>3
  <2>2. /\ 0 + 4 <= Len(s) => Times(4, Take, s, At(0, <<>>)) = At(0 + 4, Stretch(s, 0, 4))
        /\ ~(0 + 4 <= Len(s)) => ~Times(4, Take, s, At(0, <<>>)).ok
    BY <1>3, <2>1, CellsRead
  <2>3. 0 + 4 = 4
    OBVIOUS
  <2>4. QED
    BY <1>12, <1>15, <1>20, <2>2, <2>3, Zenon
<1>22. CASE ~(4 <= l)
  <2>1. Decoded(s) = None
    BY <1>19, <1>21, <1>22
  <2>2. ~(Len(s) >= Len(E))
    BY <1>8, <1>12, <1>13, <1>22
  <2>3. QED
    BY <1>1, <2>1, <2>2
<1>23. CASE 4 <= l
  <2>1. PICK w : w = Stretch(s, 0, 4)
    OBVIOUS
  <2>2. w \in Seq(Nat) /\ w[1] = s[1] /\ w[2] = s[2] /\ w[3] = s[3] /\ w[4] = s[4]
    <3>1. s \in Seq(Nat) /\ 4 <= Len(s)
      BY <1>3, <1>12, <1>23
    <3>2. QED
      BY <2>1, <3>1, FirstFour, Zenon
  <2>3. s[1] = e.id /\ s[2] = e.at /\ s[3] = e.kind /\ s[4] = T
    <3>1. s[1] = E[1] /\ s[2] = E[2] /\ s[3] = E[3] /\ s[4] = E[4]
      <4>1. \A i \in 1 .. 4 : i \in 1 .. l /\ i <= q + 3
        BY <1>13, <1>23
      <4>2. \A i \in 1 .. 4 : s[i] = E[i]
        BY <1>14, <4>1, Zenon
      <4>3. QED
        BY <4>2
    <3>2. QED
      BY <1>8, <3>1
  <2>4. head = At(4, w)
    BY <1>21, <1>23, <2>1
  <2>5. w \in Seq(Nat \cup Seq(Nat))
    BY <2>2, WiderSeq, Zenon
  <2>6. head \in Readers /\ head.ok /\ head.at = 4 /\ head.got = w
    BY <2>4, <2>5, AtReads
  <2>7. /\ head.got[1] = e.id /\ head.got[2] = e.at /\ head.got[3] = e.kind /\ head.got[4] = T
    BY <2>2, <2>3, <2>6
  <2>8. Onward(head) = At(Q[0], <<>>) /\ Onward(head) \in Readers
    BY <1>8, <2>6, OnwardReads
  <2>9. ~ \A i \in DOMAIN s : s[i] = 0
    <3>1. 1 \in DOMAIN s /\ s[1] # 0
      BY <1>3, <1>4, <1>12, <1>23, <2>3
    <3>2. QED
      BY <3>1
  <2>10. Decoded(s) =
           IF T > MaxTags \/ ~tail.ok
           THEN None
           ELSE [id |-> e.id, at |-> e.at, kind |-> e.kind,
                 tags |-> tags.got, content |-> text.got[1],
                 sig |-> tail.got[1], pow |-> tail.got[2], ttl |-> tail.got[3]]
    BY <1>4, <1>19, <2>6, <2>7, <2>9, Zenon
  <2>11. tags = Times(T, TakeString, s, At(Q[0], <<>>)) /\ tags \in Readers
    <3>1. tags = Times(T, TakeString, s, Onward(head))
      BY <1>16, <2>7
    <3>2. tags \in Readers
      BY <1>3, <2>8, <3>1, TimesType
    <3>3. QED
      BY <2>8, <3>1, <3>2
  <2>12. /\ a <= l => tags = At(a, L)
         /\ ~(a <= l) => ~tags.ok
    <3>1. Q[0] <= Len(s)
      BY <1>8, <1>12, <1>23
    <3>2. /\ Q[Len(L)] <= Len(s) => Times(Len(L), TakeString, s, At(Q[0], <<>>)) = At(Q[Len(L)], L)
          /\ ~(Q[Len(L)] <= Len(s)) => ~Times(Len(L), TakeString, s, At(Q[0], <<>>)).ok
      BY <1>2, <1>8, <3>1, StringsRead
    <3>3. QED
      BY <1>6, <1>10, <1>12, <2>11, <3>2, Zenon
  <2>13. text \in Readers
    <3>1. Onward(tags) \in Readers
      BY <2>11, OnwardReads
    <3>2. QED
      BY <1>3, <1>17, <3>1, TakeType
  <2>14. Onward(text) \in Readers
    BY <2>13, OnwardReads
  <2>15. L \in Seq(Nat \cup Seq(Nat)) /\ <<>> \in Seq(Nat \cup Seq(Nat)) /\ <<c>> \in Seq(Nat \cup Seq(Nat))
    BY WiderSeq, Zenon
  <2>16. ASSUME q <= l PROVE tags = At(a, L) /\ text = At(q, <<c>>)
    <3>1. a <= l
      BY <1>13, <2>16
    <3>2. tags = At(a, L)
      BY <2>12, <3>1
    <3>3. Onward(tags) = At(a, <<>>)
      BY <2>11, <2>15, <3>2, AtReads, OnwardReads
    <3>4. a <= Len(s) /\ a + 1 + Len(c) <= Len(s) /\ Holds(E, a, c)
      BY <1>8, <1>10, <1>11, <1>12, <1>13, <2>16, <3>1
    <3>5. TakeString(s, At(a, <<>>)) = At(a + 1 + Len(c), Append(<<>>, c))
      <4>1. /\ a + 1 + Len(c) <= Len(s) => TakeString(s, At(a, <<>>)) = At(a + 1 + Len(c), Append(<<>>, c))
            /\ ~(a + 1 + Len(c) <= Len(s)) => ~TakeString(s, At(a, <<>>)).ok
        <5>1. PICK w0 \in Seq(Nat \cup Seq(Nat)) : w0 = <<>>
          BY <2>15
        <5>2. /\ a + 1 + Len(c) <= Len(s) => TakeString(s, At(a, w0)) = At(a + 1 + Len(c), Append(w0, c))
              /\ ~(a + 1 + Len(c) <= Len(s)) => ~TakeString(s, At(a, w0)).ok
          BY <1>2, <1>8, <3>4, StringReads
        <5>3. QED
          BY <5>1, <5>2
      <4>2. QED
        BY <3>4, <4>1
    <3>6. Append(<<>>, c) = <<c>>
      OBVIOUS
    <3>7. QED
      BY <1>11, <1>13, <1>17, <3>2, <3>3, <3>5, <3>6
  <2>17. ASSUME ~(q <= l) PROVE ~tail.ok
    <3>1. ~text.ok
      <4>1. CASE a <= l
        <5>1. tags = At(a, L)
          BY <2>12, <4>1
        <5>2. Onward(tags) = At(a, <<>>)
          BY <2>11, <2>15, <5>1, AtReads, OnwardReads
        <5>3. a <= Len(s) /\ ~(a + 1 + Len(c) <= Len(s)) /\ Holds(E, a, c)
          BY <1>8, <1>10, <1>11, <1>12, <1>13, <2>17, <4>1
        <5>4. ~TakeString(s, At(a, <<>>)).ok
          BY <1>2, <1>8, <2>15, <5>3, StringReads
        <5>5. QED
          BY <1>17, <5>2, <5>4
      <4>2. CASE ~(a <= l)
        <5>1. ~Onward(tags).ok /\ Onward(tags) \in Readers
          BY <2>11, <2>12, <4>2, OnwardReads
        <5>2. QED
          BY <1>17, <5>1 DEF TakeString, Failed, Readers
      <4>3. QED
        BY <4>1, <4>2
    <3>2. ~Onward(text).ok
      BY <2>13, <3>1, OnwardReads
    <3>3. QED
      BY <1>3, <1>18, <2>14, <3>2, FailuresLast
  <2>18. ASSUME q <= l
         PROVE  /\ q + 3 <= l => tail = At(q + 3, Stretch(s, q, 3))
                /\ ~(q + 3 <= l) => ~tail.ok
    <3>1. text = At(q, <<c>>) /\ <<c>> \in Seq(Nat \cup Seq(Nat))
      BY <2>15, <2>16, <2>18
    <3>2. Onward(text) = At(q, <<>>)
      BY <2>13, <3>1, AtReads, OnwardReads
    <3>3. q <= Len(s) /\ 3 \in Nat
      BY <1>12, <2>18
    <3>4. /\ q + 3 <= Len(s) => Times(3, Take, s, At(q, <<>>)) = At(q + 3, Stretch(s, q, 3))
          /\ ~(q + 3 <= Len(s)) => ~Times(3, Take, s, At(q, <<>>)).ok
      BY <1>3, <3>3, CellsRead
    <3>5. QED
      BY <1>12, <1>18, <3>2, <3>4, Zenon
  <2>19. CASE ~(q + 3 <= l)
    <3>1. ~tail.ok
      BY <2>17, <2>18, <2>19
    <3>2. ~(Len(s) >= Len(E))
      BY <1>12, <1>13, <2>19
    <3>3. QED
      BY <1>1, <2>10, <3>1, <3>2
  <2>20. CASE q + 3 <= l
    <3>1. q <= l
      BY <2>20
    <3>2. PICK x : x = Stretch(s, q, 3)
      OBVIOUS
    <3>3. x \in Seq(Nat) /\ x[1] = s[q + 1] /\ x[2] = s[q + 2] /\ x[3] = s[q + 3]
      <4>1. s \in Seq(Nat) /\ q + 3 <= Len(s)
        BY <1>3, <1>12, <2>20
      <4>2. QED
        BY <3>2, <4>1, LastThree, Zenon
    <3>4. s[q + 1] = E[q + 1] /\ s[q + 2] = E[q + 2] /\ s[q + 3] = E[q + 3]
      BY <1>14, <2>20
    <3>5. tail = At(q + 3, x)
      BY <2>18, <2>20, <3>1, <3>2
    <3>6. x \in Seq(Nat \cup Seq(Nat)) /\ q + 3 \in Nat
      BY <3>3, WiderSeq
    <3>7. tail.ok /\ tail.got = x
      BY <3>5, <3>6, AtReads
    <3>8. tags.got = L /\ text.got = <<c>>
      <4>1. tags = At(a, L) /\ text = At(q, <<c>>)
        BY <2>16, <3>1
      <4>2. QED
        BY <4>1 DEF At
    <3>9. tail.got[1] = e.sig /\ tail.got[2] = e.pow /\ tail.got[3] = e.ttl /\ text.got[1] = c
      BY <1>9, <3>3, <3>4, <3>7, <3>8
    <3>10. Decoded(s) =
             IF T > MaxTags THEN None
             ELSE [id |-> e.id, at |-> e.at, kind |-> e.kind, tags |-> e.tags,
                   content |-> e.content, sig |-> e.sig, pow |-> e.pow, ttl |-> e.ttl]
      BY <1>5, <2>10, <3>7, <3>8, <3>9, Zenon
    <3>11. e = [id |-> e.id, at |-> e.at, kind |-> e.kind, tags |-> e.tags,
                content |-> e.content, sig |-> e.sig, pow |-> e.pow, ttl |-> e.ttl]
      BY PacketAssumption, Zenon
    <3>12. Decoded(s) = IF T > MaxTags THEN None ELSE e
      BY <3>10, <3>11, Zenon
    <3>13. Len(s) >= Len(E) /\ (T > MaxTags <=> ~(T <= MaxTags))
      BY <1>4, <1>12, <1>13, <2>20
    <3>14. QED
      BY <1>1, <1>5, <1>6, <3>12, <3>13
  <2>21. QED
    BY <2>19, <2>20
<1>24. QED
  BY <1>22, <1>23

LEMMA Paddings ==
  ASSUME NEW s \in Seq(Nat)
  PROVE  Begins(Padded(s), s)
<1>1. PICK l \in Nat : l = Len(s)
  OBVIOUS
<1>2. PICK n : n = (IF Bucket(Len(s)) = {} THEN 0 ELSE (CHOOSE b \in Bucket(Len(s)) : TRUE) - Len(s))
  OBVIOUS
<1>3. n \in Nat
  <2>1. CASE Bucket(Len(s)) = {}
    BY <1>2, <2>1
  <2>2. CASE Bucket(Len(s)) # {}
    <3>1. PICK b \in Bucket(Len(s)) : b = CHOOSE c \in Bucket(Len(s)) : TRUE
      BY <2>2
    <3>2. b \in Nat /\ b >= l
      BY <1>1, <3>1, PacketAssumption DEF Bucket
    <3>3. n = b - l
      BY <1>1, <1>2, <2>2, <3>1
    <3>4. QED
      BY <3>2, <3>3
  <2>3. QED
    BY <2>1, <2>2
<1>4. PICK z : z = [i \in 1 .. n |-> 0]
  OBVIOUS
<1>5. z \in Seq(Nat)
  BY <1>3, <1>4
<1>6. PICK w : w = s \o z
  OBVIOUS
<1>7. Padded(s) = w
  BY <1>2, <1>4, <1>6, Zenon DEF Padded
<1>8. w \in Seq(Nat) /\ \A i \in 1 .. Len(s) : w[i] = s[i]
  BY <1>5, <1>6, ConcatPlaces
<1>9. ASSUME NEW i \in 1 .. Len(w), i <= Len(s) PROVE w[i] = s[i]
  BY <1>1, <1>8, <1>9
<1>10. QED
  BY <1>7, <1>8, <1>9 DEF Begins

LEMMA FrontBegins ==
  ASSUME NEW s, NEW E, Begins(s, E), s # <<>>
  PROVE  Begins(Front(s), E)
<1>1. s \in Seq(Nat) /\ \A i \in 1 .. Len(s) : i <= Len(E) => s[i] = E[i]
  BY DEF Begins
<1>2. PICK l \in Nat : l = Len(s)
  BY <1>1
<1>3. l # 0
  BY <1>1, <1>2, EmptySeq
<1>4. PICK k \in Nat : k = l - 1
  BY <1>3
<1>5. 0 + k <= Len(s)
  BY <1>2, <1>4
<1>6. PICK w : w = Stretch(s, 0, k)
  OBVIOUS
<1>7. w \in Seq(Nat) /\ Len(w) = k /\ \A i \in 1 .. k : w[i] = s[0 + i]
  BY <1>1, <1>5, <1>6, Stretches
<1>8. Front(s) = w
  BY <1>2, <1>4, <1>6 DEF Front, Stretch
<1>9. ASSUME NEW i \in 1 .. Len(w), i <= Len(E) PROVE w[i] = E[i]
  <2>1. i \in 1 .. k /\ i \in 1 .. l /\ 0 + i = i
    BY <1>4, <1>7
  <2>2. QED
    BY <1>1, <1>2, <1>7, <1>9, <2>1
<1>10. QED
  BY <1>7, <1>8, <1>9 DEF Begins

\* What arrives begins as what was encoded.
PacketInv ==
  /\ packet \in Seq(Nat)
  /\ origin # None => origin \in WireEvents /\ Begins(packet, Encoded(origin))

LEMMA PacketInvStarts == PacketInit => PacketInv
BY EmptySeq DEF PacketInit, PacketInv

LEMMA PacketInvStays ==
  ASSUME PacketInv, [PacketNext]_packetVars
  PROVE  PacketInv'
<1>1. ASSUME NEW e \in WireEvents, Emit(e) PROVE PacketInv'
  <2>1. PICK E : E = Encoded(e)
    OBVIOUS
  <2>2. E \in Seq(Nat)
    BY <2>1, EncodedPlaces DEF Placed
  <2>3. Begins(Padded(E), E)
    BY <2>2, Paddings
  <2>4. origin' = e /\ packet' = Padded(E)
    BY <1>1, <2>1 DEF Emit
  <2>5. packet' \in Seq(Nat)
    BY <2>3, <2>4 DEF Begins
  <2>6. Begins(packet', Encoded(origin'))
    BY <2>1, <2>3, <2>4
  <2>7. QED
    BY <2>4, <2>5, <2>6 DEF PacketInv
<1>2. ASSUME Shorten PROVE PacketInv'
  <2>1. packet # <<>> /\ packet' = Front(packet) /\ origin' = origin
    BY <1>2 DEF Shorten
  <2>2. packet \in Seq(Nat)
    BY DEF PacketInv
  <2>3. Begins(packet, packet)
    BY <2>2 DEF Begins
  <2>4. packet' \in Seq(Nat)
    BY <2>1, <2>3, FrontBegins DEF Begins
  <2>5. ASSUME origin # None PROVE origin \in WireEvents /\ Begins(packet', Encoded(origin))
    BY <2>1, <2>5, FrontBegins DEF PacketInv
  <2>6. QED
    BY <2>1, <2>4, <2>5 DEF PacketInv
<1>3. ASSUME UNCHANGED packetVars PROVE PacketInv'
  BY <1>3 DEF PacketInv, packetVars
<1>4. QED
  BY <1>1, <1>2, <1>3 DEF PacketNext

\* What is read is what was written, for every event, every padding and every length that is
\* cut off: an event whose cells have all arrived is read back whole, and a packet that misses
\* one of them is refused (protocol/mod.rs: to_wire_bytes, from_wire_bytes).
THEOREM PacketsRoundTrip == PacketSpec => []RoundTrip
<1>1. PacketInit => PacketInv
  BY PacketInvStarts
<1>2. PacketInv /\ [PacketNext]_packetVars => PacketInv'
  BY PacketInvStays
<1>3. PacketInv => RoundTrip
  BY DecodedPrefix DEF PacketInv, RoundTrip
<1>4. QED
  BY <1>1, <1>2, <1>3, PTL DEF PacketSpec

-----------------------------------------------------------------------------
(* What is published is accepted *)

Chosen(s) == CHOOSE x \in s : TRUE

\* The function that the fold over T computes on its subsets.
Weighed(T) ==
  CHOOSE it : it = [s \in SUBSET T |-> IF s = {} THEN 0 ELSE Bytes(Chosen(s)) + it[s \ {Chosen(s)}]]

LEMMA WeightIsSum == ASSUME NEW S PROVE Weight(S) = Weighed(S)[S]
BY DEF Weight, MapThenSumSet, MapThenFoldSet, Weighed, Chosen

LEMMA WeightOfNone == Weight({}) = 0
<1>1. PICK h : h = [s \in SUBSET {} |-> 0]
  OBVIOUS
<1>2. \A s \in SUBSET {} : s = {}
  OBVIOUS
<1>3. h = [s \in SUBSET {} |-> IF s = {} THEN 0 ELSE Bytes(Chosen(s)) + h[s \ {Chosen(s)}]]
  BY <1>1, <1>2
<1>4. Weighed({}) = [s \in SUBSET {} |-> IF s = {} THEN 0 ELSE Bytes(Chosen(s)) + Weighed({})[s \ {Chosen(s)}]]
  BY <1>3 DEF Weighed
<1>5. PICK it : it = Weighed({})
  OBVIOUS
<1>6. it[{}] = 0
  BY <1>4, <1>5
<1>7. QED
  BY <1>5, <1>6, WeightIsSum

LEMMA WeightOfOne ==
  ASSUME NEW t, Bytes(t) \in Nat
  PROVE  Weight({t}) = Bytes(t)
<1>1. PICK T : T = {t}
  OBVIOUS
<1>2. PICK b \in Nat : b = Bytes(t)
  OBVIOUS
<1>3. PICK h : h = [s \in SUBSET T |-> IF s = {} THEN 0 ELSE b]
  OBVIOUS
<1>4. Chosen(T) = t
  BY <1>1 DEF Chosen
<1>5. ASSUME NEW s \in SUBSET T, s # {} PROVE s = T /\ Chosen(s) = t /\ s \ {Chosen(s)} = {}
  <2>1. s = T
    BY <1>1, <1>5
  <2>2. QED
    BY <1>1, <1>4, <2>1
<1>6. {} \in SUBSET T /\ h[{}] = 0 /\ T # {} /\ T \in SUBSET T
  BY <1>1, <1>3
<1>7. ASSUME NEW s \in SUBSET T
      PROVE  (IF s = {} THEN 0 ELSE b) = IF s = {} THEN 0 ELSE Bytes(Chosen(s)) + h[s \ {Chosen(s)}]
  <2>1. CASE s = {}
    BY <2>1
  <2>2. CASE s # {}
    <3>1. Chosen(s) = t /\ s \ {Chosen(s)} = {}
      BY <1>5, <2>2
    <3>2. Bytes(Chosen(s)) + h[s \ {Chosen(s)}] = b + 0
      BY <1>2, <1>6, <3>1
    <3>3. QED
      BY <2>2, <3>2
  <2>3. QED
    BY <2>1, <2>2
<1>8. h = [s \in SUBSET T |-> IF s = {} THEN 0 ELSE Bytes(Chosen(s)) + h[s \ {Chosen(s)}]]
  BY <1>3, <1>7
<1>9. Weighed(T) = [s \in SUBSET T |-> IF s = {} THEN 0 ELSE Bytes(Chosen(s)) + Weighed(T)[s \ {Chosen(s)}]]
  BY <1>8 DEF Weighed
<1>10. PICK it : it = Weighed(T)
  OBVIOUS
<1>11. it[{}] = 0
  BY <1>6, <1>9, <1>10
<1>12. it[T] = Bytes(Chosen(T)) + it[T \ {Chosen(T)}]
  BY <1>6, <1>9, <1>10
<1>13. T \ {Chosen(T)} = {}
  BY <1>5, <1>6
<1>14. it[T] = b
  BY <1>2, <1>4, <1>11, <1>12, <1>13
<1>15. QED
  BY <1>1, <1>2, <1>10, <1>14, WeightIsSum

\* JSON makes at most six bytes of a character.
LEMMA BytesBound ==
  ASSUME NEW t \in Texts
  PROVE  t.chars \in Nat /\ Bytes(t) \in Nat /\ Bytes(t) <= 6 * t.chars
<1>1. PICK c \in Nat, w \in 1 .. 6 : c = t.chars /\ w = t.width
  BY PublicationAssumption
<1>2. c * w \in Nat /\ c * w <= 6 * c
  <2>1. w = 1 \/ w = 2 \/ w = 3 \/ w = 4 \/ w = 5 \/ w = 6
    OBVIOUS
  <2>2. c * 1 = c /\ c * 2 = c + c /\ c * 3 = c + c + c /\ c * 4 = c + c + c + c
        /\ c * 5 = c + c + c + c + c /\ c * 6 = c + c + c + c + c + c /\ 6 * c = c * 6
    OBVIOUS
  <2>3. QED
    BY <2>1, <2>2
<1>3. QED
  BY <1>1, <1>2 DEF Bytes

LEMMA OptionalWeight ==
  ASSUME NEW S \in Optional(Texts), NEW n \in Nat, \A t \in S : t.chars <= n
  PROVE  Weight(S) \in Nat /\ Weight(S) <= 6 * n
<1>1. CASE S = {}
  BY <1>1, WeightOfNone
<1>2. ASSUME NEW t \in Texts, S = {t} PROVE Weight(S) \in Nat /\ Weight(S) <= 6 * n
  <2>1. t.chars \in Nat /\ Bytes(t) \in Nat /\ Bytes(t) <= 6 * t.chars /\ t.chars <= n
    BY <1>2, BytesBound
  <2>2. Weight(S) = Bytes(t)
    BY <1>2, <2>1, WeightOfOne
  <2>3. PICK b \in Nat, c \in Nat : b = Bytes(t) /\ c = t.chars
    BY <2>1
  <2>4. b <= 6 * n
    BY <2>1, <2>3
  <2>5. QED
    BY <2>2, <2>3, <2>4
<1>3. QED
  BY <1>1, <1>2 DEF Optional

\* Whatever work the reader asks, up to what was done.
Acceptable(e) ==
  e.kind \in DOMAIN Caps =>
    \A required \in 0 .. e.difficulty :
      /\ e.kind \in Own \/ Sound(e)
      /\ e.kind = "SocialComment" => \A p \in e.content.parent : p.chars <= MaxId
      => Accepts(e, required)

Event(kind, content, bytes, difficulty) ==
  [kind |-> kind, content |-> content, bytes |-> bytes, difficulty |-> difficulty]

\* What remains to be shown of an event: its bytes and, when it is the node's own, its bounds.
LEMMA EnoughForAcceptance ==
  ASSUME NEW kind, NEW content, NEW bytes, NEW d \in Nat,
         kind \in Own => Sound(Event(kind, content, bytes, d)),
         /\ kind \in DOMAIN Caps
         /\ Sound(Event(kind, content, bytes, d))
         /\ kind = "SocialComment" => \A p \in content.parent : p.chars <= MaxId
         => bytes <= Caps[kind]
  PROVE  Acceptable(Event(kind, content, bytes, d))
<1>1. PICK e : e = Event(kind, content, bytes, d)
  OBVIOUS
<1>2. e.kind = kind /\ e.content = content /\ e.bytes = bytes /\ e.difficulty = d
  BY <1>1 DEF Event
<1>3. ASSUME kind \in DOMAIN Caps, NEW required \in 0 .. d, kind \in Own \/ Sound(e),
             kind = "SocialComment" => \A p \in content.parent : p.chars <= MaxId
      PROVE  Accepts(e, required)
  <2>1. Sound(e)
    BY <1>1, <1>3
  <2>2. WithinCap(e)
    BY <1>1, <1>2, <1>3, <2>1, Zenon DEF WithinCap
  <2>3. e.difficulty >= required
    BY <1>2
  <2>4. QED
    BY <2>1, <2>2, <2>3, Zenon DEF Accepts
<1>4. Acceptable(e)
  BY <1>2, <1>3, Zenon DEF Acceptable
<1>5. QED
  BY <1>1, <1>4

LEMMA CapsNamed ==
  /\ Wrapping \in Nat /\ MaxTuitter \in Nat /\ MaxTitle \in Nat /\ MaxRedit \in Nat /\ MaxSlug \in Nat
  /\ MaxId \in Nat /\ MaxMessage \in Nat /\ MaxReason \in Nat /\ PayloadChunk \in Nat /\ TopDifficulty \in Nat
BY PublicationAssumption

LEMMA PostAcceptable ==
  ASSUME NEW platform, NEW body \in Texts, NEW title \in Optional(Texts), NEW slug \in Optional(Texts),
         NEW d \in Nat, NEW post, post = [platform |-> platform, title |-> title, body |-> body, slug |-> slug],
         PostSound(post)
  PROVE  Acceptable(Event("SocialPost", post, Wrapping + Weight({body}) + Weight(title) + Weight(slug), d))
<1>1. post.platform = platform /\ post.title = title /\ post.body = body /\ post.slug = slug
  OBVIOUS
<1>2. PICK bytes : bytes = Wrapping + Weight({body}) + Weight(title) + Weight(slug)
  OBVIOUS
<1>3. Sound(Event("SocialPost", post, bytes, d))
  BY DEF Sound, Event
<1>4. PICK b \in Nat, c \in Nat : c = body.chars /\ b = Bytes(body) /\ b <= 6 * c
  BY BytesBound
<1>5. Weight({body}) = b
  BY <1>4, WeightOfOne
<1>6. bytes <= Caps["SocialPost"]
  <2>1. CASE platform = "Tuitter"
    <3>1. title = {} /\ slug = {} /\ c <= MaxTuitter
      BY <1>1, <1>4, <2>1 DEF PostSound
    <3>2. Weight(title) = 0 /\ Weight(slug) = 0
      BY <3>1, WeightOfNone
    <3>3. bytes = Wrapping + b + 0 + 0
      BY <1>2, <1>5, <3>2
    <3>4. b <= 6 * MaxTuitter
      BY <1>4, <3>1, CapsNamed
    <3>5. Caps["SocialPost"] \in Nat /\ Caps["SocialPost"] >= Wrapping + 6 * MaxTuitter
      BY RoomAssumption
    <3>6. QED
      BY <3>3, <3>4, <3>5, CapsNamed
  <2>2. CASE platform = "Redit"
    <3>1. /\ \E t \in title : t.chars <= MaxTitle
          /\ \E s \in slug : Within(s, 1, MaxSlug)
          /\ c <= MaxRedit
      BY <1>1, <1>4, <2>2 DEF PostSound
    <3>2. \A t \in title : t.chars <= MaxTitle
      BY <3>1 DEF Optional
    <3>3. \A s \in slug : s.chars <= MaxSlug
      <4>1. PICK s \in slug : Within(s, 1, MaxSlug)
        BY <3>1
      <4>2. s.chars <= MaxSlug
        BY <4>1, CapsNamed DEF Within
      <4>3. slug = {s}
        BY <4>1 DEF Optional
      <4>4. QED
        BY <4>2, <4>3
    <3>4. PICK u \in Nat, v \in Nat : u = Weight(title) /\ v = Weight(slug) /\ u <= 6 * MaxTitle /\ v <= 6 * MaxSlug
      BY <3>2, <3>3, CapsNamed, OptionalWeight
    <3>5. bytes = Wrapping + b + u + v
      BY <1>2, <1>5, <3>4
    <3>6. Caps["SocialPost"] \in Nat /\ Caps["SocialPost"] >= Wrapping + 6 * (MaxRedit + MaxTitle + MaxSlug)
      BY RoomAssumption
    <3>7. b <= 6 * MaxRedit
      BY <1>4, <3>1, CapsNamed
    <3>8. QED
      BY <3>4, <3>5, <3>6, <3>7, CapsNamed
  <2>3. platform = "Tuitter" \/ platform = "Redit"
    BY <1>1 DEF PostSound
  <2>4. QED
    BY <2>1, <2>2, <2>3
<1>7. QED
  BY <1>2, <1>3, <1>6, EnoughForAcceptance

LEMMA CommentAcceptable ==
  ASSUME NEW post \in Texts, NEW parent \in Optional(Texts), NEW body \in Texts, NEW d \in Nat,
         NEW comment, comment = [post |-> post, parent |-> parent, body |-> body],
         CommentSound(comment)
  PROVE  Acceptable(Event("SocialComment", comment, Wrapping + Bytes(post) + Weight(parent) + Bytes(body), d))
<1>1. comment.post = post /\ comment.parent = parent /\ comment.body = body
  OBVIOUS
<1>2. PICK bytes : bytes = Wrapping + Bytes(post) + Weight(parent) + Bytes(body)
  OBVIOUS
<1>3. Sound(Event("SocialComment", comment, bytes, d))
  BY DEF Sound, Event
<1>4. PICK b \in Nat, c \in Nat : c = body.chars /\ b = Bytes(body) /\ b <= 6 * c
  BY BytesBound
<1>5. PICK p \in Nat, i \in Nat : i = post.chars /\ p = Bytes(post) /\ p <= 6 * i
  BY BytesBound
<1>6. c <= MaxRedit /\ i <= MaxId
  BY <1>1, <1>4, <1>5, CapsNamed DEF CommentSound, Within
<1>7. ASSUME \A t \in parent : t.chars <= MaxId PROVE bytes <= Caps["SocialComment"]
  <2>1. PICK u \in Nat : u = Weight(parent) /\ u <= 6 * MaxId
    BY <1>7, CapsNamed, OptionalWeight
  <2>2. bytes = Wrapping + p + u + b
    BY <1>2, <1>4, <1>5, <2>1
  <2>3. Caps["SocialComment"] \in Nat /\ Caps["SocialComment"] >= Wrapping + 6 * (2 * MaxId + MaxRedit)
    BY RoomAssumption
  <2>4. QED
    BY <1>4, <1>5, <1>6, <2>1, <2>2, <2>3, CapsNamed
<1>8. Acceptable(Event("SocialComment", comment, bytes, d))
  BY <1>1, <1>3, <1>7, EnoughForAcceptance
<1>9. QED
  BY <1>2, <1>8

LEMMA OthersAcceptable ==
  ASSUME NEW t \in Texts, NEW u \in Texts, NEW direction, NEW key, NEW table, NEW d \in Nat
  PROVE  /\ Acceptable(Event("SocialVote", [target |-> t, direction |-> direction, table |-> table],
                             Wrapping + Bytes(t), d))
         /\ Acceptable(Event("SocialFollow", [followed |-> key], Wrapping + 0, d))
         /\ Acceptable(Event("SocialMessage", [recipient |-> key, body |-> t], Wrapping + Bytes(t), d))
         /\ Acceptable(Event("SocialModeration", [target |-> t, reason |-> u],
                             Wrapping + (Bytes(t) + Bytes(u)), d))
<1>1. PICK b \in Nat, c \in Nat : c = t.chars /\ b = Bytes(t) /\ b <= 6 * c
  BY BytesBound
<1>2. PICK r \in Nat, l \in Nat : l = u.chars /\ r = Bytes(u) /\ r <= 6 * l
  BY BytesBound
<1>3. "SocialVote" \notin Own /\ "SocialFollow" \notin Own /\ "SocialMessage" \notin Own /\ "SocialModeration" \notin Own
  BY DEF Own
<1>4. Acceptable(Event("SocialVote", [target |-> t, direction |-> direction, table |-> table], Wrapping + Bytes(t), d))
  <2>1. PICK x : x = [target |-> t, direction |-> direction, table |-> table]
    OBVIOUS
  <2>2. ASSUME Sound(Event("SocialVote", x, Wrapping + b, d)) PROVE Wrapping + b <= Caps["SocialVote"]
    <3>1. VoteSound(x)
      BY <2>2 DEF Sound, Event
    <3>2. c <= MaxId
      BY <1>1, <2>1, <3>1, CapsNamed DEF VoteSound, Within
    <3>3. Caps["SocialVote"] \in Nat /\ Caps["SocialVote"] >= Wrapping + 6 * MaxId
      BY RoomAssumption
    <3>4. QED
      BY <1>1, <3>2, <3>3, CapsNamed
  <2>3. Acceptable(Event("SocialVote", x, Wrapping + b, d))
    BY <1>3, <2>2, EnoughForAcceptance
  <2>4. QED
    BY <1>1, <2>1, <2>3
<1>5. Acceptable(Event("SocialFollow", [followed |-> key], Wrapping + 0, d))
  <2>1. Caps["SocialFollow"] \in Nat /\ Caps["SocialFollow"] >= Wrapping
    BY RoomAssumption
  <2>2. Wrapping + 0 <= Caps["SocialFollow"]
    BY <2>1, CapsNamed
  <2>3. QED
    BY <1>3, <2>2, EnoughForAcceptance
<1>6. Acceptable(Event("SocialMessage", [recipient |-> key, body |-> t], Wrapping + Bytes(t), d))
  <2>1. PICK x : x = [recipient |-> key, body |-> t]
    OBVIOUS
  <2>2. ASSUME Sound(Event("SocialMessage", x, Wrapping + b, d)) PROVE Wrapping + b <= Caps["SocialMessage"]
    <3>1. MessageSound(x)
      BY <2>2 DEF Sound, Event
    <3>2. c <= MaxMessage
      BY <1>1, <2>1, <3>1 DEF MessageSound
    <3>3. Caps["SocialMessage"] \in Nat /\ Caps["SocialMessage"] >= Wrapping + 6 * MaxMessage
      BY RoomAssumption
    <3>4. QED
      BY <1>1, <3>2, <3>3, CapsNamed
  <2>3. Acceptable(Event("SocialMessage", x, Wrapping + b, d))
    BY <1>3, <2>2, EnoughForAcceptance
  <2>4. QED
    BY <1>1, <2>1, <2>3
<1>7. Acceptable(Event("SocialModeration", [target |-> t, reason |-> u], Wrapping + (Bytes(t) + Bytes(u)), d))
  <2>1. PICK x : x = [target |-> t, reason |-> u]
    OBVIOUS
  <2>2. ASSUME Sound(Event("SocialModeration", x, Wrapping + (b + r), d))
        PROVE  Wrapping + (b + r) <= Caps["SocialModeration"]
    <3>1. ModerationSound(x)
      BY <2>2 DEF Sound, Event
    <3>2. c <= MaxId /\ l <= MaxReason
      BY <1>1, <1>2, <2>1, <3>1, CapsNamed DEF ModerationSound, Within
    <3>3. Caps["SocialModeration"] \in Nat /\ Caps["SocialModeration"] >= Wrapping + 6 * (MaxId + MaxReason)
      BY RoomAssumption
    <3>4. QED
      BY <1>1, <1>2, <3>2, <3>3, CapsNamed
  <2>3. Acceptable(Event("SocialModeration", x, Wrapping + (b + r), d))
    BY <1>3, <2>2, EnoughForAcceptance
  <2>4. QED
    BY <1>1, <1>2, <2>1, <2>3
<1>8. QED
  BY <1>4, <1>5, <1>6, <1>7

LEMMA ChunkAcceptable ==
  ASSUME NEW length, NEW bytes, NEW d
  PROVE  Acceptable(Event("UpdateChunk", length, bytes, d))
<1>1. "UpdateChunk" \notin DOMAIN Caps
  BY RoomAssumption
<1>2. QED
  BY <1>1 DEF Acceptable, Event

\* Whatever is published is acceptable when it is published.
LEMMA StepAcceptable == ASSUME PublicationNext PROVE Acceptable(published')
<1>1. PICK d \in 0 .. TopDifficulty :
    \/ \E name \in {"Tuitter", "tuitter", "Redit", "redit", "other"}, body \in Texts,
          title, slug \in Optional(Texts) : PublishPost(name, title, body, slug, d)
    \/ \E post, body \in Texts, parent \in Optional(Texts) : PublishComment(post, parent, body, d)
    \/ \E n \in {1, PayloadChunk \div 2, PayloadChunk} : PublishChunk(n, d)
    \/ \E t, u \in Texts, direction \in -2 .. 2, key \in BOOLEAN, table \in {"posts", "users"} :
          \/ WriteElsewhere("SocialVote", [target |-> t, direction |-> direction, table |-> table], Bytes(t), d)
          \/ WriteElsewhere("SocialFollow", [followed |-> key], 0, d)
          \/ WriteElsewhere("SocialMessage", [recipient |-> key, body |-> t], Bytes(t), d)
          \/ WriteElsewhere("SocialModeration", [target |-> t, reason |-> u], Bytes(t) + Bytes(u), d)
  BY Zenon DEF PublicationNext
<1>2. d \in Nat
  BY CapsNamed
<1>3. ASSUME NEW name, NEW body \in Texts, NEW title \in Optional(Texts), NEW slug \in Optional(Texts),
             PublishPost(name, title, body, slug, d)
      PROVE  Acceptable(published')
  <2>1. PICK post : post = [platform |-> Platform(name), title |-> title, body |-> body, slug |-> slug]
    OBVIOUS
  <2>2. PICK w : w = Wrapping + Weight({body}) + Weight(title) + Weight(slug)
    OBVIOUS
  <2>3. PostSound(post) /\ published' = Event("SocialPost", post, w, d)
    BY <1>3, <2>1, <2>2 DEF PublishPost, Publish, Event
  <2>4. Acceptable(Event("SocialPost", post, w, d))
    BY <1>2, <2>1, <2>2, <2>3, PostAcceptable
  <2>5. QED
    BY <2>3, <2>4
<1>4. ASSUME NEW post \in Texts, NEW body \in Texts, NEW parent \in Optional(Texts), PublishComment(post, parent, body, d)
      PROVE  Acceptable(published')
  <2>1. PICK comment : comment = [post |-> post, parent |-> parent, body |-> body]
    OBVIOUS
  <2>2. PICK w : w = Wrapping + Bytes(post) + Weight(parent) + Bytes(body)
    OBVIOUS
  <2>3. CommentSound(comment) /\ published' = Event("SocialComment", comment, w, d)
    BY <1>4, <2>1, <2>2 DEF PublishComment, Publish, Event
  <2>4. Acceptable(Event("SocialComment", comment, w, d))
    BY <1>2, <2>1, <2>2, <2>3, CommentAcceptable
  <2>5. QED
    BY <2>3, <2>4
<1>5. ASSUME NEW n, PublishChunk(n, d) PROVE Acceptable(published')
  <2>1. published' = Event("UpdateChunk", n, Base64(n), d)
    BY <1>5 DEF PublishChunk, Publish, Event
  <2>2. QED
    BY <2>1, ChunkAcceptable
<1>6. ASSUME NEW t \in Texts, NEW u \in Texts, NEW direction, NEW key, NEW table,
             \/ WriteElsewhere("SocialVote", [target |-> t, direction |-> direction, table |-> table], Bytes(t), d)
             \/ WriteElsewhere("SocialFollow", [followed |-> key], 0, d)
             \/ WriteElsewhere("SocialMessage", [recipient |-> key, body |-> t], Bytes(t), d)
             \/ WriteElsewhere("SocialModeration", [target |-> t, reason |-> u], Bytes(t) + Bytes(u), d)
      PROVE  Acceptable(published')
  <2>1. \/ published' = Event("SocialVote", [target |-> t, direction |-> direction, table |-> table], Wrapping + Bytes(t), d)
        \/ published' = Event("SocialFollow", [followed |-> key], Wrapping + 0, d)
        \/ published' = Event("SocialMessage", [recipient |-> key, body |-> t], Wrapping + Bytes(t), d)
        \/ published' = Event("SocialModeration", [target |-> t, reason |-> u], Wrapping + (Bytes(t) + Bytes(u)), d)
    BY <1>6, Zenon DEF WriteElsewhere, Publish, Event
  <2>2. /\ Acceptable(Event("SocialVote", [target |-> t, direction |-> direction, table |-> table], Wrapping + Bytes(t), d))
        /\ Acceptable(Event("SocialFollow", [followed |-> key], Wrapping + 0, d))
        /\ Acceptable(Event("SocialMessage", [recipient |-> key, body |-> t], Wrapping + Bytes(t), d))
        /\ Acceptable(Event("SocialModeration", [target |-> t, reason |-> u], Wrapping + (Bytes(t) + Bytes(u)), d))
    BY <1>2, OthersAcceptable
  <2>3. QED
    BY <2>1, <2>2, Zenon
<1>7. QED
  BY <1>1, <1>3, <1>4, <1>5, <1>6, Zenon

\* What a node publishes no other node holds against it, and what others write within the
\* bounds is held against nobody, for every text, bound, cap and amount of work: the caps
\* need only leave room for the bounds (node/mod.rs: publish_social_post,
\* handle_incoming_social, check_social_payload_size).
THEOREM AlwaysAccepted == PublicationSpec => []PublishedAccepted
<1>1. PublishedAccepted <=> Acceptable(published)
  BY DEF PublishedAccepted, Acceptable
<1>2. PublishedAccepted' <=> Acceptable(published')
  BY DEF PublishedAccepted, Acceptable
<1>3. PublicationInit => PublishedAccepted
  <2>1. "none" \notin DOMAIN Caps
    BY RoomAssumption
  <2>2. QED
    BY <2>1 DEF PublicationInit, Unpublished, PublishedAccepted
<1>4. PublishedAccepted /\ [PublicationNext]_published => PublishedAccepted'
  <2>1. PublicationNext => PublishedAccepted'
    BY <1>2, StepAcceptable
  <2>2. PublishedAccepted /\ published' = published => PublishedAccepted'
    BY DEF PublishedAccepted
  <2>3. QED
    BY <2>1, <2>2
<1>5. QED
  BY <1>3, <1>4, PTL DEF PublicationSpec

-----------------------------------------------------------------------------
(* What the readers of offline content find *)

\* A finite set of integers has a least and a greatest element.
HasEnds(T) == (\E x \in T : \A y \in T : x <= y) /\ (\E x \in T : \A y \in T : x >= y)

LEMMA EndsExist ==
  ASSUME NEW S \in SUBSET Int, IsFiniteSet(S), S # {}
  PROVE  HasEnds(S)
<1> DEFINE G == {n \in Nat : \A T \in SUBSET Int : IsFiniteSet(T) /\ Cardinality(T) = n /\ T # {} => HasEnds(T)}
<1>1. 0 \in G
  <2>1. ASSUME NEW T \in SUBSET Int, IsFiniteSet(T), Cardinality(T) = 0, T # {} PROVE HasEnds(T)
    BY <2>1, FS_EmptySet
  <2>2. QED
    BY <2>1
<1>2. ASSUME NEW n \in G PROVE n + 1 \in G
  <2>1. n \in Nat /\ n + 1 \in Nat
    OBVIOUS
  <2>2. ASSUME NEW T \in SUBSET Int, IsFiniteSet(T), Cardinality(T) = n + 1, T # {} PROVE HasEnds(T)
    <3>1. PICK t \in T : TRUE
      BY <2>2
    <3>2. PICK R : R = T \ {t}
      OBVIOUS
    <3>3. IsFiniteSet(R) /\ Cardinality(R) = Cardinality(T) - 1
      BY <2>2, <3>1, <3>2, FS_RemoveElement
    <3>4. R \in SUBSET Int /\ Cardinality(R) = n /\ t \in Int /\ T = R \cup {t}
      BY <2>1, <2>2, <3>1, <3>2, <3>3
    <3>5. CASE R = {}
      BY <3>4, <3>5 DEF HasEnds
    <3>6. CASE R # {}
      <4>1. HasEnds(R)
        BY <3>3, <3>4, <3>6
      <4>2. PICK x \in R : \A y \in R : x <= y
        BY <4>1 DEF HasEnds
      <4>3. PICK z \in R : \A y \in R : z >= y
        BY <4>1 DEF HasEnds
      <4>4. PICK least \in T : \A y \in T : least <= y
        <5>1. CASE x <= t
          BY <3>4, <4>2, <5>1
        <5>2. CASE ~(x <= t)
          <6>1. \A y \in T : t <= y
            BY <3>4, <4>2, <5>2
          <6>2. QED
            BY <3>1, <6>1
        <5>3. QED
          BY <5>1, <5>2
      <4>5. PICK most \in T : \A y \in T : most >= y
        <5>1. CASE z >= t
          BY <3>4, <4>3, <5>1
        <5>2. CASE ~(z >= t)
          <6>1. \A y \in T : t >= y
            BY <3>4, <4>3, <5>2
          <6>2. QED
            BY <3>1, <6>1
        <5>3. QED
          BY <5>1, <5>2
      <4>6. QED
        BY <4>4, <4>5 DEF HasEnds
    <3>7. QED
      BY <3>5, <3>6
  <2>3. QED
    BY <2>1, <2>2
<1>3. G \in SUBSET Nat
  OBVIOUS
<1>4. \A n \in Nat : n \in G
  <2> HIDE DEF G
  <2>1. QED
    BY <1>1, <1>2, <1>3, UpFrom0
<1>5. Cardinality(S) \in Nat
  BY FS_CardinalityType
<1>6. QED
  BY <1>4, <1>5

LEMMA EndsOfSet ==
  ASSUME NEW S \in SUBSET Int, IsFiniteSet(S), S # {}
  PROVE  /\ Min(S) \in S /\ \A y \in S : Min(S) <= y
         /\ Max(S) \in S /\ \A y \in S : Max(S) >= y
<1>1. HasEnds(S)
  BY EndsExist
<1>2. Min(S) \in S /\ \A y \in S : Min(S) <= y
  BY <1>1 DEF Min, HasEnds
<1>3. Max(S) \in S /\ \A y \in S : Max(S) >= y
  BY <1>1 DEF Max, HasEnds
<1>4. QED
  BY <1>2, <1>3

-----------------------------------------------------------------------------
(* Tiles *)

Formats == {"jpg", "png", "pbf", "webp"}

\* What a file that is accepted declares.
LEMMA AcceptedFile ==
  ASSUME NEW f, TileRefusal(f) = "none"
  PROVE  /\ Format(f.format[1]) \in Formats
         /\ f.min # <<>> => f.min[1] \in 0 .. 255
         /\ f.max # <<>> => f.max[1] \in 0 .. 255
<1>1. MetadataSound(f)
  BY DEF TileRefusal
<1>2. Format(f.format[1]) # "none"
  BY <1>1 DEF MetadataSound
<1>3. Format(f.format[1]) \in Formats
  BY <1>2 DEF Format, Formats
<1>4. \A ends \in {f.min, f.max} : ends # <<>> => ends[1] \in 0 .. 255
  BY <1>1 DEF MetadataSound, FirstIs
<1>5. QED
  BY <1>3, <1>4

\* The ends of the zoom range leave out no row but those a file declares out of it.
LEMMA ZoomsWithin ==
  ASSUME NEW f \in TileFiles, TileRefusal(f) = "none", NEW z \in Nat
  PROVE  /\ \A kept \in f.rows : kept[1] = z => 
              /\ LowZoom(f) # Unset /\ z < LowZoom(f) => Declared(f.min) # Unset /\ ~(z >= Declared(f.min))
              /\ HighZoom(f) # Unset /\ z > HighZoom(f) => Declared(f.max) # Unset /\ ~(z <= Declared(f.max))
         /\ Declared(f.min) # Unset /\ ~(z >= Declared(f.min)) => LowZoom(f) # Unset /\ z < LowZoom(f)
         /\ Declared(f.max) # Unset /\ ~(z <= Declared(f.max)) => HighZoom(f) # Unset /\ z > HighZoom(f)
<1>1. f.min # <<>> => f.min[1] \in 0 .. 255
  BY AcceptedFile
<1>2. f.max # <<>> => f.max[1] \in 0 .. 255
  BY AcceptedFile
<1>3. f.rows \subseteq Int \X Int \X Int /\ IsFiniteSet(f.rows)
  BY OfflineAssumption
<1>4. Zooms(f) \in SUBSET Int
  BY <1>3 DEF Zooms
<1>5. IsFiniteSet(Zooms(f))
  <2>1. PICK g : g = [kept \in f.rows |-> kept[1]]
    OBVIOUS
  <2>2. g \in [f.rows -> Zooms(f)]
    BY <2>1 DEF Zooms
  <2>3. \A y \in Zooms(f) : \E kept \in f.rows : g[kept] = y
    BY <2>1 DEF Zooms
  <2>4. g \in Surjection(f.rows, Zooms(f))
    BY <2>2, <2>3 DEF Surjection
  <2>5. QED
    BY <1>3, <2>4, FS_Surjection
<1>6. ASSUME f.min # <<>> PROVE LowZoom(f) = f.min[1] /\ Declared(f.min) = f.min[1] /\ f.min[1] \in Nat /\ f.min[1] # Unset
  <2>1. PICK m \in 0 .. 255 : m = f.min[1]
    BY <1>1, <1>6
  <2>2. m \in Nat /\ m # -1
    OBVIOUS
  <2>3. QED
    BY <1>6, <2>1, <2>2, Zenon DEF LowZoom, Declared, Unset
<1>7. ASSUME f.max # <<>> PROVE HighZoom(f) = f.max[1] /\ Declared(f.max) = f.max[1] /\ f.max[1] \in Nat /\ f.max[1] # Unset
  <2>1. PICK m \in 0 .. 255 : m = f.max[1]
    BY <1>2, <1>7
  <2>2. m \in Nat /\ m # -1
    OBVIOUS
  <2>3. QED
    BY <1>7, <2>1, <2>2, Zenon DEF HighZoom, Declared, Unset
<1>8. ASSUME f.min = <<>> PROVE Declared(f.min) = Unset /\ \A y \in Zooms(f) : LowZoom(f) \in Int /\ LowZoom(f) <= y
  <2>1. Declared(f.min) = Unset
    BY <1>8 DEF Declared
  <2>2. ASSUME NEW y \in Zooms(f) PROVE LowZoom(f) \in Int /\ LowZoom(f) <= y
    <3>1. Min(Zooms(f)) \in Zooms(f) /\ Min(Zooms(f)) <= y
      BY <1>4, <1>5, EndsOfSet
    <3>2. LowZoom(f) = Min(Zooms(f))
      BY <1>8, <2>2 DEF LowZoom
    <3>3. QED
      BY <1>4, <3>1, <3>2
  <2>3. QED
    BY <2>1, <2>2
<1>9. ASSUME f.max = <<>> PROVE Declared(f.max) = Unset /\ \A y \in Zooms(f) : HighZoom(f) \in Int /\ HighZoom(f) >= y
  <2>1. Declared(f.max) = Unset
    BY <1>9 DEF Declared
  <2>2. ASSUME NEW y \in Zooms(f) PROVE HighZoom(f) \in Int /\ HighZoom(f) >= y
    <3>1. Max(Zooms(f)) \in Zooms(f) /\ Max(Zooms(f)) >= y
      BY <1>4, <1>5, EndsOfSet
    <3>2. HighZoom(f) = Max(Zooms(f))
      BY <1>9, <2>2 DEF HighZoom
    <3>3. QED
      BY <1>4, <3>1, <3>2
  <2>3. QED
    BY <2>1, <2>2
<1>10. ASSUME NEW kept \in f.rows, kept[1] = z PROVE z \in Zooms(f)
  BY <1>10 DEF Zooms
<1>11. /\ \A kept \in f.rows : kept[1] = z =>
            (LowZoom(f) # Unset /\ z < LowZoom(f) => Declared(f.min) # Unset /\ ~(z >= Declared(f.min)))
       /\ Declared(f.min) # Unset /\ ~(z >= Declared(f.min)) => LowZoom(f) # Unset /\ z < LowZoom(f)
  <2>1. CASE f.min # <<>>
    <3>1. PICK m \in Nat : m = LowZoom(f) /\ m = Declared(f.min) /\ m # Unset
      BY <1>6, <2>1
    <3>2. z < m <=> ~(z >= m)
      OBVIOUS
    <3>3. QED
      BY <3>1, <3>2
  <2>2. CASE f.min = <<>>
    <3>1. Declared(f.min) = Unset
      BY <1>8, <2>2
    <3>2. ASSUME NEW kept \in f.rows, kept[1] = z PROVE ~(z < LowZoom(f))
      BY <1>8, <1>10, <2>2, <3>2
    <3>3. QED
      BY <3>1, <3>2
  <2>3. QED
    BY <2>1, <2>2
<1>12. /\ \A kept \in f.rows : kept[1] = z =>
            (HighZoom(f) # Unset /\ z > HighZoom(f) => Declared(f.max) # Unset /\ ~(z <= Declared(f.max)))
       /\ Declared(f.max) # Unset /\ ~(z <= Declared(f.max)) => HighZoom(f) # Unset /\ z > HighZoom(f)
  <2>1. CASE f.max # <<>>
    <3>1. PICK m \in Nat : m = HighZoom(f) /\ m = Declared(f.max) /\ m # Unset
      BY <1>7, <2>1
    <3>2. z > m <=> ~(z <= m)
      OBVIOUS
    <3>3. QED
      BY <3>1, <3>2
  <2>2. CASE f.max = <<>>
    <3>1. Declared(f.max) = Unset
      BY <1>9, <2>2
    <3>2. ASSUME NEW kept \in f.rows, kept[1] = z PROVE ~(z > HighZoom(f))
      BY <1>9, <1>10, <2>2, <3>2
    <3>3. QED
      BY <3>1, <3>2
  <2>3. QED
    BY <2>1, <2>2
<1>13. QED
  BY <1>11, <1>12

\* The reader of an accepted file.
Serving(f) ==
  [refused |-> "none", low |-> LowZoom(f), high |-> HighZoom(f), format |-> Format(f.format[1]), rows |-> f.rows]

LEMMA TileFound ==
  ASSUME NEW f \in TileFiles, TileRefusal(f) = "none", NEW z \in Nat, NEW x \in Nat, NEW y \in Nat
  PROVE  TileAnswer(Serving(f), z, x, y) \in Formats <=> \E kept \in Servable(f) : Mirrors(<<z, x, y>>, kept)
<1>1. PICK r : r = Serving(f)
  OBVIOUS
<1>2. r.low = LowZoom(f) /\ r.high = HighZoom(f) /\ r.format = Format(f.format[1]) /\ r.rows = f.rows
  BY <1>1 DEF Serving
<1>3. r.format \in Formats
  BY <1>2, AcceptedFile
<1>4. ZoomCap \in Nat /\ f.rows \subseteq Int \X Int \X Int
  BY OfflineAssumption
<1>5. PICK p \in Int : p = 2 ^ z
  OBVIOUS
<1>6. "ZoomOutOfRange" \notin Formats /\ "CoordinatesOutOfBounds" \notin Formats /\ "empty" \notin Formats
  BY DEF Formats
<1> DEFINE Beyond == (r.low # Unset /\ z < r.low) \/ (r.high # Unset /\ z > r.high)
<1>7. TileAnswer(r, z, x, y) \in Formats <=>
        ~(z > ZoomCap) /\ ~(y >= p) /\ ~Beyond /\ ~(x >= p) /\ <<z, x, p - 1 - y>> \in f.rows
  <2>1. Flipped(y, z) = p - 1 - y
    BY <1>5 DEF Flipped
  <2>2. TileAnswer(r, z, x, y) =
          IF z > ZoomCap THEN "ZoomOutOfRange"
          ELSE IF y >= 2 ^ z THEN "CoordinatesOutOfBounds"
          ELSE IF Beyond THEN "ZoomOutOfRange"
          ELSE IF x >= 2 ^ z THEN "CoordinatesOutOfBounds"
          ELSE IF <<z, x, Flipped(y, z)>> \in r.rows THEN r.format
          ELSE "empty"
    BY Zenon DEF TileAnswer
  <2>3. QED
    <3> HIDE DEF Beyond
    <3>1. QED
      BY <1>2, <1>3, <1>5, <1>6, <2>1, <2>2, Zenon
<1>8. ASSUME TileAnswer(r, z, x, y) \in Formats
      PROVE  \E kept \in Servable(f) : Mirrors(<<z, x, y>>, kept)
  <2>1. PICK kept : kept = <<z, x, p - 1 - y>>
    OBVIOUS
  <2>2. kept \in f.rows /\ kept[1] = z /\ kept[2] = x /\ kept[3] = p - 1 - y
    BY <1>7, <1>8, <2>1
  <2>3. z \in 0 .. ZoomCap /\ x < p /\ p - 1 - y \in 0 .. p - 1
    BY <1>4, <1>7, <1>8
  <2>4. ~(r.low # Unset /\ z < r.low) /\ ~(r.high # Unset /\ z > r.high)
    BY <1>7, <1>8, Zenon
  <2>5. Declared(f.min) = Unset \/ z >= Declared(f.min)
    BY <1>2, <2>4, ZoomsWithin
  <2>6. Declared(f.max) = Unset \/ z <= Declared(f.max)
    BY <1>2, <2>4, ZoomsWithin
  <2>7. kept \in Servable(f)
    BY <1>5, <2>2, <2>3, <2>5, <2>6, Zenon DEF Servable
  <2>8. y + (p - 1 - y) + 1 = p
    OBVIOUS
  <2>9. PICK at : at = <<z, x, y>>
    OBVIOUS
  <2>10. at[1] = z /\ at[2] = x /\ at[3] = y
    BY <2>9
  <2>11. Mirrors(at, kept)
    BY <1>5, <2>2, <2>8, <2>10, Zenon DEF Mirrors
  <2>12. QED
    BY <2>7, <2>9, <2>11
<1>9. ASSUME NEW kept \in Servable(f), Mirrors(<<z, x, y>>, kept)
      PROVE  TileAnswer(r, z, x, y) \in Formats
  <2>1. PICK at : at = <<z, x, y>>
    OBVIOUS
  <2>2. at[1] = z /\ at[2] = x /\ at[3] = y
    BY <2>1
  <2>3. kept[1] = z /\ kept[2] = x /\ y + kept[3] + 1 = p
    BY <1>5, <1>9, <2>1, <2>2 DEF Mirrors
  <2>4. /\ kept \in f.rows /\ z \in 0 .. ZoomCap /\ x < p /\ kept[3] \in 0 .. p - 1
        /\ Declared(f.min) = Unset \/ z >= Declared(f.min)
        /\ Declared(f.max) = Unset \/ z <= Declared(f.max)
    BY <1>5, <2>3 DEF Servable
  <2>5. ~(z > ZoomCap) /\ ~(y >= p) /\ ~(x >= p)
    BY <1>4, <2>3, <2>4
  <2>6. ~Beyond
    BY <1>2, <2>3, <2>4, ZoomsWithin
  <2>7. <<z, x, p - 1 - y>> = kept
    <3>1. kept \in Int \X Int \X Int
      BY <1>4, <2>4
    <3>2. kept[3] = p - 1 - y
      BY <2>3, <3>1
    <3>3. kept = <<kept[1], kept[2], kept[3]>>
      BY <3>1
    <3>4. QED
      BY <2>3, <3>2, <3>3
  <2>8. QED
    BY <1>7, <2>4, <2>5, <2>6, <2>7
<1>10. QED
  BY <1>1, <1>8, <1>9
-----------------------------------------------------------------------------
(* Articles *)

\* Where the blobs of a cluster begin, and where the last one ends.
BlobEdges(c, f) ==
  /\ f \in [0 .. Len(c.blobs) -> Nat] /\ f[0] = 1
  /\ \A j \in 1 .. Len(c.blobs) : f[j] = f[j - 1] + Prefix + c.blobs[j]
  /\ \A k \in 1 .. Len(c.blobs) + 1 : BlobOffset(c, k) = f[k - 1]

LEMMA BlobPlaces ==
  ASSUME NEW c, c.blobs \in Seq(Nat)
  PROVE  \E f : BlobEdges(c, f)
<1>1. PICK n \in Nat : n = Len(c.blobs)
  OBVIOUS
<1>2. PICK b : b = c.blobs
  OBVIOUS
<1>3. \A j \in 1 .. n : b[j] \in Nat
  BY <1>1, <1>2
<1>4. Prefix \in Nat
  BY OfflineAssumption
<1>5. PICK g : g = [j \in 1 .. n |-> [x \in Nat |-> x + Prefix + b[j]]]
  OBVIOUS
<1>6. g \in [1 .. n -> [Nat -> Nat]]
  <2>1. ASSUME NEW j \in 1 .. n PROVE [x \in Nat |-> x + Prefix + b[j]] \in [Nat -> Nat]
    BY <1>3, <1>4
  <2>2. QED
    BY <1>5, <2>1
<1>7. PICK f \in [0 .. n -> Nat] : f[0] = 1 /\ \A j \in 1 .. n : f[j] = g[j][f[j - 1]]
  <2>1. Stepping(Nat, n, g, 1)
    BY <1>6, StepByStep
  <2>2. QED
    BY <2>1 DEF Stepping
<1>8. ASSUME NEW j \in 1 .. n PROVE f[j] = f[j - 1] + Prefix + b[j]
  <2>1. j - 1 \in 0 .. n
    OBVIOUS
  <2>2. f[j - 1] \in Nat
    BY <2>1
  <2>3. QED
    BY <1>5, <1>7, <2>2
<1>9. ASSUME NEW k \in 1 .. n + 1 PROVE BlobOffset(c, k) = f[k - 1]
  <2>1. PICK h : h = [j \in 1 .. k |-> f[j - 1]]
    OBVIOUS
  <2>2. ASSUME NEW j \in 1 .. k PROVE f[j - 1] = IF j = 1 THEN 1 ELSE h[j - 1] + Prefix + b[j - 1]
    <3>1. CASE j = 1
      BY <1>7, <3>1
    <3>2. CASE j # 1
      <4>1. PICK i : i = j - 1
        OBVIOUS
      <4>2. i \in 1 .. n /\ i \in 1 .. k
        BY <1>1, <3>2, <4>1
      <4>3. h[i] = f[i - 1] /\ f[i] = f[i - 1] + Prefix + b[i]
        BY <1>8, <2>1, <4>2
      <4>4. QED
        BY <3>2, <4>1, <4>3
    <3>3. QED
      BY <3>1, <3>2
  <2>3. h = [j \in 1 .. k |-> IF j = 1 THEN 1 ELSE h[j - 1] + Prefix + b[j - 1]]
    BY <2>1, <2>2
  <2>4. PICK begin : /\ begin = [j \in 1 .. k |-> IF j = 1 THEN 1 ELSE begin[j - 1] + Prefix + b[j - 1]]
                     /\ BlobOffset(c, k) = begin[k]
    <3>1. h = [j \in 1 .. k |-> IF j = 1 THEN 1 ELSE h[j - 1] + Prefix + c.blobs[j - 1]]
      BY <1>2, <2>3
    <3>2. \E begin : /\ begin = [j \in 1 .. k |-> IF j = 1 THEN 1 ELSE begin[j - 1] + Prefix + c.blobs[j - 1]]
                     /\ BlobOffset(c, k) = begin[k]
      BY <3>1 DEF BlobOffset
    <3>3. QED
      BY <1>2, <3>2
  <2>5. \A j \in 1 .. k : begin[j] = IF j = 1 THEN 1 ELSE begin[j - 1] + Prefix + b[j - 1]
    BY <2>4
  <2> DEFINE G == {m \in Nat : m \in 1 .. k => begin[m] = f[m - 1]}
  <2>6. 0 \in G
    OBVIOUS
  <2>7. ASSUME NEW m \in G PROVE m + 1 \in G
    <3>1. m \in Nat
      OBVIOUS
    <3>2. ASSUME m + 1 \in 1 .. k PROVE begin[m + 1] = f[(m + 1) - 1]
      <4>1. PICK j : j = m + 1
        OBVIOUS
      <4>2. j \in 1 .. k /\ j - 1 = m
        BY <3>1, <3>2, <4>1
      <4>3. CASE m = 0
        BY <1>7, <2>5, <4>1, <4>2, <4>3
      <4>4. CASE m # 0
        <5>1. m \in 1 .. k /\ m \in 1 .. n /\ j # 1
          BY <1>1, <3>1, <4>1, <4>2, <4>4
        <5>2. begin[m] = f[m - 1]
          BY <5>1
        <5>3. begin[j] = begin[m] + Prefix + b[m]
          BY <2>5, <4>2, <5>1
        <5>4. f[m] = f[m - 1] + Prefix + b[m]
          BY <1>8, <5>1
        <5>5. QED
          BY <4>1, <4>2, <5>2, <5>3, <5>4
      <4>5. QED
        BY <4>3, <4>4
    <3>3. QED
      BY <3>1, <3>2
  <2>8. G \in SUBSET Nat
    OBVIOUS
  <2>9. k \in G
    <3>1. k \in Nat
      BY <1>1
    <3> HIDE DEF G
    <3>2. QED
      BY <2>6, <2>7, <2>8, <3>1, UpFrom0
  <2>10. k \in 1 .. k
    BY <1>1
  <2>11. QED
    BY <2>4, <2>9, <2>10
<1>10. QED
  BY <1>1, <1>2, <1>7, <1>8, <1>9 DEF BlobEdges

\* Each blob begins after the one before.
LEMMA OffsetsRise ==
  ASSUME NEW c, c.blobs \in Seq(Nat), NEW j \in 1 .. Len(c.blobs) + 1, NEW k \in 1 .. Len(c.blobs) + 1, j < k
  PROVE  BlobOffset(c, j) \in Nat /\ BlobOffset(c, k) \in Nat /\ BlobOffset(c, j) < BlobOffset(c, k)
<1>1. PICK n \in Nat : n = Len(c.blobs)
  OBVIOUS
<1>2. PICK f : BlobEdges(c, f)
  BY BlobPlaces
<1>3. PICK b : b = c.blobs
  OBVIOUS
<1>4. \A i \in 1 .. n : b[i] \in Nat
  BY <1>1, <1>3
<1>5. /\ f \in [0 .. n -> Nat]
      /\ \A i \in 1 .. n : f[i] = f[i - 1] + Prefix + b[i]
      /\ \A i \in 1 .. n + 1 : BlobOffset(c, i) = f[i - 1]
  BY <1>1, <1>2, <1>3, Zenon DEF BlobEdges
<1>6. Prefix \in Nat /\ Prefix # 0
  BY OfflineAssumption
<1> DEFINE Rises(m) == \A i \in 0 .. m : i < m => f[i] < f[m]
           G == {m \in Nat : m <= n => Rises(m)}
<1>7. 0 \in G
  OBVIOUS
<1>8. ASSUME NEW m \in G PROVE m + 1 \in G
  <2>1. m \in Nat
    OBVIOUS
  <2>2. ASSUME m + 1 <= n, NEW i \in 0 .. m + 1, i < m + 1 PROVE f[i] < f[m + 1]
    <3>1. m + 1 \in 1 .. n /\ (m + 1) - 1 = m /\ m \in 0 .. n /\ m + 1 \in 0 .. n /\ i \in 0 .. m /\ i \in 0 .. n /\ m <= n
      BY <2>1, <2>2
    <3>2. PICK p \in Nat, q \in Nat, r \in Nat, s \in Nat : p = f[i] /\ q = f[m] /\ r = f[m + 1] /\ s = b[m + 1]
      BY <1>4, <1>5, <3>1
    <3>3. r = q + Prefix + s
      BY <1>5, <3>1, <3>2
    <3>4. p <= q
      <4>1. CASE i = m
        BY <3>2, <4>1
      <4>2. CASE i # m
        <5>1. i < m /\ Rises(m)
          BY <2>1, <3>1, <4>2
        <5>2. f[i] < f[m]
          BY <3>1, <5>1
        <5>3. QED
          BY <3>2, <5>2
      <4>3. QED
        BY <4>1, <4>2
    <3>5. PICK w \in Nat : w = Prefix /\ w # 0
      BY <1>6
    <3>6. w >= 1 /\ r = q + w + s
      BY <3>3, <3>5
    <3>7. p \in Nat /\ q \in Nat /\ s \in Nat
      OBVIOUS
    <3>8. p < r
      BY <3>4, <3>5, <3>6, <3>7
    <3>9. QED
      BY <3>2, <3>8
  <2>3. QED
    BY <2>1, <2>2
<1>9. G \in SUBSET Nat
  OBVIOUS
<1>10. \A m \in Nat : m \in G
  <2> HIDE DEF G
  <2>1. QED
    BY <1>7, <1>8, <1>9, UpFrom0
<1>11. PICK i : i = k - 1
  OBVIOUS
<1>12. PICK l : l = j - 1
  OBVIOUS
<1>13. i \in Nat /\ i <= n /\ l \in 0 .. i /\ l < i /\ i \in 0 .. n /\ l \in 0 .. n
  BY <1>1, <1>11, <1>12
<1>14. f[l] < f[i] /\ f[l] \in Nat /\ f[i] \in Nat
  BY <1>5, <1>10, <1>13
<1>15. BlobOffset(c, j) = f[l] /\ BlobOffset(c, k) = f[i]
  BY <1>1, <1>5, <1>11, <1>12
<1>16. QED
  BY <1>14, <1>15

\* What is decoded of an article is its own blob, if the walk located it.
LEMMA OwnBlob ==
  ASSUME NEW c, c.blobs \in Seq(Nat), NEW d, d.blob \in DOMAIN c.blobs,
         d.offset = BlobOffset(c, d.blob), d.size = c.raw[d.blob], NEW located
  PROVE  Content(c, d, located) = {k \in DOMAIN c.blobs : k = d.blob} \cap located
<1>1. PICK n \in Nat : n = Len(c.blobs)
  OBVIOUS
<1>2. DOMAIN c.blobs = 1 .. n
  BY <1>1
<1>3. ASSUME NEW k \in 1 .. n, BlobOffset(c, k) = d.offset PROVE k = d.blob
  <2>1. PICK e \in 1 .. n : e = d.blob
    BY <1>2
  <2>2. e \in 1 .. Len(c.blobs) + 1 /\ k \in 1 .. Len(c.blobs) + 1
    BY <1>1
  <2>3. ASSUME e < k PROVE FALSE
    <3>1. BlobOffset(c, e) \in Nat /\ BlobOffset(c, k) \in Nat /\ BlobOffset(c, e) < BlobOffset(c, k)
      BY <2>2, <2>3, OffsetsRise
    <3>2. QED
      BY <1>3, <2>1, <3>1
  <2>4. ASSUME k < e PROVE FALSE
    <3>1. BlobOffset(c, e) \in Nat /\ BlobOffset(c, k) \in Nat /\ BlobOffset(c, k) < BlobOffset(c, e)
      BY <2>2, <2>4, OffsetsRise
    <3>2. QED
      BY <1>3, <2>1, <3>1
  <2>5. QED
    BY <2>1, <2>3, <2>4
<1>4. QED
  BY <1>2, <1>3 DEF Content, BlobsAt, Decompresses

\* A walk that ends between two blobs locates all before its end.
LEMMA BorderWalk ==
  ASSUME NEW a, NEW c, c.blobs \in Seq(Nat), c.known,
         NEW k \in 1 .. Len(c.blobs) + 1, Extent(a, c) = BlobOffset(c, k)
  PROVE  Walks(a, c) = {{j \in DOMAIN c.blobs : j < k}}
<1>1. PICK n \in Nat : n = Len(c.blobs)
  OBVIOUS
<1>2. DOMAIN c.blobs = 1 .. n
  BY <1>1
<1>3. ASSUME NEW j \in 1 .. n PROVE BlobOffset(c, j + 1) <= BlobOffset(c, k) <=> j < k
  <2>1. PICK e \in 2 .. n + 1 : e = j + 1
    BY <1>3
  <2>2. e \in 1 .. Len(c.blobs) + 1 /\ k \in 1 .. n + 1
    BY <1>1, <2>1
  <2>3. CASE e < k
    <3>1. BlobOffset(c, e) \in Nat /\ BlobOffset(c, k) \in Nat /\ BlobOffset(c, e) < BlobOffset(c, k)
      BY <2>2, <2>3, OffsetsRise
    <3>. QED  BY <2>1, <2>2, <2>3, <3>1
  <2>4. CASE k < e
    <3>1. BlobOffset(c, e) \in Nat /\ BlobOffset(c, k) \in Nat /\ BlobOffset(c, k) < BlobOffset(c, e)
      BY <2>2, <2>4, OffsetsRise
    <3>. QED  BY <2>1, <2>2, <2>4, <3>1
  <2>5. CASE k = e
    <3>1. PICK f : BlobEdges(c, f)
      BY BlobPlaces
    <3>2. BlobOffset(c, e) \in Nat
      <4>1. e - 1 \in 0 .. n
        BY <2>1
      <4>. QED  BY <1>1, <2>2, <3>1, <4>1 DEF BlobEdges
    <3>. QED  BY <2>1, <2>5, <3>2
  <2>. QED  BY <2>1, <2>2, <2>3, <2>4, <2>5
<1>4. Extent(a, c) \in Borders(c)
  BY DEF Borders
<1>5. {j \in DOMAIN c.blobs : BlobOffset(c, j + 1) <= Extent(a, c)} = {j \in DOMAIN c.blobs : j < k}
  BY <1>2, <1>3
<1>. QED  BY <1>4, <1>5, Zenon DEF Walks

\* Where no hole follows a cluster and all of them are named, it reaches to its end.
LEMMA TightExtent ==
  ASSUME NEW a \in Archives, Tight(a), NEW k \in DOMAIN a.clusters
  PROVE  Walks(a, a.clusters[k]) = {DOMAIN a.clusters[k].blobs}
<1>1. PICK c : c = a.clusters[k]
  OBVIOUS
<1>2. c.at \in Nat /\ c.blobs \in Seq(Nat) /\ Disjoint(a, c) /\ a.size \in Nat
  BY <1>1, ArchiveAssumption
<1>3. ClusterSize(c) \in Nat /\ ClusterSize(c) >= 1
  <2>1. PICK f : BlobEdges(c, f)
    BY <1>2, BlobPlaces
  <2>2. PICK n \in Nat : n = Len(c.blobs)
    BY <1>2
  <2>3. n + 1 \in 1 .. n + 1 /\ 1 \in 1 .. n + 1 /\ n \in 0 .. n
    OBVIOUS
  <2>4. BlobOffset(c, n + 1) = f[n] /\ BlobOffset(c, 1) = 1
    BY <2>1, <2>2, <2>3 DEF BlobEdges
  <2>5. CASE n = 0
    BY <2>2, <2>4, <2>5 DEF ClusterSize
  <2>6. CASE n # 0
    <3>1. 1 < n + 1
      BY <2>6
    <3>2. BlobOffset(c, n + 1) \in Nat /\ BlobOffset(c, 1) < BlobOffset(c, n + 1)
      BY <1>2, <2>2, <2>3, <3>1, OffsetsRise
    <3>3. QED
      BY <2>2, <2>4, <3>2 DEF ClusterSize
  <2>7. QED
    BY <2>5, <2>6
<1>4. PICK e \in Nat, z \in Nat, l \in Nat : e = c.at + ClusterSize(c) /\ z = ClusterSize(c) /\ l = c.at
  BY <1>2, <1>3
<1>5. PICK starts : starts = {a.clusters[j].at : j \in DOMAIN a.clusters} \cup {a.dirents[i].at : i \in DOMAIN a.dirents}
  OBVIOUS
<1>6. e \in starts \cup {a.size} /\ c.known
  BY <1>1, <1>4, <1>5 DEF Tight
<1>7. e <= a.size /\ \A o \in starts : o > l => o >= e
  <2>1. e <= a.size
    BY <1>1, <1>4, Zenon DEF Tight
  <2>2. \A o \in starts : o > l => o >= e
    BY <1>2, <1>4, <1>5, Zenon DEF Disjoint
  <2>3. QED
    BY <2>1, <2>2
<1>8. KnownParts(a) = starts
  <2>1. ASSUME NEW i \in DOMAIN a.dirents PROVE a.clusters[a.dirents[i].cluster].at \in starts
    BY <1>5, <2>1, ArchiveAssumption DEF Article
  <2>2. ASSUME NEW j \in DOMAIN a.clusters PROVE a.clusters[j].at \in KnownParts(a)
    <3>1. PICK i \in DOMAIN a.dirents : a.dirents[i].cluster = j
      BY DEF Tight
    <3>2. QED
      BY <3>1 DEF KnownParts
  <2>3. \A i \in DOMAIN a.dirents : a.dirents[i].at \in starts /\ a.dirents[i].at \in KnownParts(a)
    BY <1>5 DEF KnownParts
  <2>4. starts \subseteq KnownParts(a)
    BY <1>5, <2>2, <2>3
  <2>5. KnownParts(a) \subseteq starts
    BY <2>1, <2>3 DEF KnownParts
  <2>6. QED
    BY <2>4, <2>5
<1>9. \A o \in starts : o \in Nat
  BY <1>5, ArchiveAssumption
<1>10. PICK S : S = {o \in KnownParts(a) : o > c.at} \cup {a.size}
  OBVIOUS
<1>11. e \in S /\ \A o \in S : e <= o /\ o \in Nat
  <2>1. e \in S
    <3>1. e > l
      BY <1>3, <1>4
    <3>2. QED
      BY <1>4, <1>6, <1>8, <1>10, <3>1
  <2>2. ASSUME NEW o \in S PROVE e <= o /\ o \in Nat
    BY <1>2, <1>4, <1>7, <1>8, <1>9, <1>10
  <2>3. QED
    BY <2>1, <2>2
<1>12. Min(S) = e
  <2>1. PICK m : m = Min(S)
    OBVIOUS
  <2>2. m \in S /\ \A o \in S : m <= o
    BY <1>11, <2>1 DEF Min
  <2>3. QED
    BY <1>11, <2>1, <2>2
<1>13. Extent(a, c) = z
  BY <1>4, <1>10, <1>12 DEF Extent
<1>14. PICK n \in Nat : n = Len(c.blobs) /\ DOMAIN c.blobs = 1 .. n
  BY <1>2
<1>17. Extent(a, c) = BlobOffset(c, n + 1) /\ n + 1 \in 1 .. Len(c.blobs) + 1
  BY <1>4, <1>13, <1>14 DEF ClusterSize
<1>18. Walks(a, c) = {{j \in DOMAIN c.blobs : j < n + 1}}
  BY <1>2, <1>6, <1>17, BorderWalk
<1>15. Walks(a, c) = {DOMAIN c.blobs}
  <2>1. {j \in DOMAIN c.blobs : j < n + 1} = DOMAIN c.blobs
    BY <1>14
  <2>. QED  BY <1>18, <2>1
<1>16. QED
  BY <1>1, <1>15

\* A file cut between two blobs still gives those of the cluster before the cut.
LEMMA CutExtent ==
  ASSUME NEW a \in Archives, NEW d, d.cluster \in DOMAIN a.clusters,
         d.blob \in DOMAIN a.clusters[d.cluster].blobs, CutAfter(a, d),
         NEW located \in Walks(a, a.clusters[d.cluster])
  PROVE  d.blob \in located
<1>1. PICK c : c = a.clusters[d.cluster]
  OBVIOUS
<1>2. c.at \in Nat /\ c.blobs \in Seq(Nat) /\ Disjoint(a, c) /\ a.size \in Nat
  BY <1>1, ArchiveAssumption
<1>3. PICK n \in Nat : n = Len(c.blobs) /\ DOMAIN c.blobs = 1 .. n
  BY <1>2
<1>4. PICK b \in 1 .. n : b = d.blob
  BY <1>1, <1>3
<1>5. c.known /\ \E k \in b + 1 .. n + 1 : a.size = c.at + BlobOffset(c, k)
  BY <1>1, <1>3, <1>4 DEF CutAfter
<1>6. PICK k \in b + 1 .. n + 1 : a.size = c.at + BlobOffset(c, k)
  BY <1>5
<1>7. k \in 1 .. n + 1 /\ b < k
  BY <1>4, <1>6
<1>8. BlobOffset(c, k) \in Nat /\ ClusterSize(c) \in Nat /\ BlobOffset(c, k) <= ClusterSize(c)
  <2>1. n + 1 \in 1 .. Len(c.blobs) + 1 /\ k \in 1 .. Len(c.blobs) + 1
    BY <1>3, <1>7
  <2>2. PICK f : BlobEdges(c, f)
    BY <1>2, BlobPlaces
  <2>3. BlobOffset(c, k) \in Nat /\ BlobOffset(c, n + 1) \in Nat
    <3>1. k - 1 \in 0 .. n /\ (n + 1) - 1 \in 0 .. n
      BY <1>7
    <3>. QED  BY <1>3, <2>1, <2>2, <3>1 DEF BlobEdges
  <2>4. CASE k = n + 1
    BY <1>3, <2>3, <2>4 DEF ClusterSize
  <2>5. CASE k # n + 1
    <3>1. k < n + 1
      BY <1>7, <2>5
    <3>2. BlobOffset(c, k) < BlobOffset(c, n + 1)
      BY <1>2, <2>1, <3>1, OffsetsRise
    <3>. QED  BY <1>3, <2>3, <3>2 DEF ClusterSize
  <2>. QED  BY <2>4, <2>5
<1>9. PICK S : S = {o \in KnownParts(a) : o > c.at} \cup {a.size}
  OBVIOUS
<1>10. \A o \in S : a.size <= o /\ o \in Nat
  <2>1. ASSUME NEW o \in KnownParts(a), o > c.at PROVE a.size <= o /\ o \in Nat
    <3>1. o \in {a.clusters[j].at : j \in DOMAIN a.clusters} \cup {a.dirents[i].at : i \in DOMAIN a.dirents}
      BY <2>1, ArchiveAssumption DEF KnownParts, Article
    <3>2. o >= c.at + ClusterSize(c)
      BY <2>1, <3>1, <1>2 DEF Disjoint
    <3>3. o \in Nat
      BY <3>1, ArchiveAssumption
    <3>. QED  BY <1>2, <1>6, <1>8, <3>2, <3>3
  <2>. QED  BY <1>2, <1>9, <2>1
<1>11. Min(S) = a.size
  <2>1. PICK m : m = Min(S)
    OBVIOUS
  <2>2. a.size \in S
    BY <1>9
  <2>3. m \in S /\ \A o \in S : m <= o
    BY <1>10, <2>1, <2>2 DEF Min
  <2>. QED  BY <1>2, <1>10, <2>1, <2>2, <2>3
<1>12. Extent(a, c) = BlobOffset(c, k)
  <2>1. Extent(a, c) = a.size - c.at
    BY <1>9, <1>11 DEF Extent
  <2>. QED  BY <1>2, <1>6, <1>8, <2>1
<1>13. Walks(a, c) = {{j \in DOMAIN c.blobs : j < k}}
  BY <1>2, <1>3, <1>5, <1>7, <1>12, BorderWalk
<1>14. located = {j \in DOMAIN c.blobs : j < k}
  BY <1>1, <1>13
<1>. QED  BY <1>3, <1>4, <1>7, <1>14

LEMMA ArticleFound ==
  ASSUME file \in Archives, NEW url, GetArticle(url)
  PROVE  LET d   == file.dirents[answer'.at]
             own == {k \in DOMAIN file.clusters[d.cluster].blobs : k = d.blob}
         IN  answer'.is \in {{}, own} /\ (Tight(file) \/ CutAfter(file, d) => answer'.is = own)
<1>1. PICK i : i = SelectInSeq(file.dirents, LAMBDA e : e.url = url)
  OBVIOUS
<1>2. PICK n \in Nat : n = Len(file.dirents) /\ DOMAIN file.dirents = 1 .. n
  BY ArchiveAssumption
<1>3. i \in 1 .. n
  <2>1. PICK I : I = {j \in 1 .. n : file.dirents[j].url = url}
    OBVIOUS
  <2>2. I # {}
    BY <1>2, <2>1 DEF GetArticle, Urls
  <2>3. i = Min(I)
    BY <1>1, <1>2, <2>1, <2>2 DEF SelectInSeq
  <2>4. I \in SUBSET Nat
    BY <2>1
  <2>5. \E m \in I : \A o \in I : m <= o
    BY <2>2, <2>4, LeastNatural
  <2>6. Min(I) \in I
    BY <2>5 DEF Min
  <2>7. QED
    BY <2>1, <2>3, <2>6
<1>4. PICK d : d = file.dirents[i]
  OBVIOUS
<1>5. PICK c : c = file.clusters[d.cluster]
  OBVIOUS
<1>6. /\ d.cluster \in DOMAIN file.clusters /\ d.blob \in DOMAIN c.blobs
      /\ d.offset = BlobOffset(c, d.blob) /\ d.size = c.raw[d.blob]
  BY <1>2, <1>3, <1>4, <1>5, ArchiveAssumption DEF Article
<1>7. c.blobs \in Seq(Nat)
  BY <1>5, <1>6, ArchiveAssumption
<1>8. PICK own : own = {k \in DOMAIN c.blobs : k = d.blob}
  OBVIOUS
<1>10. PICK located \in Walks(file, c) : answer' = [ask |-> "article", at |-> i, is |-> Content(c, d, located)]
  BY <1>1, <1>4, <1>5 DEF GetArticle
<1>9. Content(c, d, located) = own \cap located
  BY <1>6, <1>7, <1>8, OwnBlob
<1>11. answer'.at = i /\ answer'.is = own \cap located
  BY <1>9, <1>10
<1>12. Tight(file) \/ CutAfter(file, d) => d.blob \in located
  <2>1. CASE Tight(file)
    <3>1. located = DOMAIN c.blobs
      BY <1>5, <1>6, <1>10, <2>1, TightExtent
    <3>. QED  BY <1>6, <3>1
  <2>2. CASE CutAfter(file, d)
    BY <1>5, <1>6, <1>10, <2>2, CutExtent
  <2>. QED  BY <2>1, <2>2
<1>14. own = {d.blob}
  BY <1>6, <1>8
<1>15. own \cap located \in {{}, own} /\ (d.blob \in located => own \cap located = own)
  BY <1>14
<1>16. answer'.is \in {{}, own} /\ (Tight(file) \/ CutAfter(file, d) => answer'.is = own)
  BY <1>11, <1>12, <1>15
<1>13. QED
  BY <1>4, <1>5, <1>8, <1>11, <1>16, Zenon

-----------------------------------------------------------------------------
(* Searches *)

\* A title that matches is found, or as many were as were asked.
LEMMA TitlesFound ==
  ASSUME file \in Archives, NEW query, NEW max \in Nat
  PROVE  \A i \in DOMAIN file.dirents :
           i \notin Range(Matches(query, max)) /\ IsPrefix(query, file.dirents[i].title)
             => Len(Matches(query, max)) = max
<1>1. PICK n \in Nat : n = Len(file.dirents) /\ DOMAIN file.dirents = 1 .. n
  BY ArchiveAssumption
<1>2. PICK fits : fits = [i \in 1 .. n |-> IsPrefix(query, file.dirents[i].title)]
  OBVIOUS
<1>3. PICK g : g = [i \in 1 .. n |-> [w \in Seq(Nat) |-> IF fits[i] /\ Len(w) < max THEN Append(w, i) ELSE w]]
  OBVIOUS
<1>4. g \in [1 .. n -> [Seq(Nat) -> Seq(Nat)]]
  <2>1. ASSUME NEW i \in 1 .. n, NEW w \in Seq(Nat) PROVE (IF fits[i] /\ Len(w) < max THEN Append(w, i) ELSE w) \in Seq(Nat)
    OBVIOUS
  <2>2. ASSUME NEW i \in 1 .. n PROVE [w \in Seq(Nat) |-> IF fits[i] /\ Len(w) < max THEN Append(w, i) ELSE w] \in [Seq(Nat) -> Seq(Nat)]
    BY <2>1
  <2>3. QED
    BY <1>3, <2>2
<1>5. PICK f \in [0 .. n -> Seq(Nat)] : f[0] = <<>> /\ \A i \in 1 .. n : f[i] = g[i][f[i - 1]]
  <2>1. PICK D : D = Seq(Nat)
    OBVIOUS
  <2>2. PICK start \in D : start = <<>>
    BY <2>1, EmptySeq
  <2>3. g \in [1 .. n -> [D -> D]]
    BY <1>4, <2>1
  <2>4. Stepping(D, n, g, start)
    BY <2>3, StepByStep, Zenon
  <2>5. QED
    BY <2>1, <2>2, <2>4 DEF Stepping
<1>6. ASSUME NEW i \in 1 .. n PROVE f[i] = IF fits[i] /\ Len(f[i - 1]) < max THEN Append(f[i - 1], i) ELSE f[i - 1]
  <2>1. i - 1 \in 0 .. n
    OBVIOUS
  <2>2. f[i - 1] \in Seq(Nat)
    BY <2>1
  <2>3. QED
    BY <1>3, <1>5, <2>2
<1>7. ASSUME NEW i \in 0 .. n
      PROVE  f[i] = IF i = 0 THEN <<>>
                    ELSE IF IsPrefix(query, file.dirents[i].title) /\ Len(f[i - 1]) < max THEN Append(f[i - 1], i) ELSE f[i - 1]
  <2>1. CASE i = 0
    BY <1>5, <2>1
  <2>2. CASE i # 0
    <3>1. i \in 1 .. n
      BY <2>2
    <3>2. fits[i] = IsPrefix(query, file.dirents[i].title)
      BY <1>2, <3>1
    <3>3. QED
      BY <1>6, <2>2, <3>1, <3>2
  <2>3. QED
    BY <2>1, <2>2
<1>8. PICK h : /\ h = [i \in 0 .. n |-> IF i = 0 THEN <<>>
                         ELSE IF IsPrefix(query, file.dirents[i].title) /\ Len(h[i - 1]) < max THEN Append(h[i - 1], i) ELSE h[i - 1]]
               /\ Matches(query, max) = h[n]
  <2>1. DOMAIN f = 0 .. n /\ f = [i \in 0 .. n |-> f[i]]
    OBVIOUS
  <2>2. f = [i \in 0 .. n |-> IF i = 0 THEN <<>>
               ELSE IF IsPrefix(query, file.dirents[i].title) /\ Len(f[i - 1]) < max THEN Append(f[i - 1], i) ELSE f[i - 1]]
    BY <1>7, <2>1
  <2>3. QED
    BY <1>1, <2>2 DEF Matches
<1>9. h[0] = <<>> /\ \A i \in 1 .. n : h[i] = IF fits[i] /\ Len(h[i - 1]) < max THEN Append(h[i - 1], i) ELSE h[i - 1]
  <2>1. h[0] = <<>>
    BY <1>8
  <2>2. ASSUME NEW i \in 1 .. n PROVE h[i] = IF fits[i] /\ Len(h[i - 1]) < max THEN Append(h[i - 1], i) ELSE h[i - 1]
    <3>1. i \in 0 .. n /\ i # 0 /\ fits[i] = IsPrefix(query, file.dirents[i].title)
      BY <1>2
    <3>2. h[i] = IF IsPrefix(query, file.dirents[i].title) /\ Len(h[i - 1]) < max THEN Append(h[i - 1], i) ELSE h[i - 1]
      BY <1>8, <3>1
    <3>3. QED
      BY <3>1, <3>2
  <2>3. QED
    BY <2>1, <2>2
<1> DEFINE Found(w, m) == /\ w \in Seq(Nat) /\ Len(w) <= max
                          /\ \A i \in 1 .. m : fits[i] /\ i \notin Range(w) => Len(w) = max
           G == {m \in Nat : m <= n => Found(h[m], m)}
<1>10. 0 \in G
  <2>1. h[0] \in Seq(Nat) /\ Len(h[0]) = 0
    BY <1>9, EmptySeq
  <2>2. Found(h[0], 0)
    BY <2>1
  <2>3. QED
    BY <2>2
<1>11. ASSUME NEW m \in G PROVE m + 1 \in G
  <2>1. m \in Nat
    OBVIOUS
  <2>2. ASSUME m + 1 <= n PROVE Found(h[m + 1], m + 1)
    <3>1. PICK j : j = m + 1
      OBVIOUS
    <3>2. j \in 1 .. n /\ j - 1 = m /\ m <= n /\ j \in Nat
      BY <2>1, <2>2, <3>1
    <3>3. PICK w : w = h[m]
      OBVIOUS
    <3>4. PICK v : v = h[j]
      OBVIOUS
    <3>5. Found(w, m)
      BY <3>2, <3>3
    <3>6. v = IF fits[j] /\ Len(w) < max THEN Append(w, j) ELSE w
      BY <1>9, <3>2, <3>3, <3>4
    <3>7. CASE fits[j] /\ Len(w) < max
      <4>1. PICK l \in Nat : l = Len(w)
        BY <3>5
      <4>2. v = Append(w, j) /\ w \in Seq(Nat)
        BY <3>5, <3>6, <3>7
      <4>3. v \in Seq(Nat) /\ Len(v) = l + 1 /\ v[l + 1] = j /\ \A i \in 1 .. l : v[i] = w[i]
        BY <3>2, <4>1, <4>2
      <4>4. DOMAIN v = 1 .. l + 1 /\ DOMAIN w = 1 .. l /\ l + 1 \in 1 .. l + 1 /\ \A i \in 1 .. l : i \in 1 .. l + 1
        BY <4>1, <4>2, <4>3
      <4>5. j \in Range(v) /\ \A i \in Range(w) : i \in Range(v)
        BY <4>3, <4>4 DEF Range
      <4>6. l < max
        BY <3>7, <4>1
      <4>7. ASSUME NEW i \in 1 .. j, fits[i], i \notin Range(v) PROVE Len(v) = max
        <5>1. i # j /\ i \notin Range(w)
          BY <4>5, <4>7
        <5>2. i \in 1 .. m
          BY <3>1, <2>1, <5>1
        <5>3. Len(w) = max
          BY <3>5, <4>7, <5>1, <5>2
        <5>4. QED
          BY <4>1, <4>6, <5>3
      <4>8. Len(v) <= max
        BY <4>3, <4>6
      <4>9. QED
        BY <3>1, <3>4, <4>3, <4>7, <4>8
    <3>8. CASE ~(fits[j] /\ Len(w) < max)
      <4>1. v = w
        BY <3>6, <3>8
      <4>2. ASSUME NEW i \in 1 .. j, fits[i], i \notin Range(v) PROVE Len(v) = max
        <5>1. CASE i = j
          <6>1. ~(Len(w) < max)
            BY <3>8, <4>2, <5>1
          <6>2. QED
            BY <3>5, <4>1, <6>1
        <5>2. CASE i # j
          <6>1. i \in 1 .. m
            BY <2>1, <3>1, <5>2
          <6>2. QED
            BY <3>5, <4>1, <4>2, <6>1
        <5>3. QED
          BY <5>1, <5>2
      <4>3. QED
        BY <3>1, <3>4, <3>5, <4>1, <4>2
    <3>9. QED
      BY <3>7, <3>8
  <2>3. QED
    BY <2>1, <2>2
<1>12. G \in SUBSET Nat
  OBVIOUS
<1>13. n \in G
  <2> HIDE DEF G
  <2>1. QED
    BY <1>10, <1>11, <1>12, UpFrom0
<1>14. Found(h[n], n)
  BY <1>13
<1>15. ASSUME NEW i \in 1 .. n, i \notin Range(h[n]), IsPrefix(query, file.dirents[i].title) PROVE Len(h[n]) = max
  <2>1. fits[i] = IsPrefix(query, file.dirents[i].title)
    BY <1>2
  <2>2. QED
    BY <1>14, <1>15, <2>1
<1>16. QED
  BY <1>1, <1>8, <1>15

-----------------------------------------------------------------------------
\* A reader of tiles holds what its file says.
OfflineInv ==
  /\ LookupExact
  /\ file \in TileFiles /\ reader.refused = "none" => TileRefusal(file) = "none" /\ reader = Serving(file)

LEMMA OfflineStarts == OfflineInit => OfflineInv
<1>1. ASSUME OfflineInit PROVE OfflineInv
  <2>1. answer.ask = "nothing" /\ reader.refused = "nothing"
    BY <1>1 DEF OfflineInit, Nothing
  <2>2. QED
    BY <2>1 DEF OfflineInv, LookupExact
<1>2. QED
  BY <1>1

LEMMA OfflineStays ==
  ASSUME OfflineInv, [OfflineNext]_offlineVars
  PROVE  OfflineInv'
<1>1. ASSUME NEW f \in TileFiles, OpenTiles(f) PROVE OfflineInv'
  <2>1. answer'.ask = "nothing"
    BY <1>1 DEF OpenTiles, Nothing
  <2>2. LookupExact'
    BY <2>1 DEF LookupExact
  <2>3. CASE TileRefusal(f) # "none"
    <3>1. reader'.refused # "none"
      BY <1>1, <2>3 DEF OpenTiles
    <3>2. QED
      BY <2>2, <3>1 DEF OfflineInv
  <2>4. CASE TileRefusal(f) = "none"
    <3>1. file' = f /\ reader' = Serving(f)
      BY <1>1, <2>4 DEF OpenTiles, Serving
    <3>2. QED
      BY <2>2, <2>4, <3>1 DEF OfflineInv
  <2>5. QED
    BY <2>3, <2>4
<1>2. ASSUME NEW a \in Archives, OpenArchive(a) PROVE OfflineInv'
  <2>1. answer'.ask = "nothing" /\ file' = a
    BY <1>2 DEF OpenArchive, Nothing
  <2>2. LookupExact'
    BY <2>1 DEF LookupExact
  <2>3. a \notin TileFiles
    BY OfflineAssumption
  <2>4. QED
    BY <2>1, <2>2, <2>3 DEF OfflineInv
<1>3. ASSUME NEW z \in 0 .. Widest, NEW x \in 0 .. Widest, NEW y \in 0 .. Widest, GetTile(z, x, y) PROVE OfflineInv'
  <2>1. /\ file \in TileFiles /\ reader.refused = "none" /\ file' = file /\ reader' = reader
        /\ answer' = [ask |-> "tile", at |-> <<z, x, y>>, is |-> TileAnswer(reader, z, x, y)]
    BY <1>3 DEF GetTile
  <2>2. TileRefusal(file) = "none" /\ reader = Serving(file)
    BY <2>1 DEF OfflineInv
  <2>3. z \in Nat /\ x \in Nat /\ y \in Nat
    BY OfflineAssumption
  <2>4. TileAnswer(reader, z, x, y) \in Formats <=> \E kept \in Servable(file) : Mirrors(<<z, x, y>>, kept)
    BY <2>1, <2>2, <2>3, TileFound
  <2>5. answer'.ask = "tile" /\ answer'.at = <<z, x, y>> /\ answer'.is = TileAnswer(reader, z, x, y)
    BY <2>1
  <2>6. answer'.is \in {"jpg", "png", "pbf", "webp"} <=> \E kept \in Servable(file') : Mirrors(answer'.at, kept)
    BY <2>1, <2>4, <2>5, Zenon DEF Formats
  <2>7. LookupExact'
    BY <2>5, <2>6 DEF LookupExact
  <2>8. QED
    BY <2>1, <2>2, <2>7 DEF OfflineInv
<1>4. ASSUME NEW url, GetArticle(url) PROVE OfflineInv'
  <2>1. file \in Archives /\ file' = file /\ reader' = reader /\ answer'.ask = "article"
    BY <1>4 DEF GetArticle, Usable
  <2>2. LET d   == file.dirents[answer'.at]
            own == {k \in DOMAIN file.clusters[d.cluster].blobs : k = d.blob}
        IN  answer'.is \in {{}, own} /\ (Tight(file) \/ CutAfter(file, d) => answer'.is = own)
    BY <1>4, <2>1, ArticleFound
  <2>3. file \notin TileFiles
    BY <2>1, OfflineAssumption
  <2>4. LookupExact'
    BY <2>1, <2>2 DEF LookupExact
  <2>5. QED
    BY <2>1, <2>3, <2>4 DEF OfflineInv
<1>5. ASSUME NEW query, NEW max \in 0 .. 2, Search(query, max) PROVE OfflineInv'
  <2>1. /\ file \in Archives /\ file' = file /\ reader' = reader
        /\ answer' = [ask |-> "search", at |-> <<query, max>>, is |-> Matches(query, max)]
    BY <1>5 DEF Search, Usable
  <2>2. answer'.ask = "search" /\ answer'.at[1] = query /\ answer'.at[2] = max /\ answer'.is = Matches(query, max)
    BY <2>1
  <2>3. max \in Nat
    OBVIOUS
  <2>4. \A i \in DOMAIN file.dirents :
           i \notin Range(Matches(query, max)) /\ IsPrefix(query, file.dirents[i].title)
             => Len(Matches(query, max)) = max
    BY <2>1, <2>3, TitlesFound
  <2>5. \A i \in DOMAIN file'.dirents \ Range(answer'.is) :
          IsPrefix(answer'.at[1], file'.dirents[i].title) => Len(answer'.is) = answer'.at[2]
    BY <2>1, <2>2, <2>4
  <2>6. file \notin TileFiles
    BY <2>1, OfflineAssumption
  <2>7. LookupExact'
    BY <2>2, <2>5 DEF LookupExact
  <2>8. QED
    BY <2>1, <2>6, <2>7 DEF OfflineInv
<1>6. ASSUME UNCHANGED offlineVars PROVE OfflineInv'
  BY <1>6 DEF OfflineInv, LookupExact, offlineVars
<1>7. QED
  BY <1>1, <1>2, <1>3, <1>4, <1>5, <1>6 DEF OfflineNext

\* A request finds exactly what the file holds there, for every tile file, archive, request
\* and limit: a tile iff a servable row mirrors it, an article's own blob or nothing, and its
\* own blob wherever the index knows all parts of the file, and every title that matches until
\* as many are found as were asked (mbtiles-parser get_tile_xyz, zim-parser get_article and search).
THEOREM LookupsExact == OfflineSpec => []LookupExact
<1>1. OfflineInit => OfflineInv
  BY OfflineStarts
<1>2. OfflineInv /\ [OfflineNext]_offlineVars => OfflineInv'
  BY OfflineStays
<1>3. OfflineInv => LookupExact
  BY DEF OfflineInv
<1>4. QED
  BY <1>1, <1>2, <1>3, PTL DEF OfflineSpec
==============================================================================
