----------------------------- MODULE DtnProofs -----------------------------
(***************************************************************************)
(* What DtnRouter promises of every copy, for any nodes, messages, bounds  *)
(* and encounters: a broadcast never comes back to a node that carried it, *)
(* no buffer exceeds its bound, and every copy offered is accounted for.   *)
(***************************************************************************)
EXTENDS DtnRouter, FiniteSetTheorems, SequenceTheorems, NaturalsInduction, TLAPS

CopyType == [msg : Messages, ttl : Nat, served : SUBSET Nodes, path : Seq(Nodes)]

\* A copy never goes twice to the same node, nor further than its lifetime.
Sound(c) ==
  /\ c \in CopyType /\ c.path # <<>>
  /\ IsInjective(c.path) /\ Hops(c) <= c.msg.ttl /\ c.ttl <= c.msg.ttl

\* The nodes that carried a broadcast are marked as served, but for the one that
\* has received it and met nobody since; a unicast waits at its source.
Held(n, c) ==
  /\ Sound(c) /\ Last(c.path) = n
  /\ Broadcast(c) => Range(c.path) \subseteq c.served \cup {n}
  /\ ~Broadcast(c) => Len(c.path) = 1

\* Whoever carried a copy that is handed over is marked, its new node included.
HandedOver(h) ==
  /\ h.to \in Nodes /\ Sound(h.copy) /\ Last(h.copy.path) = h.to
  /\ Range(h.copy.path) \subseteq h.copy.served

PathInv ==
  /\ DOMAIN buffer = Nodes
  /\ \A n \in Nodes : \A c \in buffer[n] : Held(n, c)
  /\ \A h \in carried : HandedOver(h)

-----------------------------------------------------------------------------
(* One copy *)

\* A copy handed to a node it has not served goes on without coming back.
LEMMA HandedSound ==
  ASSUME NEW n \in Nodes, NEW to \in Nodes, n # to, NEW c, Held(n, c),
         ~TooFar(c), Handed(c, to)
  PROVE  HandedOver([to |-> to,
           copy |-> [c EXCEPT !.served = Served(c, n, to), !.path = Append(@, to)]])
<1> DEFINE d == [c EXCEPT !.served = Served(c, n, to), !.path = Append(@, to)]
<1>1. /\ c \in CopyType /\ c.path \in Seq(Nodes) /\ c.path # <<>> /\ Len(c.path) \in Nat
      /\ c.ttl \in Nat /\ c.msg \in Messages /\ c.served \in SUBSET Nodes
      /\ c.msg.ttl \in Nat
  BY DtnAssumption DEF Held, Sound, CopyType
<1>2. /\ d \in CopyType /\ d.msg = c.msg /\ d.ttl = c.ttl
      /\ d.served = c.served \cup {to, n} /\ d.path = Append(c.path, to)
  <2>1. Served(c, n, to) = c.served \cup {to, n} /\ Append(c.path, to) \in Seq(Nodes)
    BY <1>1, AppendProperties DEF Served
  <2>2. d = [msg |-> c.msg, ttl |-> c.ttl, served |-> Served(c, n, to), path |-> Append(c.path, to)]
    <3> DEFINE e == [c EXCEPT !.served = Served(c, n, to)]
    <3>1. e = [msg |-> c.msg, ttl |-> c.ttl, served |-> Served(c, n, to), path |-> c.path]
      BY <1>1 DEF CopyType
    <3>2. d = [e EXCEPT !.path = Append(c.path, to)]
      OBVIOUS
    <3> HIDE DEF e, d
    <3>. QED  BY <3>1, <3>2
  <2>. QED  BY <1>1, <2>1, <2>2 DEF CopyType
<1>3. Len(d.path) = Len(c.path) + 1 /\ d.path[Len(c.path) + 1] = to
      /\ \A i \in 1 .. Len(c.path) : d.path[i] = c.path[i]
  BY <1>1, <1>2, AppendProperties
<1>4. Len(c.path) >= 1 /\ c.path[Len(c.path)] = n
  BY <1>1, EmptySeq DEF Held, Last
<1>5. \A i \in 1 .. Len(c.path) : c.path[i] # to /\ c.path[i] \in c.served \cup {n}
  <2>1. CASE Broadcast(c)
    BY <2>1, <1>1 DEF Held, Handed, Range
  <2>2. CASE ~Broadcast(c)
    BY <2>2, <1>1, <1>4 DEF Held
  <2>. QED  BY <2>1, <2>2
<1>6. DOMAIN d.path = 1 .. Len(c.path) + 1 /\ DOMAIN c.path = 1 .. Len(c.path) /\ d.path # <<>>
  BY <1>1, <1>2, <1>3
<1> HIDE DEF d
<1>7. IsInjective(d.path)
  <2>1. IsInjective(c.path)
    BY DEF Held, Sound
  <2>. QED  BY <2>1, <1>1, <1>3, <1>5, <1>6 DEF IsInjective
<1>8. Hops(d) <= d.msg.ttl /\ d.ttl <= d.msg.ttl
  <2>1. Len(c.path) - 1 < c.ttl /\ c.ttl <= c.msg.ttl
    BY <1>1, <1>4 DEF TooFar, Hops, Held, Sound
  <2>. QED  BY <2>1, <1>1, <1>2, <1>3 DEF Hops
<1>9. Range(d.path) \subseteq d.served
  BY <1>1, <1>2, <1>3, <1>5, <1>6 DEF Range
<1>10. Last(d.path) = to
  BY <1>1, <1>3 DEF Last
<1>. QED  BY <1>2, <1>6, <1>7, <1>8, <1>9, <1>10 DEF HandedOver, Sound, d

\* Marking the ends of an encounter, or growing older, leaves a copy sound.
LEMMA MarkedHeld ==
  ASSUME NEW n \in Nodes, NEW to \in Nodes, NEW c, Held(n, c)
  PROVE  Held(n, [c EXCEPT !.served = Served(c, n, to)])
<1> DEFINE d == [c EXCEPT !.served = Served(c, n, to)]
<1>1. /\ c \in CopyType /\ d \in CopyType /\ d.msg = c.msg /\ d.ttl = c.ttl
      /\ d.path = c.path /\ d.served = c.served \cup {to, n}
  BY DEF Held, Sound, CopyType, Served
<1> HIDE DEF d
<1>2. Sound(d) /\ Last(d.path) = n
  BY <1>1 DEF Held, Sound, Hops
<1>3. Held(n, d)
  BY <1>1, <1>2 DEF Held, Broadcast
<1>. QED  BY <1>3 DEF d

LEMMA AgedHeld ==
  ASSUME NEW n \in Nodes, NEW c, Held(n, c)
  PROVE  Held(n, Aged(c))
<1> DEFINE d == Aged(c)
<1>1. /\ c \in CopyType /\ c.ttl \in Nat /\ d.msg = c.msg /\ d.served = c.served
      /\ d.path = c.path /\ d.ttl = (IF c.ttl = 0 THEN 0 ELSE c.ttl - 1)
      /\ d \in CopyType /\ c.msg.ttl \in Nat
  BY DtnAssumption DEF Held, Sound, CopyType, Aged
<1> HIDE DEF d
<1>2. d.ttl \in Nat /\ d.ttl <= c.ttl
  BY <1>1
<1>3. Sound(d) /\ Last(d.path) = n
  BY <1>1, <1>2 DEF Held, Sound, Hops
<1>4. Held(n, d)
  BY <1>1, <1>3 DEF Held, Broadcast
<1>. QED  BY <1>4 DEF d

-----------------------------------------------------------------------------
(* The steps *)

LEMMA PathInit == Init => PathInv
  BY DEF Init, PathInv

\* What a node stores is the copy offered, with some of those it had.
LEMMA StoreHolds ==
  ASSUME PathInv, NEW n \in Nodes, NEW c, Store(n, c), Held(n, c)
  PROVE  DOMAIN buffer' = Nodes /\ \A k \in Nodes : \A d \in buffer'[k] : Held(k, d)
  BY DEF Store, PathInv

LEMMA SubmitPaths == ASSUME PathInv, NEW m \in Messages, Submit(m) PROVE PathInv'
<1> DEFINE c == [msg |-> m, ttl |-> m.ttl, served |-> {}, path |-> <<m.source>>]
<1>1. m.source \in Nodes /\ m.ttl \in Nat
  BY DtnAssumption
<1>2. c \in CopyType /\ c.path = <<m.source>> /\ Len(c.path) = 1
      /\ c.msg = m /\ c.ttl = m.ttl
  BY <1>1 DEF CopyType
<1>3. Store(m.source, c) /\ carried' = carried
  BY DEF Submit
<1> HIDE DEF c
<1>4. Sound(c) /\ Last(c.path) = m.source /\ Range(c.path) = {m.source}
  BY <1>1, <1>2 DEF Sound, IsInjective, Hops, Last, Range
<1>5. Held(m.source, c)
  BY <1>2, <1>4 DEF Held
<1>. QED  BY <1>1, <1>3, <1>5, StoreHolds DEF PathInv

LEMMA StoreCarriedPaths == ASSUME PathInv, NEW h \in carried, StoreCarried(h) PROVE PathInv'
<1>1. HandedOver(h) /\ Store(h.to, h.copy) /\ Broadcast(h.copy) /\ carried' \subseteq carried
  BY DEF PathInv, StoreCarried
<1>2. h.to \in Nodes /\ Held(h.to, h.copy)
  BY <1>1 DEF HandedOver, Held
<1>. QED  BY <1>1, <1>2, StoreHolds DEF PathInv

LEMMA ForwardedSound ==
  ASSUME PathInv, NEW n \in Nodes, NEW to \in Nodes, n # to
  PROVE  \A h \in Forwarded(n, to) : HandedOver(h)
  BY HandedSound DEF Forwarded, Given, PathInv

LEMMA KeptSound ==
  ASSUME PathInv, NEW n \in Nodes, NEW to \in Nodes
  PROVE  \A c \in Kept(n, to) : Held(n, c)
<1>1. \A c \in buffer[n] : Held(n, c)
  BY DEF PathInv
<1>2. \A c \in buffer[n] : Held(n, [c EXCEPT !.served = Served(c, n, to)])
  BY <1>1, MarkedHeld
<1>. QED  BY <1>1, <1>2 DEF Kept, Given

LEMMA EncounterPaths ==
  ASSUME PathInv, NEW a \in Nodes, NEW b \in Nodes, Encounter(a, b) PROVE PathInv'
<1>1. /\ a # b /\ buffer' = [buffer EXCEPT ![a] = Kept(a, b), ![b] = Kept(b, a)]
      /\ carried' = carried \cup Forwarded(a, b) \cup Forwarded(b, a)
  BY DEF Encounter
<1>2. /\ DOMAIN buffer' = Nodes
      /\ \A n \in Nodes : buffer'[n] = IF n = b THEN Kept(b, a) ELSE IF n = a THEN Kept(a, b)
                                     ELSE buffer[n]
  BY <1>1 DEF PathInv
<1>3. \A n \in Nodes : \A c \in buffer'[n] : Held(n, c)
  BY <1>2, KeptSound DEF PathInv
<1>4. \A h \in carried' : HandedOver(h)
  BY <1>1, ForwardedSound DEF PathInv
<1>. QED  BY <1>2, <1>3, <1>4 DEF PathInv

LEMMA TickPaths == ASSUME PathInv, NEW n \in Nodes, Tick(n) PROVE PathInv'
<1>1. \A c \in buffer[n] : Held(n, Aged(c))
  BY AgedHeld DEF PathInv
<1>. QED  BY <1>1 DEF Tick, PathInv

LEMMA PathNext == PathInv /\ [Next]_vars => PathInv'
<1>. SUFFICES ASSUME PathInv, [Next]_vars PROVE PathInv'
  OBVIOUS
<1>1. ASSUME NEW h \in carried, Lose(h) PROVE PathInv'
  BY <1>1 DEF Lose, PathInv
<1>2. CASE Report
  BY <1>2 DEF Report, PathInv
<1>3. CASE UNCHANGED vars
  BY <1>3 DEF vars, PathInv
<1>. QED
  BY <1>1, <1>2, <1>3, SubmitPaths, StoreCarriedPaths, EncounterPaths, TickPaths DEF Next

\* A broadcast never comes back to a node that carried it, and no copy travels
\* further than its lifetime, through any number of nodes and encounters, lost
\* copies and evictions (served marks of collect_forwarded).
THEOREM PathsNeverReturn == Spec => []NeverReturns
<1>1. PathInv => NeverReturns
  BY DEF PathInv, NeverReturns, Copies, Held, HandedOver, Sound
<1>. QED  BY <1>1, PathInit, PathNext, PTL DEF Spec

-----------------------------------------------------------------------------
(* The bound on the buffers *)

Places == IF MaxBuffer = 0 THEN 1 ELSE MaxBuffer
Fits(b) == IsFiniteSet(b) /\ Cardinality(b) <= Places
BoundInv == DOMAIN buffer = Nodes /\ \A n \in Nodes : Fits(buffer[n])

LEMMA FitsSubset ==
  ASSUME NEW b, Fits(b), NEW d \in SUBSET b
  PROVE  Fits(d)
<1>1. IsFiniteSet(d) /\ Cardinality(d) <= Cardinality(b)
  BY FS_Subset DEF Fits
<1>2. Cardinality(d) \in Nat /\ Cardinality(b) \in Nat /\ Places \in Nat
  BY <1>1, FS_CardinalityType, DtnAssumption DEF Fits, Places
<1>. QED  BY <1>1, <1>2 DEF Fits

\* What a function makes of a buffer is no larger.
LEMMA FitsImage ==
  ASSUME NEW b, Fits(b), NEW f, DOMAIN f = b
  PROVE  Fits({f[c] : c \in b})
<1> DEFINE r == {f[c] : c \in b}
           g == [c \in b |-> f[c]]
<1>1. g \in Surjection(b, r)
  BY DEF Surjection
<1>2. IsFiniteSet(r) /\ Cardinality(r) <= Cardinality(b)
  BY <1>1, FS_Surjection DEF Fits
<1>3. Cardinality(r) \in Nat /\ Cardinality(b) \in Nat /\ Places \in Nat
  BY <1>2, FS_CardinalityType, DtnAssumption DEF Fits, Places
<1>. QED  BY <1>2, <1>3 DEF Fits

LEMMA StoreFits ==
  ASSUME BoundInv, NEW n \in Nodes, NEW c, Store(n, c)
  PROVE  BoundInv'
<1> DEFINE b == buffer[n]
<1>1. Fits(b) /\ IsFiniteSet(b) /\ Cardinality(b) \in Nat /\ Cardinality(b) <= Places
  BY FS_CardinalityType DEF BoundInv, Fits
<1>2. MaxBuffer \in Nat
  BY DtnAssumption
<1>3. CASE ~Full(n) /\ buffer' = [buffer EXCEPT ![n] = @ \cup {c}]
  <2>1. IsFiniteSet(b \cup {c}) /\ Cardinality(b \cup {c}) <= Cardinality(b) + 1
    BY <1>1, FS_AddElement
  <2>2. Cardinality(b) < MaxBuffer \/ Cardinality(b) = 0
    BY <1>1, <1>2, <1>3, FS_EmptySet DEF Full
  <2>3. Cardinality(b \cup {c}) \in Nat
    BY <2>1, FS_CardinalityType
  <2>4. Fits(b \cup {c})
    BY <1>1, <1>2, <2>1, <2>2, <2>3 DEF Fits, Places
  <2>. QED  BY <1>3, <2>4 DEF BoundInv
<1>4. ASSUME NEW w \in b, buffer' = [buffer EXCEPT ![n] = (@ \ {w}) \cup {c}]
      PROVE  BoundInv'
  <2>1. IsFiniteSet(b \ {w}) /\ Cardinality(b \ {w}) = Cardinality(b) - 1
    BY <1>1, <1>4, FS_RemoveElement
  <2>2. /\ IsFiniteSet((b \ {w}) \cup {c})
        /\ Cardinality((b \ {w}) \cup {c}) <= Cardinality(b \ {w}) + 1
    <3> DEFINE r == b \ {w}
    <3>1. IsFiniteSet(r) /\ Cardinality(r) \in Nat
      BY <2>1, FS_CardinalityType
    <3> HIDE DEF r
    <3>2. IsFiniteSet(r \cup {c}) /\ Cardinality(r \cup {c}) <= Cardinality(r) + 1
      BY <3>1, FS_AddElement
    <3>. QED  BY <3>2 DEF r
  <2>3. Cardinality((b \ {w}) \cup {c}) \in Nat /\ Places \in Nat
    BY <1>2, <2>2, FS_CardinalityType DEF Places
  <2>4. Fits((b \ {w}) \cup {c})
    BY <1>1, <2>1, <2>2, <2>3 DEF Fits
  <2>. QED  BY <1>4, <2>4 DEF BoundInv
<1>5. CASE UNCHANGED buffer
  BY <1>5 DEF BoundInv
<1>. QED  BY <1>3, <1>4, <1>5 DEF Store, Worst

LEMMA KeptFits ==
  ASSUME BoundInv, NEW n \in Nodes, NEW to \in Nodes
  PROVE  Fits(Kept(n, to))
<1> DEFINE stays == buffer[n] \ (Dead(n) \cup Unicasts(n, to))
           f == [c \in stays |-> IF c \in Given(n, to)
                                 THEN [c EXCEPT !.served = Served(c, n, to)] ELSE c]
<1>1. Fits(stays)
  BY FitsSubset DEF BoundInv
<1>2. Kept(n, to) = {f[c] : c \in stays}
  BY DEF Kept, Unicasts, Given, Dead
<1> HIDE DEF f, stays
<1>3. DOMAIN f = stays
  BY DEF f
<1>. QED  BY <1>1, <1>2, <1>3, FitsImage

\* What is handed over is for a node there is: PathInv says so.
LEMMA BoundNext == PathInv /\ BoundInv /\ [Next]_vars => BoundInv'
<1>. SUFFICES ASSUME PathInv, BoundInv, [Next]_vars PROVE BoundInv'
  OBVIOUS
<1>1. ASSUME NEW m \in Messages, Submit(m) PROVE BoundInv'
  BY <1>1, StoreFits, DtnAssumption DEF Submit
<1>2. ASSUME NEW h \in carried, StoreCarried(h) PROVE BoundInv'
  BY <1>2, StoreFits DEF StoreCarried, PathInv, HandedOver
<1>3. ASSUME NEW a \in Nodes, NEW b \in Nodes, Encounter(a, b) PROVE BoundInv'
  BY <1>3, KeptFits DEF Encounter, BoundInv
<1>4. ASSUME NEW n \in Nodes, Tick(n) PROVE BoundInv'
  <2> DEFINE left == buffer[n] \ {c \in buffer[n] : c.ttl <= 1}
             f == [c \in left |-> Aged(c)]
  <2>1. Fits(left)
    BY FitsSubset DEF BoundInv
  <2>2. Fits({f[c] : c \in left})
    BY <2>1, FitsImage
  <2>3. {f[c] : c \in left} = {Aged(c) : c \in left}
    OBVIOUS
  <2>4. buffer' = [buffer EXCEPT ![n] = {Aged(c) : c \in left}]
    BY <1>4 DEF Tick
  <2> HIDE DEF f, left
  <2>. QED  BY <2>2, <2>3, <2>4 DEF BoundInv
<1>5. CASE UNCHANGED buffer
  BY <1>5 DEF BoundInv
<1>. QED  BY <1>1, <1>2, <1>3, <1>4, <1>5 DEF Next, Lose, Report, vars

\* No buffer exceeds its bound (max_buffer, or one copy where it is zero), although
\* a full one takes a more urgent copy by dropping its worst (store).
THEOREM BuffersBounded == Spec => []BufferBounded
<1>1. Init => BoundInv
  BY FS_EmptySet, DtnAssumption DEF Init, BoundInv, Fits, Places
<1>2. BoundInv => BufferBounded
  BY DEF BoundInv, BufferBounded, Fits, Places
<1>. QED  BY <1>1, <1>2, PathInit, PathNext, BoundNext, PTL DEF Spec

-----------------------------------------------------------------------------
(* Sums of functions.  A sum is a fold over a set: that it does not depend on  *)
(* the order is proved on smallest sets that would contradict it.              *)

\* A set of numbers has a least one.
LEMMA LeastNatural ==
  ASSUME NEW T \in SUBSET Nat, T # {}
  PROVE  \E n \in T : \A m \in T : n <= m
<1> DEFINE R == {ss \in Nat \X Nat : ss[1] < ss[2]}
<1>1. IsWellFoundedOn(R, Nat)
  BY NatLessThanWellFounded, Zenon DEF OpToRel
<1>2. PICK n \in T : \A m \in T : ~ <<m, n>> \in R
  BY <1>1, WFMin
<1>3. \A m \in T : ~ (m < n)
  BY <1>2
<1>. QED  BY <1>2, <1>3

\* A finite set of sets has one that holds no other of them.
LEMMA Smallest ==
  ASSUME NEW U, IsFiniteSet(U), NEW B \in SUBSET (SUBSET U), B # {}
  PROVE  \E s \in B : \A t \in B : t \subseteq s => t = s
<1> DEFINE N == {n \in Nat : \E s \in B : Cardinality(s) = n}
<1>1. \A s \in B : IsFiniteSet(s) /\ Cardinality(s) \in Nat
  BY FS_Subset, FS_CardinalityType
<1>2. N \in SUBSET Nat /\ N # {}
  BY <1>1
<1>3. PICK n \in N : \A k \in N : n <= k
  <2> HIDE DEF N
  <2> QED
    BY <1>2, LeastNatural
<1>4. PICK s \in B : Cardinality(s) = n
  BY <1>3
<1>5. ASSUME NEW t \in B, t \subseteq s
      PROVE  t = s
  <2>1. Cardinality(t) \in N
    BY <1>1
  <2>2. Cardinality(t) <= Cardinality(s) /\ (Cardinality(t) = Cardinality(s) => t = s)
    BY <1>1, <1>5, FS_Subset
  <2>3. Cardinality(s) <= Cardinality(t)
    BY <1>3, <1>4, <2>1
  <2>4. QED
    BY <1>1, <2>2, <2>3
<1>6. QED
  BY <1>5

SumOver(f, S) == SumFunctionOnSet(f, S)

Pick(s) == CHOOSE x \in s : TRUE

\* The function the fold over T computes on its subsets.
Sums(f, T) ==
  CHOOSE it : it = [s \in SUBSET T |-> IF s = {} THEN 0 ELSE f[Pick(s)] + it[s \ {Pick(s)}]]

LEMMA SumIsFold == ASSUME NEW f, NEW S PROVE SumOver(f, S) = Sums(f, S)[S]
BY DEF SumOver, SumFunctionOnSet, FoldFunctionOnSet, MapThenFoldSet, Sums, Pick

LEMMA Picked == ASSUME NEW s, s # {} PROVE Pick(s) \in s
BY DEF Pick

\* It is defined: on sets of at most n elements, for every n.
LEMMA SumsDefined ==
  ASSUME NEW f, NEW T, IsFiniteSet(T)
  PROVE  \A s \in SUBSET T :
           Sums(f, T)[s] = IF s = {} THEN 0 ELSE f[Pick(s)] + Sums(f, T)[s \ {Pick(s)}]
<1> DEFINE Upto(n) == {s \in SUBSET T : Cardinality(s) <= n}
           Sum(it, s) == IF s = {} THEN 0 ELSE f[Pick(s)] + it[s \ {Pick(s)}]
           Solves(n, it) == it = [s \in Upto(n) |-> Sum(it, s)]
           Bad == {n \in Nat : ~ \E it : Solves(n, it)}
<1>1. \A s \in SUBSET T : IsFiniteSet(s) /\ Cardinality(s) \in Nat
  BY FS_Subset, FS_CardinalityType
<1>2. ASSUME Bad # {} PROVE FALSE
  <2>1. PICK n \in Bad : \A m \in Bad : n <= m
    <3>1. Bad \in SUBSET Nat
      OBVIOUS
    <3> HIDE DEF Bad
    <3>2. QED
      BY <1>2, <3>1, LeastNatural
  <2>2. n \in Nat /\ ~ \E it : Solves(n, it)
    OBVIOUS
  <2>3. CASE n = 0
    <3>1. \A s \in Upto(0) : s = {}
      BY <1>1, FS_EmptySet
    <3>2. PICK it : it = [s \in Upto(0) |-> 0]
      OBVIOUS
    <3>3. [s \in Upto(0) |-> Sum(it, s)] = [s \in Upto(0) |-> 0]
      BY <3>1
    <3>4. Solves(0, it)
      BY <3>2, <3>3
    <3>5. QED
      BY <2>2, <2>3, <3>4
  <2>4. CASE n # 0
    <3>1. n - 1 \in Nat /\ n - 1 \notin Bad
      <4>1. n - 1 \in Nat /\ ~ (n <= n - 1)
        BY <2>2, <2>4
      <4> HIDE DEF Bad
      <4>2. QED
        BY <2>1, <4>1
    <3>2. PICK low : Solves(n - 1, low)
      BY <3>1
    <3>3. PICK it : it = [s \in Upto(n) |-> Sum(low, s)]
      OBVIOUS
    <3>4. ASSUME NEW s \in Upto(n)
          PROVE  Sum(low, s) = Sum(it, s)
      <4>1. CASE s = {}
        BY <4>1
      <4>2. CASE s # {}
        <5>1. PICK r : r = s \ {Pick(s)}
          OBVIOUS
        <5>2. r \in SUBSET T /\ IsFiniteSet(s) /\ Cardinality(s) \in Nat /\ Cardinality(s) <= n
          BY <1>1, <5>1
        <5>3. Cardinality(r) = Cardinality(s) - 1
          BY <4>2, <5>1, <5>2, Picked, FS_RemoveElement
        <5>4. Cardinality(r) <= n - 1 /\ Cardinality(r) <= n
          BY <2>2, <5>2, <5>3
        <5>5. r \in Upto(n - 1) /\ r \in Upto(n)
          BY <5>2, <5>4
        <5>6. low[r] = Sum(low, r)
          <6> HIDE DEF Sum
          <6> QED
            BY <3>2, <5>5
        <5>7. it[r] = Sum(low, r)
          <6> HIDE DEF Sum
          <6> QED
            BY <3>3, <5>5
        <5>8. QED
          BY <4>2, <5>1, <5>6, <5>7
      <4>3. QED
        BY <4>1, <4>2
    <3>5. [s \in Upto(n) |-> Sum(low, s)] = [s \in Upto(n) |-> Sum(it, s)]
      <4> HIDE DEF Sum, Upto
      <4> QED
        BY <3>4
    <3>6. Solves(n, it)
      <4> HIDE DEF Sum, Upto
      <4> QED
        BY <3>3, <3>5
    <3>7. QED
      BY <2>2, <3>6
  <2>5. QED
    BY <2>3, <2>4
<1>3. PICK n : n = Cardinality(T)
  OBVIOUS
<1>4. n \in Nat /\ Upto(n) = SUBSET T
  BY <1>3, FS_Subset, FS_CardinalityType
<1>5. \E it : Solves(n, it)
  BY <1>2, <1>4
<1>6. \E it : it = [s \in SUBSET T |-> Sum(it, s)]
  <2> HIDE DEF Sum, Upto
  <2> QED
    BY <1>4, <1>5
<1>7. Sums(f, T) = CHOOSE it : it = [s \in SUBSET T |-> Sum(it, s)]
  BY DEF Sums
<1>8. Sums(f, T) = [s \in SUBSET T |-> Sum(Sums(f, T), s)]
  <2> HIDE DEF Sum
  <2> QED
    BY <1>6, <1>7
<1>9. \A s \in SUBSET T : Sums(f, T)[s] = Sum(Sums(f, T), s)
  <2>1. PICK g : g = Sums(f, T)
    OBVIOUS
  <2> HIDE DEF Sum
  <2>2. g = [s \in SUBSET T |-> Sum(g, s)]
    BY <1>8, <2>1
  <2>3. \A s \in SUBSET T : g[s] = Sum(g, s)
    BY <2>2
  <2>4. QED
    BY <2>1, <2>3
<1>10. QED
  BY <1>9

\* It is the same on a set, whatever the sets it is part of.
LEMMA SumsAgree ==
  ASSUME NEW f, NEW T, IsFiniteSet(T), NEW s \in SUBSET T
  PROVE  Sums(f, T)[s] = SumOver(f, s)
<1> DEFINE B == {r \in SUBSET s : Sums(f, T)[r] # Sums(f, s)[r]}
<1>1. IsFiniteSet(s)
  BY FS_Subset
<1>2. ASSUME B # {} PROVE FALSE
  <2>1. B \in SUBSET (SUBSET s)
    OBVIOUS
  <2>2. PICK r \in B : \A t \in B : t \subseteq r => t = r
    <3> HIDE DEF B
    <3> QED
      BY <1>1, <1>2, <2>1, Smallest
  <2>3. r \in SUBSET T /\ r \in SUBSET s /\ Sums(f, T)[r] # Sums(f, s)[r]
    OBVIOUS
  <2>4. r # {}
    BY <1>1, <2>3, SumsDefined
  <2>5. r \ {Pick(r)} \notin B
    BY <2>2, <2>4, Picked
  <2>6. Sums(f, T)[r \ {Pick(r)}] = Sums(f, s)[r \ {Pick(r)}]
    BY <2>3, <2>5
  <2>7. /\ Sums(f, T)[r] = f[Pick(r)] + Sums(f, T)[r \ {Pick(r)}]
        /\ Sums(f, s)[r] = f[Pick(r)] + Sums(f, s)[r \ {Pick(r)}]
    BY <1>1, <2>3, <2>4, SumsDefined
  <2>8. QED
    BY <2>3, <2>6, <2>7
<1>3. s \notin B
  BY <1>2
<1>4. QED
  BY <1>3, SumIsFold

\* The recurrence of the sum.
LEMMA SumStep ==
  ASSUME NEW f, NEW S, IsFiniteSet(S)
  PROVE  /\ S = {} => SumOver(f, S) = 0
         /\ S # {} => SumOver(f, S) = f[Pick(S)] + SumOver(f, S \ {Pick(S)})
<1>1. SumOver(f, S) = Sums(f, S)[S]
  BY SumIsFold
<1>2. Sums(f, S)[S] = IF S = {} THEN 0 ELSE f[Pick(S)] + Sums(f, S)[S \ {Pick(S)}]
  BY SumsDefined
<1>3. Sums(f, S)[S \ {Pick(S)}] = SumOver(f, S \ {Pick(S)})
  BY SumsAgree
<1>4. QED
  BY <1>1, <1>2, <1>3

Valued(f, S) == IsFiniteSet(S) /\ \A x \in S : f[x] \in Nat

LEMMA SumNat ==
  ASSUME NEW f, NEW S, Valued(f, S)
  PROVE  SumOver(f, S) \in Nat
<1> DEFINE B == {r \in SUBSET S : SumOver(f, r) \notin Nat}
<1>1. ASSUME B # {} PROVE FALSE
  <2>1. B \in SUBSET (SUBSET S)
    OBVIOUS
  <2>2. PICK r \in B : \A t \in B : t \subseteq r => t = r
    <3> HIDE DEF B
    <3> QED
      BY <1>1, <2>1, Smallest DEF Valued
  <2>3. r \in SUBSET S /\ IsFiniteSet(r) /\ SumOver(f, r) \notin Nat
    BY FS_Subset DEF Valued
  <2>4. r # {}
    <3>1. r = {} => SumOver(f, r) = 0
      BY <2>3, SumStep
    <3>2. QED
      BY <2>3, <3>1
  <2>5. Pick(r) \in r /\ r \ {Pick(r)} \notin B
    BY <2>2, <2>4, Picked
  <2>6. SumOver(f, r \ {Pick(r)}) \in Nat /\ f[Pick(r)] \in Nat
    BY <2>3, <2>5 DEF Valued
  <2>7. SumOver(f, r) = f[Pick(r)] + SumOver(f, r \ {Pick(r)})
    BY <2>3, <2>4, SumStep
  <2>8. QED
    BY <2>3, <2>6, <2>7
<1>2. QED
  BY <1>1

\* The order does not matter: any element may be the last one added.
LEMMA SumAdds ==
  ASSUME NEW f, NEW S, Valued(f, S), NEW y, y \notin S, f[y] \in Nat
  PROVE  SumOver(f, S \cup {y}) = SumOver(f, S) + f[y]
<1> DEFINE U == S \cup {y}
           B == {r \in SUBSET U : \E x \in r : SumOver(f, r) # SumOver(f, r \ {x}) + f[x]}
<1>1. Valued(f, U) /\ IsFiniteSet(U)
  BY FS_AddElement DEF Valued
<1>2. \A r \in SUBSET U : IsFiniteSet(r) /\ Valued(f, r) /\ SumOver(f, r) \in Nat
  <2> TAKE r \in SUBSET U
  <2>1. IsFiniteSet(r)
    BY <1>1, FS_Subset
  <2>2. Valued(f, r)
    BY <1>1, <2>1 DEF Valued
  <2>3. QED
    BY <2>1, <2>2, SumNat
<1>3. ASSUME B # {} PROVE FALSE
  <2>1. B \in SUBSET (SUBSET U)
    OBVIOUS
  <2>2. PICK r \in B : \A t \in B : t \subseteq r => t = r
    <3> HIDE DEF B
    <3> QED
      BY <1>1, <1>3, <2>1, Smallest
  <2>3. PICK x \in r : SumOver(f, r) # SumOver(f, r \ {x}) + f[x]
    OBVIOUS
  <2>4. PICK p : p = Pick(r)
    OBVIOUS
  <2>5. p \in r /\ r \in SUBSET U
    BY <2>4, Picked
  <2>6. SumOver(f, r) = f[p] + SumOver(f, r \ {p})
    BY <1>2, <2>4, <2>5, SumStep
  <2>7. f[p] \in Nat /\ f[x] \in Nat
    BY <1>1, <2>5 DEF Valued
  <2>8. /\ SumOver(f, r \ {p}) \in Nat /\ SumOver(f, r \ {x}) \in Nat /\ SumOver(f, (r \ {p}) \ {x}) \in Nat
        /\ r \ {p} \in SUBSET U /\ r \ {x} \in SUBSET U
    BY <1>2, <2>5
  <2>9. x # p
    BY <2>3, <2>6, <2>7, <2>8
  <2>10. r \ {p} \notin B /\ r \ {x} \notin B
    BY <2>2, <2>5
  <2>11. SumOver(f, r \ {p}) = SumOver(f, (r \ {p}) \ {x}) + f[x]
    BY <2>8, <2>9, <2>10
  <2>12. SumOver(f, r \ {x}) = SumOver(f, (r \ {x}) \ {p}) + f[p]
    BY <2>5, <2>8, <2>9, <2>10
  <2>13. (r \ {x}) \ {p} = (r \ {p}) \ {x}
    OBVIOUS
  <2>14. PICK i \in Nat, j \in Nat : i = f[p] /\ j = f[x]
    BY <2>7
  <2>15. PICK k \in Nat, l \in Nat, m \in Nat :
           k = SumOver(f, r \ {p}) /\ l = SumOver(f, r \ {x}) /\ m = SumOver(f, (r \ {p}) \ {x})
    BY <2>8
  <2>16. SumOver(f, r) = i + k /\ k = m + j /\ l = m + i
    BY <2>6, <2>11, <2>12, <2>13, <2>14, <2>15
  <2>17. QED
    BY <2>3, <2>14, <2>15, <2>16
<1>4. U \notin B
  BY <1>3
<1>5. U \ {y} = S
  OBVIOUS
<1>6. QED
  BY <1>4, <1>5

\* A sum does not see what the function is elsewhere.
LEMMA SumSame ==
  ASSUME NEW S, IsFiniteSet(S), NEW f, NEW g, \A x \in S : f[x] = g[x]
  PROVE  SumOver(f, S) = SumOver(g, S)
<1> DEFINE B == {r \in SUBSET S : SumOver(f, r) # SumOver(g, r)}
<1>1. ASSUME B # {} PROVE FALSE
  <2>1. B \in SUBSET (SUBSET S)
    OBVIOUS
  <2>2. PICK r \in B : \A t \in B : t \subseteq r => t = r
    <3> HIDE DEF B
    <3> QED
      BY <1>1, <2>1, Smallest
  <2>3. r \in SUBSET S /\ IsFiniteSet(r) /\ SumOver(f, r) # SumOver(g, r)
    BY FS_Subset
  <2>4. r # {}
    <3>1. r = {} => SumOver(f, r) = 0 /\ SumOver(g, r) = 0
      BY <2>3, SumStep
    <3>2. QED
      BY <2>3, <3>1
  <2>5. Pick(r) \in r /\ r \ {Pick(r)} \notin B
    BY <2>2, <2>4, Picked
  <2>6. SumOver(f, r \ {Pick(r)}) = SumOver(g, r \ {Pick(r)}) /\ f[Pick(r)] = g[Pick(r)]
    BY <2>3, <2>5
  <2>7. /\ SumOver(f, r) = f[Pick(r)] + SumOver(f, r \ {Pick(r)})
        /\ SumOver(g, r) = g[Pick(r)] + SumOver(g, r \ {Pick(r)})
    BY <2>3, <2>4, SumStep
  <2>8. QED
    BY <2>3, <2>6, <2>7
<1>2. QED
  BY <1>1

\* Two functions that differ at one place.
LEMMA SumChanged ==
  ASSUME NEW S, NEW f, NEW g, Valued(f, S), Valued(g, S), NEW a \in S,
         \A x \in S \ {a} : f[x] = g[x]
  PROVE  /\ SumOver(f, S) \in Nat /\ SumOver(g, S) \in Nat
         /\ SumOver(f, S) + g[a] = SumOver(g, S) + f[a]
<1> DEFINE R == S \ {a}
<1>1. /\ IsFiniteSet(R) /\ Valued(f, R) /\ Valued(g, R)
      /\ a \notin R /\ f[a] \in Nat /\ g[a] \in Nat /\ R \cup {a} = S
      /\ \A x \in R : f[x] = g[x]
  BY FS_RemoveElement DEF Valued
<1> HIDE DEF R
<1>2. SumOver(f, S) = SumOver(f, R) + f[a]
  BY <1>1, SumAdds
<1>3. SumOver(g, S) = SumOver(g, R) + g[a]
  BY <1>1, SumAdds
<1>4. SumOver(f, R) = SumOver(g, R)
  BY <1>1, SumSame
<1>5. SumOver(f, R) \in Nat
  BY <1>1, SumNat
<1>6. QED
  BY <1>1, <1>2, <1>3, <1>4, <1>5

-----------------------------------------------------------------------------
(* Sums of sequences *)

SeqSum(s) == SumFunction(s)

LEMMA SeqSumAppend ==
  ASSUME NEW s \in Seq(Nat), NEW v \in Nat
  PROVE  SeqSum(s) \in Nat /\ SeqSum(Append(s, v)) = SeqSum(s) + v
<1>1. PICK t, n : t = Append(s, v) /\ n = Len(s)
  OBVIOUS
<1>2. /\ n \in Nat /\ DOMAIN s = 1 .. n /\ DOMAIN t = 1 .. n + 1
      /\ t[n + 1] = v /\ \A i \in 1 .. n : t[i] = s[i] /\ s[i] \in Nat
  BY <1>1, AppendProperties
<1>3. IsFiniteSet(1 .. n)
  <2>1. 1 \in Int /\ n \in Int
    BY <1>2
  <2>2. QED
    BY <2>1, FS_Interval
<1>4. Valued(s, 1 .. n) /\ Valued(t, 1 .. n)
  BY <1>2, <1>3 DEF Valued
<1>5. n + 1 \notin 1 .. n /\ (1 .. n) \cup {n + 1} = 1 .. n + 1
  BY <1>2
<1>6. SumOver(t, 1 .. n + 1) = SumOver(t, 1 .. n) + v
  <2>1. PICK low, y : low = 1 .. n /\ y = n + 1
    OBVIOUS
  <2>2. Valued(t, low) /\ y \notin low /\ t[y] \in Nat /\ t[y] = v /\ low \cup {y} = 1 .. n + 1
    BY <1>2, <1>4, <1>5, <2>1
  <2>3. SumOver(t, low \cup {y}) = SumOver(t, low) + t[y]
    BY <2>2, SumAdds
  <2>4. QED
    BY <2>1, <2>2, <2>3
<1>7. SumOver(t, 1 .. n) = SumOver(s, 1 .. n)
  BY <1>2, <1>3, SumSame
<1>8. SumOver(s, 1 .. n) \in Nat
  BY <1>4, SumNat
<1>9. SeqSum(s) = SumOver(s, 1 .. n) /\ SeqSum(t) = SumOver(t, 1 .. n + 1)
  BY <1>2 DEF SeqSum, SumFunction, SumOver
<1>10. QED
  BY <1>1, <1>6, <1>7, <1>8, <1>9

LEMMA SeqSumNone == SeqSum(<<>>) = 0
<1>1. SumOver(<<>>, {}) = 0
  BY SumStep, FS_EmptySet
<1>2. DOMAIN <<>> = {}
  OBVIOUS
<1>3. QED
  BY <1>1, <1>2 DEF SeqSum, SumFunction, SumOver

LEMMA SeqSumConcat ==
  ASSUME NEW s \in Seq(Nat), NEW t \in Seq(Nat)
  PROVE  SeqSum(s \o t) = SeqSum(s) + SeqSum(t)
<1> DEFINE B == {n \in Nat : \E r \in Seq(Nat) : Len(r) = n /\ SeqSum(s \o r) # SeqSum(s) + SeqSum(r)}
<1>1. ASSUME B # {} PROVE FALSE
  <2>1. B \in SUBSET Nat
    OBVIOUS
  <2>2. PICK n \in B : \A m \in B : n <= m
    <3> HIDE DEF B
    <3> QED
      BY <1>1, <2>1, LeastNatural
  <2>3. PICK r \in Seq(Nat) : n = Len(r) /\ SeqSum(s \o r) # SeqSum(s) + SeqSum(r)
    OBVIOUS
  <2>4. SeqSum(s) \in Nat
    BY SeqSumAppend
  <2>5. CASE n = 0
    <3>1. r = <<>> /\ s \o r = s
      <4>1. r = <<>>
        BY <2>3, <2>5, EmptySeq
      <4>2. s \o <<>> = s
        BY ConcatEmptySeq
      <4>3. QED
        BY <4>1, <4>2
    <3>2. QED
      BY <2>3, <2>4, <3>1, SeqSumNone
  <2>6. CASE n # 0
    <3>1. PICK q \in Seq(Nat), v \in Nat : r = Append(q, v) /\ Len(q) = n - 1
      <4>1. r # <<>>
        BY <2>3, <2>6, EmptySeq
      <4>2. PICK q, v : q = SubSeq(r, 1, n - 1) /\ v = r[n]
        OBVIOUS
      <4>3. n \in Nat /\ n - 1 \in Nat /\ n \in 1 .. Len(r)
        BY <2>3, <2>6
      <4>4. v \in Nat /\ q \in Seq(Nat) /\ Len(q) = n - 1 /\ \A i \in 1 .. n - 1 : q[i] = r[i]
        <5>1. v \in Nat
          BY <4>2, <4>3
        <5>2. /\ SubSeq(r, 1, n - 1) \in Seq(Nat) /\ Len(SubSeq(r, 1, n - 1)) = n - 1
              /\ \A i \in 1 .. n - 1 : SubSeq(r, 1, n - 1)[i] = r[i]
          BY <2>3, <4>3
        <5>3. QED
          BY <4>2, <5>1, <5>2
      <4>5. PICK w : w = Append(q, v)
        OBVIOUS
      <4>6. w \in Seq(Nat) /\ Len(w) = Len(r) /\ \A i \in 1 .. Len(r) : w[i] = r[i]
        BY <2>3, <4>2, <4>3, <4>4, <4>5
      <4>7. w = r
        BY <4>6, SeqEqual
      <4>8. QED
        BY <4>4, <4>5, <4>7
    <3>2. n - 1 \notin B /\ n - 1 \in Nat
      <4>1. n - 1 \in Nat /\ ~ (n <= n - 1)
        BY <2>3, <2>6
      <4> HIDE DEF B
      <4>2. QED
        BY <2>2, <4>1
    <3>3. SeqSum(s \o q) = SeqSum(s) + SeqSum(q)
      BY <3>1, <3>2
    <3>4. s \o r = Append(s \o q, v) /\ s \o q \in Seq(Nat)
      BY <3>1
    <3>5. SeqSum(Append(s \o q, v)) = SeqSum(s \o q) + v
      BY <3>1, <3>4, SeqSumAppend
    <3>6. SeqSum(r) = SeqSum(q) + v /\ SeqSum(q) \in Nat
      BY <3>1, SeqSumAppend
    <3>7. QED
      BY <2>3, <2>4, <3>1, <3>3, <3>4, <3>5, <3>6
  <2>7. QED
    BY <2>5, <2>6
<1>2. Len(t) \notin B
  BY <1>1
<1>3. QED
  BY <1>2

\* Without one of its elements.
LEMMA SeqSumRemove ==
  ASSUME NEW s \in Seq(Nat), NEW i \in 1 .. Len(s)
  PROVE  SeqSum(RemoveAt(s, i)) \in Nat /\ SeqSum(s) = SeqSum(RemoveAt(s, i)) + s[i]
<1>1. PICK n : n = Len(s)
  OBVIOUS
<1>2. n \in Nat /\ i \in Nat /\ 1 <= i /\ i <= n /\ s[i] \in Nat
  BY <1>1
<1>3. PICK a, b : a = SubSeq(s, 1, i - 1) /\ b = SubSeq(s, i + 1, n)
  OBVIOUS
<1>4. /\ a \in Seq(Nat) /\ Len(a) = i - 1 /\ \A k \in 1 .. i - 1 : a[k] = s[k]
      /\ b \in Seq(Nat) /\ Len(b) = n - i /\ \A k \in 1 .. n - i : b[k] = s[i + k]
  BY <1>1, <1>2, <1>3
<1>5. PICK w : w = Append(a, s[i]) \o b
  OBVIOUS
<1>6. PICK v : v = Append(a, s[i])
  OBVIOUS
<1>7. v \in Seq(Nat) /\ Len(v) = i /\ \A k \in 1 .. i : v[k] = s[k]
  BY <1>2, <1>4, <1>6
<1>8. w \in Seq(Nat) /\ Len(w) = n /\ \A k \in 1 .. n : w[k] = s[k]
  <2>1. /\ v \o b \in Seq(Nat) /\ Len(v \o b) = Len(v) + Len(b)
        /\ \A k \in 1 .. Len(v) + Len(b) : (v \o b)[k] = IF k <= Len(v) THEN v[k] ELSE b[k - Len(v)]
    BY <1>4, <1>7, ConcatProperties, Zenon
  <2>2. /\ w \in Seq(Nat) /\ Len(w) = n
        /\ \A k \in 1 .. n : w[k] = IF k <= i THEN v[k] ELSE b[k - i]
    <3>1. w = v \o b /\ Len(v) = i /\ Len(b) = n - i /\ i + (n - i) = n
      BY <1>2, <1>4, <1>5, <1>6, <1>7
    <3>2. Len(v) + Len(b) = n
      BY <3>1
    <3>3. QED
      BY <2>1, <3>1, <3>2, Zenon
  <2>3. ASSUME NEW k \in 1 .. n PROVE w[k] = s[k]
    <3>1. CASE k <= i
      BY <1>2, <1>7, <2>2, <3>1
    <3>2. CASE ~ (k <= i)
      <4>1. k - i \in 1 .. n - i /\ i + (k - i) = k
        BY <1>2, <3>2
      <4>2. b[k - i] = s[k]
        BY <1>4, <4>1
      <4>3. QED
        BY <2>2, <3>2, <4>2
    <3>3. QED
      BY <3>1, <3>2
  <2>4. QED
    BY <2>2, <2>3
<1>9. w = s
  BY <1>1, <1>8, SeqEqual
<1>10. RemoveAt(s, i) = a \o b
  BY <1>1, <1>3 DEF RemoveAt
<1>11. SeqSum(a \o b) = SeqSum(a) + SeqSum(b)
  BY <1>4, SeqSumConcat
<1>12. SeqSum(w) = SeqSum(v) + SeqSum(b)
  BY <1>4, <1>5, <1>6, <1>7, SeqSumConcat
<1>13. SeqSum(v) = SeqSum(a) + s[i] /\ SeqSum(a) \in Nat /\ SeqSum(b) \in Nat
  BY <1>2, <1>4, <1>6, SeqSumAppend
<1>14. QED
  BY <1>2, <1>9, <1>10, <1>11, <1>12, <1>13

-----------------------------------------------------------------------------
(* No two copies of a broadcast have the same path *)

Begins(p, q) == Len(p) <= Len(q) /\ \A i \in 1 .. Len(p) : p[i] = q[i]

\* Where the path of another copy goes on, the node it goes on to is marked.
Apart(c, d) ==
  c.msg = d.msg /\ Begins(c.path, d.path) =>
    \/ c = d
    \/ Len(c.path) < Len(d.path) /\ d.path[Len(c.path) + 1] \in c.served

Broadcasts == {c \in Copies : Broadcast(c)}

ApartInv ==
  /\ carried \subseteq [to : Nodes, copy : CopyType]
  /\ \A c \in Copies : c.msg \in sent
  /\ \A c, d \in Broadcasts : Apart(c, d)
  /\ \A h \in carried : Broadcast(h.copy) => h.copy \notin buffer[h.to]
  /\ \A n \in Nodes : \A c, d \in buffer[n] : c.msg = d.msg /\ ~Broadcast(c) => c = d

\* What an encounter or a tick leaves of a copy, and what it hands over.
Renews(c, d) == d.msg = c.msg /\ d.path = c.path /\ c.served \subseteq d.served
Extends(c, d, to) == d.msg = c.msg /\ d.path = Append(c.path, to)

LEMMA PathFacts ==
  ASSUME PathInv, NEW c \in Copies
  PROVE  c.path \in Seq(Nodes) /\ Len(c.path) \in Nat /\ Len(c.path) > 0
<1>1. Sound(c)
  BY DEF PathInv, Copies, Held, HandedOver
<1>2. c.path \in Seq(Nodes) /\ c.path # <<>>
  BY <1>1 DEF Sound, CopyType
<1>3. QED
  BY <1>2, EmptySeq

LEMMA RenewedApart ==
  ASSUME NEW c, NEW d, NEW e, NEW f, Apart(c, d), Renews(c, e), Renews(d, f), c = d => e = f
  PROVE  Apart(e, f)
BY DEF Apart, Renews

LEMMA ExtendedAfter ==
  ASSUME NEW c, NEW d, NEW e, NEW f, NEW to, c.path \in Seq(Nodes), d.path \in Seq(Nodes), to \in Nodes,
         Apart(c, d), Apart(d, c), Renews(c, e), Extends(d, f, to), to \notin d.served,
         c = d => to \in e.served
  PROVE  Apart(e, f)
<1>1. PICK p, q, r : p = c.path /\ q = d.path /\ r = f.path
  OBVIOUS
<1>2. /\ p \in Seq(Nodes) /\ q \in Seq(Nodes) /\ Len(p) \in Nat /\ Len(q) \in Nat
      /\ Len(r) = Len(q) + 1 /\ r[Len(q) + 1] = to /\ \A i \in 1 .. Len(q) : r[i] = q[i]
  BY <1>1, AppendProperties DEF Extends
<1>3. SUFFICES ASSUME c.msg = d.msg, Begins(p, r)
               PROVE  e = f \/ (Len(p) < Len(r) /\ r[Len(p) + 1] \in e.served)
  BY <1>1 DEF Apart, Renews, Extends
<1>4. CASE Len(p) = Len(q) + 1
  <2>1. Begins(q, p)
    BY <1>2, <1>3, <1>4 DEF Begins
  <2>2. d = c \/ p[Len(q) + 1] \in d.served
    BY <1>1, <1>3, <2>1 DEF Apart
  <2>3. p[Len(q) + 1] = to
    BY <1>2, <1>3, <1>4 DEF Begins
  <2>4. c # d
    BY <1>1, <1>2, <1>4
  <2>5. QED
    BY <2>2, <2>3, <2>4
<1>5. CASE Len(p) <= Len(q)
  <2>1. Begins(p, q)
    BY <1>2, <1>3, <1>5 DEF Begins
  <2>2. c = d \/ (Len(p) < Len(q) /\ q[Len(p) + 1] \in c.served)
    BY <1>1, <1>3, <2>1 DEF Apart
  <2>3. CASE c = d
    BY <1>1, <1>2, <2>3
  <2>4. CASE Len(p) < Len(q) /\ q[Len(p) + 1] \in c.served
    BY <1>2, <2>4 DEF Renews
  <2>5. QED
    BY <2>2, <2>3, <2>4
<1>6. QED
  BY <1>2, <1>3, <1>4, <1>5 DEF Begins

LEMMA ExtendedFirst ==
  ASSUME NEW c, NEW d, NEW e, NEW f, NEW to, c.path \in Seq(Nodes), d.path \in Seq(Nodes), to \in Nodes,
         Apart(c, d), Extends(c, e, to), to \notin c.served, f.msg = d.msg, f.path = d.path
  PROVE  ~ (e.msg = f.msg /\ Begins(e.path, f.path))
<1>1. PICK p, q, r : p = c.path /\ q = d.path /\ r = e.path
  OBVIOUS
<1>2. /\ Len(p) \in Nat /\ Len(q) \in Nat
      /\ Len(r) = Len(p) + 1 /\ r[Len(p) + 1] = to /\ \A i \in 1 .. Len(p) : r[i] = p[i]
  BY <1>1, AppendProperties DEF Extends
<1>3. SUFFICES ASSUME c.msg = d.msg, Begins(r, q) PROVE FALSE
  BY <1>1 DEF Extends
<1>4. Begins(p, q) /\ Len(p) < Len(q) /\ q[Len(p) + 1] = to
  BY <1>2, <1>3 DEF Begins
<1>5. c = d \/ q[Len(p) + 1] \in c.served
  BY <1>1, <1>3, <1>4 DEF Apart
<1>6. c # d
  BY <1>1, <1>2, <1>4
<1>7. QED
  BY <1>4, <1>5, <1>6

LEMMA BothExtended ==
  ASSUME NEW c, NEW d, NEW e, NEW f, NEW to, NEW next,
         c.path \in Seq(Nodes), d.path \in Seq(Nodes), to \in Nodes, next \in Nodes,
         Apart(c, d), Extends(c, e, to), to \notin c.served, Extends(d, f, next), c = d => e = f
  PROVE  Apart(e, f)
<1>1. PICK p, q, r, s : p = c.path /\ q = d.path /\ r = e.path /\ s = f.path
  OBVIOUS
<1>2. /\ Len(p) \in Nat /\ Len(q) \in Nat
      /\ Len(r) = Len(p) + 1 /\ r[Len(p) + 1] = to /\ \A i \in 1 .. Len(p) : r[i] = p[i]
      /\ Len(s) = Len(q) + 1 /\ \A i \in 1 .. Len(q) : s[i] = q[i]
  BY <1>1, AppendProperties DEF Extends
<1>3. SUFFICES ASSUME c.msg = d.msg, Begins(r, s) PROVE e = f
  BY <1>1 DEF Apart, Extends
<1>4. Len(p) <= Len(q) /\ Begins(p, q)
  BY <1>2, <1>3 DEF Begins
<1>5. c = d \/ (Len(p) < Len(q) /\ q[Len(p) + 1] \in c.served)
  BY <1>1, <1>3, <1>4 DEF Apart
<1>6. CASE Len(p) < Len(q)
  <2>1. q[Len(p) + 1] = to
    BY <1>2, <1>3, <1>6 DEF Begins
  <2>2. c = d
    BY <1>5, <2>1
  <2>3. QED
    BY <1>1, <1>6, <2>2
<1>7. QED
  BY <1>5, <1>6

LEMMA SamePath ==
  ASSUME NEW c, NEW d, Apart(c, d), c.msg = d.msg, c.path = d.path, c.path \in Seq(Nodes)
  PROVE  c = d
<1>1. Len(c.path) \in Nat /\ Begins(c.path, d.path)
  BY DEF Begins
<1>2. QED
  BY <1>1 DEF Apart

\* The copies of a buffer are told apart by their message and their path.
LEMMA KeysApart ==
  ASSUME PathInv, ApartInv, NEW n \in Nodes, NEW c \in buffer[n], NEW d \in buffer[n],
         c.msg = d.msg, c.path = d.path
  PROVE  c = d
<1>1. c \in Copies /\ d \in Copies
  BY DEF Copies
<1>2. CASE Broadcast(c)
  <2>1. c \in Broadcasts /\ d \in Broadcasts
    BY <1>1, <1>2 DEF Broadcasts, Broadcast
  <2>2. QED
    BY <1>1, <2>1, PathFacts, SamePath DEF ApartInv
<1>3. CASE ~Broadcast(c)
  BY <1>3 DEF ApartInv
<1>4. QED
  BY <1>2, <1>3

\* What becomes of copies when none is stored: u says what a buffer keeps of each of
\* its copies, v what it hands over.
Passes(u, v, n, c, h) ==
  /\ h = v[n][c] /\ h \in [to : Nodes, copy : CopyType] /\ Extends(c, h.copy, h.to)
  /\ Broadcast(c) => h.to \notin c.served /\ h.to \in u[n][c].served

Moved(u, v) ==
  /\ sent' = sent
  /\ \A n \in Nodes : \A c \in buffer[n] : Renews(c, u[n][c])
  /\ \A n \in Nodes : \A d \in buffer'[n] : \E c \in buffer[n] : d = u[n][c]
  /\ \A h \in carried' \ carried : \E n \in Nodes : \E c \in buffer[n] : Passes(u, v, n, c, h)

\* The copy c is there, and e is what is left of it.
Left(u, c, e) ==
  /\ c \in Copies /\ Renews(c, e)
  /\ \A n \in Nodes : c \in buffer[n] /\ Broadcast(c) => e = u[n][c]
  /\ (\A n \in Nodes : c \notin buffer[n]) => e = c

LEMMA OneBuffer ==
  ASSUME PathInv, NEW n \in Nodes, NEW m \in Nodes, NEW c \in buffer[n], c \in buffer[m]
  PROVE  n = m
BY DEF PathInv, Held

LEMMA MovedFrom ==
  ASSUME PathInv, ApartInv, NEW u, NEW v, Moved(u, v), DOMAIN buffer' = Nodes, NEW e \in Copies'
  PROVE  \/ \E c \in Copies : Left(u, c, e)
         \/ \E n \in Nodes : \E c \in buffer[n] : \E h \in carried' :
              e = h.copy /\ Passes(u, v, n, c, h)
<1>1. CASE \E n \in Nodes : e \in buffer'[n]
  <2>1. PICK n \in Nodes : e \in buffer'[n]
    BY <1>1
  <2>2. PICK c \in buffer[n] : e = u[n][c]
    BY <2>1 DEF Moved
  <2>3. c \in Copies /\ Renews(c, e)
    BY <2>2 DEF Moved, Copies
  <2>4. ASSUME NEW m \in Nodes, c \in buffer[m] PROVE e = u[m][c]
    <3>1. m = n
      BY <2>4, OneBuffer
    <3>2. QED
      BY <2>2, <3>1
  <2>5. Left(u, c, e)
    BY <2>3, <2>4 DEF Left
  <2>6. QED
    BY <2>3, <2>5
<1>2. ASSUME NEW h \in carried, e = h.copy PROVE Left(u, e, e) /\ e \in Copies
  <2>1. e \in Copies /\ Renews(e, e)
    BY <1>2 DEF Copies, Renews
  <2>2. ASSUME NEW n \in Nodes, e \in buffer[n], Broadcast(e) PROVE FALSE
    <3>1. Last(e.path) = n /\ Last(e.path) = h.to
      BY <1>2, <2>2 DEF PathInv, Held, HandedOver
    <3>2. QED
      BY <1>2, <2>2, <3>1 DEF ApartInv
  <2>3. QED
    BY <2>1, <2>2 DEF Left
<1>3. ASSUME NEW h \in carried', h \notin carried, e = h.copy
      PROVE  \E n \in Nodes : \E c \in buffer[n] : e = h.copy /\ Passes(u, v, n, c, h)
  BY <1>3 DEF Moved
<1>4. (\E n \in Nodes : e \in buffer'[n]) \/ \E h \in carried' : e = h.copy
  BY DEF Copies
<1>5. QED
  BY <1>1, <1>2, <1>3, <1>4

LEMMA MovedApart ==
  ASSUME PathInv, ApartInv, NEW u, NEW v, Moved(u, v), DOMAIN buffer' = Nodes
  PROVE  ApartInv'
<1>1. \A c \in Copies : c.path \in Seq(Nodes)
  BY PathFacts
<1>2. ASSUME NEW n \in Nodes, NEW c \in buffer[n] PROVE c \in Copies
  BY DEF Copies
<1>3. ASSUME NEW n \in Nodes, NEW c \in buffer[n], NEW h, Passes(u, v, n, c, h)
      PROVE  /\ h.to \in Nodes /\ h.copy.msg = c.msg /\ Extends(c, h.copy, h.to)
             /\ Broadcast(h.copy) => /\ c \in Broadcasts
                                     /\ h.to \notin c.served /\ h.to \in u[n][c].served
  BY <1>2, <1>3 DEF Passes, Extends, Broadcast, Broadcasts
<1>4. ASSUME NEW c, NEW e, Left(u, c, e)
      PROVE  /\ c \in Copies /\ Renews(c, e) /\ e.msg = c.msg
             /\ Broadcast(e) => c \in Broadcasts
  BY <1>4 DEF Left, Renews, Broadcast, Broadcasts
<1>5. carried' \subseteq [to : Nodes, copy : CopyType]
  BY DEF ApartInv, Moved, Passes
<1>6. ASSUME NEW e \in Copies' PROVE e.msg \in sent'
  <2>1. CASE \E c \in Copies : Left(u, c, e)
    BY <1>4, <2>1 DEF ApartInv, Moved
  <2>2. CASE \E n \in Nodes : \E c \in buffer[n] : \E h \in carried' :
               e = h.copy /\ Passes(u, v, n, c, h)
    BY <1>2, <1>3, <2>2 DEF ApartInv, Moved
  <2>3. QED
    BY <2>1, <2>2, MovedFrom
<1>7. ASSUME NEW e \in Copies', NEW f \in Copies', Broadcast(e), Broadcast(f) PROVE Apart(e, f)
  <2>1. ASSUME NEW c \in Copies, Left(u, c, e), NEW d \in Copies, Left(u, d, f) PROVE Apart(e, f)
    <3>1. Renews(c, e) /\ Renews(d, f) /\ Apart(c, d) /\ Broadcast(c)
      BY <1>4, <1>7, <2>1 DEF ApartInv, Broadcasts
    <3>2. ASSUME c = d PROVE e = f
      BY <2>1, <3>1, <3>2 DEF Left
    <3>3. QED
      BY <3>1, <3>2, RenewedApart
  <2>2. ASSUME NEW c \in Copies, Left(u, c, e),
               NEW n \in Nodes, NEW d \in buffer[n], NEW h \in carried', f = h.copy, Passes(u, v, n, d, h)
        PROVE  Apart(e, f)
    <3>1. PICK to : to = h.to
      OBVIOUS
    <3>2. /\ c \in Broadcasts /\ d \in Broadcasts /\ d \in Copies /\ Renews(c, e)
          /\ to \in Nodes /\ Extends(d, f, to) /\ to \notin d.served /\ to \in u[n][d].served
      BY <1>2, <1>3, <1>4, <1>7, <2>2, <3>1
    <3>3. Apart(c, d) /\ Apart(d, c) /\ c.path \in Seq(Nodes) /\ d.path \in Seq(Nodes)
      BY <1>1, <3>2 DEF ApartInv
    <3>4. ASSUME c = d PROVE to \in e.served
      <4>1. e = u[n][c]
        BY <2>2, <3>2, <3>4 DEF Left, Broadcasts
      <4>2. QED
        BY <3>2, <3>4, <4>1
    <3>5. QED
      BY <3>2, <3>3, <3>4, ExtendedAfter
  <2>3. ASSUME NEW n \in Nodes, NEW c \in buffer[n], NEW h \in carried', e = h.copy,
               Passes(u, v, n, c, h), NEW d \in Copies, Left(u, d, f)
        PROVE  Apart(e, f)
    <3>1. PICK to : to = h.to
      OBVIOUS
    <3>2. /\ c \in Broadcasts /\ d \in Broadcasts /\ c \in Copies /\ Renews(d, f)
          /\ to \in Nodes /\ Extends(c, e, to) /\ to \notin c.served
      BY <1>2, <1>3, <1>4, <1>7, <2>3, <3>1
    <3>3. Apart(c, d) /\ c.path \in Seq(Nodes) /\ d.path \in Seq(Nodes) /\ f.msg = d.msg /\ f.path = d.path
      BY <1>1, <3>2 DEF ApartInv, Renews
    <3>4. ~ (e.msg = f.msg /\ Begins(e.path, f.path))
      BY <3>2, <3>3, ExtendedFirst
    <3>5. QED
      BY <3>4 DEF Apart
  <2>4. ASSUME NEW n \in Nodes, NEW c \in buffer[n], NEW h \in carried', e = h.copy,
               Passes(u, v, n, c, h),
               NEW m \in Nodes, NEW d \in buffer[m], NEW k \in carried', f = k.copy,
               Passes(u, v, m, d, k)
        PROVE  Apart(e, f)
    <3>1. PICK to, next : to = h.to /\ next = k.to
      OBVIOUS
    <3>2. /\ c \in Broadcasts /\ d \in Broadcasts /\ c \in Copies /\ d \in Copies
          /\ to \in Nodes /\ Extends(c, e, to) /\ to \notin c.served
          /\ next \in Nodes /\ Extends(d, f, next)
      BY <1>2, <1>3, <1>7, <2>4, <3>1
    <3>3. Apart(c, d) /\ c.path \in Seq(Nodes) /\ d.path \in Seq(Nodes)
      BY <1>1, <3>2 DEF ApartInv
    <3>4. ASSUME c = d PROVE e = f
      <4>1. n = m
        BY <3>4, OneBuffer
      <4>2. QED
        BY <2>4, <3>4, <4>1 DEF Passes
    <3>5. QED
      BY <3>2, <3>3, <3>4, BothExtended
  <2>5. \/ \E c \in Copies : Left(u, c, e)
        \/ \E n \in Nodes : \E c \in buffer[n] : \E h \in carried' : e = h.copy /\ Passes(u, v, n, c, h)
    BY MovedFrom
  <2>6. \/ \E c \in Copies : Left(u, c, f)
        \/ \E n \in Nodes : \E c \in buffer[n] : \E h \in carried' : f = h.copy /\ Passes(u, v, n, c, h)
    BY MovedFrom
  <2>7. QED
    BY <2>1, <2>2, <2>3, <2>4, <2>5, <2>6
<1>8. ASSUME NEW h \in carried', Broadcast(h.copy), h.copy \in buffer'[h.to] PROVE FALSE
  <2>1. h.to \in Nodes
    BY <1>5
  <2>2. PICK d \in buffer[h.to] : h.copy = u[h.to][d] /\ Renews(d, h.copy)
    BY <1>8, <2>1 DEF Moved
  <2>3. d \in Broadcasts /\ d \in Copies /\ d.path \in Seq(Nodes) /\ h.copy.msg = d.msg /\ h.copy.path = d.path
    BY <1>1, <1>2, <1>8, <2>1, <2>2 DEF Broadcasts, Broadcast, Renews
  <2>4. CASE h \in carried
    <3>1. h.copy \in Broadcasts
      BY <1>8, <2>4 DEF Broadcasts, Copies
    <3>2. Apart(h.copy, d)
      BY <2>3, <3>1 DEF ApartInv
    <3>3. h.copy = d
      BY <2>3, <3>2, SamePath
    <3>4. QED
      BY <1>8, <2>2, <2>4, <3>3 DEF ApartInv
  <2>5. CASE h \notin carried
    <3>1. PICK n \in Nodes : \E c \in buffer[n] : Passes(u, v, n, c, h)
      BY <2>5 DEF Moved
    <3>7. PICK c \in buffer[n] : Passes(u, v, n, c, h)
      BY <3>1
    <3>2. /\ c \in Broadcasts /\ c \in Copies /\ Extends(c, h.copy, h.to) /\ h.to \notin c.served
      BY <1>2, <1>3, <1>8, <3>7
    <3>3. Apart(c, d) /\ c.path \in Seq(Nodes)
      BY <1>1, <2>3, <3>2 DEF ApartInv
    <3>4. ~ (h.copy.msg = d.msg /\ Begins(h.copy.path, d.path))
      BY <2>1, <2>3, <3>2, <3>3, ExtendedFirst
    <3>5. Begins(d.path, d.path)
      BY <2>3 DEF Begins
    <3>6. QED
      BY <2>3, <3>4, <3>5
  <2>6. QED
    BY <2>4, <2>5
<1>9. ASSUME NEW n \in Nodes, NEW e \in buffer'[n], NEW f \in buffer'[n], e.msg = f.msg, ~Broadcast(e)
      PROVE  e = f
  <2>1. PICK c \in buffer[n], d \in buffer[n] : e = u[n][c] /\ f = u[n][d]
    BY <1>9 DEF Moved
  <2>2. c.msg = e.msg /\ d.msg = f.msg
    BY <2>1 DEF Moved, Renews
  <2>3. c = d
    BY <1>9, <2>2 DEF ApartInv, Broadcast
  <2>4. QED
    BY <2>1, <2>3
<1>10. QED
  BY <1>5, <1>6, <1>7, <1>8, <1>9 DEF ApartInv, Broadcasts

LEMMA ApartInit == Init => ApartInv
<1>1. Init => Copies = {} /\ carried = {}
  BY DEF Init, Copies
<1>2. Init => \A n \in Nodes : buffer[n] = {}
  BY DEF Init
<1>3. QED
  BY <1>1, <1>2 DEF ApartInv, Broadcasts

\* A store leaves nothing in a buffer but the copy offered and what was there.
LEMMA StoreAdds ==
  ASSUME PathInv, NEW n \in Nodes, NEW c, Store(n, c)
  PROVE  \A k \in Nodes : \A d \in buffer'[k] : d \in buffer[k] \/ (k = n /\ d = c)
BY DEF Store, PathInv

LEMMA SubmitApart == ASSUME PathInv, ApartInv, NEW m \in Messages, Submit(m) PROVE ApartInv'
<1> DEFINE c == [msg |-> m, ttl |-> m.ttl, served |-> {}, path |-> <<m.source>>]
<1>1. /\ m.source \in Nodes /\ m \notin sent /\ Store(m.source, c)
      /\ carried' = carried /\ sent' = sent \cup {m} /\ c.msg = m
  BY DtnAssumption DEF Submit
<1> HIDE DEF c
<1>2. \A k \in Nodes : \A d \in buffer'[k] : d \in buffer[k] \/ (k = m.source /\ d = c)
  BY <1>1, StoreAdds
<1>3. \A d \in Copies' : d \in Copies \/ d = c
  BY <1>1, <1>2 DEF Copies
<1>4. \A d \in Copies : d.msg \in sent /\ d.msg # c.msg /\ d # c
  BY <1>1 DEF ApartInv
<1>5. \A d \in Copies' : d.msg \in sent'
  BY <1>1, <1>3, <1>4
<1>6. ASSUME NEW d \in Broadcasts', NEW e \in Broadcasts' PROVE Apart(d, e)
  <2>1. Broadcast(d) /\ Broadcast(e) /\ d \in Copies' /\ e \in Copies'
    BY <1>6 DEF Broadcasts
  <2>2. CASE d = c \/ e = c
    BY <1>3, <1>4, <2>1, <2>2 DEF Apart
  <2>3. CASE d # c /\ e # c
    <3>1. d \in Broadcasts /\ e \in Broadcasts
      BY <1>3, <2>1, <2>3 DEF Broadcasts
    <3>2. QED
      BY <3>1 DEF ApartInv
  <2>4. QED
    BY <2>2, <2>3
<1>7. ASSUME NEW h \in carried', Broadcast(h.copy) PROVE h.copy \notin buffer'[h.to]
  <2>1. h.copy \in Copies /\ h.to \in Nodes /\ h.copy \notin buffer[h.to]
    BY <1>1, <1>7 DEF ApartInv, Copies
  <2>2. QED
    BY <1>2, <1>4, <2>1
<1>8. ASSUME NEW n \in Nodes, NEW d \in buffer'[n], NEW e \in buffer'[n], d.msg = e.msg, ~Broadcast(d)
      PROVE  d = e
  <2>1. \A g \in buffer[n] : g.msg # c.msg
    BY <1>4 DEF Copies
  <2>2. d = c <=> e = c
    BY <1>2, <1>8, <2>1
  <2>3. CASE d = c
    BY <2>2, <2>3
  <2>4. CASE d # c
    BY <1>2, <1>8, <2>2, <2>4 DEF ApartInv
  <2>5. QED
    BY <2>3, <2>4
<1>9. QED
  BY <1>1, <1>5, <1>6, <1>7, <1>8 DEF ApartInv

LEMMA StoreCarriedApart ==
  ASSUME PathInv, ApartInv, NEW h \in carried, StoreCarried(h) PROVE ApartInv'
<1>1. /\ h.to \in Nodes /\ h.copy \in Copies /\ Broadcast(h.copy) /\ Store(h.to, h.copy)
      /\ carried' = carried \ {h} /\ sent' = sent
  BY DEF StoreCarried, ApartInv, Copies
<1>2. \A k \in Nodes : \A d \in buffer'[k] : d \in buffer[k] \/ (k = h.to /\ d = h.copy)
  BY <1>1, StoreAdds
<1>3. Copies' \subseteq Copies /\ Broadcasts' \subseteq Broadcasts
  <2>1. Copies' \subseteq Copies
    BY <1>1, <1>2 DEF Copies
  <2>2. QED
    BY <2>1 DEF Broadcasts
<1>4. ASSUME NEW g \in carried', Broadcast(g.copy) PROVE g.copy \notin buffer'[g.to]
  <2>1. g \in carried /\ g # h /\ g \in [to : Nodes, copy : CopyType] /\ h \in [to : Nodes, copy : CopyType]
    BY <1>1, <1>4 DEF ApartInv
  <2>2. g.copy \notin buffer[g.to] /\ g.to \in Nodes
    BY <1>4, <2>1 DEF ApartInv
  <2>3. ~ (g.to = h.to /\ g.copy = h.copy)
    BY <2>1
  <2>4. QED
    BY <1>2, <2>2, <2>3
<1>5. ASSUME NEW n \in Nodes, NEW d \in buffer'[n], NEW e \in buffer'[n], d.msg = e.msg, ~Broadcast(d)
      PROVE  d = e
  <2>1. d # h.copy /\ e # h.copy
    BY <1>1, <1>5 DEF Broadcast
  <2>2. QED
    BY <1>2, <1>5, <2>1 DEF ApartInv
<1>6. QED
  BY <1>1, <1>3, <1>4, <1>5 DEF ApartInv

LEMMA FewerApart ==
  ASSUME ApartInv, carried' \subseteq carried, UNCHANGED <<buffer, sent>>
  PROVE  ApartInv'
<1>1. Copies' \subseteq Copies
  BY DEF Copies
<1>2. Broadcasts' \subseteq Broadcasts
  BY <1>1 DEF Broadcasts
<1>3. QED
  BY <1>1, <1>2 DEF ApartInv

LEMMA TickApart == ASSUME PathInv, ApartInv, NEW n \in Nodes, Tick(n) PROVE ApartInv'
<1> DEFINE u == [k \in Nodes |-> [c \in buffer[k] |-> IF k = n THEN Aged(c) ELSE c]]
<1>1. sent' = sent /\ carried' = carried /\ DOMAIN buffer' = Nodes
  BY DEF Tick, PathInv
<1>2. \A k \in Nodes : \A c \in buffer[k] : u[k][c] = IF k = n THEN Aged(c) ELSE c
  OBVIOUS
<1> HIDE DEF u
<1>3. \A k \in Nodes : \A c \in buffer[k] : Renews(c, c) /\ Renews(c, Aged(c))
  <2>1. \A k \in Nodes : \A c \in buffer[k] : c \in CopyType
    BY DEF PathInv, Held, Sound
  <2>2. QED
    BY <2>1 DEF Renews, Aged, CopyType
<1>4. ASSUME NEW k \in Nodes, NEW d \in buffer'[k] PROVE \E c \in buffer[k] : d = u[k][c]
  <2>1. CASE k = n
    <3>1. \E c \in buffer[k] : d = Aged(c)
      BY <1>4, <2>1 DEF Tick, PathInv
    <3>2. QED
      BY <1>2, <2>1, <3>1
  <2>2. CASE k # n
    <3>1. d \in buffer[k]
      BY <1>4, <2>2 DEF Tick, PathInv
    <3>2. QED
      BY <1>2, <2>2, <3>1
  <2>3. QED
    BY <2>1, <2>2
<1>5. Moved(u, u)
  BY <1>1, <1>2, <1>3, <1>4 DEF Moved
<1>6. QED
  BY <1>1, <1>5, MovedApart

\* What an encounter with to leaves of a copy that is kept, and what to is given.
Marked(c, n, to) == [c EXCEPT !.served = Served(c, n, to)]
Passed(c, n, to) ==
  [to |-> to, copy |-> [c EXCEPT !.served = Served(c, n, to), !.path = Append(@, to)]]

LEMMA PassedOn ==
  ASSUME PathInv, NEW n \in Nodes, NEW to \in Nodes, n # to, NEW c \in Given(n, to)
  PROVE  /\ Passed(c, n, to).to = to
         /\ Passed(c, n, to) \in [to : Nodes, copy : CopyType]
         /\ Extends(c, Passed(c, n, to).copy, to)
         /\ Broadcast(c) => to \notin c.served /\ to \in Marked(c, n, to).served
<1>1. Held(n, c) /\ c \in CopyType /\ ~TooFar(c) /\ Handed(c, to)
  BY DEF PathInv, Held, Sound, Given
<1>2. HandedOver(Passed(c, n, to))
  BY <1>1, HandedSound DEF Passed
<1>3. Passed(c, n, to).copy \in CopyType
  BY <1>2 DEF HandedOver, Sound
<1>4. PICK e : e = Passed(c, n, to).copy
  OBVIOUS
<1>5. Passed(c, n, to) = [to |-> to, copy |-> e]
  BY <1>4 DEF Passed
<1>6. e.msg = c.msg /\ e.path = Append(c.path, to)
  <2>1. PICK d : d = [c EXCEPT !.served = Served(c, n, to)]
    OBVIOUS
  <2>2. d.msg = c.msg /\ d.path = c.path /\ "path" \in DOMAIN d /\ "msg" \in DOMAIN d
    BY <1>1, <2>1 DEF CopyType
  <2>3. e = [d EXCEPT !.path = Append(d.path, to)]
    BY <1>4, <2>1, <2>2 DEF Passed
  <2>4. QED
    BY <2>2, <2>3
<1>7. Broadcast(c) => to \notin c.served /\ to \in Marked(c, n, to).served
  BY <1>1 DEF Handed, Marked, Served, CopyType
<1>8. QED
  BY <1>3, <1>4, <1>5, <1>6, <1>7 DEF Extends

LEMMA EncounterApart ==
  ASSUME PathInv, ApartInv, NEW a \in Nodes, NEW b \in Nodes, Encounter(a, b) PROVE ApartInv'
<1> DEFINE other == [n \in Nodes |-> IF n = a THEN b ELSE a]
           u == [n \in Nodes |-> [c \in buffer[n] |->
                  IF n \in {a, b} /\ c \in Given(n, other[n]) THEN Marked(c, n, other[n]) ELSE c]]
           v == [n \in Nodes |-> [c \in buffer[n] |-> Passed(c, n, other[n])]]
<1>1. /\ a # b /\ sent' = sent /\ buffer' = [buffer EXCEPT ![a] = Kept(a, b), ![b] = Kept(b, a)]
      /\ carried' = carried \cup Forwarded(a, b) \cup Forwarded(b, a)
  BY DEF Encounter
<1>2. /\ other[a] = b /\ other[b] = a
      /\ \A n \in Nodes : \A c \in buffer[n] :
           /\ u[n][c] = IF n \in {a, b} /\ c \in Given(n, other[n]) THEN Marked(c, n, other[n]) ELSE c
           /\ v[n][c] = Passed(c, n, other[n])
  BY <1>1
<1> HIDE DEF other, u, v
<1>3. /\ DOMAIN buffer' = Nodes
      /\ \A n \in {a, b} : buffer'[n] = Kept(n, other[n])
      /\ \A n \in Nodes \ {a, b} : buffer'[n] = buffer[n]
  BY <1>1, <1>2 DEF PathInv
<1>4. ASSUME NEW n \in Nodes, NEW c \in buffer[n] PROVE Renews(c, u[n][c])
  <2>1. c \in CopyType
    BY <1>4 DEF PathInv, Held, Sound
  <2>2. \A k, l : Renews(c, Marked(c, k, l)) /\ Renews(c, c)
    BY <2>1 DEF Renews, Marked, Served, CopyType
  <2>3. QED
    BY <1>2, <1>4, <2>2
<1>5. ASSUME NEW n \in Nodes, NEW d \in buffer'[n] PROVE \E c \in buffer[n] : d = u[n][c]
  <2>1. CASE n \notin {a, b}
    BY <1>2, <1>3, <1>5, <2>1
  <2>2. CASE n \in {a, b}
    <3>1. d \in Kept(n, other[n])
      BY <1>3, <1>5, <2>2
    <3>2. \/ d \in buffer[n] /\ d \notin Given(n, other[n])
          \/ \E c \in Given(n, other[n]) : d = Marked(c, n, other[n])
      BY <3>1 DEF Kept, Marked
    <3>3. Given(n, other[n]) \subseteq buffer[n]
      BY DEF Given
    <3>4. QED
      BY <1>2, <2>2, <3>2, <3>3
  <2>3. QED
    BY <2>1, <2>2
<1>6. ASSUME NEW h \in carried' \ carried
      PROVE  \E n \in Nodes : \E c \in buffer[n] : Passes(u, v, n, c, h)
  <2>1. PICK n \in {a, b} : h \in Forwarded(n, other[n])
    BY <1>1, <1>2, <1>6
  <2>2. n \in Nodes /\ other[n] \in Nodes /\ n # other[n]
    BY <1>1, <1>2, <2>1
  <2>3. PICK c \in Given(n, other[n]) : h = Passed(c, n, other[n])
    BY <2>1 DEF Forwarded, Passed
  <2>4. c \in buffer[n]
    BY <2>3 DEF Given
  <2>5. h = v[n][c] /\ u[n][c] = Marked(c, n, other[n])
    BY <1>2, <2>1, <2>2, <2>3, <2>4
  <2>6. /\ h.to = other[n] /\ h \in [to : Nodes, copy : CopyType] /\ Extends(c, h.copy, other[n])
        /\ Broadcast(c) => other[n] \notin c.served /\ other[n] \in Marked(c, n, other[n]).served
    BY <2>2, <2>3, PassedOn
  <2>7. Passes(u, v, n, c, h)
    BY <2>5, <2>6 DEF Passes
  <2>8. QED
    BY <2>2, <2>4, <2>7
<1>7. Moved(u, v)
  BY <1>1, <1>4, <1>5, <1>6 DEF Moved
<1>8. QED
  BY <1>3, <1>7, MovedApart

LEMMA ApartNext == PathInv /\ ApartInv /\ [Next]_vars => ApartInv'
<1>. SUFFICES ASSUME PathInv, ApartInv, [Next]_vars PROVE ApartInv'
  OBVIOUS
<1>1. ASSUME NEW h \in carried, Lose(h) PROVE ApartInv'
  <2>1. carried' \subseteq carried /\ UNCHANGED <<buffer, sent>>
    BY <1>1 DEF Lose
  <2>2. QED
    BY <2>1, FewerApart
<1>2. CASE Report \/ UNCHANGED vars
  <2>1. carried' \subseteq carried /\ UNCHANGED <<buffer, sent>>
    BY <1>2 DEF Report, vars
  <2>2. QED
    BY <2>1, FewerApart
<1>3. QED
  BY <1>1, <1>2, SubmitApart, StoreCarriedApart, EncounterApart, TickApart DEF Next

-----------------------------------------------------------------------------
(* What the steps do to the number of copies *)

LEMMA ImageCount ==
  ASSUME NEW b, IsFiniteSet(b), NEW f, DOMAIN f = b, \A c, d \in b : f[c] = f[d] => c = d
  PROVE  IsFiniteSet({f[c] : c \in b}) /\ Cardinality({f[c] : c \in b}) = Cardinality(b)
<1> DEFINE r == {f[c] : c \in b}
           g == [c \in b |-> f[c]]
<1>1. g \in Bijection(b, r)
  BY DEF Bijection, Injection, Surjection, IsInjective
<1>2. ExistsBijection(b, r)
  BY <1>1 DEF ExistsBijection
<1>3. QED
  BY <1>2, FS_Bijection

\* A set and what is left of it.
LEMMA PartCount ==
  ASSUME NEW b, IsFiniteSet(b), NEW p \in SUBSET b
  PROVE  /\ IsFiniteSet(p) /\ IsFiniteSet(b \ p)
         /\ Cardinality(p) \in Nat /\ Cardinality(b \ p) \in Nat
         /\ Cardinality(b) = Cardinality(b \ p) + Cardinality(p)
<1>1. b \cap p = p
  OBVIOUS
<1>2. IsFiniteSet(p) /\ IsFiniteSet(b \ p) /\ Cardinality(b \ p) = Cardinality(b) - Cardinality(p)
  BY <1>1, FS_Subset, FS_Difference
<1>3. Cardinality(p) \in Nat /\ Cardinality(b \ p) \in Nat /\ Cardinality(b) \in Nat
  BY <1>2, FS_CardinalityType
<1>4. QED
  BY <1>2, <1>3

LEMMA KeptCount ==
  ASSUME PathInv, BoundInv, ApartInv, NEW n \in Nodes, NEW to \in Nodes
  PROVE  /\ IsFiniteSet(Kept(n, to)) /\ Cardinality(Kept(n, to)) \in Nat
         /\ Cardinality(Dead(n)) \in Nat /\ Cardinality(Unicasts(n, to)) \in Nat
         /\ Cardinality(Given(n, to)) \in Nat
         /\ Cardinality(buffer[n])
              = Cardinality(Kept(n, to)) + Cardinality(Dead(n)) + Cardinality(Unicasts(n, to))
<1> DEFINE left == buffer[n] \ Dead(n)
           stays == left \ Unicasts(n, to)
           f == [c \in stays |-> IF c \in Given(n, to) THEN Marked(c, n, to) ELSE c]
<1>1. IsFiniteSet(buffer[n])
  BY DEF BoundInv, Fits
<1>2. Dead(n) \in SUBSET buffer[n] /\ Given(n, to) \in SUBSET buffer[n] /\ Unicasts(n, to) \in SUBSET left
  BY DEF Dead, Given, Unicasts
<1>3. Kept(n, to) = {f[c] : c \in stays}
  BY DEF Kept, Unicasts, Given, Dead, Marked
<1>4. stays \subseteq buffer[n]
  OBVIOUS
<1>5. DOMAIN f = stays /\ \A c \in stays : f[c] = Marked(c, n, to) \/ f[c] = c
  OBVIOUS
<1> HIDE DEF f
<1>6. ASSUME NEW c \in stays, NEW d \in stays, f[c] = f[d] PROVE c = d
  <2>1. c \in CopyType /\ d \in CopyType /\ c \in buffer[n] /\ d \in buffer[n]
    BY <1>4, <1>6 DEF PathInv, Held, Sound
  <2>2. \A e \in CopyType : Marked(e, n, to).msg = e.msg /\ Marked(e, n, to).path = e.path
    BY DEF Marked, CopyType
  <2>3. f[c].msg = c.msg /\ f[c].path = c.path /\ f[d].msg = d.msg /\ f[d].path = d.path
    BY <1>5, <2>1, <2>2
  <2>4. c.msg = d.msg /\ c.path = d.path
    BY <1>6, <2>3
  <2>5. QED
    BY <2>1, <2>4, KeysApart
<1>7. IsFiniteSet(left) /\ Cardinality(buffer[n]) = Cardinality(left) + Cardinality(Dead(n))
      /\ Cardinality(Dead(n)) \in Nat
  BY <1>1, <1>2, PartCount
<1>8. /\ IsFiniteSet(stays) /\ Cardinality(left) = Cardinality(stays) + Cardinality(Unicasts(n, to))
      /\ Cardinality(Unicasts(n, to)) \in Nat /\ Cardinality(stays) \in Nat
  <2> HIDE DEF left
  <2>1. QED
    BY <1>2, <1>7, PartCount
<1>9. Cardinality(Given(n, to)) \in Nat
  BY <1>1, <1>2, PartCount
<1> HIDE DEF stays, left
<1>10. IsFiniteSet(Kept(n, to)) /\ Cardinality(Kept(n, to)) = Cardinality(stays)
  BY <1>3, <1>5, <1>6, <1>8, ImageCount
<1>11. QED
  BY <1>7, <1>8, <1>9, <1>10

LEMMA TickCount ==
  ASSUME PathInv, BoundInv, ApartInv, NEW n \in Nodes, Tick(n)
  PROVE  LET expired == {c \in buffer[n] : c.ttl <= 1}
         IN  /\ IsFiniteSet(buffer'[n]) /\ Cardinality(buffer'[n]) \in Nat
             /\ Cardinality(expired) \in Nat
             /\ Cardinality(buffer[n]) = Cardinality(buffer'[n]) + Cardinality(expired)
<1> DEFINE expired == {c \in buffer[n] : c.ttl <= 1}
           left == buffer[n] \ expired
           f == [c \in left |-> Aged(c)]
<1>1. IsFiniteSet(buffer[n]) /\ expired \in SUBSET buffer[n]
  BY DEF BoundInv, Fits
<1>2. buffer'[n] = {f[c] : c \in left}
  BY DEF Tick, PathInv
<1>3. left \subseteq buffer[n]
  OBVIOUS
<1>4. DOMAIN f = left /\ \A c \in left : f[c] = Aged(c)
  OBVIOUS
<1> HIDE DEF f
<1>5. ASSUME NEW c \in left, NEW d \in left, f[c] = f[d] PROVE c = d
  <2>1. c \in CopyType /\ d \in CopyType /\ c \in buffer[n] /\ d \in buffer[n]
    BY <1>3, <1>5 DEF PathInv, Held, Sound
  <2>2. \A e \in CopyType : Aged(e).msg = e.msg /\ Aged(e).path = e.path
    BY DEF Aged, CopyType
  <2>3. c.msg = d.msg /\ c.path = d.path
    BY <1>4, <1>5, <2>1, <2>2
  <2>4. QED
    BY <2>1, <2>3, KeysApart
<1> HIDE DEF expired
<1>6. /\ IsFiniteSet(left) /\ Cardinality(left) \in Nat /\ Cardinality(expired) \in Nat
      /\ Cardinality(buffer[n]) = Cardinality(left) + Cardinality(expired)
  BY <1>1, PartCount
<1> HIDE DEF left
<1>7. IsFiniteSet(buffer'[n]) /\ Cardinality(buffer'[n]) = Cardinality(left)
  <2>1. PICK r : r = {f[c] : c \in left}
    OBVIOUS
  <2>2. IsFiniteSet(r) /\ Cardinality(r) = Cardinality(left)
    BY <1>4, <1>5, <1>6, <2>1, ImageCount
  <2>3. QED
    BY <1>2, <2>1, <2>2
<1>8. QED
  BY <1>6, <1>7 DEF expired

-----------------------------------------------------------------------------
(* The copies in all buffers *)

Finite(b) == \A n \in Nodes : IsFiniteSet(b[n])
InAll(b) == SumFunction([n \in Nodes |-> Cardinality(b[n])])

\* One buffer has changed.
LEMMA InAllChanged ==
  ASSUME NEW b, NEW d, Finite(b), Finite(d), NEW k \in Nodes, \A n \in Nodes \ {k} : b[n] = d[n]
  PROVE  /\ InAll(b) \in Nat /\ InAll(d) \in Nat
         /\ InAll(b) + Cardinality(d[k]) = InAll(d) + Cardinality(b[k])
<1>1. PICK f, g : f = [n \in Nodes |-> Cardinality(b[n])] /\ g = [n \in Nodes |-> Cardinality(d[n])]
  OBVIOUS
<1>2. Valued(f, Nodes) /\ Valued(g, Nodes)
  BY <1>1, FS_CardinalityType, DtnAssumption DEF Valued, Finite
<1>3. \A n \in Nodes \ {k} : f[n] = g[n]
  BY <1>1
<1>4. /\ SumOver(f, Nodes) \in Nat /\ SumOver(g, Nodes) \in Nat
      /\ SumOver(f, Nodes) + g[k] = SumOver(g, Nodes) + f[k]
  BY <1>2, <1>3, SumChanged
<1>5. InAll(b) = SumOver(f, Nodes) /\ InAll(d) = SumOver(g, Nodes)
  BY <1>1 DEF InAll, SumOver, SumFunction
<1>6. QED
  BY <1>1, <1>4, <1>5

\* Two have.
LEMMA InAllMet ==
  ASSUME NEW b, NEW d, Finite(b), Finite(d), NEW k \in Nodes, NEW l \in Nodes, k # l,
         \A n \in Nodes \ {k, l} : b[n] = d[n]
  PROVE  /\ InAll(b) \in Nat /\ InAll(d) \in Nat
         /\ InAll(b) + Cardinality(d[k]) + Cardinality(d[l])
              = InAll(d) + Cardinality(b[k]) + Cardinality(b[l])
<1>1. PICK e : e = [n \in Nodes |-> IF n = k THEN d[n] ELSE b[n]]
  OBVIOUS
<1>2. Finite(e) /\ e[k] = d[k] /\ e[l] = b[l]
  BY <1>1 DEF Finite
<1>3. /\ InAll(b) \in Nat /\ InAll(e) \in Nat
      /\ InAll(b) + Cardinality(e[k]) = InAll(e) + Cardinality(b[k])
  <2>1. \A n \in Nodes \ {k} : b[n] = e[n]
    BY <1>1
  <2>2. QED
    BY <1>2, <2>1, InAllChanged
<1>4. /\ InAll(d) \in Nat /\ InAll(e) + Cardinality(d[l]) = InAll(d) + Cardinality(e[l])
  <2>1. \A n \in Nodes \ {l} : e[n] = d[n]
    BY <1>1
  <2>2. QED
    BY <1>2, <2>1, InAllChanged
<1>5. /\ Cardinality(b[k]) \in Nat /\ Cardinality(b[l]) \in Nat
      /\ Cardinality(d[k]) \in Nat /\ Cardinality(d[l]) \in Nat
  BY FS_CardinalityType DEF Finite
<1>6. QED
  BY <1>2, <1>3, <1>4, <1>5

-----------------------------------------------------------------------------
(* The account *)

Stats == [stored : Nat, forwarded : Nat, expired : Nat, dropped : Nat]

\* What the tasks have still to add to one of the counters.
Field(s, field) == [i \in DOMAIN s |-> s[i][field]]

AccountInv ==
  /\ stats \in Stats /\ tasks \in Seq(Stats) /\ done \in [offered : Nat, gone : Nat]
  /\ done.offered = InAll(buffer) + done.gone + Reported("expired") + Reported("dropped")

LEMMA FieldSum ==
  ASSUME NEW s \in Seq(Stats), NEW field \in {"expired", "dropped"}
  PROVE  Field(s, field) \in Seq(Nat) /\ SeqSum(Field(s, field)) \in Nat
<1>1. PICK n : n = Len(s)
  OBVIOUS
<1>2. n \in Nat /\ DOMAIN s = 1 .. n /\ \A i \in 1 .. n : s[i] \in Stats
  BY <1>1
<1>3. \A i \in 1 .. n : s[i][field] \in Nat
  BY <1>2 DEF Stats
<1>4. Field(s, field) = [i \in 1 .. n |-> s[i][field]]
  BY <1>2 DEF Field
<1>5. Field(s, field) \in Seq(Nat)
  BY <1>2, <1>3, <1>4, SeqDef
<1>6. QED
  BY <1>5, SeqSumAppend

\* What a step adds for its task counts as reported already.
LEMMA ReportsAdd ==
  ASSUME stats \in Stats, tasks \in Seq(Stats), NEW delta \in Stats, Reports(delta)
  PROVE  /\ stats' \in Stats /\ tasks' \in Seq(Stats)
         /\ \A field \in {"expired", "dropped"} :
              Reported(field) \in Nat /\ Reported(field)' = Reported(field) + delta[field]
<1>1. stats' = stats
  BY DEF Reports
<1>2. tasks' \in Seq(Stats)
  BY AppendProperties DEF Reports
<1>3. ASSUME NEW field \in {"expired", "dropped"}
      PROVE  Reported(field) \in Nat /\ Reported(field)' = Reported(field) + delta[field]
  <2>1. stats[field] \in Nat /\ delta[field] \in Nat
    BY DEF Stats
  <2>2. SeqSum(Field(tasks, field)) \in Nat /\ Field(tasks, field) \in Seq(Nat)
    BY FieldSum
  <2>3. /\ Reported(field) = stats[field] + SeqSum(Field(tasks, field))
        /\ Reported(field)' = stats[field] + SeqSum(Field(tasks', field))
    BY <1>1 DEF Reported, SeqSum, Field
  <2>4. SeqSum(Field(tasks', field)) = SeqSum(Field(tasks, field)) + delta[field]
    <3>1. CASE delta = NoStats
      <4>1. tasks' = tasks /\ delta[field] = 0
        BY <3>1 DEF Reports, NoStats
      <4>2. QED
        BY <2>2, <4>1
    <3>2. CASE delta # NoStats
      <4>1. tasks' = Append(tasks, delta)
        BY <3>2 DEF Reports
      <4>2. PICK n, t : n = Len(tasks) /\ t = Append(tasks, delta)
        OBVIOUS
      <4>3. /\ n \in Nat /\ t \in Seq(Stats) /\ Len(t) = n + 1 /\ t[n + 1] = delta
            /\ \A i \in 1 .. n : t[i] = tasks[i]
        BY <4>2, AppendProperties
      <4>4. PICK w, v : w = Field(t, field) /\ v = Append(Field(tasks, field), delta[field])
        OBVIOUS
      <4>5. /\ w \in Seq(Nat) /\ Len(w) = n + 1 /\ \A i \in 1 .. n + 1 : w[i] = t[i][field]
        <5>1. w \in Seq(Nat)
          BY <4>3, <4>4, FieldSum
        <5>2. DOMAIN t = 1 .. n + 1
          BY <4>3
        <5>3. w = [i \in 1 .. n + 1 |-> t[i][field]]
          BY <4>4, <5>2 DEF Field
        <5>4. QED
          BY <4>3, <5>1, <5>3
      <4>6. /\ v \in Seq(Nat) /\ Len(v) = n + 1 /\ v[n + 1] = delta[field]
            /\ \A i \in 1 .. n : v[i] = tasks[i][field]
        <5>1. PICK q : q = Field(tasks, field)
          OBVIOUS
        <5>2. DOMAIN tasks = 1 .. n
          BY <4>2
        <5>3. q = [i \in 1 .. n |-> tasks[i][field]] /\ q \in Seq(Nat)
          BY <2>2, <5>1, <5>2 DEF Field
        <5>4. Len(q) = n
          BY <4>3, <5>3
        <5>5. v = Append(q, delta[field])
          BY <4>4, <5>1
        <5>6. QED
          BY <2>1, <4>3, <5>3, <5>4, <5>5, AppendProperties
      <4>7. \A i \in 1 .. n + 1 : v[i] = w[i]
        <5>1. \A i \in 1 .. n + 1 : i \in 1 .. n \/ i = n + 1
          BY <4>3
        <5>2. QED
          BY <4>3, <4>5, <4>6, <5>1
      <4>8. v = w
        BY <4>5, <4>6, <4>7, SeqEqual
      <4>9. SeqSum(v) = SeqSum(Field(tasks, field)) + delta[field]
        BY <2>1, <2>2, <4>4, SeqSumAppend
      <4>10. QED
        BY <4>1, <4>2, <4>4, <4>8, <4>9
    <3>3. QED
      BY <3>1, <3>2
  <2>5. QED
    BY <2>1, <2>2, <2>3, <2>4
<1>4. QED
  BY <1>1, <1>2, <1>3

LEMMA Removed ==
  ASSUME NEW S, NEW s \in Seq(S), NEW i \in 1 .. Len(s)
  PROVE  /\ RemoveAt(s, i) \in Seq(S) /\ Len(RemoveAt(s, i)) = Len(s) - 1
         /\ \A k \in 1 .. Len(s) - 1 : RemoveAt(s, i)[k] = IF k < i THEN s[k] ELSE s[k + 1]
<1>1. PICK n : n = Len(s)
  OBVIOUS
<1>2. n \in Nat /\ i \in Nat /\ 1 <= i /\ i <= n
  BY <1>1
<1>3. PICK a, b : a = SubSeq(s, 1, i - 1) /\ b = SubSeq(s, i + 1, n)
  OBVIOUS
<1>4. /\ a \in Seq(S) /\ Len(a) = i - 1 /\ \A k \in 1 .. i - 1 : a[k] = s[k]
      /\ b \in Seq(S) /\ Len(b) = n - i /\ \A k \in 1 .. n - i : b[k] = s[i + k]
  BY <1>1, <1>2, <1>3
<1>5. PICK w : w = a \o b
  OBVIOUS
<1>6. RemoveAt(s, i) = w
  BY <1>1, <1>3, <1>5 DEF RemoveAt
<1>7. /\ a \o b \in Seq(S) /\ Len(a \o b) = Len(a) + Len(b)
      /\ \A k \in 1 .. Len(a) + Len(b) : (a \o b)[k] = IF k <= Len(a) THEN a[k] ELSE b[k - Len(a)]
  BY <1>4, ConcatProperties, Zenon
<1>8. Len(a) + Len(b) = n - 1
  BY <1>2, <1>4
<1>9. /\ w \in Seq(S) /\ Len(w) = n - 1
      /\ \A k \in 1 .. n - 1 : w[k] = IF k <= Len(a) THEN a[k] ELSE b[k - Len(a)]
  BY <1>5, <1>7, <1>8, Zenon
<1>10. ASSUME NEW k \in 1 .. n - 1 PROVE w[k] = IF k < i THEN s[k] ELSE s[k + 1]
  <2>1. w[k] = IF k <= i - 1 THEN a[k] ELSE b[k - (i - 1)]
    BY <1>4, <1>9
  <2>2. CASE k <= i - 1
    BY <1>2, <1>4, <2>1, <2>2
  <2>3. CASE ~ (k <= i - 1)
    <3>1. k - (i - 1) \in 1 .. n - i /\ i + (k - (i - 1)) = k + 1
      BY <1>2, <2>3
    <3>2. QED
      BY <1>2, <1>4, <2>1, <2>3, <3>1
  <2>4. QED
    BY <2>2, <2>3
<1>11. QED
  BY <1>1, <1>6, <1>9, <1>10

\* A task that reports changes no account.
LEMMA ReportAccounts ==
  ASSUME stats \in Stats, tasks \in Seq(Stats), Report
  PROVE  /\ stats' \in Stats /\ tasks' \in Seq(Stats)
         /\ \A field \in {"expired", "dropped"} : Reported(field)' = Reported(field)
<1>1. PICK i \in DOMAIN tasks : stats' = Plus(stats, tasks[i]) /\ tasks' = RemoveAt(tasks, i)
  BY DEF Report
<1>2. PICK n, t : n = Len(tasks) /\ t = tasks[i]
  OBVIOUS
<1>3. n \in Nat /\ i \in 1 .. n /\ DOMAIN tasks = 1 .. n /\ t \in Stats
  BY <1>1, <1>2
<1>4. /\ tasks' \in Seq(Stats) /\ Len(tasks') = n - 1
      /\ \A k \in 1 .. n - 1 : tasks'[k] = IF k < i THEN tasks[k] ELSE tasks[k + 1]
  BY <1>1, <1>2, <1>3, Removed
<1>5. stats' = [stored |-> stats.stored + t.stored, forwarded |-> stats.forwarded + t.forwarded,
                expired |-> stats.expired + t.expired, dropped |-> stats.dropped + t.dropped]
  <2>1. stats' = [f \in DOMAIN stats |-> stats[f] + t[f]]
    BY <1>1, <1>2 DEF Plus
  <2>2. DOMAIN stats = {"stored", "forwarded", "expired", "dropped"}
    BY DEF Stats
  <2>3. QED
    BY <2>1, <2>2
<1>6. stats' \in Stats
  <2>1. /\ stats.stored \in Nat /\ stats.forwarded \in Nat /\ stats.expired \in Nat /\ stats.dropped \in Nat
        /\ t.stored \in Nat /\ t.forwarded \in Nat /\ t.expired \in Nat /\ t.dropped \in Nat
    BY <1>3 DEF Stats
  <2>2. /\ stats.stored + t.stored \in Nat /\ stats.forwarded + t.forwarded \in Nat
        /\ stats.expired + t.expired \in Nat /\ stats.dropped + t.dropped \in Nat
    <3>1. \A x, y \in Nat : x + y \in Nat
      OBVIOUS
    <3>2. QED
      BY <2>1, <3>1, Zenon
  <2>3. QED
    BY <1>5, <2>2 DEF Stats
<1>7. ASSUME NEW field \in {"expired", "dropped"} PROVE Reported(field)' = Reported(field)
  <2>1. /\ stats[field] \in Nat /\ t[field] \in Nat /\ stats'[field] = stats[field] + t[field]
    <3>1. CASE field = "expired"
      BY <1>3, <1>5, <3>1 DEF Stats
    <3>2. CASE field = "dropped"
      BY <1>3, <1>5, <3>2 DEF Stats
    <3>3. QED
      BY <3>1, <3>2
  <2>2. PICK v, w : v = Field(tasks, field) /\ w = Field(tasks', field)
    OBVIOUS
  <2>3. v \in Seq(Nat) /\ Len(v) = n /\ \A k \in 1 .. n : v[k] = tasks[k][field]
    <3>1. v = [k \in 1 .. n |-> tasks[k][field]] /\ v \in Seq(Nat)
      BY <1>3, <2>2, FieldSum DEF Field
    <3>2. QED
      BY <1>3, <3>1
  <2>4. w \in Seq(Nat) /\ Len(w) = n - 1 /\ \A k \in 1 .. n - 1 : w[k] = tasks'[k][field]
    <3>1. DOMAIN tasks' = 1 .. n - 1
      BY <1>4
    <3>2. w = [k \in 1 .. n - 1 |-> tasks'[k][field]] /\ w \in Seq(Nat)
      BY <1>4, <2>2, <3>1, FieldSum DEF Field
    <3>3. n - 1 \in Nat
      BY <1>3
    <3>4. QED
      BY <3>2, <3>3
  <2>5. PICK r : r = RemoveAt(v, i)
    OBVIOUS
  <2>6. /\ r \in Seq(Nat) /\ Len(r) = n - 1
        /\ \A k \in 1 .. n - 1 : r[k] = IF k < i THEN v[k] ELSE v[k + 1]
    BY <1>3, <2>3, <2>5, Removed
  <2>7. ASSUME NEW k \in 1 .. n - 1 PROVE r[k] = w[k]
    <3>1. k \in 1 .. n /\ k + 1 \in 1 .. n
      BY <1>3
    <3>2. CASE k < i
      <4>1. r[k] = v[k] /\ v[k] = tasks[k][field]
        BY <2>3, <2>6, <3>1, <3>2
      <4>2. w[k] = tasks[k][field]
        BY <1>4, <2>4, <3>2
      <4>3. QED
        BY <4>1, <4>2
    <3>3. CASE ~ (k < i)
      <4>1. r[k] = v[k + 1] /\ v[k + 1] = tasks[k + 1][field]
        BY <2>3, <2>6, <3>1, <3>3
      <4>2. w[k] = tasks[k + 1][field]
        BY <1>4, <2>4, <3>3
      <4>3. QED
        BY <4>1, <4>2
    <3>4. QED
      BY <3>2, <3>3
  <2>8. r = w
    BY <2>4, <2>6, <2>7, SeqEqual
  <2>9. SeqSum(r) \in Nat /\ SeqSum(v) = SeqSum(r) + t[field]
    <3>1. v[i] = t[field]
      BY <1>2, <1>3, <2>3
    <3>2. QED
      BY <1>3, <2>3, <2>5, <3>1, SeqSumRemove
  <2>10. Reported(field) = stats[field] + SeqSum(v) /\ Reported(field)' = stats'[field] + SeqSum(w)
    BY <2>2 DEF Reported, SeqSum, Field
  <2>11. QED
    BY <2>1, <2>8, <2>9, <2>10
<1>8. QED
  BY <1>4, <1>6, <1>7

-----------------------------------------------------------------------------
(* The steps keep the account *)

\* A copy that is stored, evicts another one or is dropped itself.
LEMMA StoreAccounts ==
  ASSUME BoundInv, AccountInv, NEW n \in Nodes, NEW c, c \notin buffer[n], Store(n, c),
         BoundInv', done' = [done EXCEPT !.offered = @ + 1]
  PROVE  AccountInv'
<1>1. Finite(buffer) /\ Finite(buffer') /\ DOMAIN buffer = Nodes
  BY DEF BoundInv, Fits, Finite
<1>2. /\ done' \in [offered : Nat, gone : Nat] /\ done'.offered = done.offered + 1 /\ done'.gone = done.gone
      /\ done.offered \in Nat /\ done.gone \in Nat
  BY DEF AccountInv
<1>3. PICK size, size2 : size = Cardinality(buffer[n]) /\ size2 = Cardinality(buffer'[n])
  OBVIOUS
<1>4. size \in Nat /\ size2 \in Nat
  BY <1>1, <1>3, FS_CardinalityType DEF Finite
<1>5. PICK delta \in Stats :
        /\ Reports(delta) /\ delta.expired = 0 /\ size + 1 = size2 + delta.dropped
        /\ \A k \in Nodes \ {n} : buffer'[k] = buffer[k]
  <2>1. CASE ~Full(n) /\ buffer' = [buffer EXCEPT ![n] = @ \cup {c}]
             /\ Reports([NoStats EXCEPT !.stored = 1])
    <3>1. buffer'[n] = buffer[n] \cup {c} /\ \A k \in Nodes \ {n} : buffer'[k] = buffer[k]
      BY <1>1, <2>1
    <3>2. size2 = size + 1
      BY <1>1, <1>3, <3>1, FS_AddElement DEF Finite
    <3>3. PICK delta : delta = [stored |-> 1, forwarded |-> 0, expired |-> 0, dropped |-> 0]
      OBVIOUS
    <3>4. delta \in Stats /\ Reports(delta) /\ delta.expired = 0 /\ delta.dropped = 0
      <4>1. delta = [NoStats EXCEPT !.stored = 1]
        BY <3>3 DEF NoStats
      <4>2. QED
        BY <2>1, <3>3, <4>1 DEF Stats
    <3>5. QED
      BY <1>4, <3>1, <3>2, <3>4
  <2>2. ASSUME NEW w \in Worst(buffer[n]), buffer' = [buffer EXCEPT ![n] = (@ \ {w}) \cup {c}],
               Reports([NoStats EXCEPT !.stored = 1, !.dropped = 1])
        PROVE  \E delta \in Stats :
                 /\ Reports(delta) /\ delta.expired = 0 /\ size + 1 = size2 + delta.dropped
                 /\ \A k \in Nodes \ {n} : buffer'[k] = buffer[k]
    <3>1. PICK r : r = buffer[n] \ {w}
      OBVIOUS
    <3>2. /\ buffer'[n] = r \cup {c} /\ w \in buffer[n] /\ c \notin r
          /\ \A k \in Nodes \ {n} : buffer'[k] = buffer[k]
      BY <1>1, <2>2, <3>1 DEF Worst
    <3>3. IsFiniteSet(r) /\ Cardinality(r) = size - 1
      BY <1>1, <1>3, <3>1, <3>2, FS_RemoveElement DEF Finite
    <3>4. size2 = Cardinality(r) + 1
      BY <1>3, <3>2, <3>3, FS_AddElement
    <3>5. PICK delta : delta = [stored |-> 1, forwarded |-> 0, expired |-> 0, dropped |-> 1]
      OBVIOUS
    <3>6. delta \in Stats /\ Reports(delta) /\ delta.expired = 0 /\ delta.dropped = 1
      <4>1. delta = [NoStats EXCEPT !.stored = 1, !.dropped = 1]
        <5>1. PICK e : e = [NoStats EXCEPT !.stored = 1]
          OBVIOUS
        <5>2. e = [stored |-> 1, forwarded |-> 0, expired |-> 0, dropped |-> 0]
          BY <5>1 DEF NoStats
        <5>3. delta = [e EXCEPT !.dropped = 1]
          BY <3>5, <5>2
        <5>4. QED
          BY <5>1, <5>3
      <4>2. Reports(delta)
        BY <2>2, <4>1
      <4>3. QED
        BY <3>5, <4>2 DEF Stats
    <3>7. size + 1 = size2 + delta.dropped
      BY <1>4, <3>3, <3>4, <3>6
    <3>8. QED
      BY <3>2, <3>6, <3>7
  <2>3. CASE Reports([NoStats EXCEPT !.dropped = 1]) /\ UNCHANGED buffer
    <3>1. PICK delta : delta = [stored |-> 0, forwarded |-> 0, expired |-> 0, dropped |-> 1]
      OBVIOUS
    <3>2. delta \in Stats /\ Reports(delta) /\ delta.expired = 0 /\ delta.dropped = 1
      <4>1. delta = [NoStats EXCEPT !.dropped = 1]
        BY <3>1 DEF NoStats
      <4>2. QED
        BY <2>3, <3>1, <4>1 DEF Stats
    <3>3. size = size2
      BY <1>3, <2>3
    <3>4. QED
      BY <1>4, <2>3, <3>2, <3>3
  <2>4. QED
    BY <2>1, <2>2, <2>3 DEF Store
<1>6. InAll(buffer) \in Nat /\ InAll(buffer') \in Nat /\ InAll(buffer) + size2 = InAll(buffer') + size
  <2>1. PICK d : d = buffer'
    OBVIOUS
  <2>2. Finite(d) /\ \A k \in Nodes \ {n} : buffer[k] = d[k]
    BY <1>1, <1>5, <2>1
  <2>3. /\ InAll(buffer) \in Nat /\ InAll(d) \in Nat
        /\ InAll(buffer) + Cardinality(d[n]) = InAll(d) + Cardinality(buffer[n])
    BY <1>1, <2>2, InAllChanged
  <2>4. QED
    BY <1>3, <2>1, <2>3
<1>7. /\ stats' \in Stats /\ tasks' \in Seq(Stats)
      /\ Reported("expired") \in Nat /\ Reported("expired")' = Reported("expired")
      /\ Reported("dropped") \in Nat /\ Reported("dropped")' = Reported("dropped") + delta.dropped
  <2>1. stats \in Stats /\ tasks \in Seq(Stats)
    BY DEF AccountInv
  <2>2. /\ stats' \in Stats /\ tasks' \in Seq(Stats)
        /\ \A field \in {"expired", "dropped"} :
             Reported(field) \in Nat /\ Reported(field)' = Reported(field) + delta[field]
    BY <1>5, <2>1, ReportsAdd
  <2>3. QED
    BY <1>5, <2>2
<1>8. delta.dropped \in Nat
  BY DEF Stats
<1>9. done.offered = InAll(buffer) + done.gone + Reported("expired") + Reported("dropped")
  BY DEF AccountInv
<1>10. InAll(buffer)' = InAll(buffer')
  BY DEF InAll
<1>11. done'.offered = InAll(buffer') + done'.gone + Reported("expired")' + Reported("dropped")'
  <2>1. PICK all \in Nat, all2 \in Nat, ex \in Nat, dr \in Nat :
          /\ all = InAll(buffer) /\ all2 = InAll(buffer')
          /\ ex = Reported("expired") /\ dr = Reported("dropped")
    BY <1>6, <1>7
  <2>2. PICK of \in Nat, go \in Nat, lost \in Nat :
          of = done.offered /\ go = done.gone /\ lost = delta.dropped
    BY <1>2, <1>8
  <2>3. of = all + go + ex + dr /\ all + size2 = all2 + size /\ size + 1 = size2 + lost
    BY <1>5, <1>6, <1>9, <2>1, <2>2
  <2>4. of + 1 = all2 + go + ex + (dr + lost)
    BY <1>4, <2>3
  <2>5. done'.offered = of + 1 /\ done'.gone = go /\ Reported("expired")' = ex /\ Reported("dropped")' = dr + lost
    BY <1>2, <1>7, <2>1, <2>2
  <2>6. QED
    BY <2>1, <2>4, <2>5
<1>12. QED
  BY <1>2, <1>7, <1>10, <1>11 DEF AccountInv

\* What is expired is reported, what goes to its destination is gone.
LEMMA EncounterAccounts ==
  ASSUME PathInv, BoundInv, ApartInv, AccountInv, BoundInv',
         NEW a \in Nodes, NEW b \in Nodes, Encounter(a, b)
  PROVE  AccountInv'
<1>1. /\ a # b /\ buffer' = [buffer EXCEPT ![a] = Kept(a, b), ![b] = Kept(b, a)]
      /\ DOMAIN buffer = Nodes /\ Finite(buffer) /\ Finite(buffer')
  BY DEF Encounter, BoundInv, Fits, Finite
<1>2. /\ buffer'[a] = Kept(a, b) /\ buffer'[b] = Kept(b, a)
      /\ \A n \in Nodes \ {a, b} : buffer[n] = buffer'[n]
  BY <1>1
<1>3. PICK kept \in Nat, kept2 \in Nat, dead \in Nat, dead2 \in Nat, uni \in Nat, uni2 \in Nat,
           given \in Nat, given2 \in Nat :
        /\ kept = Cardinality(Kept(a, b)) /\ kept2 = Cardinality(Kept(b, a))
        /\ dead = Cardinality(Dead(a)) /\ dead2 = Cardinality(Dead(b))
        /\ uni = Cardinality(Unicasts(a, b)) /\ uni2 = Cardinality(Unicasts(b, a))
        /\ given = Cardinality(Given(a, b)) /\ given2 = Cardinality(Given(b, a))
  BY KeptCount
<1>4. Cardinality(buffer[a]) = kept + dead + uni /\ Cardinality(buffer[b]) = kept2 + dead2 + uni2
  BY <1>3, KeptCount
<1>5. /\ InAll(buffer) \in Nat /\ InAll(buffer') \in Nat
      /\ InAll(buffer) + kept + kept2 = InAll(buffer') + (kept + dead + uni) + (kept2 + dead2 + uni2)
  <2>1. PICK d : d = buffer'
    OBVIOUS
  <2>2. Finite(d) /\ \A n \in Nodes \ {a, b} : buffer[n] = d[n]
    BY <1>1, <1>2, <2>1
  <2>3. /\ InAll(buffer) \in Nat /\ InAll(d) \in Nat
        /\ InAll(buffer) + Cardinality(d[a]) + Cardinality(d[b])
             = InAll(d) + Cardinality(buffer[a]) + Cardinality(buffer[b])
    BY <1>1, <2>2, InAllMet
  <2>4. Cardinality(d[a]) = kept /\ Cardinality(d[b]) = kept2
    BY <1>2, <1>3, <2>1
  <2>5. QED
    BY <1>4, <2>1, <2>3, <2>4
<1>6. PICK delta : delta = [stored |-> 0, forwarded |-> given + given2, expired |-> dead + dead2, dropped |-> 0]
  OBVIOUS
<1>7. delta \in Stats /\ delta.expired = dead + dead2 /\ delta.dropped = 0
  <2>1. given + given2 \in Nat /\ dead + dead2 \in Nat
    OBVIOUS
  <2>2. QED
    BY <1>6, <2>1 DEF Stats
<1>8. Reports(delta)
  <2>1. Reports([NoStats EXCEPT !.forwarded = given + given2, !.expired = dead + dead2])
    BY <1>3 DEF Encounter
  <2>2. PICK e : e = [NoStats EXCEPT !.forwarded = given + given2]
    OBVIOUS
  <2>3. e = [stored |-> 0, forwarded |-> given + given2, expired |-> 0, dropped |-> 0]
    BY <2>2 DEF NoStats
  <2>4. delta = [e EXCEPT !.expired = dead + dead2]
    BY <1>6, <2>3
  <2>5. QED
    BY <2>1, <2>2, <2>4
<1>9. /\ stats' \in Stats /\ tasks' \in Seq(Stats)
      /\ Reported("expired") \in Nat /\ Reported("expired")' = Reported("expired") + (dead + dead2)
      /\ Reported("dropped") \in Nat /\ Reported("dropped")' = Reported("dropped")
  <2>1. stats \in Stats /\ tasks \in Seq(Stats)
    BY DEF AccountInv
  <2>2. /\ stats' \in Stats /\ tasks' \in Seq(Stats)
        /\ \A field \in {"expired", "dropped"} :
             Reported(field) \in Nat /\ Reported(field)' = Reported(field) + delta[field]
    BY <1>7, <1>8, <2>1, ReportsAdd
  <2>3. QED
    BY <1>7, <2>2
<1>10. PICK of \in Nat, go \in Nat : of = done.offered /\ go = done.gone
  BY DEF AccountInv
<1>11. done' \in [offered : Nat, gone : Nat] /\ done'.offered = of /\ done'.gone = go + uni + uni2
  <2>1. done \in [offered : Nat, gone : Nat]
    BY DEF AccountInv
  <2>2. done' = [done EXCEPT !.gone = @ + uni + uni2]
    BY <1>3 DEF Encounter
  <2>3. done.gone + uni + uni2 \in Nat
    BY <1>10
  <2>4. QED
    BY <1>10, <2>1, <2>2, <2>3
<1>12. PICK all \in Nat, all2 \in Nat, ex \in Nat, dr \in Nat :
          /\ all = InAll(buffer) /\ all2 = InAll(buffer')
          /\ ex = Reported("expired") /\ dr = Reported("dropped")
  BY <1>5, <1>9
<1>13. of = all + go + ex + dr
  BY <1>10, <1>12 DEF AccountInv
<1>14. of = all2 + (go + uni + uni2) + (ex + (dead + dead2)) + dr
  BY <1>5, <1>12, <1>13
<1>15. InAll(buffer)' = InAll(buffer')
  BY DEF InAll
<1>16. QED
  BY <1>9, <1>11, <1>12, <1>14, <1>15 DEF AccountInv

LEMMA TickAccounts ==
  ASSUME PathInv, BoundInv, ApartInv, AccountInv, BoundInv', NEW n \in Nodes, Tick(n)
  PROVE  AccountInv'
<1>1. /\ DOMAIN buffer = Nodes /\ Finite(buffer) /\ Finite(buffer') /\ done' = done
      /\ \A k \in Nodes \ {n} : buffer[k] = buffer'[k]
  BY DEF Tick, BoundInv, Fits, Finite
<1>2. PICK left \in Nat, gone \in Nat :
        /\ left = Cardinality(buffer'[n]) /\ gone = Cardinality({c \in buffer[n] : c.ttl <= 1})
        /\ Cardinality(buffer[n]) = left + gone
  BY TickCount
<1>3. /\ InAll(buffer) \in Nat /\ InAll(buffer') \in Nat
      /\ InAll(buffer) + left = InAll(buffer') + (left + gone)
  <2>1. PICK d : d = buffer'
    OBVIOUS
  <2>2. Finite(d) /\ \A k \in Nodes \ {n} : buffer[k] = d[k]
    BY <1>1, <2>1
  <2>3. /\ InAll(buffer) \in Nat /\ InAll(d) \in Nat
        /\ InAll(buffer) + Cardinality(d[n]) = InAll(d) + Cardinality(buffer[n])
    BY <1>1, <2>2, InAllChanged
  <2>4. QED
    BY <1>2, <2>1, <2>3
<1>4. PICK delta : delta = [stored |-> 0, forwarded |-> 0, expired |-> gone, dropped |-> 0]
  OBVIOUS
<1>5. delta \in Stats /\ delta.expired = gone /\ delta.dropped = 0
  BY <1>4 DEF Stats
<1>6. Reports(delta)
  <2>1. Reports([NoStats EXCEPT !.expired = gone])
    BY <1>2 DEF Tick
  <2>2. delta = [NoStats EXCEPT !.expired = gone]
    BY <1>4 DEF NoStats
  <2>3. QED
    BY <2>1, <2>2
<1>7. /\ stats' \in Stats /\ tasks' \in Seq(Stats)
      /\ Reported("expired") \in Nat /\ Reported("expired")' = Reported("expired") + gone
      /\ Reported("dropped") \in Nat /\ Reported("dropped")' = Reported("dropped")
  <2>1. stats \in Stats /\ tasks \in Seq(Stats)
    BY DEF AccountInv
  <2>2. /\ stats' \in Stats /\ tasks' \in Seq(Stats)
        /\ \A field \in {"expired", "dropped"} :
             Reported(field) \in Nat /\ Reported(field)' = Reported(field) + delta[field]
    BY <1>5, <1>6, <2>1, ReportsAdd
  <2>3. QED
    BY <1>5, <2>2
<1>8. PICK of \in Nat, go \in Nat : of = done.offered /\ go = done.gone
  BY DEF AccountInv
<1>9. PICK all \in Nat, all2 \in Nat, ex \in Nat, dr \in Nat :
          /\ all = InAll(buffer) /\ all2 = InAll(buffer')
          /\ ex = Reported("expired") /\ dr = Reported("dropped")
  BY <1>3, <1>7
<1>10. of = all + go + ex + dr
  BY <1>8, <1>9 DEF AccountInv
<1>11. of = all2 + go + (ex + gone) + dr
  BY <1>3, <1>9, <1>10
<1>12. InAll(buffer)' = InAll(buffer')
  BY DEF InAll
<1>13. QED
  BY <1>1, <1>7, <1>8, <1>9, <1>11, <1>12 DEF AccountInv

LEMMA AccountInit == Init => AccountInv
<1> SUFFICES ASSUME Init PROVE AccountInv
  OBVIOUS
<1>1. /\ stats \in Stats /\ tasks \in Seq(Stats) /\ done \in [offered : Nat, gone : Nat]
      /\ done.offered = 0 /\ done.gone = 0 /\ stats.expired = 0 /\ stats.dropped = 0
  BY DEF Init, Stats, NoStats
<1>2. PICK f : f = [n \in Nodes |-> Cardinality(buffer[n])]
  OBVIOUS
<1>3. \A n \in Nodes : f[n] = 0
  BY <1>2, FS_EmptySet DEF Init
<1>4. SumOver(f, Nodes) = 0
  <2> DEFINE B == {S \in SUBSET Nodes : SumOver(f, S) # 0}
  <2>1. ASSUME B # {} PROVE FALSE
    <3>1. B \in SUBSET (SUBSET Nodes) /\ IsFiniteSet(Nodes)
      BY DtnAssumption
    <3>2. PICK S \in B : \A T \in B : T \subseteq S => T = S
      <4> HIDE DEF B
      <4> QED
        BY <2>1, <3>1, Smallest
    <3>3. S \in SUBSET Nodes /\ IsFiniteSet(S) /\ SumOver(f, S) # 0
      BY <3>1, FS_Subset
    <3>4. S # {}
      <4>1. S = {} => SumOver(f, S) = 0
        BY <3>3, SumStep
      <4>2. QED
        BY <3>3, <4>1
    <3>5. Pick(S) \in S /\ S \ {Pick(S)} \notin B
      BY <3>2, <3>4, Picked
    <3>6. SumOver(f, S \ {Pick(S)}) = 0 /\ f[Pick(S)] = 0
      BY <1>3, <3>3, <3>5
    <3>7. SumOver(f, S) = f[Pick(S)] + SumOver(f, S \ {Pick(S)})
      BY <3>3, <3>4, SumStep
    <3>8. QED
      BY <3>3, <3>6, <3>7
  <2>2. QED
    BY <2>1
<1>5. InAll(buffer) = 0
  BY <1>2, <1>4 DEF InAll, SumOver, SumFunction
<1>6. Reported("expired") = 0 /\ Reported("dropped") = 0
  <2>1. \A field : [i \in DOMAIN tasks |-> tasks[i][field]] = <<>>
    BY DEF Init
  <2>2. QED
    BY <1>1, <2>1, SeqSumNone DEF Reported, SeqSum
<1>7. QED
  BY <1>1, <1>5, <1>6 DEF AccountInv

LEMMA AccountNext ==
  PathInv /\ BoundInv /\ ApartInv /\ AccountInv /\ BoundInv' /\ [Next]_vars => AccountInv'
<1>. SUFFICES ASSUME PathInv, BoundInv, ApartInv, AccountInv, BoundInv', [Next]_vars
              PROVE  AccountInv'
  OBVIOUS
<1>1. ASSUME NEW m \in Messages, Submit(m) PROVE AccountInv'
  <2>1. PICK c : c = [msg |-> m, ttl |-> m.ttl, served |-> {}, path |-> <<m.source>>]
    OBVIOUS
  <2>2. /\ m \notin sent /\ Store(m.source, c) /\ m.source \in Nodes /\ c.msg = m
        /\ done' = [done EXCEPT !.offered = @ + 1]
    BY <1>1, <2>1, DtnAssumption DEF Submit
  <2>3. c \notin buffer[m.source]
    BY <2>2 DEF ApartInv, Copies
  <2>4. QED
    BY <2>2, <2>3, StoreAccounts
<1>2. ASSUME NEW h \in carried, StoreCarried(h) PROVE AccountInv'
  <2>1. /\ Store(h.to, h.copy) /\ h.to \in Nodes /\ h.copy \notin buffer[h.to]
        /\ done' = [done EXCEPT !.offered = @ + 1]
    BY <1>2 DEF StoreCarried, ApartInv
  <2>2. QED
    BY <2>1, StoreAccounts
<1>3. CASE UNCHANGED <<buffer, stats, tasks, done>>
  BY <1>3 DEF AccountInv, InAll, Reported
<1>4. CASE Report
  <2>1. UNCHANGED <<buffer, done>>
    BY <1>4 DEF Report
  <2>2. /\ stats' \in Stats /\ tasks' \in Seq(Stats)
        /\ Reported("expired")' = Reported("expired") /\ Reported("dropped")' = Reported("dropped")
    BY <1>4, ReportAccounts DEF AccountInv
  <2>3. InAll(buffer)' = InAll(buffer)
    BY <2>1 DEF InAll
  <2>4. QED
    BY <2>1, <2>2, <2>3 DEF AccountInv
<1>5. QED
  BY <1>1, <1>2, <1>3, <1>4, EncounterAccounts, TickAccounts DEF Next, Lose, vars

\* Every copy offered to a buffer is there, went to its destination, expired or was
\* dropped, whatever tasks wait between their two locks and in whatever order they
\* report (store, encounter and tick, whose statistics have a lock of their own).
THEOREM CopiesAllAccounted == Spec => []CopiesAccounted
<1>1. BoundInv /\ AccountInv => CopiesAccounted
  <2>1. BoundInv => BufferBounded
    BY DEF BoundInv, BufferBounded, Fits, Places
  <2>2. AccountInv =>
          done.offered = SumFunction([n \in Nodes |-> Cardinality(buffer[n])])
                         + done.gone + Reported("expired") + Reported("dropped")
    BY DEF AccountInv, InAll
  <2>3. QED
    BY <2>1, <2>2 DEF CopiesAccounted
<1>2. Init => BoundInv
  BY FS_EmptySet, DtnAssumption DEF Init, BoundInv, Fits, Places
<1>3. QED
  BY <1>1, <1>2, PathInit, PathNext, BoundNext, ApartInit, ApartNext, AccountInit, AccountNext, PTL
  DEF Spec
=============================================================================
