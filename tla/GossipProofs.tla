---------------------------- MODULE GossipProofs ----------------------------
(* Proofs about Gossip for every choice of events, peers and bounds that     *)
(* satisfies BoundsAssumption.                                               *)
EXTENDS Gossip, FiniteSetTheorems, SequenceTheorems, TLAPS

-----------------------------------------------------------------------------
(* The selection of a batch *)

\* Ranks grow with positions: a smaller position of S has a smaller rank.
LEMMA RankMonotonic ==
  ASSUME NEW S \in SUBSET Nat, IsFiniteSet(S),
         NEW i \in S, NEW j \in S, i < j
  PROVE  Rank(i, S) < Rank(j, S)
<1> DEFINE Below(x) == {y \in S : y < x}
<1>1. IsFiniteSet(Below(i)) /\ IsFiniteSet(Below(j))
  BY FS_Subset
<1>2. IsFiniteSet(Below(i) \cup {i}) /\ Cardinality(Below(i) \cup {i}) = Cardinality(Below(i)) + 1
  <2>1. i \notin Below(i)
    OBVIOUS
  <2>2. QED
    BY <1>1, <2>1, FS_AddElement
<1>3. Below(i) \cup {i} \subseteq Below(j)
  <2>1. \A y \in S : y \in Nat
    OBVIOUS
  <2>2. \A y \in S : y < i => y < j
    BY <2>1
  <2>3. QED
    BY <2>2
<1>4. Cardinality(Below(i) \cup {i}) <= Cardinality(Below(j))
  BY <1>1, <1>3, FS_Subset
<1>5. Cardinality(Below(i)) \in Nat /\ Cardinality(Below(j)) \in Nat
  BY <1>1, FS_CardinalityType
<1>6. QED
  BY <1>2, <1>4, <1>5 DEF Rank

\* Every rank below the size of a finite set of positions is taken: ranks are
\* an injection into 0 .. size - 1, hence a surjection.
LEMMA RankOnto ==
  ASSUME NEW S \in SUBSET Nat, IsFiniteSet(S),
         NEW r \in Nat, r < Cardinality(S)
  PROVE  \E i \in S : Rank(i, S) = r
<1> DEFINE n == Cardinality(S)
           f == [i \in S |-> Rank(i, S)]
<1>1. n \in Nat
  BY FS_CardinalityType
<1>2. ASSUME NEW i \in S
      PROVE  Rank(i, S) \in 0 .. n - 1
  <2> DEFINE B == {j \in S : j < i}
  <2>1. IsFiniteSet(B) /\ Cardinality(B) \in Nat
    BY FS_Subset, FS_CardinalityType
  <2>2. B \subseteq S /\ B # S
    OBVIOUS
  <2>3. Cardinality(B) < n
    <3>1. Cardinality(B) <= n
      BY <2>2, FS_Subset
    <3>2. Cardinality(B) # n
      BY <2>2, FS_Subset
    <3>3. QED
      BY <3>1, <3>2, <1>1, <2>1
  <2>4. QED
    BY <1>1, <2>1, <2>3 DEF Rank
<1>3. f \in Injection(S, 0 .. n - 1)
  <2>1. f \in [S -> 0 .. n - 1]
    BY <1>2
  <2>2. ASSUME NEW a \in S, NEW b \in S, f[a] = f[b]
        PROVE  a = b
    <3>1. ~ (a < b)
      <4>1. ASSUME a < b PROVE FALSE
        <5>1. Rank(a, S) < Rank(b, S)
          BY <4>1, RankMonotonic
        <5>2. QED
          BY <5>1, <2>2, <1>2
      <4>2. QED BY <4>1
    <3>2. ~ (b < a)
      <4>1. ASSUME b < a PROVE FALSE
        <5>1. Rank(b, S) < Rank(a, S)
          BY <4>1, RankMonotonic
        <5>2. QED
          BY <5>1, <2>2, <1>2
      <4>2. QED BY <4>1
    <3>3. a \in Nat /\ b \in Nat
      OBVIOUS
    <3>4. QED
      BY <3>1, <3>2, <3>3
  <2>3. QED
    BY <2>1, <2>2 DEF Injection, IsInjective
<1>4. IsFiniteSet(0 .. n - 1) /\ Cardinality(0 .. n - 1) = n
  <2>1. 0 \in Int /\ n - 1 \in Int
    BY <1>1
  <2>2. /\ IsFiniteSet(0 .. n - 1)
        /\ Cardinality(0 .. n - 1) = IF 0 > n - 1 THEN 0 ELSE (n - 1) - 0 + 1
    <3> HIDE DEF n
    <3>1. QED
      BY <2>1, FS_Interval
  <2>3. QED
    BY <1>1, <2>2
<1>5. f \in Surjection(S, 0 .. n - 1)
  BY <1>3, <1>4, FS_Injection
<1>6. r \in 0 .. n - 1
  BY <1>1
<1>7. QED
  BY <1>5, <1>6 DEF Surjection

\* The events at a set of outbox positions form a sequence of events of the
\* outbox, each position contributing exactly once.
LEMMA EventsAtProperties ==
  ASSUME pending \in Seq(Events), NEW S \in SUBSET (DOMAIN pending)
  PROVE  /\ EventsAt(S) \in Seq(Events)
         /\ Len(EventsAt(S)) = Cardinality(S)
         /\ Range(EventsAt(S)) \subseteq {pending[i] : i \in S}
         /\ (\A i, j \in DOMAIN pending : pending[i] = pending[j] => i = j)
              => \A a, b \in DOMAIN EventsAt(S) :
                   EventsAt(S)[a] = EventsAt(S)[b] => a = b
<1> DEFINE n == Cardinality(S)
           pos(k) == CHOOSE i \in S : Rank(i, S) = k - 1
<1>1. S \in SUBSET Nat /\ IsFiniteSet(S) /\ n \in Nat
  <2>1. DOMAIN pending = 1 .. Len(pending) /\ Len(pending) \in Nat
    OBVIOUS
  <2>2. IsFiniteSet(1 .. Len(pending))
    <3>1. 1 \in Int /\ Len(pending) \in Int
      BY <2>1
    <3>2. QED
      BY <3>1, FS_Interval
  <2>3. IsFiniteSet(S)
    BY <2>1, <2>2, FS_Subset
  <2>4. QED
    BY <2>1, <2>3, FS_CardinalityType
<1>2. ASSUME NEW k \in 1 .. n
      PROVE  pos(k) \in S /\ Rank(pos(k), S) = k - 1
  <2>1. k - 1 \in Nat /\ k - 1 < Cardinality(S)
    BY <1>1
  <2>2. \E i \in S : Rank(i, S) = k - 1
    BY <1>1, <2>1, RankOnto
  <2>3. QED
    BY <2>2
<1>3. EventsAt(S) = [k \in 1 .. n |-> pending[pos(k)]]
  BY DEF EventsAt
<1> HIDE DEF pos, n
<1>4. \A k \in 1 .. n : pending[pos(k)] \in Events
  BY <1>2
<1>5. EventsAt(S) \in Seq(Events) /\ Len(EventsAt(S)) = n
  <2>1. EventsAt(S) \in [1 .. n -> Events]
    BY <1>3, <1>4
  <2>2. EventsAt(S) \in Seq(Events)
    BY <2>1, <1>1
  <2>3. QED
    BY <2>1, <2>2, <1>1, LenProperties
<1>6. DOMAIN EventsAt(S) = 1 .. n
  BY <1>3
<1>7. Range(EventsAt(S)) \subseteq {pending[i] : i \in S}
  BY <1>2, <1>3, <1>6 DEF Range
<1>8. ASSUME \A i, j \in DOMAIN pending : pending[i] = pending[j] => i = j,
             NEW a \in 1 .. n, NEW b \in 1 .. n,
             EventsAt(S)[a] = EventsAt(S)[b]
      PROVE  a = b
  <2>1. pending[pos(a)] = pending[pos(b)]
    BY <1>3, <1>8
  <2>2. pos(a) = pos(b)
    BY <2>1, <1>2, <1>8
  <2>3. a - 1 = b - 1
    BY <2>2, <1>2
  <2>4. QED
    BY <2>3, <1>1
<1>9. QED
  BY <1>5, <1>6, <1>7, <1>8 DEF n

-----------------------------------------------------------------------------
(* The list of marks *)

\* What remains of a list cut to its newest MaxDelivered entries: the entries
\* past the first ones, in order.
LEMMA KeepNewestProperties ==
  ASSUME NEW s \in Seq(Events)
  PROVE  LET drop == IF Len(s) > MaxDelivered THEN Len(s) - MaxDelivered ELSE 0
         IN  /\ KeepNewest(s) \in Seq(Events)
             /\ Len(KeepNewest(s)) = Len(s) - drop
             /\ Len(KeepNewest(s)) <= MaxDelivered
             /\ \A k \in 1 .. Len(s) - drop : KeepNewest(s)[k] = s[k + drop]
<1> DEFINE drop == IF Len(s) > MaxDelivered THEN Len(s) - MaxDelivered ELSE 0
<1>1. Len(s) \in Nat /\ MaxDelivered \in Nat /\ drop \in Nat /\ drop <= Len(s)
  BY BoundsAssumption
<1>2. KeepNewest(s) = SubSeq(s, drop + 1, Len(s))
  BY <1>1 DEF KeepNewest
<1>3. Len(s) - drop <= MaxDelivered
  BY <1>1
<1> HIDE DEF drop
<1>4. /\ SubSeq(s, drop + 1, Len(s)) \in Seq(Events)
      /\ Len(SubSeq(s, drop + 1, Len(s))) = Len(s) - drop
      /\ \A k \in 1 .. Len(s) - drop : SubSeq(s, drop + 1, Len(s))[k] = s[k + drop]
  <2>1. drop + 1 \in Int /\ Len(s) \in Int
    BY <1>1
  <2>2. \A i \in drop + 1 .. Len(s) : s[i] \in Events
    BY <1>1
  <2>3. /\ SubSeq(s, drop + 1, Len(s)) \in Seq(Events)
        /\ Len(SubSeq(s, drop + 1, Len(s)))
             = IF drop + 1 <= Len(s) THEN Len(s) - (drop + 1) + 1 ELSE 0
        /\ \A k \in 1 .. Len(s) - (drop + 1) + 1 :
             SubSeq(s, drop + 1, Len(s))[k] = s[drop + 1 + k - 1]
    BY <2>1, <2>2, SubSeqProperties
  <2>4. Len(s) - (drop + 1) + 1 = Len(s) - drop
    BY <1>1
  <2>5. \A k \in 1 .. Len(s) - drop : drop + 1 + k - 1 = k + drop
    BY <1>1
  <2>6. Len(SubSeq(s, drop + 1, Len(s))) = Len(s) - drop
    BY <2>3, <1>1
  <2>7. QED
    BY <2>3, <2>4, <2>5, <2>6
<1>5. QED
  BY <1>2, <1>3, <1>4 DEF drop

-----------------------------------------------------------------------------
(* Type correctness *)

\* The outbox after a push is a sequence of events no longer than the cap.
LEMMA PushedType ==
  ASSUME Typed, NEW e \in Events
  PROVE  Pushed(e) \in Seq(Events) /\ Len(Pushed(e)) <= MaxPending
<1>1. Len(pending) \in Nat /\ MaxPending \in Nat \ {0}
  BY BoundsAssumption DEF Typed
<1>2. CASE Len(pending) >= MaxPending
  <2>1. pending # <<>> /\ Tail(pending) \in Seq(Events) /\ Len(Tail(pending)) = Len(pending) - 1
    BY <1>1, <1>2 DEF Typed
  <2>2. QED
    BY <1>1, <1>2, <2>1 DEF Typed, Pushed
<1>3. CASE ~ (Len(pending) >= MaxPending)
  BY <1>1, <1>3 DEF Typed, Pushed
<1>4. QED
  BY <1>2, <1>3

\* What every emission marks for p: events of the outbox, none of them marked
\* for p yet; each of them once if the outbox holds its events once.
IsBatch(p, ids) ==
  /\ ids \in Seq(Events)
  /\ Range(ids) \subseteq Range(pending) \ Range(delivered[p])
  /\ (\A i, j \in DOMAIN pending : pending[i] = pending[j] => i = j)
       => \A a, b \in DOMAIN ids : ids[a] = ids[b] => a = b

LEMMA PeekIsBatch ==
  ASSUME Typed, NEW p \in Peers, NEW max \in Nat
  PROVE  IsBatch(p, Peek(p, max))
<1>1. Selected(p, max) \in SUBSET (DOMAIN pending)
  BY DEF Selected, Unmarked
<1>2. \A i \in Selected(p, max) : pending[i] \in Range(pending) \ Range(delivered[p])
  BY <1>1 DEF Selected, Unmarked, Range
<1>3. QED
  BY <1>1, <1>2, EventsAtProperties DEF Peek, Typed, IsBatch

\* A prefix of a batch is a batch.
LEMMA PrefixIsBatch ==
  ASSUME NEW p \in Peers, NEW ids, IsBatch(p, ids), NEW n \in 1 .. Len(ids)
  PROVE  IsBatch(p, SubSeq(ids, 1, n))
<1>1. ids \in Seq(Events) /\ Len(ids) \in Nat /\ DOMAIN ids = 1 .. Len(ids)
  BY DEF IsBatch
<1>2. /\ SubSeq(ids, 1, n) \in Seq(Events)
      /\ DOMAIN SubSeq(ids, 1, n) = 1 .. n
      /\ \A k \in 1 .. n : SubSeq(ids, 1, n)[k] = ids[k] /\ k \in DOMAIN ids
  BY <1>1
<1>3. Range(SubSeq(ids, 1, n)) \subseteq Range(ids)
  BY <1>2 DEF Range
<1>4. QED
  BY <1>2, <1>3 DEF IsBatch

\* Marking keeps the lists and the history well typed and within the cap.
LEMMA MarkType ==
  ASSUME Typed, NEW p \in Peers, NEW ids \in Seq(Events),
         MarkDelivered(p, ids)
  PROVE  /\ delivered' \in [Peers -> Seq(Events)]
         /\ \A q \in Peers : Len(delivered'[q]) <= MaxDelivered
         /\ handed' \in [Peers -> SUBSET Events]
<1>1. delivered[p] \o ids \in Seq(Events)
  BY DEF Typed
<1>2. KeepNewest(delivered[p] \o ids) \in Seq(Events)
      /\ Len(KeepNewest(delivered[p] \o ids)) <= MaxDelivered
  BY <1>1, KeepNewestProperties
<1>3. Range(ids) \subseteq Events
  BY RangeOfSeq
<1>4. QED
  BY <1>2, <1>3 DEF MarkDelivered, Typed

\* Every emission marks a batch for some peer and leaves the known set and
\* the outbox alone.
EmissionOf(p, ids) ==
  /\ IsBatch(p, ids)
  /\ MarkDelivered(p, ids)
  /\ UNCHANGED <<known, pending>>

LEMMA EmissionIsMark ==
  ASSUME Typed, NEW p \in Peers,
         GetPendingForPeer(p) \/ TakeHealBatch(p) \/ FlushBatch(p)
  PROVE  \E ids : EmissionOf(p, ids)
<1>1. Len(pending) \in Nat /\ HealBatch \in Nat /\ PumpBatch \in Nat
  BY BoundsAssumption DEF Typed
<1>2. CASE GetPendingForPeer(p)
  BY <1>1, <1>2, PeekIsBatch DEF GetPendingForPeer, EmissionOf
<1>3. CASE TakeHealBatch(p)
  BY <1>1, <1>3, PeekIsBatch DEF TakeHealBatch, EmissionOf
<1>4. CASE FlushBatch(p)
  <2>1. PICK n \in 1 .. Len(Peek(p, PumpBatch)) :
          MarkDelivered(p, SubSeq(Peek(p, PumpBatch), 1, n))
    BY <1>4 DEF FlushBatch
  <2>2. IsBatch(p, Peek(p, PumpBatch))
    BY <1>1, PeekIsBatch
  <2>3. IsBatch(p, SubSeq(Peek(p, PumpBatch), 1, n))
    BY <2>2, PrefixIsBatch
  <2>4. QED
    BY <2>1, <2>3, <1>4 DEF FlushBatch, EmissionOf
<1>5. QED
  BY <1>2, <1>3, <1>4

\* What remains known after an expiry is part of what was known.
LEMMA AfterExpirySubset ==
  ASSUME NEW ids, NEW outbox, NEW k \in AfterExpiry(ids, outbox)
  PROVE  k \subseteq ids
BY DEF AfterExpiry

LEMMA TypeInit == GossipInit => Typed
<1>1. MaxPending \in Nat /\ MaxDelivered \in Nat
  BY BoundsAssumption
<1>2. QED
  BY <1>1 DEF GossipInit, Typed

LEMMA TypeStep == Typed /\ [GossipNext]_gossipVars => Typed'
<1> SUFFICES ASSUME Typed, [GossipNext]_gossipVars
             PROVE  Typed'
  OBVIOUS
<1>1. ASSUME NEW e \in Events, Insert(e)
      PROVE  Typed'
  <2>1. pending' \in Seq(Events) /\ Len(pending') <= MaxPending
    BY <1>1, PushedType DEF Insert
  <2>2. known' \subseteq Events
    <3>1. known' \subseteq known \cup {e}
      BY <1>1, AfterExpirySubset DEF Insert
    <3>2. QED
      BY <3>1 DEF Typed
  <2>3. handed' \in [Peers -> SUBSET Events]
    BY <1>1 DEF Insert, Typed
  <2>4. QED
    BY <1>1, <2>1, <2>2, <2>3 DEF Insert, Typed
<1>2. ASSUME NEW p \in Peers,
             GetPendingForPeer(p) \/ TakeHealBatch(p) \/ FlushBatch(p)
      PROVE  Typed'
  <2>1. PICK ids : EmissionOf(p, ids)
    BY <1>2, EmissionIsMark
  <2>2. QED
    BY <2>1, MarkType DEF EmissionOf, IsBatch, Typed
<1>3. CASE UNCHANGED gossipVars
  BY <1>3 DEF gossipVars, Typed
<1>4. QED
  BY <1>1, <1>2, <1>3 DEF GossipNext

-----------------------------------------------------------------------------
(* The known set and the outbox *)

\* A sequence has no more distinct elements than places.
LEMMA RangeCardinality ==
  ASSUME NEW T, NEW s \in Seq(T)
  PROVE  /\ IsFiniteSet(Range(s))
         /\ Cardinality(Range(s)) \in Nat
         /\ Cardinality(Range(s)) <= Len(s)
<1>1. Len(s) \in Nat /\ DOMAIN s = 1 .. Len(s)
  OBVIOUS
<1>2. IsFiniteSet(1 .. Len(s)) /\ Cardinality(1 .. Len(s)) = Len(s)
  <2>1. 1 \in Int /\ Len(s) \in Int
    BY <1>1
  <2>2. QED
    BY <1>1, <2>1, FS_Interval
<1>3. s \in Surjection(1 .. Len(s), Range(s))
  <2>1. s \in [1 .. Len(s) -> Range(s)]
    BY <1>1 DEF Range
  <2>2. \A t \in Range(s) : \E i \in 1 .. Len(s) : s[i] = t
    BY <1>1 DEF Range
  <2>3. QED
    BY <2>1, <2>2 DEF Surjection
<1>4. QED
  BY <1>2, <1>3, FS_Surjection, FS_CardinalityType

\* The outbox after a push holds the new event and some of the former ones,
\* still each once.
LEMMA PushedContents ==
  ASSUME Typed, OutboxKnown, NEW e \in Events, e \notin known
  PROVE  /\ Range(Pushed(e)) \subseteq Range(pending) \cup {e}
         /\ e \in Range(Pushed(e))
         /\ \A i, j \in DOMAIN Pushed(e) : Pushed(e)[i] = Pushed(e)[j] => i = j
         /\ IF Len(pending) >= MaxPending
            THEN /\ Len(Pushed(e)) = Len(pending)
                 /\ \A i \in 1 .. Len(pending) - 1 : Pushed(e)[i] = pending[i + 1]
                 /\ Pushed(e)[Len(pending)] = e
            ELSE /\ Len(Pushed(e)) = Len(pending) + 1
                 /\ \A i \in 1 .. Len(pending) : Pushed(e)[i] = pending[i]
                 /\ Pushed(e)[Len(pending) + 1] = e
<1>1. /\ Len(pending) \in Nat /\ MaxPending \in Nat \ {0}
      /\ pending \in Seq(Events)
      /\ DOMAIN pending = 1 .. Len(pending)
  BY BoundsAssumption DEF Typed
<1>2. \A i \in 1 .. Len(pending) : pending[i] \in Range(pending) /\ pending[i] # e
  BY <1>1 DEF OutboxKnown, Range
<1>3. \A i, j \in 1 .. Len(pending) : pending[i] = pending[j] => i = j
  BY <1>1 DEF OutboxKnown
<1>4. CASE Len(pending) >= MaxPending
  <2> DEFINE t == Tail(pending)
  <2>1. /\ t \in Seq(Events)
        /\ Len(t) = Len(pending) - 1
        /\ \A i \in 1 .. Len(t) : t[i] = pending[i + 1]
    BY <1>1, <1>4
  <2>2. Pushed(e) = Append(t, e)
    BY <1>4 DEF Pushed
  <2> HIDE DEF t
  <2>3. /\ Pushed(e) \in Seq(Events)
        /\ Len(Pushed(e)) = Len(pending)
        /\ \A i \in 1 .. Len(pending) - 1 : Pushed(e)[i] = pending[i + 1]
        /\ Pushed(e)[Len(pending)] = e
    <3>1. /\ Append(t, e) \in Seq(Events)
          /\ Len(Append(t, e)) = Len(t) + 1
          /\ \A i \in 1 .. Len(t) : Append(t, e)[i] = t[i]
          /\ Append(t, e)[Len(t) + 1] = e
      BY <2>1, AppendProperties
    <3>2. Len(t) + 1 = Len(pending)
      BY <1>1, <2>1
    <3>3. QED
      BY <2>1, <2>2, <3>1, <3>2
  <2>4. DOMAIN Pushed(e) = 1 .. Len(pending)
    BY <2>3
  <2>5. \A i \in 1 .. Len(pending) - 1 : i + 1 \in 1 .. Len(pending)
    BY <1>1
  <2>6. \A i \in 1 .. Len(pending) : i = Len(pending) \/ i \in 1 .. Len(pending) - 1
    <3>1. \A n \in Nat : \A i \in 1 .. n : i = n \/ i \in 1 .. n - 1
      OBVIOUS
    <3>2. QED
      BY <1>1, <3>1
  <2>7. Range(Pushed(e)) \subseteq Range(pending) \cup {e}
    BY <1>2, <2>3, <2>4, <2>5, <2>6 DEF Range
  <2>8. e \in Range(Pushed(e))
    <3>1. Len(pending) \in 1 .. Len(pending)
      BY <1>1, <1>4
    <3>2. QED
      BY <3>1, <2>3, <2>4 DEF Range
  <2>9. ASSUME NEW i \in 1 .. Len(pending), NEW j \in 1 .. Len(pending),
               Pushed(e)[i] = Pushed(e)[j]
        PROVE  i = j
    <3>1. CASE i = Len(pending) /\ j = Len(pending)
      BY <3>1
    <3>2. CASE i \in 1 .. Len(pending) - 1 /\ j \in 1 .. Len(pending) - 1
      <4>1. pending[i + 1] = pending[j + 1]
        BY <3>2, <2>3, <2>9
      <4>2. i + 1 = j + 1
        BY <4>1, <3>2, <2>5, <1>3
      <4>3. QED
        BY <4>2
    <3>3. CASE i = Len(pending) /\ j \in 1 .. Len(pending) - 1
      BY <3>3, <2>3, <2>5, <2>9, <1>2
    <3>4. CASE j = Len(pending) /\ i \in 1 .. Len(pending) - 1
      BY <3>4, <2>3, <2>5, <2>9, <1>2
    <3>5. QED
      BY <3>1, <3>2, <3>3, <3>4, <2>6
  <2>10. QED
    BY <1>4, <2>3, <2>4, <2>7, <2>8, <2>9
<1>5. CASE ~ (Len(pending) >= MaxPending)
  <2>1. Pushed(e) = Append(pending, e)
    BY <1>5 DEF Pushed
  <2>2. /\ Pushed(e) \in Seq(Events)
        /\ Len(Pushed(e)) = Len(pending) + 1
        /\ \A i \in 1 .. Len(pending) : Pushed(e)[i] = pending[i]
        /\ Pushed(e)[Len(pending) + 1] = e
    BY <1>1, <2>1
  <2>3. DOMAIN Pushed(e) = 1 .. Len(pending) + 1
    BY <2>2
  <2>4. \A i \in 1 .. Len(pending) + 1 : i = Len(pending) + 1 \/ i \in 1 .. Len(pending)
    BY <1>1
  <2>5. Len(pending) + 1 \in 1 .. Len(pending) + 1
    BY <1>1
  <2>6. Range(Pushed(e)) \subseteq Range(pending) \cup {e} /\ e \in Range(Pushed(e))
    BY <1>2, <2>2, <2>3, <2>4, <2>5 DEF Range
  <2>7. \A i, j \in 1 .. Len(pending) + 1 : Pushed(e)[i] = Pushed(e)[j] => i = j
    BY <1>2, <1>3, <2>2, <2>4
  <2>8. QED
    BY <1>5, <2>2, <2>3, <2>6, <2>7
<1>6. QED
  BY <1>4, <1>5

\* An expiry spares the outbox and brings a set one over the cap back to it.
LEMMA AfterExpiryBounds ==
  ASSUME NEW ids, IsFiniteSet(ids), Cardinality(ids) <= MaxKnown + 1,
         NEW outbox, outbox \subseteq ids,
         IsFiniteSet(outbox), Cardinality(outbox) <= MaxPending,
         NEW k \in AfterExpiry(ids, outbox)
  PROVE  outbox \subseteq k /\ IsFiniteSet(k) /\ Cardinality(k) <= MaxKnown
<1> DEFINE excess == Cardinality(ids) - MaxKnown
           evictable == ids \ outbox
<1>1. /\ MaxKnown \in Nat /\ MaxPending \in Nat /\ MaxPending <= MaxKnown
      /\ Cardinality(ids) \in Nat /\ Cardinality(outbox) \in Nat
  BY BoundsAssumption, FS_CardinalityType
<1>2. CASE Cardinality(ids) <= MaxKnown
  <2>1. k = ids
    BY <1>2 DEF AfterExpiry
  <2>2. QED
    BY <1>2, <2>1
<1>3. CASE ~ (Cardinality(ids) <= MaxKnown) /\ Cardinality(evictable) <= excess
  <2>1. k = ids \ evictable
    BY <1>3 DEF AfterExpiry
  <2>2. k = outbox
    BY <2>1
  <2>3. QED
    BY <2>2, <1>1
<1>4. CASE ~ (Cardinality(ids) <= MaxKnown) /\ ~ (Cardinality(evictable) <= excess)
  <2>1. PICK X \in SUBSET evictable : Cardinality(X) = excess /\ k = ids \ X
    BY <1>4 DEF AfterExpiry
  <2>2. IsFiniteSet(X) /\ IsFiniteSet(ids \ X)
    BY FS_Subset
  <2>3. excess = 1
    BY <1>1, <1>4
  <2>4. PICK x : X = {x}
    BY <2>1, <2>2, <2>3, FS_Singleton
  <2>5. x \in ids
    BY <2>4
  <2>6. Cardinality(ids \ {x}) = Cardinality(ids) - 1
    BY <2>5, FS_RemoveElement
  <2>7. QED
    BY <1>1, <2>1, <2>2, <2>4, <2>6
<1>5. QED
  BY <1>2, <1>3, <1>4

\* The invariant of the outbox and the known set, inductive as it stands.
OutboxInv == Typed /\ KnownBounded /\ OutboxKnown

LEMMA OutboxInit == GossipInit => OutboxInv
<1> SUFFICES ASSUME GossipInit PROVE KnownBounded /\ OutboxKnown
  BY TypeInit DEF OutboxInv
<1>1. KnownBounded
  BY FS_EmptySet, BoundsAssumption DEF GossipInit, KnownBounded
<1>2. OutboxKnown
  BY DEF GossipInit, OutboxKnown, Range
<1>3. QED
  BY <1>1, <1>2

LEMMA OutboxStep == OutboxInv /\ [GossipNext]_gossipVars => OutboxInv'
<1> SUFFICES ASSUME OutboxInv, [GossipNext]_gossipVars
             PROVE  KnownBounded' /\ OutboxKnown'
  BY TypeStep DEF OutboxInv
<1> USE DEF OutboxInv
<1>1. ASSUME NEW e \in Events, Insert(e)
      PROVE  KnownBounded' /\ OutboxKnown'
  <2> DEFINE outbox == Range(Pushed(e))
  <2>1. e \notin known /\ pending' = Pushed(e)
    BY <1>1 DEF Insert
  <2>2. outbox \subseteq known \cup {e}
    BY <2>1, PushedContents DEF OutboxKnown
  <2>3. IsFiniteSet(outbox) /\ Cardinality(outbox) <= MaxPending
    <3>1. Pushed(e) \in Seq(Events) /\ Len(Pushed(e)) <= MaxPending
      BY PushedType
    <3>2. Len(Pushed(e)) \in Nat /\ MaxPending \in Nat
      BY <3>1, BoundsAssumption
    <3>3. QED
      BY <3>1, <3>2, RangeCardinality
  <2>4. /\ IsFiniteSet(known \cup {e})
        /\ Cardinality(known \cup {e}) <= MaxKnown + 1
    <3>1. Cardinality(known) \in Nat /\ MaxKnown \in Nat
      BY BoundsAssumption, FS_CardinalityType DEF KnownBounded
    <3>2. QED
      BY <3>1, <2>1, FS_AddElement DEF KnownBounded
  <2>5. known' \in AfterExpiry(known \cup {e}, outbox)
    BY <1>1, <2>1 DEF Insert
  <2>6. outbox \subseteq known' /\ IsFiniteSet(known') /\ Cardinality(known') <= MaxKnown
    BY <2>2, <2>3, <2>4, <2>5, AfterExpiryBounds
  <2>7. \A i, j \in DOMAIN Pushed(e) : Pushed(e)[i] = Pushed(e)[j] => i = j
    BY <2>1, PushedContents
  <2>8. QED
    BY <2>1, <2>6, <2>7 DEF KnownBounded, OutboxKnown
<1>2. ASSUME NEW p \in Peers,
             GetPendingForPeer(p) \/ TakeHealBatch(p) \/ FlushBatch(p)
      PROVE  KnownBounded' /\ OutboxKnown'
  <2>1. PICK ids : EmissionOf(p, ids)
    BY <1>2, EmissionIsMark
  <2>2. QED
    BY <2>1 DEF EmissionOf, KnownBounded, OutboxKnown
<1>3. CASE UNCHANGED gossipVars
  BY <1>3 DEF gossipVars, KnownBounded, OutboxKnown
<1>4. QED
  BY <1>1, <1>2, <1>3 DEF GossipNext

\* The known set never exceeds its cap, although eviction spares the outbox.
THEOREM KnownSetBounded == GossipSpec => []KnownBounded
BY OutboxInit, OutboxStep, PTL DEF GossipSpec, OutboxInv

\* Type correctness: known, the outbox, the per-peer lists and all their caps.
THEOREM TypeCorrect == GossipSpec => []TypeOK
<1>1. OutboxInv => TypeOK
  BY DEF OutboxInv, TypeOK
<1>2. QED
  BY <1>1, OutboxInit, OutboxStep, PTL DEF GossipSpec

\* Every event of the outbox is known and present once.
THEOREM OutboxAlwaysKnown == GossipSpec => []OutboxKnown
BY OutboxInit, OutboxStep, PTL DEF GossipSpec, OutboxInv

-----------------------------------------------------------------------------
(* Handed events stay marked *)

\* The image of a finite set under an injection into a finite set is no larger
\* than that set; used to compare two sets of list positions.
LEMMA InjectionBound ==
  ASSUME NEW S, NEW T, IsFiniteSet(T), NEW f,
         f \in [S -> T], \A a, b \in S : f[a] = f[b] => a = b
  PROVE  IsFiniteSet(S) /\ Cardinality(S) <= Cardinality(T)
<1>1. f \in Injection(S, T)
  BY DEF Injection, IsInjective
<1>2. QED
  BY <1>1, FS_Injection

\* One more element makes a finite set at most one larger.
LEMMA AddOne ==
  ASSUME NEW S, IsFiniteSet(S), NEW x
  PROVE  IsFiniteSet(S \cup {x}) /\ Cardinality(S \cup {x}) <= Cardinality(S) + 1
<1>1. Cardinality(S) \in Nat
  BY FS_CardinalityType
<1>2. /\ IsFiniteSet(S \cup {x})
      /\ Cardinality(S \cup {x}) = IF x \in S THEN Cardinality(S) ELSE Cardinality(S) + 1
  BY FS_AddElement
<1>3. QED
  BY <1>1, <1>2

\* A push that may send the oldest event away: the events that stay move up by
\* one place, and at most one mark, of the event that left, becomes foreign.
LEMMA InsertKeepsHanded ==
  ASSUME OutboxInv, HandedInv, NEW e \in Events, Insert(e)
  PROVE  HandedInv'
<1> USE DEF OutboxInv
<1>1. /\ e \notin known /\ pending' = Pushed(e) /\ delivered' = delivered
      /\ handed' = [p \in Peers |-> handed[p] \cap (Range(Pushed(e)) \ {e})]
  BY DEF Insert
<1>2. /\ Len(pending) \in Nat /\ MaxPending \in Nat
      /\ DOMAIN pending = 1 .. Len(pending)
      /\ e \notin Range(pending)
  BY <1>1, BoundsAssumption DEF Typed, OutboxKnown
<1>3. ASSUME NEW p \in Peers
      PROVE  handed'[p] \subseteq handed[p] /\ e \notin handed[p] /\ e \notin handed'[p]
  BY <1>1, <1>2 DEF HandedInv, HandedStaysMarked
<1>4. HandedStaysMarked'
  BY <1>1, <1>3 DEF HandedInv, HandedStaysMarked
<1>5. ASSUME NEW p \in Peers, NEW a \in DOMAIN delivered[p], NEW b \in DOMAIN delivered[p],
             delivered[p][a] \in handed'[p], delivered[p][a] = delivered[p][b]
      PROVE  a = b
  BY <1>3, <1>5 DEF HandedInv
<1>6. ASSUME NEW p \in Peers, NEW j \in DOMAIN Pushed(e), NEW a \in DOMAIN delivered[p],
             Pushed(e)[j] \in handed'[p], delivered[p][a] = Pushed(e)[j]
      PROVE  Cardinality(Foreign(p, a)') <= MaxPending - j
  <2> DEFINE d == delivered[p]
             Moved == {k \in DOMAIN d : k > a /\ d[k] \notin handed'[p]}
  <2>1. Foreign(p, a)' = Moved
    BY <1>1 DEF Foreign
  <2>2. Pushed(e) \in Seq(Events) /\ DOMAIN Pushed(e) = 1 .. Len(Pushed(e))
    BY PushedType
  <2>3. Pushed(e)[j] # e
    BY <1>3, <1>6
  <2>4. IsFiniteSet(DOMAIN d)
    <3>1. d \in Seq(Events)
      BY DEF Typed
    <3>2. DOMAIN d = 1 .. Len(d) /\ 1 \in Int /\ Len(d) \in Int
      BY <3>1
    <3>3. QED
      BY <3>2, FS_Interval
  <2>5. IsFiniteSet(Foreign(p, a)) /\ Cardinality(Foreign(p, a)) \in Nat
    BY <2>4, FS_Subset, FS_CardinalityType DEF Foreign
  <2>6. CASE Len(pending) >= MaxPending
    <3>1. /\ Len(Pushed(e)) = Len(pending)
          /\ \A i \in 1 .. Len(pending) - 1 : Pushed(e)[i] = pending[i + 1]
          /\ Pushed(e)[Len(pending)] = e
      BY <2>6, <1>1, PushedContents
    <3>2. j \in 1 .. Len(pending) /\ j # Len(pending)
      BY <3>1, <2>2, <2>3
    <3>3. j \in 1 .. Len(pending) - 1 /\ j + 1 \in DOMAIN pending
      BY <3>2, <1>2
    <3>4. pending[j + 1] = Pushed(e)[j] /\ pending[j + 1] \in handed[p]
      BY <3>1, <3>3, <1>3, <1>6
    <3>5. Cardinality(Foreign(p, a)) <= MaxPending - (j + 1)
      BY <3>3, <3>4, <1>6 DEF HandedInv
    <3>6. \A x \in handed[p] \ handed'[p] : x = pending[1]
      <4>1. ASSUME NEW x \in handed[p], x \notin handed'[p] PROVE x = pending[1]
        <5>1. x # e /\ x \in Range(pending)
          BY <1>3 DEF HandedInv, HandedStaysMarked
        <5>2. PICK i \in 1 .. Len(pending) : pending[i] = x
          BY <5>1, <1>2 DEF Range
        <5>3. x \notin Range(Pushed(e))
          BY <1>1, <5>1, <4>1
        <5>4. ASSUME i # 1 PROVE FALSE
          <6>1. i - 1 \in 1 .. Len(pending) - 1 /\ i - 1 \in DOMAIN Pushed(e)
            BY <5>4, <1>2, <2>2, <3>1
          <6>2. Pushed(e)[i - 1] = pending[(i - 1) + 1]
            BY <6>1, <3>1
          <6>3. (i - 1) + 1 = i
            OBVIOUS
          <6>4. QED
            BY <6>1, <6>2, <6>3, <5>2, <5>3 DEF Range
        <5>5. QED
          BY <5>2, <5>4
      <4>2. QED
        BY <4>1
    <3> DEFINE k0 == CHOOSE k \in DOMAIN d : d[k] = pending[1]
    <3>7. Moved \subseteq Foreign(p, a) \cup {k0}
      <4>1. ASSUME NEW k \in DOMAIN d, k > a, d[k] \in handed[p], d[k] \notin handed'[p]
            PROVE  k = k0
        <5>1. d[k] = pending[1]
          BY <4>1, <3>6
        <5>2. k0 \in DOMAIN d /\ d[k0] = pending[1]
          BY <5>1
        <5>3. QED
          BY <4>1, <5>1, <5>2 DEF HandedInv
      <4> HIDE DEF k0
      <4>2. QED
        BY <4>1 DEF Foreign
    <3> HIDE DEF k0
    <3>8. /\ IsFiniteSet(Foreign(p, a) \cup {k0})
          /\ Cardinality(Foreign(p, a) \cup {k0}) <= Cardinality(Foreign(p, a)) + 1
      BY <2>5, AddOne
    <3>9. /\ Cardinality(Moved) \in Nat
          /\ Cardinality(Moved) <= Cardinality(Foreign(p, a) \cup {k0})
          /\ Cardinality(Foreign(p, a) \cup {k0}) \in Nat
      BY <3>7, <3>8, FS_Subset, FS_CardinalityType
    <3> HIDE DEF Moved
    <3>10. j \in Int
      BY <3>3
    <3>11. QED
      BY <2>1, <2>5, <3>5, <3>8, <3>9, <3>10, <1>2
  <2>7. CASE ~ (Len(pending) >= MaxPending)
    <3>1. /\ Len(Pushed(e)) = Len(pending) + 1
          /\ \A i \in 1 .. Len(pending) : Pushed(e)[i] = pending[i]
          /\ Pushed(e)[Len(pending) + 1] = e
      BY <2>7, <1>1, PushedContents
    <3>2. j \in 1 .. Len(pending) + 1 /\ j # Len(pending) + 1
      BY <3>1, <2>2, <2>3
    <3>3. j \in DOMAIN pending /\ pending[j] = Pushed(e)[j]
      BY <3>1, <3>2, <1>2
    <3>4. Range(pending) \subseteq Range(Pushed(e))
      BY <1>2, <2>2, <3>1 DEF Range
    <3>5. handed'[p] = handed[p]
      BY <1>1, <1>3, <3>4 DEF HandedInv, HandedStaysMarked
    <3>6. Moved = Foreign(p, a)
      BY <3>5 DEF Foreign
    <3>7. QED
      BY <2>1, <3>3, <3>5, <3>6, <1>6 DEF HandedInv
  <2>8. QED
    BY <2>6, <2>7
<1>7. QED
  <2>1. \A p \in Peers : \A a, b \in DOMAIN delivered'[p] :
          delivered'[p][a] \in handed'[p] /\ delivered'[p][a] = delivered'[p][b] => a = b
    BY <1>1, <1>5
  <2>2. \A p \in Peers : \A j \in DOMAIN pending', a \in DOMAIN delivered'[p] :
          pending'[j] \in handed'[p] /\ delivered'[p][a] = pending'[j]
            => Cardinality(Foreign(p, a)') <= MaxPending - j
    BY <1>1, <1>6
  <2>3. QED
    BY <1>4, <2>1, <2>2 DEF HandedInv

\* The list of p before the cap is applied, and its positions after a that hold
\* ids no longer counted as handed.
Extended(p, ids) == delivered[p] \o ids
HandedAfter(p, ids) == handed[p] \cup Range(ids)
ForeignAfter(p, ids, a) ==
  {k \in 1 .. Len(Extended(p, ids)) :
     k > a /\ Extended(p, ids)[k] \notin HandedAfter(p, ids)}

\* The extended list: old marks, then the batch, which repeats none of them.
LEMMA ExtendedProperties ==
  ASSUME OutboxInv, HandedInv, NEW p \in Peers, NEW ids, IsBatch(p, ids)
  PROVE  /\ Extended(p, ids) \in Seq(Events)
         /\ Len(Extended(p, ids)) = Len(delivered[p]) + Len(ids)
         /\ \A a \in 1 .. Len(delivered[p]) :
              /\ Extended(p, ids)[a] = delivered[p][a]
              /\ Extended(p, ids)[a] \notin Range(ids)
         /\ \A a \in 1 .. Len(Extended(p, ids)) : a > Len(delivered[p]) =>
              /\ a - Len(delivered[p]) \in DOMAIN ids
              /\ Extended(p, ids)[a] = ids[a - Len(delivered[p])]
         /\ HandedAfter(p, ids) \subseteq Range(pending)
         /\ \A x \in HandedAfter(p, ids) :
              \E a \in 1 .. Len(Extended(p, ids)) : Extended(p, ids)[a] = x
<1>1. /\ delivered[p] \in Seq(Events) /\ ids \in Seq(Events)
      /\ Len(delivered[p]) \in Nat /\ Len(ids) \in Nat
      /\ DOMAIN delivered[p] = 1 .. Len(delivered[p]) /\ DOMAIN ids = 1 .. Len(ids)
  BY DEF OutboxInv, Typed, IsBatch
<1>2. /\ Extended(p, ids) \in Seq(Events)
      /\ Len(Extended(p, ids)) = Len(delivered[p]) + Len(ids)
      /\ \A a \in 1 .. Len(delivered[p]) + Len(ids) : Extended(p, ids)[a] =
           IF a <= Len(delivered[p]) THEN delivered[p][a] ELSE ids[a - Len(delivered[p])]
  BY <1>1, AppendProperties DEF Extended
<1>3. ASSUME NEW a \in 1 .. Len(delivered[p])
      PROVE  Extended(p, ids)[a] = delivered[p][a] /\ Extended(p, ids)[a] \notin Range(ids)
  <2>1. Extended(p, ids)[a] = delivered[p][a]
    BY <1>1, <1>2
  <2>2. delivered[p][a] \in Range(delivered[p])
    BY <1>1 DEF Range
  <2>3. QED
    BY <2>1, <2>2 DEF IsBatch
<1>4. ASSUME NEW a \in 1 .. Len(Extended(p, ids)), a > Len(delivered[p])
      PROVE  /\ a - Len(delivered[p]) \in DOMAIN ids
             /\ Extended(p, ids)[a] = ids[a - Len(delivered[p])]
  BY <1>1, <1>2, <1>4
<1>5. HandedAfter(p, ids) \subseteq Range(pending)
  BY DEF HandedAfter, HandedInv, HandedStaysMarked, IsBatch
<1>6. ASSUME NEW x \in HandedAfter(p, ids)
      PROVE  \E a \in 1 .. Len(Extended(p, ids)) : Extended(p, ids)[a] = x
  <2>1. CASE x \in handed[p]
    <3>1. PICK a \in 1 .. Len(delivered[p]) : delivered[p][a] = x
      BY <1>1, <2>1 DEF HandedInv, HandedStaysMarked, Range
    <3>2. a \in 1 .. Len(Extended(p, ids))
      BY <1>1, <1>2
    <3>3. QED
      BY <3>1, <3>2, <1>3
  <2>2. CASE x \in Range(ids)
    <3>1. PICK k \in 1 .. Len(ids) : ids[k] = x
      BY <1>1, <2>2 DEF Range
    <3>2. /\ k + Len(delivered[p]) \in 1 .. Len(Extended(p, ids))
          /\ k + Len(delivered[p]) > Len(delivered[p])
          /\ (k + Len(delivered[p])) - Len(delivered[p]) = k
      BY <1>1, <1>2
    <3>3. QED
      BY <3>1, <3>2, <1>4
  <2>3. QED
    BY <2>1, <2>2 DEF HandedAfter
<1>7. QED
  BY <1>2, <1>3, <1>4, <1>5, <1>6

\* In the extended list a handed id still occurs once.
LEMMA ExtendedOnce ==
  ASSUME OutboxInv, HandedInv, NEW p \in Peers, NEW ids, IsBatch(p, ids),
         NEW a \in 1 .. Len(Extended(p, ids)), NEW b \in 1 .. Len(Extended(p, ids)),
         Extended(p, ids)[a] \in HandedAfter(p, ids),
         Extended(p, ids)[a] = Extended(p, ids)[b]
  PROVE  a = b
<1> DEFINE d == delivered[p]
           s == Extended(p, ids)
<1>1. /\ d \in Seq(Events) /\ Len(d) \in Nat /\ DOMAIN d = 1 .. Len(d)
      /\ ids \in Seq(Events) /\ DOMAIN ids = 1 .. Len(ids) /\ Len(ids) \in Nat
      /\ Len(s) \in Nat
  BY ExtendedProperties DEF OutboxInv, Typed, IsBatch
<1>2. ASSUME NEW k \in 1 .. Len(s), k > Len(d) PROVE s[k] \in Range(ids)
  BY <1>2, ExtendedProperties DEF Range
<1>3. \A k \in 1 .. Len(d) : s[k] = d[k] /\ s[k] \notin Range(ids)
  BY ExtendedProperties
<1>4. CASE a <= Len(d)
  <2>1. a \in 1 .. Len(d) /\ s[a] \in handed[p]
    BY <1>1, <1>3, <1>4 DEF HandedAfter
  <2>2. b \in 1 .. Len(d)
    BY <1>1, <1>2, <1>3, <2>1
  <2>3. QED
    BY <2>1, <2>2, <1>1, <1>3 DEF HandedInv
<1>5. CASE ~ (a <= Len(d))
  <2>1. a > Len(d) /\ b > Len(d)
    BY <1>1, <1>2, <1>3, <1>5
  <2>2. /\ a - Len(d) \in DOMAIN ids /\ b - Len(d) \in DOMAIN ids
        /\ ids[a - Len(d)] = ids[b - Len(d)]
    BY <2>1, ExtendedProperties
  <2>3. a - Len(d) = b - Len(d)
    BY <2>2 DEF IsBatch, OutboxInv, OutboxKnown
  <2>4. QED
    BY <2>3, <1>1
<1>6. QED
  BY <1>4, <1>5

\* Emission makes no mark foreign.
LEMMA ForeignAfterBound ==
  ASSUME OutboxInv, HandedInv, NEW p \in Peers, NEW ids, IsBatch(p, ids),
         NEW a \in 1 .. Len(Extended(p, ids)), NEW j \in DOMAIN pending,
         Extended(p, ids)[a] = pending[j], pending[j] \in HandedAfter(p, ids)
  PROVE  /\ IsFiniteSet(ForeignAfter(p, ids, a))
         /\ Cardinality(ForeignAfter(p, ids, a)) \in Nat
         /\ Cardinality(ForeignAfter(p, ids, a)) <= MaxPending - j
<1> DEFINE d == delivered[p]
           s == Extended(p, ids)
           G == ForeignAfter(p, ids, a)
<1>1. /\ Len(d) \in Nat /\ DOMAIN d = 1 .. Len(d) /\ Len(s) \in Nat
      /\ Len(pending) \in Nat /\ j \in 1 .. Len(pending)
      /\ MaxPending \in Nat /\ Len(pending) <= MaxPending
  BY ExtendedProperties, BoundsAssumption DEF OutboxInv, Typed
<1>2. ASSUME NEW k \in G PROVE k \in 1 .. Len(d)
  <2>1. k \in 1 .. Len(s) /\ s[k] \notin Range(ids)
    BY DEF ForeignAfter, HandedAfter
  <2>2. ~ (k > Len(d))
    BY <2>1, ExtendedProperties DEF Range
  <2>3. QED
    BY <2>1, <2>2, <1>1
<1>3. \A k \in 1 .. Len(d) : s[k] = d[k] /\ s[k] \notin Range(ids)
  BY ExtendedProperties
<1>4. CASE a <= Len(d)
  <2>1. a \in DOMAIN d /\ d[a] = pending[j] /\ pending[j] \in handed[p]
    BY <1>1, <1>3, <1>4 DEF HandedAfter
  <2>2. G \subseteq Foreign(p, a)
    BY <1>1, <1>2, <1>3 DEF Foreign, ForeignAfter, HandedAfter
  <2>3. IsFiniteSet(Foreign(p, a)) /\ Cardinality(Foreign(p, a)) \in Nat
    <3>1. 1 \in Int /\ Len(d) \in Int
      BY <1>1
    <3>2. IsFiniteSet(DOMAIN d)
      BY <1>1, <3>1, FS_Interval
    <3>3. QED
      BY <3>2, FS_Subset, FS_CardinalityType DEF Foreign
  <2>4. IsFiniteSet(G) /\ Cardinality(G) <= Cardinality(Foreign(p, a)) /\ Cardinality(G) \in Nat
    BY <2>2, <2>3, FS_Subset, FS_CardinalityType
  <2>5. Cardinality(Foreign(p, a)) <= MaxPending - j
    BY <2>1 DEF HandedInv
  <2> HIDE DEF G
  <2>6. j \in Int
    BY <1>1
  <2>7. Cardinality(G) <= MaxPending - j
    BY <1>1, <2>3, <2>4, <2>5, <2>6
  <2>8. QED
    BY <2>4, <2>7 DEF G
<1>5. CASE ~ (a <= Len(d))
  <2>1. \A k \in G : k > a
    BY DEF ForeignAfter
  <2>2. G = {}
    BY <1>1, <1>2, <1>5, <2>1
  <2>3. IsFiniteSet(G) /\ Cardinality(G) = 0
    BY <2>2, FS_EmptySet
  <2> HIDE DEF G
  <2>4. 0 \in Nat /\ 0 <= MaxPending - j
    BY <1>1
  <2>5. QED
    BY <2>3, <2>4 DEF G
<1>6. QED
  BY <1>4, <1>5

\* A handed id lies among the last MaxDelivered of the extended list: after it
\* come at most MaxPending - 1 foreign ids and MaxPending - 1 handed ones.
LEMMA HandedIsRecent ==
  ASSUME OutboxInv, HandedInv, NEW p \in Peers, NEW ids, IsBatch(p, ids),
         NEW a \in 1 .. Len(Extended(p, ids)),
         Extended(p, ids)[a] \in HandedAfter(p, ids)
  PROVE  Len(Extended(p, ids)) - a <= MaxDelivered - 1
<1> DEFINE s == Extended(p, ids)
           G == ForeignAfter(p, ids, a)
           After == (a + 1) .. Len(s)
           H == {k \in After : s[k] \in HandedAfter(p, ids)}
           R == Range(pending)
<1>1. /\ Len(s) \in Nat /\ a \in Nat /\ a <= Len(s)
      /\ pending \in Seq(Events) /\ Len(pending) <= MaxPending /\ Len(pending) \in Nat
      /\ MaxPending \in Nat \ {0} /\ MaxDelivered \in Nat
      /\ MaxDelivered >= 2 * MaxPending - 1
  BY ExtendedProperties, BoundsAssumption DEF OutboxInv, Typed
<1>2. HandedAfter(p, ids) \subseteq R
  BY ExtendedProperties
<1>3. PICK j \in DOMAIN pending : pending[j] = s[a]
  BY <1>2 DEF Range
<1>4. IsFiniteSet(G) /\ Cardinality(G) \in Nat /\ Cardinality(G) <= MaxPending - j
  BY <1>3, ForeignAfterBound
<1>5. j \in Nat /\ j >= 1
  BY <1>1
<1>6. IsFiniteSet(R) /\ Cardinality(R) \in Nat /\ Cardinality(R) <= Len(pending)
  BY <1>1, RangeCardinality
<1>7. /\ IsFiniteSet(R \ {s[a]}) /\ Cardinality(R \ {s[a]}) \in Nat
      /\ Cardinality(R \ {s[a]}) = Cardinality(R) - 1
  <2>1. s[a] \in R
    BY <1>2
  <2> HIDE DEF R, s
  <2>2. IsFiniteSet(R \ {s[a]})
    BY <1>6, FS_RemoveElement
  <2>3. Cardinality(R \ {s[a]}) = Cardinality(R) - 1
    BY <1>6, <2>1, FS_RemoveElement
  <2>4. QED
    BY <2>2, <2>3, FS_CardinalityType
<1>8. IsFiniteSet(H) /\ Cardinality(H) <= Cardinality(R \ {s[a]})
  <2> DEFINE f == [k \in H |-> s[k]]
  <2>1. ASSUME NEW k \in H PROVE k \in 1 .. Len(s) /\ k # a /\ s[k] \in HandedAfter(p, ids)
    BY <1>1
  <2>2. ASSUME NEW k \in H PROVE s[k] \in R \ {s[a]}
    BY <2>1, <1>2, ExtendedOnce
  <2>3. ASSUME NEW k \in H, NEW m \in H, f[k] = f[m] PROVE k = m
    BY <2>1, <2>3, ExtendedOnce
  <2>4. f \in [H -> R \ {s[a]}]
    BY <2>2
  <2> HIDE DEF f, H, R, s
  <2>5. QED
    BY <2>3, <2>4, <1>7, InjectionBound
<1>9. Cardinality(H) \in Nat
  BY <1>8, FS_CardinalityType
<1>10. After \subseteq G \cup H
  BY <1>1 DEF ForeignAfter
<1>11. Cardinality(After) = Len(s) - a
  <2>1. a + 1 \in Int /\ Len(s) \in Int
    BY <1>1
  <2>2. Cardinality(After) = IF a + 1 > Len(s) THEN 0 ELSE Len(s) - (a + 1) + 1
    BY <2>1, FS_Interval
  <2>3. QED
    BY <2>2, <1>1
<1>12. Cardinality(After) <= Cardinality(G) + Cardinality(H)
  <2> HIDE DEF After, G, H
  <2>1. /\ IsFiniteSet(G \cup H)
        /\ Cardinality(G \cup H) = Cardinality(G) + Cardinality(H) - Cardinality(G \cap H)
    BY <1>4, <1>8, FS_Union
  <2>2. Cardinality(G \cap H) \in Nat
    <3>1. IsFiniteSet(G \cap H)
      BY <1>4, FS_Subset
    <3>2. QED
      BY <3>1, FS_CardinalityType
  <2>3. Cardinality(G \cup H) <= Cardinality(G) + Cardinality(H)
    BY <2>1, <2>2, <1>4, <1>9
  <2>4. /\ Cardinality(After) <= Cardinality(G \cup H)
        /\ Cardinality(After) \in Nat /\ Cardinality(G \cup H) \in Nat
    BY <2>1, <1>10, FS_Subset, FS_CardinalityType
  <2>5. QED
    BY <2>3, <2>4, <1>4, <1>9
<1> HIDE DEF s, G, After, H, R
<1>13. QED
  BY <1>1, <1>4, <1>5, <1>6, <1>7, <1>8, <1>9, <1>11, <1>12 DEF s

\* Emission to p: the cap drops only ids that are no longer handed ones.
LEMMA MarkKeepsHanded ==
  ASSUME OutboxInv, HandedInv, NEW p \in Peers, NEW ids, EmissionOf(p, ids)
  PROVE  HandedInv'
<1> DEFINE s == Extended(p, ids)
           D == IF Len(s) > MaxDelivered THEN Len(s) - MaxDelivered ELSE 0
<1>1. /\ IsBatch(p, ids) /\ pending' = pending
      /\ delivered' = [delivered EXCEPT ![p] = KeepNewest(s)]
      /\ handed' = [handed EXCEPT ![p] = HandedAfter(p, ids)]
  BY DEF EmissionOf, MarkDelivered, Extended, HandedAfter
<1>2. /\ delivered'[p] = KeepNewest(s) /\ handed'[p] = HandedAfter(p, ids)
      /\ \A q \in Peers \ {p} : delivered'[q] = delivered[q] /\ handed'[q] = handed[q]
  BY <1>1 DEF OutboxInv, Typed
<1>3. s \in Seq(Events) /\ Len(s) \in Nat /\ D \in Nat /\ MaxDelivered \in Nat
  BY <1>1, ExtendedProperties, BoundsAssumption
<1>4. /\ KeepNewest(s) \in Seq(Events) /\ DOMAIN KeepNewest(s) = 1 .. Len(s) - D
      /\ \A k \in 1 .. Len(s) - D : KeepNewest(s)[k] = s[k + D] /\ k + D \in 1 .. Len(s)
  BY <1>3, KeepNewestProperties
<1>5. handed'[p] \subseteq Range(pending) \cap Range(delivered'[p])
  <2>1. ASSUME NEW x \in HandedAfter(p, ids) PROVE x \in Range(KeepNewest(s))
    <3>1. PICK a \in 1 .. Len(s) : s[a] = x
      BY <1>1, ExtendedProperties
    <3>2. Len(s) - a <= MaxDelivered - 1
      BY <1>1, <3>1, HandedIsRecent
    <3>3. a - D \in 1 .. Len(s) - D /\ (a - D) + D = a
      BY <1>3, <3>2
    <3>4. QED
      BY <1>4, <3>1, <3>3 DEF Range
  <2>2. QED
    BY <1>1, <1>2, <2>1, ExtendedProperties
<1>6. HandedStaysMarked'
  BY <1>1, <1>2, <1>5 DEF HandedInv, HandedStaysMarked
<1>7. ASSUME NEW a \in DOMAIN delivered'[p], NEW b \in DOMAIN delivered'[p],
             delivered'[p][a] \in handed'[p], delivered'[p][a] = delivered'[p][b]
      PROVE  a = b
  <2>1. a \in 1 .. Len(s) - D /\ b \in 1 .. Len(s) - D
    BY <1>2, <1>4
  <2>2. /\ a + D \in 1 .. Len(s) /\ b + D \in 1 .. Len(s)
        /\ s[a + D] \in HandedAfter(p, ids) /\ s[a + D] = s[b + D]
    BY <2>1, <1>2, <1>4, <1>7
  <2> HIDE DEF D
  <2>3. a + D = b + D
    BY <1>1, <2>2, ExtendedOnce
  <2>4. a \in Nat /\ b \in Nat
    BY <2>1, <1>3
  <2>5. QED
    BY <2>3, <2>4, <1>3
<1>8. ASSUME NEW j \in DOMAIN pending, NEW a \in DOMAIN delivered'[p],
             pending[j] \in handed'[p], delivered'[p][a] = pending[j]
      PROVE  Cardinality(Foreign(p, a)') <= MaxPending - j
  <2> DEFINE F == Foreign(p, a)'
             G == ForeignAfter(p, ids, a + D)
             f == [k \in F |-> k + D]
  <2>1. a \in 1 .. Len(s) - D /\ a + D \in 1 .. Len(s) /\ s[a + D] = pending[j]
    BY <1>2, <1>4, <1>8
  <2>2. IsFiniteSet(G) /\ Cardinality(G) \in Nat /\ Cardinality(G) <= MaxPending - j
    BY <1>1, <1>2, <1>8, <2>1, ForeignAfterBound
  <2>3. ASSUME NEW k \in F PROVE k \in Nat /\ k + D \in G
    <3>1. k \in 1 .. Len(s) - D /\ k > a /\ KeepNewest(s)[k] \notin HandedAfter(p, ids)
      BY <1>2, <1>4 DEF Foreign
    <3>2. k + D > a + D /\ k + D \in 1 .. Len(s) /\ s[k + D] \notin HandedAfter(p, ids)
      BY <1>3, <1>4, <2>1, <3>1
    <3>3. QED
      BY <3>1, <3>2, <1>3 DEF ForeignAfter
  <2>4. f \in [F -> G]
    BY <2>3
  <2>5. \A k, m \in F : f[k] = f[m] => k = m
    BY <2>3, <1>3
  <2> HIDE DEF f, F, G
  <2>6. IsFiniteSet(F) /\ Cardinality(F) <= Cardinality(G)
    BY <2>2, <2>4, <2>5, InjectionBound
  <2>7. Cardinality(F) \in Nat
    BY <2>6, FS_CardinalityType
  <2>8. j \in Nat /\ MaxPending \in Nat
    BY BoundsAssumption DEF OutboxInv, Typed
  <2>9. Cardinality(F) <= MaxPending - j
    BY <2>2, <2>6, <2>7, <2>8
  <2>10. QED
    BY <2>9 DEF F
<1>9. ASSUME NEW q \in Peers \ {p}
      PROVE  /\ \A a, b \in DOMAIN delivered'[q] :
                  delivered'[q][a] \in handed'[q] /\ delivered'[q][a] = delivered'[q][b] => a = b
             /\ \A j \in DOMAIN pending', a \in DOMAIN delivered'[q] :
                  pending'[j] \in handed'[q] /\ delivered'[q][a] = pending'[j]
                    => Cardinality(Foreign(q, a)') <= MaxPending - j
  <2>1. \A a : Foreign(q, a)' = Foreign(q, a)
    BY <1>2 DEF Foreign
  <2>2. QED
    BY <1>1, <1>2, <2>1 DEF HandedInv
<1>10. QED
  BY <1>1, <1>6, <1>7, <1>8, <1>9 DEF HandedInv

LEMMA HandedInit == GossipInit => HandedInv
BY DEF GossipInit, HandedInv, HandedStaysMarked

LEMMA HandedStep == OutboxInv /\ HandedInv /\ [GossipNext]_gossipVars => HandedInv'
<1> SUFFICES ASSUME OutboxInv, HandedInv, [GossipNext]_gossipVars PROVE HandedInv'
  OBVIOUS
<1>1. ASSUME NEW e \in Events, Insert(e) PROVE HandedInv'
  BY <1>1, InsertKeepsHanded
<1>2. ASSUME NEW p \in Peers,
             GetPendingForPeer(p) \/ TakeHealBatch(p) \/ FlushBatch(p)
      PROVE  HandedInv'
  <2>1. PICK ids : EmissionOf(p, ids)
    BY <1>2, EmissionIsMark DEF OutboxInv
  <2>2. QED
    BY <2>1, MarkKeepsHanded
<1>3. CASE UNCHANGED gossipVars
  BY <1>3 DEF gossipVars, HandedInv, HandedStaysMarked, Foreign
<1>4. QED
  BY <1>1, <1>2, <1>3 DEF GossipNext

\* No event is selected twice for a peer while it stays in the outbox, whatever
\* the number of peers and events, for every choice of the bounds that satisfies
\* BoundsAssumption (the code's 1000 and 2000 do).
THEOREM HandedNeverRepeated == GossipSpec => []HandedStaysMarked
<1>1. OutboxInv /\ HandedInv /\ [GossipNext]_gossipVars => (OutboxInv /\ HandedInv)'
  BY OutboxStep, HandedStep
<1>2. HandedInv => HandedStaysMarked
  BY DEF HandedInv
<1>3. QED
  BY OutboxInit, HandedInit, <1>1, <1>2, PTL DEF GossipSpec

=============================================================================
