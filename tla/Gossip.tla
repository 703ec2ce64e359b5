------------------------------- MODULE Gossip -------------------------------
(***************************************************************************)
(* The gossip state of one node (GossipProtocol, protocol/mod.rs): the set *)
(* of known event ids, the FIFO outbox of events to relay, and for every   *)
(* peer the bounded list of ids already handed to it.  An event is its id: *)
(* ids are content hashes and validation (signature, proof of work) has    *)
(* accepted the event before any of the actions below, so a refused event  *)
(* changes nothing here.                                                   *)
(*                                                                         *)
(* Three bounds interact: an event may leave the outbox, then the known    *)
(* set, then come back while a peer's list still remembers it.             *)
(***************************************************************************)
EXTENDS Naturals, Sequences, FiniteSets, Functions

CONSTANTS
  Events,        \* event ids
  Peers,         \* peer ids
  MaxKnown,      \* MAX_KNOWN_EVENTS
  MaxPending,    \* MAX_PENDING_BROADCASTS
  MaxDelivered,  \* MAX_DELIVERED_PER_PEER
  HealBatch,     \* HEAL_BATCH_MAX_EVENTS, batch of the catch-up after a partition
  PumpBatch      \* PUMP_BATCH_MAX_EVENTS, batch of the TCP pump

\* The relations between the bounds that the code's values (10000, 1000,
\* 2000, 32, 64) satisfy and that the properties rest on.
ASSUME BoundsAssumption ==
  /\ MaxPending \in Nat \ {0}
  /\ MaxKnown \in Nat /\ MaxKnown >= MaxPending
  /\ MaxDelivered \in Nat /\ MaxDelivered >= 2 * MaxPending - 1
  /\ HealBatch \in Nat \ {0}
  /\ PumpBatch \in Nat \ {0}

VARIABLES
  known,      \* known_events: set of ids
  pending,    \* pending_broadcasts: the outbox, oldest first
  delivered,  \* delivered: for each peer the ids marked as handed, oldest first
  handed      \* history: for each peer the ids handed since they entered the outbox

gossipVars == <<known, pending, delivered, handed>>

-----------------------------------------------------------------------------
(* Selection and marking *)

\* Position i counted from 0 among the positions of S.
Rank(i, S) == Cardinality({j \in S : j < i})

\* The positions of the outbox whose event is not marked for peer p.
Unmarked(p) == {i \in DOMAIN pending : pending[i] \notin Range(delivered[p])}

\* The first max unmarked positions: the loop stops at the max-th hit.
Selected(p, max) == {i \in Unmarked(p) : Rank(i, Unmarked(p)) < max}

\* The events of a set of outbox positions, in outbox order.
EventsAt(S) ==
  [k \in 1..Cardinality(S) |-> pending[CHOOSE i \in S : Rank(i, S) = k - 1]]

\* peek_pending_for_peer: at most max unmarked events, oldest first.
Peek(p, max) == EventsAt(Selected(p, max))

\* Slips in the list of marks: the cap tested one place too early; a full list
\* that refuses new ids instead of dropping old ones.
KeepNewestEarly(s) ==
  SubSeq(s, IF Len(s) >= MaxDelivered THEN Len(s) - MaxDelivered + 2 ELSE 1, Len(s))
KeepOldest(s) ==
  SubSeq(s, 1, IF Len(s) > MaxDelivered THEN MaxDelivered ELSE Len(s))

\* Pushing the ids one by one on a list that drops its oldest entry when full
\* leaves the newest MaxDelivered of both.
KeepNewest(s) ==
  SubSeq(s, IF Len(s) > MaxDelivered THEN Len(s) - MaxDelivered + 1 ELSE 1, Len(s))

\* mark_delivered_to_peer, with the history of what p was handed.
MarkDelivered(p, ids) ==
  /\ delivered' = [delivered EXCEPT ![p] = KeepNewest(@ \o ids)]
  /\ handed' = [handed EXCEPT ![p] = @ \cup Range(ids)]

-----------------------------------------------------------------------------
(* Insertion *)

\* Slip: the outbox cap tested with > instead of >=.
PushedLate(e) == Append(IF Len(pending) > MaxPending THEN Tail(pending) ELSE pending, e)

\* The outbox after event e is pushed, the oldest event leaving a full one.
Pushed(e) == Append(IF Len(pending) >= MaxPending THEN Tail(pending) ELSE pending, e)

\* Slips: the outbox is not spared; one id too few is removed.
AfterExpiryAny(ids, outbox) ==
  IF Cardinality(ids) <= MaxKnown THEN {ids}
  ELSE {X \in SUBSET ids : Cardinality(X) = MaxKnown}
AfterExpiryShort(ids, outbox) ==
  IF Cardinality(ids) <= MaxKnown + 1 THEN {ids}
  ELSE {ids \ {x} : x \in ids \ outbox}

\* expire_old_known: once over the cap, ids outside the outbox are removed in
\* the arbitrary order of the hash set until the cap holds again or none is left.
AfterExpiry(ids, outbox) ==
  IF Cardinality(ids) <= MaxKnown
  THEN {ids}
  ELSE LET excess    == Cardinality(ids) - MaxKnown
           evictable == ids \ outbox
       IN  IF Cardinality(evictable) <= excess
           THEN {ids \ evictable}
           ELSE {ids \ X : X \in {Y \in SUBSET evictable : Cardinality(Y) = excess}}

\* insert_new, reached from add_event, add_event_with_reputation and
\* receive_event; a known id is refused and leaves the state as it is.
Insert(e) ==
  /\ e \notin known
  /\ pending' = Pushed(e)
  /\ known' \in AfterExpiry(known \cup {e}, Range(pending'))
  /\ handed' = [p \in Peers |-> handed[p] \cap (Range(pending') \ {e})]
  /\ UNCHANGED delivered

-----------------------------------------------------------------------------
(* Emission *)

\* get_pending_for_peer and its wire variant: the whole unmarked outbox is
\* handed over and marked.
GetPendingForPeer(p) ==
  /\ Unmarked(p) # {}
  /\ MarkDelivered(p, Peek(p, Len(pending)))
  /\ UNCHANGED <<known, pending>>

\* Node::take_heal_batch: one bounded batch, marked once selected.
TakeHealBatch(p) ==
  /\ Unmarked(p) # {}
  /\ MarkDelivered(p, Peek(p, HealBatch))
  /\ UNCHANGED <<known, pending>>

\* flush_outbound for one peer: the frames accepted by the transport before
\* the first refusal are marked, so a prefix of the batch.
FlushBatch(p) ==
  /\ Unmarked(p) # {}
  /\ \E n \in 1..Len(Peek(p, PumpBatch)) :
       MarkDelivered(p, SubSeq(Peek(p, PumpBatch), 1, n))
  /\ UNCHANGED <<known, pending>>

-----------------------------------------------------------------------------
\* GossipProtocol::new
GossipInit ==
  /\ known = {}
  /\ pending = <<>>
  /\ delivered = [p \in Peers |-> <<>>]
  /\ handed = [p \in Peers |-> {}]

GossipNext ==
  \/ \E e \in Events : Insert(e)
  \/ \E p \in Peers : GetPendingForPeer(p) \/ TakeHealBatch(p) \/ FlushBatch(p)

GossipSpec == GossipInit /\ [][GossipNext]_gossipVars

-----------------------------------------------------------------------------
(* Properties *)

\* Types of the variables.  The two lists stay within the caps that audit M3
\* gave them: the outbox and, for every peer, the ids it was handed.
Typed ==
  /\ known \subseteq Events
  /\ pending \in Seq(Events)
  /\ Len(pending) <= MaxPending
  /\ delivered \in [Peers -> Seq(Events)]
  /\ \A p \in Peers : Len(delivered[p]) <= MaxDelivered
  /\ handed \in [Peers -> SUBSET Events]

\* The known set stays within its cap although expire_old_known spares the
\* outbox: it always finds enough other ids to remove.
KnownBounded == IsFiniteSet(known) /\ Cardinality(known) <= MaxKnown

\* Types, and every structure of the gossip within the cap the code gives it.
TypeOK == Typed /\ KnownBounded

\* An event waiting in the outbox is known, so a copy received from a peer is
\* recognised as a duplicate and the outbox never holds an event twice.
OutboxKnown ==
  /\ Range(pending) \subseteq known
  /\ \A i, j \in DOMAIN pending : pending[i] = pending[j] => i = j

\* An event handed to a peer stays marked for it as long as it stays in the
\* outbox, whatever was re-admitted, evicted or marked meanwhile: no selection
\* hands it to that peer a second time during its stay.
HandedStaysMarked ==
  \A p \in Peers : handed[p] \subseteq Range(pending) \cap Range(delivered[p])

\* Why that holds.  An event handed to p occurs once in p's list, and the ids
\* marked after it are either handed ones, at most MaxPending - 1 of them, or
\* have left the outbox since: when the event is j-th in the outbox at most
\* MaxPending - j of those.  With 2 * MaxPending - 1 places it is never dropped.
Foreign(p, a) ==
  {k \in DOMAIN delivered[p] : k > a /\ delivered[p][k] \notin handed[p]}

HandedInv ==
  /\ HandedStaysMarked
  /\ \A p \in Peers : \A a, b \in DOMAIN delivered[p] :
       delivered[p][a] \in handed[p] /\ delivered[p][a] = delivered[p][b] => a = b
  /\ \A p \in Peers : \A j \in DOMAIN pending, a \in DOMAIN delivered[p] :
       pending[j] \in handed[p] /\ delivered[p][a] = pending[j]
         => Cardinality(Foreign(p, a)) <= MaxPending - j

\* Nothing in the outbox is left to hand to p.
CaughtUp(p) == Unmarked(p) = {}
=============================================================================
