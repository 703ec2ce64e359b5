----------------------------- MODULE LinkProofs -----------------------------
(* Proofs about TcpLink: the stepwise pump implements the atomic emissions   *)
(* of Gossip, the queues keep their bounds, no marked event disappears and   *)
(* no frame is ever in two places.                                           *)
EXTENDS TcpLink, GossipProofs

\* Between two steps of a flush, the frames accepted so far are a prefix of the
\* batch that peek_pending_for_peer would still return, and those left to queue
\* are the rest of it, unless a refusal ended the batch.
FlushInv ==
  flush # NoFlush =>
    LET batch == Peek(flush.peer, PumpBatch) IN
      /\ flush.peer \in Peers
      /\ Unmarked(flush.peer) # {}
      /\ \E n \in 0 .. Len(batch) :
           /\ flush.accepted = SubSeq(batch, 1, n)
           /\ flush.todo = <<>> \/ flush.todo = SubSeq(batch, n + 1, Len(batch))

\* A connection that has not been made has no writer.
UnmadeIdle ==
  \A p \in Peers, c \in Connections : c > conns[p] => writer[p][c] = "none"

\* The accepted frames that are about to be marked are accounted for.
AcceptedIsSomewhere ==
  flush # NoFlush => Range(flush.accepted) \subseteq Somewhere(flush.peer)

LinkInv ==
  /\ Typed /\ LinkTypeOK /\ UnmadeIdle /\ FlushInv
  /\ MarkedIsSomewhere /\ AcceptedIsSomewhere

-----------------------------------------------------------------------------
(* Bounded queues *)

\* A sequence without its first d elements.
LEMMA SuffixProperties ==
  ASSUME NEW q \in Seq(Events), NEW d \in 0 .. Len(q)
  PROVE  /\ SubSeq(q, d + 1, Len(q)) \in Seq(Events)
         /\ Len(SubSeq(q, d + 1, Len(q))) = Len(q) - d
         /\ \A k \in 1 .. Len(q) - d : SubSeq(q, d + 1, Len(q))[k] = q[k + d]
<1>1. Len(q) \in Nat /\ d \in Nat /\ d <= Len(q)
  OBVIOUS
<1>2. d + 1 \in Int /\ Len(q) \in Int
  BY <1>1
<1>3. \A i \in d + 1 .. Len(q) : q[i] \in Events
  BY <1>1
<1>4. /\ SubSeq(q, d + 1, Len(q)) \in Seq(Events)
      /\ Len(SubSeq(q, d + 1, Len(q)))
           = IF d + 1 <= Len(q) THEN Len(q) - (d + 1) + 1 ELSE 0
      /\ \A k \in 1 .. Len(q) - (d + 1) + 1 : SubSeq(q, d + 1, Len(q))[k] = q[d + 1 + k - 1]
  BY <1>2, <1>3, SubSeqProperties
<1>5. Len(q) - (d + 1) + 1 = Len(q) - d
  BY <1>1
<1>6. \A k \in 1 .. Len(q) - d : d + 1 + k - 1 = k + d
  BY <1>1
<1>7. Len(SubSeq(q, d + 1, Len(q))) = Len(q) - d
  BY <1>4, <1>1
<1>8. QED
  BY <1>4, <1>5, <1>6, <1>7

\* A frame enters a queue at its tail; its drop oldest frames are evicted.
LEMMA EnqueuedShape ==
  ASSUME NEW q \in Seq(Events), NEW e \in Events
  PROVE  \E drop \in 0 .. Len(q) :
           /\ Enqueued(q, e) \in Seq(Events)
           /\ Len(Enqueued(q, e)) = Len(q) - drop + 1
           /\ Len(Enqueued(q, e)) = IF Len(q) >= Capacity THEN Capacity ELSE Len(q) + 1
           /\ \A k \in 1 .. Len(q) - drop : Enqueued(q, e)[k] = q[k + drop]
           /\ Enqueued(q, e)[Len(q) - drop + 1] = e
           /\ Evicted(q) = {q[i] : i \in 1 .. drop}
<1> DEFINE drop == IF Len(q) >= Capacity THEN Len(q) + 1 - Capacity ELSE 0
           kept == SubSeq(q, drop + 1, Len(q))
<1>1. Len(q) \in Nat /\ Capacity \in Nat \ {0} /\ DOMAIN q = 1 .. Len(q)
  BY LinkAssumption
<1>2. drop \in 0 .. Len(q)
  BY <1>1
<1>3. /\ kept \in Seq(Events)
      /\ Len(kept) = Len(q) - drop
      /\ \A k \in 1 .. Len(q) - drop : kept[k] = q[k + drop]
  <2> HIDE DEF drop
  <2>1. QED
    BY <1>2, SuffixProperties
<1>4. Enqueued(q, e) = Append(kept, e)
  <2>1. CASE Len(q) >= Capacity
    <3>1. drop + 1 = Len(q) + 2 - Capacity
      BY <2>1, <1>1
    <3>2. QED
      BY <2>1, <3>1 DEF Enqueued
  <2>2. CASE ~(Len(q) >= Capacity)
    <3>1. kept = q
      BY <2>2, <1>3, <1>1
    <3>2. QED
      BY <2>2, <3>1 DEF Enqueued
  <2>3. QED
    BY <2>1, <2>2
<1>5. /\ Enqueued(q, e) \in Seq(Events)
      /\ Len(Enqueued(q, e)) = Len(q) - drop + 1
      /\ \A k \in 1 .. Len(q) - drop : Enqueued(q, e)[k] = q[k + drop]
      /\ Enqueued(q, e)[Len(q) - drop + 1] = e
  <2> HIDE DEF kept, drop
  <2>1. QED
    BY <1>1, <1>2, <1>3, <1>4
<1>6. Len(Enqueued(q, e)) = IF Len(q) >= Capacity THEN Capacity ELSE Len(q) + 1
  BY <1>1, <1>5
<1>7. Evicted(q) = {q[i] : i \in 1 .. drop}
  <2>1. \A i \in DOMAIN q : i <= Len(q) + 1 - Capacity <=> i \in 1 .. drop
    BY <1>1
  <2>2. 1 .. drop \subseteq DOMAIN q
    BY <1>1, <1>2
  <2> HIDE DEF drop
  <2>3. QED
    BY <2>1, <2>2 DEF Evicted
<1>8. QED
  <2> HIDE DEF drop
  <2>1. QED
    BY <1>2, <1>5, <1>6, <1>7

\* What leaves the queue is evicted, and nothing else.
LEMMA EnqueuedContents ==
  ASSUME NEW q \in Seq(Events), NEW e \in Events
  PROVE  /\ Enqueued(q, e) \in Seq(Events)
         /\ Len(Enqueued(q, e)) = IF Len(q) >= Capacity THEN Capacity ELSE Len(q) + 1
         /\ Evicted(q) \subseteq Events /\ Evicted(q) \subseteq Range(q)
         /\ Evicted(q) \cup Range(Enqueued(q, e)) = Range(q) \cup {e}
<1>1. PICK drop \in 0 .. Len(q) :
        /\ Enqueued(q, e) \in Seq(Events)
        /\ Len(Enqueued(q, e)) = Len(q) - drop + 1
        /\ Len(Enqueued(q, e)) = IF Len(q) >= Capacity THEN Capacity ELSE Len(q) + 1
        /\ \A k \in 1 .. Len(q) - drop : Enqueued(q, e)[k] = q[k + drop]
        /\ Enqueued(q, e)[Len(q) - drop + 1] = e
        /\ Evicted(q) = {q[i] : i \in 1 .. drop}
  BY EnqueuedShape
<1>2. /\ Len(q) \in Nat /\ DOMAIN q = 1 .. Len(q) /\ \A i \in 1 .. Len(q) : q[i] \in Events
      /\ DOMAIN Enqueued(q, e) = 1 .. Len(q) - drop + 1
  BY <1>1
<1>3. Evicted(q) \subseteq Events /\ Evicted(q) \subseteq Range(q)
  <2>1. \A i \in 1 .. drop : i \in DOMAIN q
    BY <1>2
  <2>2. QED
    BY <1>1, <1>2, <2>1 DEF Range
<1>4. ASSUME NEW i \in DOMAIN q
      PROVE  q[i] \in Evicted(q) \cup Range(Enqueued(q, e))
  <2>1. CASE i <= drop
    BY <1>1, <1>2, <2>1
  <2>2. CASE ~(i <= drop)
    <3>1. i - drop \in 1 .. Len(q) - drop /\ (i - drop) + drop = i
      BY <2>2, <1>2
    <3>2. Enqueued(q, e)[i - drop] = q[i] /\ i - drop \in DOMAIN Enqueued(q, e)
      BY <3>1, <1>1, <1>2
    <3>3. QED
      BY <3>2 DEF Range
  <2>3. QED
    BY <2>1, <2>2
<1>5. e \in Range(Enqueued(q, e))
  <2>1. Len(q) - drop + 1 \in DOMAIN Enqueued(q, e)
    BY <1>2
  <2>2. QED
    BY <2>1, <1>1 DEF Range
<1>6. ASSUME NEW k \in DOMAIN Enqueued(q, e)
      PROVE  Enqueued(q, e)[k] \in Range(q) \cup {e}
  <2>1. CASE k = Len(q) - drop + 1
    BY <1>1, <2>1
  <2>2. CASE k # Len(q) - drop + 1
    <3>1. k \in 1 .. Len(q) - drop /\ k + drop \in DOMAIN q
      BY <1>2, <2>2
    <3>2. QED
      BY <1>1, <3>1 DEF Range
  <2>3. QED
    BY <2>1, <2>2
<1>7. QED
  <2>1. Range(q) \subseteq Evicted(q) \cup Range(Enqueued(q, e))
    BY <1>4 DEF Range
  <2>2. Range(Enqueued(q, e)) \subseteq Range(q) \cup {e}
    BY <1>6 DEF Range
  <2>3. QED
    BY <2>1, <2>2, <1>1, <1>3, <1>5

\* Taking the head of a queue.
LEMMA TailContents ==
  ASSUME NEW q \in Seq(Events), q # <<>>
  PROVE  /\ Head(q) \in Events /\ Tail(q) \in Seq(Events)
         /\ Len(Tail(q)) = Len(q) - 1
         /\ Range(q) \subseteq {Head(q)} \cup Range(Tail(q))
<1>1. /\ Len(q) \in Nat \ {0} /\ DOMAIN q = 1 .. Len(q)
      /\ Head(q) = q[1] /\ Head(q) \in Events
      /\ Tail(q) \in Seq(Events) /\ Len(Tail(q)) = Len(q) - 1
      /\ \A k \in 1 .. Len(q) - 1 : Tail(q)[k] = q[k + 1]
  OBVIOUS
<1>2. ASSUME NEW i \in DOMAIN q, i # 1
      PROVE  q[i] \in Range(Tail(q))
  <2>1. i - 1 \in 1 .. Len(q) - 1 /\ (i - 1) + 1 = i
    BY <1>1, <1>2
  <2>2. i - 1 \in DOMAIN Tail(q) /\ Tail(q)[i - 1] = q[i]
    BY <1>1, <2>1
  <2>3. QED
    BY <2>2 DEF Range
<1>3. QED
  BY <1>1, <1>2 DEF Range

\* Putting a frame at the tail or back at the head of a queue.
LEMMA ExtendedContents ==
  ASSUME NEW q \in Seq(Events), NEW e \in Events
  PROVE  /\ Append(q, e) \in Seq(Events)
         /\ Range(Append(q, e)) = Range(q) \cup {e}
         /\ <<e>> \o q \in Seq(Events)
         /\ Len(<<e>> \o q) = Len(q) + 1
         /\ Range(q) \cup {e} \subseteq Range(<<e>> \o q)
<1>1. Len(q) \in Nat /\ DOMAIN q = 1 .. Len(q)
  OBVIOUS
<1>2. /\ Append(q, e) \in Seq(Events)
      /\ DOMAIN Append(q, e) = 1 .. Len(q) + 1
      /\ Append(q, e)[Len(q) + 1] = e
      /\ \A k \in 1 .. Len(q) : Append(q, e)[k] = q[k]
  OBVIOUS
<1>3. Range(Append(q, e)) = Range(q) \cup {e}
  <2>0. ASSUME NEW i \in DOMAIN Append(q, e) PROVE Append(q, e)[i] \in Range(q) \cup {e}
    BY <1>1, <1>2 DEF Range
  <2>1. ASSUME NEW i \in DOMAIN q PROVE q[i] \in Range(Append(q, e))
    BY <1>1, <1>2 DEF Range
  <2>2. e \in Range(Append(q, e))
    BY <1>1, <1>2 DEF Range
  <2>3. QED
    BY <2>0, <2>1, <2>2 DEF Range
<1>4. /\ <<e>> \o q \in Seq(Events)
      /\ Len(<<e>> \o q) = Len(q) + 1
      /\ (<<e>> \o q)[1] = e
      /\ \A k \in 1 .. Len(q) : (<<e>> \o q)[k + 1] = q[k]
  <2>1. <<e>> \in Seq(Events) /\ Len(<<e>>) = 1
    OBVIOUS
  <2>2. QED
    BY <1>1, <2>1, ConcatProperties
<1>5. Range(q) \cup {e} \subseteq Range(<<e>> \o q)
  <2>0. DOMAIN (<<e>> \o q) = 1 .. Len(q) + 1
    BY <1>1, <1>4
  <2>1. ASSUME NEW i \in DOMAIN q PROVE q[i] \in Range(<<e>> \o q)
    <3>1. i + 1 \in DOMAIN (<<e>> \o q) /\ (<<e>> \o q)[i + 1] = q[i]
      BY <1>1, <1>4, <2>0
    <3>2. QED
      BY <3>1 DEF Range
  <2>2. e \in Range(<<e>> \o q)
    <3>1. 1 \in DOMAIN (<<e>> \o q)
      BY <1>1, <2>0
    <3>2. QED
      BY <3>1, <1>4 DEF Range
  <2>3. QED
    BY <2>1, <2>2 DEF Range
<1>6. QED
  BY <1>2, <1>3, <1>4, <1>5

-----------------------------------------------------------------------------
(* The stepwise pump implements the atomic emission *)

\* Nothing is lost from a list of marks that is within its cap.
LEMMA MarkNothing ==
  ASSUME Typed, NEW p \in Peers, MarkDelivered(p, <<>>)
  PROVE  UNCHANGED <<delivered, handed>>
<1> DEFINE d == delivered[p]
<1>1. d \in Seq(Events) /\ Len(d) \in Nat /\ Len(d) <= MaxDelivered
  BY DEF Typed
<1>2. d \o <<>> = d
  BY <1>1
<1>3. MaxDelivered \in Nat
  BY BoundsAssumption
<1>4. KeepNewest(d) = SubSeq(d, 1, Len(d))
  <2>1. ~ (Len(d) > MaxDelivered)
    BY <1>1, <1>3
  <2>2. QED
    BY <2>1 DEF KeepNewest
<1>5. SubSeq(d, 1, Len(d)) = d
  <2> HIDE DEF d
  <2>1. QED
    BY <1>1
<1>6. Range(<<>>) = {}
  BY DEF Range
<1>7. delivered' = delivered
  BY <1>2, <1>4, <1>5 DEF MarkDelivered, Typed
<1>8. handed' = handed
  BY <1>6 DEF MarkDelivered, Typed
<1>9. QED
  BY <1>7, <1>8

\* A flush under way is not the absence of one.
LEMMA FlushHasPeer ==
  ASSUME NEW p \in Peers, flush.peer = p
  PROVE  flush # NoFlush
BY NamesAssumption DEF NoFlush

\* The batch of the pump is a sequence of events.
LEMMA PumpBatchType ==
  ASSUME Typed, NEW p \in Peers
  PROVE  /\ Peek(p, PumpBatch) \in Seq(Events)
         /\ Len(Peek(p, PumpBatch)) \in Nat
<1>1. PumpBatch \in Nat
  BY BoundsAssumption
<1>2. Peek(p, PumpBatch) \in Seq(Events)
  BY <1>1, PeekIsBatch DEF IsBatch
<1>3. QED
  BY <1>2

\* What the end of a flush marks: a prefix of the batch, or nothing.
LEMMA FlushEndIsBatch ==
  ASSUME Typed, FlushInv, NEW p \in Peers, FlushEnd(p)
  PROVE  FlushBatch(p) \/ UNCHANGED gossipVars
<1> DEFINE batch == Peek(p, PumpBatch)
<1>1. batch \in Seq(Events) /\ Len(batch) \in Nat
  BY PumpBatchType
<1>2. /\ flush.peer = p /\ MarkDelivered(p, flush.accepted)
      /\ UNCHANGED <<known, pending>>
  BY DEF FlushEnd
<1>3. /\ Unmarked(p) # {}
      /\ \E n \in 0 .. Len(batch) : flush.accepted = SubSeq(batch, 1, n)
  BY <1>2, FlushHasPeer DEF FlushInv
<1>4. PICK n \in 0 .. Len(batch) : flush.accepted = SubSeq(batch, 1, n)
  BY <1>3
<1>5. CASE n = 0
  <2>1. flush.accepted = <<>>
    <3> HIDE DEF batch
    <3>1. QED
      BY <1>1, <1>4, <1>5
  <2>2. QED
    BY <1>2, <2>1, MarkNothing DEF gossipVars
<1>6. CASE n # 0
  <2>1. n \in 1 .. Len(batch)
    BY <1>1, <1>6
  <2>2. QED
    BY <1>2, <1>3, <1>4, <2>1 DEF FlushBatch
<1>7. QED
  BY <1>5, <1>6

\* Every step of the node and of its connections is a step of the gossip state
\* or leaves it as it is.
LEMMA StepImplements ==
  ASSUME Typed, FlushInv, [LinkNext]_linkVars
  PROVE  [GossipNext]_gossipVars
<1>1. ASSUME NEW e \in Events, Publish(e)
      PROVE  GossipNext
  BY <1>1 DEF Publish, GossipNext
<1>2. ASSUME NEW p \in Peers, FlushEnd(p)
      PROVE  GossipNext \/ UNCHANGED gossipVars
  BY <1>2, FlushEndIsBatch DEF GossipNext
<1>3. ASSUME NEW p \in Peers, FlushBegin(p) \/ FlushFrame(p)
      PROVE  UNCHANGED gossipVars
  BY <1>3 DEF FlushBegin, FlushFrame, FlushFrameThen
<1>4. ASSUME NEW p \in Peers, Client(p) \/ ProcessInbound(p)
      PROVE  UNCHANGED gossipVars
  BY <1>4 DEF Client, Connect, ReaderEnds, ReaderReturns, ClientEnds, ProcessInbound, pumpVars
<1>5. ASSUME NEW p \in Peers, NEW c \in Connections, Writer(p, c)
      PROVE  UNCHANGED gossipVars
  BY <1>5 DEF Writer, WriterPop, WriterTakes, WriterSend, WriterFail, WriterFails, WriterEnds, pumpVars
<1>6. ASSUME NEW p \in Peers, NEW c \in Connections, Remote(p, c)
      PROVE  UNCHANGED gossipVars
  BY <1>6 DEF Remote, Cut, WireLost, Receive, pumpVars
<1>7. CASE Stop
  BY <1>7 DEF Stop, pumpVars
<1>8. CASE UNCHANGED linkVars
  BY <1>8 DEF linkVars
<1>9. QED
  BY <1>1, <1>2, <1>3, <1>4, <1>5, <1>6, <1>7, <1>8 DEF LinkNext, Pump

-----------------------------------------------------------------------------
(* The progress of a flush *)

LEMMA FlushInit == LinkInit => FlushInv
BY DEF LinkInit, FlushInv

\* The batch depends on the outbox and on the marks only.
LEMMA PeekUnchanged ==
  ASSUME UNCHANGED gossipVars, NEW p \in Peers
  PROVE  Peek(p, PumpBatch)' = Peek(p, PumpBatch) /\ Unmarked(p)' = Unmarked(p)
BY DEF gossipVars, Peek, EventsAt, Selected, Unmarked

LEMMA FlushFrameProgress ==
  ASSUME Typed, FlushInv, NEW p \in Peers, FlushFrame(p), flush \in [peer : Peers \cup {"none"}, todo : Seq(Events), accepted : Seq(Events)]
  PROVE  FlushInv'
<1> DEFINE batch == Peek(p, PumpBatch)
           L == Len(batch)
<1>1. batch \in Seq(Events) /\ L \in Nat
  BY PumpBatchType
<1>2. /\ flush.peer = p /\ flush.todo # <<>> /\ UNCHANGED gossipVars
      /\ IF Head(flush.todo) \in Oversized
         THEN flush' = [flush EXCEPT !.todo = <<>>]
         ELSE flush' = [flush EXCEPT !.todo = Tail(@), !.accepted = Append(@, Head(flush.todo))]
  BY DEF FlushFrame, FlushFrameThen
<1>3. Unmarked(p) # {} /\ batch' = batch /\ Unmarked(p)' = Unmarked(p)
  BY <1>2, FlushHasPeer, PeekUnchanged DEF FlushInv
<1>4. PICK n \in 0 .. L : /\ flush.accepted = SubSeq(batch, 1, n)
                          /\ flush.todo = <<>> \/ flush.todo = SubSeq(batch, n + 1, L)
  BY <1>2, FlushHasPeer DEF FlushInv
<1>5. flush'.peer = p
  BY <1>2
<1>6. CASE Head(flush.todo) \in Oversized
  <2>1. flush'.accepted = SubSeq(batch, 1, n) /\ flush'.todo = <<>>
    BY <1>2, <1>4, <1>6
  <2>2. QED
    BY <1>3, <1>5, <2>1 DEF FlushInv
<1>7. CASE Head(flush.todo) \notin Oversized
  <2> HIDE DEF batch
  <2>1. flush.todo = SubSeq(batch, n + 1, L) /\ n \in Nat /\ n <= L
    BY <1>1, <1>2, <1>4
  <2>2. n < L
    <3>1. SUFFICES ASSUME n = L PROVE FALSE
      BY <1>1, <2>1
    <3>2. Len(SubSeq(batch, n + 1, L)) = 0
      BY <1>1, <2>1, <3>1, SuffixProperties
    <3>3. QED
      BY <1>2, <2>1, <3>2
  <2>3. /\ Len(SubSeq(batch, n + 1, L)) = L - n
        /\ \A k \in 1 .. L - n : SubSeq(batch, n + 1, L)[k] = batch[k + n]
        /\ SubSeq(batch, n + 1, L) \in Seq(Events)
    BY <1>1, <2>1, SuffixProperties
  <2>4. Head(flush.todo) = batch[n + 1]
    BY <2>1, <2>2, <2>3, <1>1
  <2>5. Tail(flush.todo) = SubSeq(batch, n + 1 + 1, L)
    BY <2>1, <2>2, <1>1
  <2>6. Append(flush.accepted, Head(flush.todo)) = SubSeq(batch, 1, n + 1)
    BY <1>1, <1>4, <2>1, <2>2, <2>4
  <2>7. /\ flush'.todo = Tail(flush.todo)
        /\ flush'.accepted = Append(flush.accepted, Head(flush.todo))
    BY <1>2, <1>7
  <2>8. n + 1 \in 0 .. L
    BY <1>1, <2>1, <2>2
  <2>9. \E m \in 0 .. L : /\ flush'.accepted = SubSeq(batch, 1, m)
                          /\ flush'.todo = SubSeq(batch, m + 1, L)
    BY <2>5, <2>6, <2>7, <2>8
  <2>10. QED
    BY <1>3, <1>5, <2>9 DEF FlushInv, batch
<1>8. QED
  BY <1>6, <1>7

LEMMA FlushStep ==
  ASSUME Typed, LinkTypeOK, FlushInv, [LinkNext]_linkVars
  PROVE  FlushInv'
<1>1. ASSUME NEW e \in Events, Publish(e)
      PROVE  FlushInv'
  BY <1>1 DEF Publish, FlushInv
<1>2. ASSUME NEW p \in Peers, FlushBegin(p)
      PROVE  FlushInv'
  <2> DEFINE batch == Peek(p, PumpBatch)
  <2>1. batch \in Seq(Events) /\ Len(batch) \in Nat
    BY PumpBatchType
  <2>2. /\ Unmarked(p) # {} /\ UNCHANGED gossipVars
        /\ flush' = [peer |-> p, todo |-> batch, accepted |-> <<>>]
    BY <1>2 DEF FlushBegin
  <2>3. batch' = batch /\ Unmarked(p)' # {}
    BY <2>2, PeekUnchanged
  <2>4. <<>> = SubSeq(batch, 1, 0) /\ batch = SubSeq(batch, 0 + 1, Len(batch)) /\ 0 \in 0 .. Len(batch)
    <3> HIDE DEF batch
    <3>1. QED
      BY <2>1
  <2>5. QED
    BY <2>2, <2>3, <2>4 DEF FlushInv
<1>3. ASSUME NEW p \in Peers, FlushFrame(p)
      PROVE  FlushInv'
  BY <1>3, FlushFrameProgress DEF LinkTypeOK
<1>4. ASSUME NEW p \in Peers, FlushEnd(p)
      PROVE  FlushInv'
  BY <1>4 DEF FlushEnd, FlushInv
<1>5. ASSUME UNCHANGED pumpVars
      PROVE  FlushInv'
  <2>1. UNCHANGED gossipVars /\ flush' = flush
    BY <1>5 DEF pumpVars
  <2>2. CASE flush = NoFlush
    BY <2>1, <2>2 DEF FlushInv
  <2>3. CASE flush # NoFlush
    <3>1. flush.peer \in Peers
      BY <2>3 DEF FlushInv
    <3>2. /\ Peek(flush.peer, PumpBatch)' = Peek(flush.peer, PumpBatch)
          /\ Unmarked(flush.peer)' = Unmarked(flush.peer)
      BY <2>1 DEF gossipVars, Peek, EventsAt, Selected, Unmarked
    <3>3. QED
      BY <2>1, <2>3, <3>1, <3>2 DEF FlushInv
  <2>4. QED
    BY <2>2, <2>3
<1>6. ASSUME NEW p \in Peers, Client(p) \/ ProcessInbound(p)
      PROVE  UNCHANGED pumpVars
  BY <1>6 DEF Client, Connect, ReaderEnds, ReaderReturns, ClientEnds, ProcessInbound, pumpVars
<1>7. ASSUME NEW p \in Peers, NEW c \in Connections, Writer(p, c)
      PROVE  UNCHANGED pumpVars
  BY <1>7 DEF Writer, WriterPop, WriterTakes, WriterSend, WriterFail, WriterFails, WriterEnds, pumpVars
<1>8. ASSUME NEW p \in Peers, NEW c \in Connections, Remote(p, c)
      PROVE  UNCHANGED pumpVars
  BY <1>8 DEF Remote, Cut, WireLost, Receive, pumpVars
<1>9. ASSUME Stop \/ UNCHANGED linkVars
      PROVE  UNCHANGED pumpVars
  BY <1>9 DEF Stop, linkVars, pumpVars
<1>10. QED
  BY <1>1, <1>2, <1>3, <1>4, <1>5, <1>6, <1>7, <1>8, <1>9 DEF LinkNext, Pump

-----------------------------------------------------------------------------
(* Types and bounds of the queues *)

LEMMA LinkTypeInit == LinkInit => LinkTypeOK /\ UnmadeIdle
<1> SUFFICES ASSUME LinkInit PROVE LinkTypeOK /\ UnmadeIdle
  OBVIOUS
<1>1. Capacity \in Nat /\ MaxConns \in Nat
  BY LinkAssumption
<1>2. ASSUME NEW p \in Peers
      PROVE  /\ Len(outbound[p]) <= Capacity + Cardinality(EndedWriters(p))
             /\ Len(inbound[p]) <= Capacity
  <2>1. EndedWriters(p) = {}
    BY DEF LinkInit, EndedWriters
  <2>2. Cardinality(EndedWriters(p)) = 0
    BY <2>1, FS_EmptySet
  <2>3. outbound[p] = <<>> /\ inbound[p] = <<>>
    BY DEF LinkInit
  <2>4. QED
    BY <1>1, <2>2, <2>3
<1>3. UnmadeIdle
  BY DEF LinkInit, UnmadeIdle
<1>4. flush \in [peer : Peers \cup {"none"}, todo : Seq(Events), accepted : Seq(Events)]
  BY DEF LinkInit, NoFlush
<1>5. /\ sock \in [Peers -> [Connections -> ConnectionStates]]
      /\ writer \in [Peers -> [Connections -> WriterStates]]
      /\ wire \in [Peers -> [Connections -> Seq(Events)]]
  BY DEF LinkInit, ConnectionStates, WriterStates
<1>6. outbound \in [Peers -> Seq(Events)] /\ inbound \in [Peers -> Seq(Events)]
  BY DEF LinkInit
<1>7. /\ client \in [Peers -> {"dialing", "reading", "ended"}]
      /\ conns \in [Peers -> 0 .. MaxConns]
      /\ stop \in BOOLEAN
  <2>1. 0 \in 0 .. MaxConns
    BY <1>1
  <2>2. conns = [p \in Peers |-> 0] /\ client = [p \in Peers |-> "dialing"] /\ stop = FALSE
    BY DEF LinkInit
  <2>3. QED
    BY <2>1, <2>2
<1>8. /\ ingested \in [Peers -> SUBSET Events] /\ dropped \in [Peers -> SUBSET Events]
      /\ vanished \in [Peers -> SUBSET Events]
  BY DEF LinkInit
<1>9. QED
  BY <1>2, <1>3, <1>4, <1>5, <1>6, <1>7, <1>8 DEF LinkTypeOK

\* Writers that have ended stay ended or grow in number, so a queue that did
\* not grow keeps its bound.
LEMMA BoundKept ==
  ASSUME NEW p \in Peers, EndedWriters(p) \subseteq EndedWriters(p)'
  PROVE  /\ Cardinality(EndedWriters(p)) \in Nat /\ Cardinality(EndedWriters(p))' \in Nat
         /\ Cardinality(EndedWriters(p)) <= Cardinality(EndedWriters(p))'
<1>1. IsFiniteSet(Connections)
  <2>1. 1 \in Int /\ MaxConns \in Int
    BY LinkAssumption
  <2>2. QED
    BY <2>1, FS_Interval DEF Connections
<1>2. EndedWriters(p) \subseteq Connections /\ EndedWriters(p)' \subseteq Connections
  BY DEF EndedWriters
<1>3. IsFiniteSet(EndedWriters(p)) /\ IsFiniteSet(EndedWriters(p)')
  BY <1>1, <1>2, FS_Subset
<1> DEFINE A == EndedWriters(p)
           B == EndedWriters(p)'
<1> HIDE DEF A, B
<1>4. IsFiniteSet(A) /\ IsFiniteSet(B) /\ A \subseteq B
  BY <1>3 DEF A, B
<1>5. Cardinality(A) \in Nat /\ Cardinality(B) \in Nat /\ Cardinality(A) <= Cardinality(B)
  BY <1>4, FS_Subset, FS_CardinalityType
<1>6. QED
  BY <1>5 DEF A, B

\* What the pump does to the queues.
LEMMA PumpTypes ==
  ASSUME LinkTypeOK, UnmadeIdle, Typed, NEW p \in Peers, Pump(p)
  PROVE  LinkTypeOK' /\ UnmadeIdle'
<1> DEFINE Flushes == [peer : Peers \cup {"none"}, todo : Seq(Events), accepted : Seq(Events)]
<1>1. UNCHANGED <<connVars, peerVars, vanished, stop>>
  BY DEF Pump, FlushBegin, FlushFrame, FlushFrameThen, FlushEnd
<1>2. \A q \in Peers : EndedWriters(q)' = EndedWriters(q)
  BY <1>1 DEF connVars, EndedWriters
<1>3. UnmadeIdle'
  BY <1>1 DEF connVars, UnmadeIdle
<1>4. ASSUME flush' \in Flushes, UNCHANGED <<outbound, dropped>>
      PROVE  LinkTypeOK'
  BY <1>1, <1>2, <1>4 DEF LinkTypeOK, connVars, peerVars
<1>5. CASE FlushBegin(p)
  <2>1. Peek(p, PumpBatch) \in Seq(Events)
    BY PumpBatchType
  <2>2. flush' \in Flushes /\ UNCHANGED <<outbound, dropped>>
    BY <1>5, <2>1 DEF FlushBegin
  <2>3. QED
    BY <1>3, <1>4, <2>2
<1>6. CASE FlushEnd(p)
  <2>1. flush' \in Flushes /\ UNCHANGED <<outbound, dropped>>
    BY <1>6 DEF FlushEnd, NoFlush
  <2>2. QED
    BY <1>3, <1>4, <2>1
<1>7. CASE FlushFrame(p)
  <2> DEFINE e == Head(flush.todo)
  <2>1. flush \in Flushes /\ flush.todo # <<>> /\ flush.todo \in Seq(Events)
    BY <1>7 DEF FlushFrame, FlushFrameThen, LinkTypeOK
  <2>2. e \in Events /\ Tail(flush.todo) \in Seq(Events)
    BY <2>1, TailContents
  <2>3. CASE e \in Oversized
    <3>1. flush' = [flush EXCEPT !.todo = <<>>] /\ UNCHANGED <<outbound, dropped>>
      BY <1>7, <2>3 DEF FlushFrame, FlushFrameThen
    <3>2. flush' \in Flushes
      <4>1. <<>> \in Seq(Events)
        OBVIOUS
      <4>2. QED
        BY <2>1, <3>1, <4>1
    <3>3. QED
      BY <1>3, <1>4, <3>1, <3>2
  <2>4. CASE e \notin Oversized
    <3>1. /\ flush' = [flush EXCEPT !.todo = Tail(@), !.accepted = Append(@, e)]
          /\ outbound' = [outbound EXCEPT ![p] = Enqueued(@, e)]
          /\ dropped' = [dropped EXCEPT ![p] = @ \cup Evicted(outbound[p])]
      BY <1>7, <2>4 DEF FlushFrame, FlushFrameThen
    <3>2. flush' \in Flushes
      <4> HIDE DEF e
      <4>1. Append(flush.accepted, e) \in Seq(Events)
        BY <2>1, <2>2
      <4>2. QED
        BY <2>1, <2>2, <3>1, <4>1
    <3>3. /\ outbound[p] \in Seq(Events) /\ Len(outbound[p]) \in Nat
          /\ outbound \in [Peers -> Seq(Events)] /\ dropped \in [Peers -> SUBSET Events]
      BY DEF LinkTypeOK
    <3>4. /\ Enqueued(outbound[p], e) \in Seq(Events)
          /\ Len(Enqueued(outbound[p], e))
               = IF Len(outbound[p]) >= Capacity THEN Capacity ELSE Len(outbound[p]) + 1
          /\ Evicted(outbound[p]) \subseteq Events
      BY <2>2, <3>3, EnqueuedContents
    <3>5. outbound' \in [Peers -> Seq(Events)] /\ dropped' \in [Peers -> SUBSET Events]
      BY <3>1, <3>3, <3>4
    <3>6. Cardinality(EndedWriters(p)) \in Nat
      BY <1>2, BoundKept
    <3>7. Len(Enqueued(outbound[p], e)) <= Capacity + Cardinality(EndedWriters(p))
      BY <3>3, <3>4, <3>6, LinkAssumption
    <3>8. \A q \in Peers : Len(outbound'[q]) <= Capacity + Cardinality(EndedWriters(q))
      BY <3>1, <3>3, <3>7 DEF LinkTypeOK
    <3>9. QED
      BY <1>1, <1>2, <1>3, <3>2, <3>5, <3>8 DEF LinkTypeOK, connVars, peerVars
  <2>5. QED
    BY <2>3, <2>4
<1>8. QED
  BY <1>5, <1>6, <1>7 DEF Pump

\* What a client thread does.
LEMMA ClientTypes ==
  ASSUME LinkTypeOK, UnmadeIdle, NEW p \in Peers, Client(p)
  PROVE  LinkTypeOK' /\ UnmadeIdle'
<1>1. UNCHANGED <<flush, outbound, wire, peerVars, dropped, vanished, stop>>
  BY DEF Client, Connect, ReaderEnds, ReaderReturns, ClientEnds, pumpVars
<1>2. /\ client \in [Peers -> {"dialing", "reading", "ended"}]
      /\ conns \in [Peers -> 0 .. MaxConns]
      /\ sock \in [Peers -> [Connections -> ConnectionStates]]
      /\ writer \in [Peers -> [Connections -> WriterStates]]
  BY DEF LinkTypeOK
<1>3. ASSUME client' \in [Peers -> {"dialing", "reading", "ended"}],
             conns' \in [Peers -> 0 .. MaxConns],
             sock' \in [Peers -> [Connections -> ConnectionStates]],
             writer' \in [Peers -> [Connections -> WriterStates]],
             \A q \in Peers : EndedWriters(q)' = EndedWriters(q)
      PROVE  LinkTypeOK'
  BY <1>1, <1>3 DEF LinkTypeOK, peerVars
<1>4. CASE Connect(p)
  <2> DEFINE c == conns[p] + 1
  <2>1. PICK w \in WriterStarts : writer' = [writer EXCEPT ![p][c] = w]
    BY <1>4 DEF Connect
  <2>2. /\ conns[p] < MaxConns /\ conns[p] \in 0 .. MaxConns /\ MaxConns \in Nat
        /\ client' = [client EXCEPT ![p] = "reading"]
        /\ conns' = [conns EXCEPT ![p] = @ + 1]
        /\ sock' = [sock EXCEPT ![p][c] = "open"]
    BY <1>2, <1>4, LinkAssumption DEF Connect
  <2>3. c \in Connections /\ c > conns[p] /\ c \in 0 .. MaxConns
    BY <2>2 DEF Connections
  <2>4. w \in {"none", "polling"} /\ w # "ended" /\ w \in WriterStates
    BY LinkAssumption DEF WriterStates
  <2>5. writer[p][c] = "none"
    BY <2>3 DEF UnmadeIdle
  <2> HIDE DEF c
  <2>6. writer' \in [Peers -> [Connections -> WriterStates]]
    BY <1>2, <2>1, <2>4
  <2>7. sock' \in [Peers -> [Connections -> ConnectionStates]]
    BY <1>2, <2>2 DEF ConnectionStates
  <2>8. conns' \in [Peers -> 0 .. MaxConns] /\ client' \in [Peers -> {"dialing", "reading", "ended"}]
    BY <1>2, <2>2, <2>3 DEF c
  <2>9. \A q \in Peers : EndedWriters(q)' = EndedWriters(q)
    BY <1>2, <2>1, <2>4, <2>5 DEF EndedWriters
  <2>10. ASSUME NEW q \in Peers, NEW k \in Connections, k > conns'[q]
         PROVE  writer'[q][k] = "none"
    <3>1. CASE q = p
      <4>1. conns'[p] = c
        BY <1>2, <2>2 DEF c
      <4>2. k # c /\ k > conns[p]
        BY <3>1, <4>1, <2>2, <2>10 DEF c, Connections
      <4>3. QED
        BY <3>1, <4>2, <1>2, <2>1 DEF UnmadeIdle
    <3>2. CASE q # p
      BY <3>2, <2>10, <1>2, <2>1, <2>2 DEF UnmadeIdle
    <3>3. QED
      BY <3>1, <3>2
  <2>11. QED
    BY <1>3, <2>6, <2>7, <2>8, <2>9, <2>10 DEF UnmadeIdle
<1>5. CASE ReaderEnds(p) \/ ClientEnds(p)
  <2>1. /\ \E next \in {"dialing", "ended"} : client' = [client EXCEPT ![p] = next]
        /\ sock' = sock \/ sock' = [sock EXCEPT ![p][conns[p]] = "shut"]
        /\ conns' = conns /\ writer' = writer
    BY <1>5 DEF ReaderEnds, ReaderReturns, ClientEnds
  <2>2. sock' \in [Peers -> [Connections -> ConnectionStates]]
    <3>1. CASE sock' = sock
      BY <1>2, <3>1
    <3>2. CASE sock' = [sock EXCEPT ![p][conns[p]] = "shut"]
      <4>1. "shut" \in ConnectionStates
        BY DEF ConnectionStates
      <4>2. QED
        BY <1>2, <3>2, <4>1
    <3>3. QED
      BY <2>1, <3>1, <3>2
  <2>3. client' \in [Peers -> {"dialing", "reading", "ended"}]
    BY <1>2, <2>1
  <2>4. \A q \in Peers : EndedWriters(q)' = EndedWriters(q)
    BY <2>1 DEF EndedWriters
  <2>5. UnmadeIdle'
    BY <2>1 DEF UnmadeIdle
  <2>6. QED
    BY <1>2, <1>3, <2>1, <2>2, <2>3, <2>4, <2>5
<1>6. QED
  BY <1>4, <1>5 DEF Client

\* What a writer does.
LEMMA WriterTypes ==
  ASSUME LinkTypeOK, UnmadeIdle, NEW p \in Peers, NEW c \in Connections, Writer(p, c)
  PROVE  LinkTypeOK' /\ UnmadeIdle'
<1>1. UNCHANGED <<flush, client, conns, peerVars, dropped, stop>>
  BY DEF Writer, WriterPop, WriterTakes, WriterSend, WriterFail, WriterFails, WriterEnds, pumpVars
<1>2. /\ outbound \in [Peers -> Seq(Events)]
      /\ sock \in [Peers -> [Connections -> ConnectionStates]]
      /\ writer \in [Peers -> [Connections -> WriterStates]]
      /\ wire \in [Peers -> [Connections -> Seq(Events)]]
      /\ vanished \in [Peers -> SUBSET Events]
      /\ outbound[p] \in Seq(Events) /\ Len(outbound[p]) \in Nat
      /\ wire[p][c] \in Seq(Events)
  BY DEF LinkTypeOK
<1>3. ASSUME outbound' \in [Peers -> Seq(Events)],
             sock' \in [Peers -> [Connections -> ConnectionStates]],
             wire' \in [Peers -> [Connections -> Seq(Events)]],
             vanished' \in [Peers -> SUBSET Events],
             NEW w \in WriterStates, writer' = [writer EXCEPT ![p][c] = w],
             writer[p][c] \notin {"none", "ended"},
             \A q \in Peers \ {p} : outbound'[q] = outbound[q],
             Len(outbound'[p]) <= Capacity + Cardinality(EndedWriters(p)')
      PROVE  LinkTypeOK' /\ UnmadeIdle'
  <2>1. writer' \in [Peers -> [Connections -> WriterStates]]
    BY <1>2, <1>3
  <2>2. ASSUME NEW q \in Peers \ {p}
        PROVE  EndedWriters(q)' = EndedWriters(q)
    BY <1>2, <1>3 DEF EndedWriters
  <2>3. \A q \in Peers : Len(outbound'[q]) <= Capacity + Cardinality(EndedWriters(q)')
    BY <1>3, <2>2 DEF LinkTypeOK
  <2>4. UnmadeIdle'
    BY <1>1, <1>2, <1>3 DEF UnmadeIdle
  <2>5. QED
    BY <1>1, <1>3, <2>1, <2>3, <2>4 DEF LinkTypeOK, peerVars
<1>4. ASSUME NEW w \in WriterStates, writer' = [writer EXCEPT ![p][c] = w],
             writer[p][c] # "ended", Len(outbound'[p]) \in Nat,
             Len(outbound'[p]) <= Len(outbound[p])
      PROVE  Len(outbound'[p]) <= Capacity + Cardinality(EndedWriters(p)')
  <2>1. EndedWriters(p) \subseteq EndedWriters(p)'
    BY <1>2, <1>4 DEF EndedWriters
  <2>2. /\ Cardinality(EndedWriters(p)) \in Nat /\ Cardinality(EndedWriters(p)') \in Nat
        /\ Cardinality(EndedWriters(p)) <= Cardinality(EndedWriters(p)')
    BY <2>1, BoundKept
  <2>3. Len(outbound[p]) <= Capacity + Cardinality(EndedWriters(p))
    BY DEF LinkTypeOK
  <2>4. QED
    BY <1>2, <1>4, <2>2, <2>3, LinkAssumption
<1>5. CASE WriterPop(p, c)
  <2> DEFINE w == Head(outbound[p])
  <2>1. /\ writer[p][c] = "polling" /\ outbound[p] # <<>>
        /\ writer' = [writer EXCEPT ![p][c] = w]
        /\ outbound' = [outbound EXCEPT ![p] = Tail(outbound[p])]
        /\ UNCHANGED <<sock, wire, vanished>>
    BY <1>5 DEF WriterPop, WriterTakes
  <2>2. /\ w \in Events /\ Tail(outbound[p]) \in Seq(Events)
        /\ Len(Tail(outbound[p])) = Len(outbound[p]) - 1 /\ Len(Tail(outbound[p])) \in Nat
    BY <1>2, <2>1, TailContents
  <2>3. w \in WriterStates
    BY <2>2 DEF WriterStates
  <2> HIDE DEF w
  <2>4. outbound' \in [Peers -> Seq(Events)] /\ outbound'[p] = Tail(outbound[p])
    BY <1>2, <2>1, <2>2
  <2>5. Len(outbound'[p]) \in Nat /\ Len(outbound'[p]) <= Len(outbound[p])
    BY <1>2, <2>2, <2>4
  <2>6. Len(outbound'[p]) <= Capacity + Cardinality(EndedWriters(p)')
    BY <1>4, <2>1, <2>3, <2>5
  <2>7. \A q \in Peers \ {p} : outbound'[q] = outbound[q]
    BY <1>2, <2>1
  <2>8. QED
    BY <1>2, <1>3, <2>1, <2>3, <2>4, <2>6, <2>7
<1>6. CASE WriterSend(p, c)
  <2>1. /\ writer[p][c] \in Events
        /\ writer' = [writer EXCEPT ![p][c] = "polling"]
        /\ UNCHANGED <<outbound, sock>>
        /\ \/ /\ wire' = [wire EXCEPT ![p][c] = Append(@, writer[p][c])]
              /\ vanished' = vanished
           \/ /\ vanished' = [vanished EXCEPT ![p] = @ \cup {writer[p][c]}]
              /\ wire' = wire
    BY <1>6 DEF WriterSend, Holds
  <2>2. Append(wire[p][c], writer[p][c]) \in Seq(Events)
    BY <1>2, <2>1
  <2>3. wire' \in [Peers -> [Connections -> Seq(Events)]] /\ vanished' \in [Peers -> SUBSET Events]
    <3>1. CASE wire' = [wire EXCEPT ![p][c] = Append(@, writer[p][c])] /\ vanished' = vanished
      <4> DEFINE longer == Append(wire[p][c], writer[p][c])
      <4>1. wire' = [wire EXCEPT ![p][c] = longer] /\ longer \in Seq(Events)
        BY <3>1, <2>2
      <4> HIDE DEF longer
      <4>2. QED
        BY <1>2, <3>1, <4>1
    <3>2. CASE vanished' = [vanished EXCEPT ![p] = @ \cup {writer[p][c]}] /\ wire' = wire
      BY <1>2, <2>1, <3>2
    <3>3. QED
      BY <2>1, <3>1, <3>2
  <2>4. "polling" \in WriterStates /\ writer[p][c] \notin {"none", "ended"}
    BY <2>1, NamesAssumption DEF WriterStates
  <2>5. /\ outbound' = outbound /\ sock' = sock
        /\ Len(outbound'[p]) \in Nat /\ Len(outbound'[p]) <= Len(outbound[p])
    BY <1>2, <2>1
  <2>6. Len(outbound'[p]) <= Capacity + Cardinality(EndedWriters(p)')
    BY <1>4, <2>1, <2>4, <2>5
  <2>7. QED
    BY <1>2, <1>3, <2>1, <2>3, <2>4, <2>5, <2>6
<1>7. CASE WriterFail(p, c)
  <2> DEFINE back == <<writer[p][c]>> \o outbound[p]
             E == EndedWriters(p)
  <2>1. /\ writer[p][c] \in Events
        /\ writer' = [writer EXCEPT ![p][c] = "ended"]
        /\ outbound' = [outbound EXCEPT ![p] = back]
        /\ sock' = [sock EXCEPT ![p][c] = "shut"]
        /\ UNCHANGED <<wire, vanished>>
    BY <1>7 DEF WriterFail, WriterFails, Holds
  <2>2. back \in Seq(Events) /\ Len(back) = Len(outbound[p]) + 1
    BY <1>2, <2>1, ExtendedContents
  <2>3. "ended" \in WriterStates /\ writer[p][c] \notin {"none", "ended"}
    BY <2>1, NamesAssumption DEF WriterStates
  <2> HIDE DEF back
  <2>4. sock' \in [Peers -> [Connections -> ConnectionStates]]
    BY <1>2, <2>1 DEF ConnectionStates
  <2>5. /\ outbound' \in [Peers -> Seq(Events)] /\ outbound'[p] = back
        /\ \A q \in Peers \ {p} : outbound'[q] = outbound[q]
    BY <1>2, <2>1, <2>2
  <2>6. E' = E \cup {c} /\ c \notin E
    BY <1>2, <2>1, <2>3 DEF EndedWriters
  <2>7. IsFiniteSet(E) /\ Cardinality(E) \in Nat
    <3>1. 1 \in Int /\ MaxConns \in Int
      BY LinkAssumption
    <3>2. IsFiniteSet(Connections)
      BY <3>1, FS_Interval DEF Connections
    <3>3. E \subseteq Connections
      BY DEF EndedWriters
    <3> HIDE DEF E
    <3>4. QED
      BY <3>2, <3>3, FS_Subset, FS_CardinalityType
  <2>8. Cardinality(E') = Cardinality(E) + 1
    <3> HIDE DEF E
    <3>1. Cardinality(E \cup {c}) = Cardinality(E) + 1
      BY <2>6, <2>7, FS_AddElement
    <3>2. QED
      BY <2>6, <3>1
  <2>9. Len(outbound[p]) <= Capacity + Cardinality(E)
    BY DEF LinkTypeOK
  <2>10. Len(outbound'[p]) <= Capacity + Cardinality(EndedWriters(p)')
    <3> HIDE DEF E
    <3>1. Len(outbound'[p]) <= Capacity + Cardinality(E')
      BY <1>2, <2>2, <2>5, <2>7, <2>8, <2>9, LinkAssumption
    <3>2. QED
      BY <3>1 DEF E
  <2>11. QED
    BY <1>2, <1>3, <2>1, <2>3, <2>4, <2>5, <2>10
<1>8. CASE WriterEnds(p, c)
  <2>1. /\ writer[p][c] = "polling"
        /\ writer' = [writer EXCEPT ![p][c] = "ended"]
        /\ sock' = [sock EXCEPT ![p][c] = "shut"]
        /\ UNCHANGED <<outbound, wire, vanished>>
    BY <1>8 DEF WriterEnds
  <2>2. "ended" \in WriterStates
    BY DEF WriterStates
  <2>3. sock' \in [Peers -> [Connections -> ConnectionStates]]
    BY <1>2, <2>1 DEF ConnectionStates
  <2>4. /\ outbound' = outbound /\ writer[p][c] \notin {"none", "ended"}
        /\ Len(outbound'[p]) \in Nat /\ Len(outbound'[p]) <= Len(outbound[p])
    BY <1>2, <2>1
  <2>5. Len(outbound'[p]) <= Capacity + Cardinality(EndedWriters(p)')
    BY <1>4, <2>1, <2>2, <2>4
  <2>6. QED
    BY <1>2, <1>3, <2>1, <2>2, <2>3, <2>4, <2>5
<1>9. QED
  BY <1>5, <1>6, <1>7, <1>8 DEF Writer

\* What the network and the peer do.
LEMMA PeerTypes ==
  ASSUME LinkTypeOK, UnmadeIdle, NEW p \in Peers,
         ProcessInbound(p) \/ \E c \in Connections : Remote(p, c)
  PROVE  LinkTypeOK' /\ UnmadeIdle'
<1>1. UNCHANGED <<flush, outbound, client, conns, writer, dropped, stop>>
  BY DEF ProcessInbound, Remote, Cut, WireLost, Receive, pumpVars, connVars
<1>2. /\ sock \in [Peers -> [Connections -> ConnectionStates]]
      /\ wire \in [Peers -> [Connections -> Seq(Events)]]
      /\ inbound \in [Peers -> Seq(Events)] /\ inbound[p] \in Seq(Events)
      /\ ingested \in [Peers -> SUBSET Events]
      /\ vanished \in [Peers -> SUBSET Events]
  BY DEF LinkTypeOK
<1>3. \A q \in Peers : EndedWriters(q)' = EndedWriters(q)
  BY <1>1 DEF EndedWriters
<1>4. ASSUME sock' \in [Peers -> [Connections -> ConnectionStates]],
             wire' \in [Peers -> [Connections -> Seq(Events)]],
             inbound' \in [Peers -> Seq(Events)],
             ingested' \in [Peers -> SUBSET Events],
             vanished' \in [Peers -> SUBSET Events],
             \A q \in Peers : Len(inbound'[q]) <= Capacity
      PROVE  LinkTypeOK' /\ UnmadeIdle'
  BY <1>1, <1>3, <1>4 DEF LinkTypeOK, UnmadeIdle
<1>5. \A q \in Peers : Len(inbound[q]) <= Capacity
  BY DEF LinkTypeOK
<1>6. CASE ProcessInbound(p)
  <2>1. /\ ingested' = [ingested EXCEPT ![p] = @ \cup Range(inbound[p])]
        /\ inbound' = [inbound EXCEPT ![p] = <<>>]
        /\ UNCHANGED <<sock, wire, vanished>>
    BY <1>6 DEF ProcessInbound, connVars
  <2>2. Range(inbound[p]) \subseteq Events
    BY <1>2, RangeOfSeq
  <2>3. ingested' \in [Peers -> SUBSET Events]
    BY <1>2, <2>1, <2>2
  <2>4. <<>> \in Seq(Events) /\ Len(<<>>) <= Capacity
    BY LinkAssumption
  <2>5. inbound' \in [Peers -> Seq(Events)] /\ \A q \in Peers : Len(inbound'[q]) <= Capacity
    BY <1>2, <1>5, <2>1, <2>4
  <2>6. QED
    BY <1>2, <1>4, <2>1, <2>3, <2>5
<1>7. ASSUME NEW c \in Connections, Remote(p, c)
      PROVE  LinkTypeOK' /\ UnmadeIdle'
  <2>1. wire[p][c] \in Seq(Events)
    BY <1>2
  <2>2. CASE Cut(p, c) \/ WireLost(p, c)
    <3>1. /\ wire' = [wire EXCEPT ![p][c] = <<>>]
          /\ vanished' = [vanished EXCEPT ![p] = @ \cup Range(wire[p][c])]
          /\ sock' = sock \/ sock' = [sock EXCEPT ![p][c] = "cut"]
          /\ UNCHANGED <<inbound, ingested>>
      BY <2>2 DEF Cut, WireLost, peerVars
    <3>2. Range(wire[p][c]) \subseteq Events
      BY <2>1, RangeOfSeq
    <3>3. vanished' \in [Peers -> SUBSET Events]
      BY <1>2, <3>1, <3>2
    <3>4. "cut" \in ConnectionStates /\ <<>> \in Seq(Events)
      BY DEF ConnectionStates
    <3>5. sock' \in [Peers -> [Connections -> ConnectionStates]]
      <4>1. CASE sock' = sock
        BY <1>2, <4>1
      <4>2. CASE sock' = [sock EXCEPT ![p][c] = "cut"]
        BY <1>2, <3>4, <4>2
      <4>3. QED
        BY <3>1, <4>1, <4>2
    <3>6. wire' \in [Peers -> [Connections -> Seq(Events)]]
      BY <1>2, <3>1, <3>4
    <3>7. QED
      BY <1>2, <1>4, <1>5, <3>1, <3>3, <3>5, <3>6
  <2>3. CASE Receive(p, c)
    <3> DEFINE e == Head(wire[p][c])
               rest == Tail(wire[p][c])
               queue == Enqueued(inbound[p], e)
    <3>1. /\ wire[p][c] # <<>>
          /\ wire' = [wire EXCEPT ![p][c] = rest]
          /\ inbound' = [inbound EXCEPT ![p] = queue]
          /\ vanished' = [vanished EXCEPT ![p] = @ \cup Evicted(inbound[p])]
          /\ UNCHANGED <<sock, ingested>>
      BY <2>3 DEF Receive
    <3>2. e \in Events /\ rest \in Seq(Events)
      BY <2>1, <3>1, TailContents
    <3>3. /\ queue \in Seq(Events) /\ Evicted(inbound[p]) \subseteq Events
          /\ Len(queue) = IF Len(inbound[p]) >= Capacity THEN Capacity ELSE Len(inbound[p]) + 1
      BY <1>2, <3>2, EnqueuedContents
    <3> HIDE DEF e, rest, queue
    <3>4. Len(inbound[p]) \in Nat /\ Len(queue) <= Capacity
      BY <1>2, <3>3, LinkAssumption
    <3>5. wire' \in [Peers -> [Connections -> Seq(Events)]]
      BY <1>2, <3>1, <3>2
    <3>6. inbound' \in [Peers -> Seq(Events)] /\ \A q \in Peers : Len(inbound'[q]) <= Capacity
      BY <1>2, <1>5, <3>1, <3>3, <3>4
    <3>7. vanished' \in [Peers -> SUBSET Events]
      BY <1>2, <3>1, <3>3
    <3>8. QED
      BY <1>2, <1>4, <3>1, <3>5, <3>6, <3>7
  <2>4. QED
    BY <1>7, <2>2, <2>3 DEF Remote
<1>8. QED
  BY <1>6, <1>7

LEMMA LinkTypeStep ==
  ASSUME Typed, LinkTypeOK, UnmadeIdle, [LinkNext]_linkVars
  PROVE  LinkTypeOK' /\ UnmadeIdle'
<1>1. ASSUME UNCHANGED <<flush, outbound, connVars, peerVars, dropped, vanished>>, stop' \in BOOLEAN
      PROVE  LinkTypeOK' /\ UnmadeIdle'
  <2>1. \A q \in Peers : EndedWriters(q)' = EndedWriters(q)
    BY <1>1 DEF EndedWriters, connVars
  <2>2. QED
    BY <1>1, <2>1 DEF LinkTypeOK, UnmadeIdle, connVars, peerVars
<1>2. ASSUME NEW e \in Events, Publish(e)
      PROVE  LinkTypeOK' /\ UnmadeIdle'
  BY <1>1, <1>2 DEF Publish, LinkTypeOK
<1>3. CASE Stop
  BY <1>1, <1>3 DEF Stop, pumpVars
<1>4. CASE UNCHANGED linkVars
  BY <1>1, <1>4 DEF linkVars, LinkTypeOK, connVars, peerVars
<1>5. QED
  BY <1>2, <1>3, <1>4, PumpTypes, ClientTypes, WriterTypes, PeerTypes DEF LinkNext

-----------------------------------------------------------------------------
(* No marked event disappears *)

LEMMA AccountedInit == LinkInit => MarkedIsSomewhere /\ AcceptedIsSomewhere
BY DEF LinkInit, GossipInit, MarkedIsSomewhere, AcceptedIsSomewhere

\* The places where a frame may be, before and after a step.
LEMMA PlacesOf ==
  ASSUME NEW p \in Peers, NEW x
  PROVE  /\ x \in Somewhere(p) <=>
              \/ x \in Range(outbound[p]) \/ x \in Range(inbound[p])
              \/ \E c \in Connections : x = writer[p][c] \/ x \in Range(wire[p][c])
              \/ x \in ingested[p] \/ x \in dropped[p] \/ x \in vanished[p]
         /\ x \in Somewhere(p)' <=>
              \/ x \in Range(outbound'[p]) \/ x \in Range(inbound'[p])
              \/ \E c \in Connections : x = writer'[p][c] \/ x \in Range(wire'[p][c])
              \/ x \in ingested'[p] \/ x \in dropped'[p] \/ x \in vanished'[p]
<1>1. x \in Somewhere(p) <=>
           \/ x \in Range(outbound[p]) \/ x \in Range(inbound[p])
           \/ \E c \in Connections : x = writer[p][c] \/ x \in Range(wire[p][c])
           \/ x \in ingested[p] \/ x \in dropped[p] \/ x \in vanished[p]
  BY DEF Somewhere
<1>2. x \in Somewhere(p)' <=>
           \/ x \in Range(outbound'[p]) \/ x \in Range(inbound'[p])
           \/ \E c \in Connections : x = writer'[p][c] \/ x \in Range(wire'[p][c])
           \/ x \in ingested'[p] \/ x \in dropped'[p] \/ x \in vanished'[p]
  BY DEF Somewhere
<1>3. QED
  BY <1>1, <1>2

\* The pump takes no frame away, and what it accepts is queued.
LEMMA PumpKeeps ==
  ASSUME Typed, LinkTypeOK, NEW p \in Peers, FlushFrame(p)
  PROVE  /\ \A q \in Peers : Somewhere(q) \subseteq Somewhere(q)'
         /\ Range(flush'.accepted) \subseteq Range(flush.accepted) \cup Somewhere(p)'
         /\ flush'.peer = flush.peer
<1> DEFINE e == Head(flush.todo)
<1>1. /\ flush \in [peer : Peers \cup {"none"}, todo : Seq(Events), accepted : Seq(Events)]
      /\ outbound \in [Peers -> Seq(Events)] /\ outbound[p] \in Seq(Events)
      /\ dropped \in [Peers -> SUBSET Events]
  BY DEF LinkTypeOK
<1>2. /\ flush.todo # <<>>
      /\ UNCHANGED <<writer, wire, inbound, ingested, vanished>>
  BY DEF FlushFrame, FlushFrameThen, connVars, peerVars
<1>3. e \in Events
  BY <1>1, <1>2, TailContents
<1>4. CASE e \in Oversized
  <2>1. flush' = [flush EXCEPT !.todo = <<>>] /\ UNCHANGED <<outbound, dropped>>
    BY <1>4 DEF FlushFrame, FlushFrameThen
  <2>2. \A q \in Peers : Somewhere(q)' = Somewhere(q)
    BY <1>2, <2>1 DEF Somewhere
  <2>3. flush'.accepted = flush.accepted /\ flush'.peer = flush.peer
    BY <1>1, <2>1
  <2>4. QED
    BY <2>2, <2>3
<1>5. CASE e \notin Oversized
  <2>1. /\ flush' = [flush EXCEPT !.todo = Tail(@), !.accepted = Append(@, e)]
        /\ outbound' = [outbound EXCEPT ![p] = Enqueued(@, e)]
        /\ dropped' = [dropped EXCEPT ![p] = @ \cup Evicted(outbound[p])]
    BY <1>5 DEF FlushFrame, FlushFrameThen
  <2>2. Range(outbound[p]) \cup {e} \subseteq Evicted(outbound[p]) \cup Range(Enqueued(outbound[p], e))
    BY <1>1, <1>3, EnqueuedContents
  <2> HIDE DEF e
  <2>3. /\ outbound'[p] = Enqueued(outbound[p], e)
        /\ dropped'[p] = dropped[p] \cup Evicted(outbound[p])
        /\ \A q \in Peers \ {p} : outbound'[q] = outbound[q] /\ dropped'[q] = dropped[q]
    BY <1>1, <2>1
  <2>4. Range(outbound[p]) \cup {e} \cup dropped[p] \subseteq Range(outbound'[p]) \cup dropped'[p]
    BY <2>2, <2>3
  <2>5. ASSUME NEW x \in Somewhere(p) \cup {e}
        PROVE  x \in Somewhere(p)'
    <3>1. CASE x \in Range(outbound[p]) \cup {e} \cup dropped[p]
      <4>1. x \in Range(outbound'[p]) \/ x \in dropped'[p]
        BY <3>1, <2>4
      <4>2. QED
        BY <4>1, PlacesOf
    <3>2. CASE x \notin Range(outbound[p]) \cup {e} \cup dropped[p]
      BY <1>2, <3>2, PlacesOf
    <3>3. QED
      BY <3>1, <3>2
  <2>6. \A q \in Peers \ {p} : Somewhere(q)' = Somewhere(q)
    BY <1>2, <2>3 DEF Somewhere
  <2>7. flush'.accepted = Append(flush.accepted, e) /\ flush'.peer = flush.peer
    BY <1>1, <2>1
  <2>8. Range(flush'.accepted) = Range(flush.accepted) \cup {e}
    BY <1>1, <1>3, <2>7, ExtendedContents
  <2>9. QED
    BY <2>5, <2>6, <2>7, <2>8
<1>6. QED
  BY <1>4, <1>5

\* A client thread replaces the missing writer of a new connection.
LEMMA ClientKeeps ==
  ASSUME LinkTypeOK, UnmadeIdle, NEW p \in Peers, Client(p), NEW q \in Peers
  PROVE  Somewhere(q) \cap Events \subseteq Somewhere(q)'
<1>1. UNCHANGED <<outbound, wire, inbound, ingested, dropped, vanished>>
  BY DEF Client, Connect, ReaderEnds, ReaderReturns, ClientEnds, peerVars
<1>2. ASSUME NEW k \in Connections, writer[q][k] \in Events
      PROVE  writer'[q][k] = writer[q][k]
  <2>1. CASE Connect(p)
    <3>1. PICK w : writer' = [writer EXCEPT ![p][conns[p] + 1] = w]
      BY <2>1 DEF Connect
    <3>2. conns[p] \in Nat /\ writer \in [Peers -> [Connections -> WriterStates]]
      BY DEF LinkTypeOK
    <3>3. k = conns[p] + 1 => k > conns[p]
      BY <3>2
    <3>4. ~ (q = p /\ k = conns[p] + 1)
      BY <1>2, <3>3, NamesAssumption DEF UnmadeIdle
    <3>5. QED
      BY <3>1, <3>2, <3>4
  <2>2. CASE ReaderEnds(p) \/ ClientEnds(p)
    BY <2>2 DEF ReaderEnds, ReaderReturns, ClientEnds
  <2>3. QED
    BY <2>1, <2>2 DEF Client
<1>3. QED
  BY <1>1, <1>2 DEF Somewhere

\* A writer moves a frame from the queue to its hand, to the wire, or back.
LEMMA WriterKeeps ==
  ASSUME LinkTypeOK, NEW p \in Peers, NEW c \in Connections, Writer(p, c), NEW q \in Peers
  PROVE  Somewhere(q) \cap Events \subseteq Somewhere(q)'
<1>1. UNCHANGED <<inbound, ingested, dropped>>
  BY DEF Writer, WriterPop, WriterTakes, WriterSend, WriterFail, WriterFails, WriterEnds, peerVars
<1>2. /\ outbound \in [Peers -> Seq(Events)] /\ outbound[p] \in Seq(Events)
      /\ writer \in [Peers -> [Connections -> WriterStates]]
      /\ wire \in [Peers -> [Connections -> Seq(Events)]] /\ wire[p][c] \in Seq(Events)
      /\ vanished \in [Peers -> SUBSET Events]
  BY DEF LinkTypeOK
<1>3. CASE WriterPop(p, c)
  <2> DEFINE w == Head(outbound[p])
  <2>1. /\ writer[p][c] = "polling" /\ outbound[p] # <<>>
        /\ writer' = [writer EXCEPT ![p][c] = w]
        /\ outbound' = [outbound EXCEPT ![p] = Tail(outbound[p])]
        /\ UNCHANGED <<wire, vanished>>
    BY <1>3 DEF WriterPop, WriterTakes
  <2>2. Range(outbound[p]) \subseteq {w} \cup Range(Tail(outbound[p]))
    BY <1>2, <2>1, TailContents
  <2> HIDE DEF w
  <2>3. writer[p][c] \notin Events
    BY <2>1, NamesAssumption
  <2>4. \A k \in Connections : writer[q][k] \in Events => writer'[q][k] = writer[q][k]
    BY <1>2, <2>1, <2>3
  <2>5. Range(outbound[q]) \subseteq Range(outbound'[q]) \cup {writer'[q][k] : k \in Connections}
    <3>1. CASE q = p
      <4>1. writer'[q][c] = w /\ outbound'[q] = Tail(outbound[p])
        BY <1>2, <2>1, <3>1
      <4>2. QED
        BY <2>2, <3>1, <4>1
    <3>2. CASE q # p
      BY <1>2, <2>1, <3>2
    <3>3. QED
      BY <3>1, <3>2
  <2>6. QED
    BY <1>1, <2>1, <2>4, <2>5 DEF Somewhere
<1>4. CASE WriterSend(p, c)
  <2> DEFINE w == writer[p][c]
  <2>1. /\ w \in Events
        /\ writer' = [writer EXCEPT ![p][c] = "polling"]
        /\ UNCHANGED outbound
        /\ \/ /\ wire' = [wire EXCEPT ![p][c] = Append(@, w)]
              /\ vanished' = vanished
           \/ /\ vanished' = [vanished EXCEPT ![p] = @ \cup {w}]
              /\ wire' = wire
    BY <1>4 DEF WriterSend, Holds
  <2>2. Range(Append(wire[p][c], w)) = Range(wire[p][c]) \cup {w}
    BY <1>2, <2>1, ExtendedContents
  <2>3. \A k \in Connections : ~ (q = p /\ k = c) => writer'[q][k] = writer[q][k]
    BY <1>2, <2>1
  <2>4. /\ \A k \in Connections : Range(wire[q][k]) \subseteq Range(wire'[q][k])
        /\ vanished[q] \subseteq vanished'[q]
        /\ q = p => w \in Range(wire'[q][c]) \cup vanished'[q]
    <3>1. CASE wire' = [wire EXCEPT ![p][c] = Append(@, w)] /\ vanished' = vanished
      <4>1. /\ q = p => wire'[q][c] = Append(wire[p][c], w)
            /\ \A k \in Connections : ~ (q = p /\ k = c) => wire'[q][k] = wire[q][k]
        BY <1>2, <3>1
      <4>2. QED
        BY <2>2, <3>1, <4>1
    <3>2. CASE vanished' = [vanished EXCEPT ![p] = @ \cup {w}] /\ wire' = wire
      BY <1>2, <3>2
    <3>3. QED
      BY <2>1, <3>1, <3>2
  <2> HIDE DEF w
  <2>5. ASSUME NEW k \in Connections
        PROVE  writer[q][k] \in Somewhere(q)'
    <3>1. CASE q = p /\ k = c
      <4>1. w \in Range(wire'[q][c]) \/ w \in vanished'[q]
        BY <2>4, <3>1
      <4>2. w \in Somewhere(q)'
        BY <4>1, PlacesOf
      <4>3. QED
        BY <3>1, <4>2 DEF w
    <3>2. CASE ~ (q = p /\ k = c)
      BY <2>3, <3>2 DEF Somewhere
    <3>3. QED
      BY <3>1, <3>2
  <2>6. ASSUME NEW x \in Somewhere(q)
        PROVE  x \in Somewhere(q)'
    <3>1. CASE \E k \in Connections : x = writer[q][k]
      BY <2>5, <3>1
    <3>2. CASE ~ \E k \in Connections : x = writer[q][k]
      BY <1>1, <2>1, <2>4, <3>2, PlacesOf
    <3>3. QED
      BY <3>1, <3>2
  <2>7. QED
    BY <2>6
<1>5. CASE WriterFail(p, c)
  <2> DEFINE w == writer[p][c]
  <2>1. /\ w \in Events
        /\ writer' = [writer EXCEPT ![p][c] = "ended"]
        /\ outbound' = [outbound EXCEPT ![p] = <<w>> \o outbound[p]]
        /\ UNCHANGED <<wire, vanished>>
    BY <1>5 DEF WriterFail, WriterFails, Holds
  <2>2. Range(outbound[p]) \cup {w} \subseteq Range(<<w>> \o outbound[p])
    BY <1>2, <2>1, ExtendedContents
  <2>3. \A k \in Connections : ~ (q = p /\ k = c) => writer'[q][k] = writer[q][k]
    BY <1>2, <2>1
  <2>4. Range(outbound[q]) \subseteq Range(outbound'[q]) /\ (q = p => w \in Range(outbound'[q]))
    <3>1. CASE q = p
      <4>1. outbound'[q] = <<w>> \o outbound[p]
        BY <1>2, <2>1, <3>1
      <4>2. QED
        BY <2>2, <3>1, <4>1
    <3>2. CASE q # p
      BY <1>2, <2>1, <3>2
    <3>3. QED
      BY <3>1, <3>2
  <2>5. QED
    BY <1>1, <2>1, <2>3, <2>4 DEF Somewhere
<1>6. CASE WriterEnds(p, c)
  <2>1. /\ writer[p][c] = "polling"
        /\ writer' = [writer EXCEPT ![p][c] = "ended"]
        /\ UNCHANGED <<outbound, wire, vanished>>
    BY <1>6 DEF WriterEnds
  <2>2. \A k \in Connections : writer[q][k] \in Events => writer'[q][k] = writer[q][k]
    BY <1>2, <2>1, NamesAssumption
  <2>3. QED
    BY <1>1, <2>1, <2>2 DEF Somewhere
<1>7. QED
  BY <1>3, <1>4, <1>5, <1>6 DEF Writer

\* A frame lost with its connection, or evicted by the peer, has vanished.
LEMMA PeerKeeps ==
  ASSUME LinkTypeOK, NEW p \in Peers,
         ProcessInbound(p) \/ \E c \in Connections : Remote(p, c),
         NEW q \in Peers
  PROVE  Somewhere(q) \subseteq Somewhere(q)'
<1>1. UNCHANGED <<outbound, writer, dropped>>
  BY DEF ProcessInbound, Remote, Cut, WireLost, Receive, pumpVars, connVars
<1>2. /\ wire \in [Peers -> [Connections -> Seq(Events)]]
      /\ inbound \in [Peers -> Seq(Events)] /\ inbound[p] \in Seq(Events)
      /\ ingested \in [Peers -> SUBSET Events]
      /\ vanished \in [Peers -> SUBSET Events]
  BY DEF LinkTypeOK
<1>3. CASE ProcessInbound(p)
  <2>1. /\ ingested' = [ingested EXCEPT ![p] = @ \cup Range(inbound[p])]
        /\ inbound' = [inbound EXCEPT ![p] = <<>>]
        /\ UNCHANGED <<wire, vanished>>
    BY <1>3 DEF ProcessInbound, connVars
  <2>2. Range(inbound[q]) \cup ingested[q] \subseteq Range(inbound'[q]) \cup ingested'[q]
    <3>1. CASE q = p
      <4>1. ingested'[q] = ingested[q] \cup Range(inbound[q])
        BY <1>2, <2>1, <3>1
      <4>2. QED
        BY <4>1
    <3>2. CASE q # p
      BY <1>2, <2>1, <3>2
    <3>3. QED
      BY <3>1, <3>2
  <2>3. QED
    BY <1>1, <2>1, <2>2, PlacesOf
<1>4. ASSUME NEW c \in Connections, Cut(p, c) \/ WireLost(p, c)
      PROVE  Somewhere(q) \subseteq Somewhere(q)'
  <2>1. /\ wire' = [wire EXCEPT ![p][c] = <<>>]
        /\ vanished' = [vanished EXCEPT ![p] = @ \cup Range(wire[p][c])]
        /\ UNCHANGED <<inbound, ingested>>
    BY <1>4 DEF Cut, WireLost, peerVars
  <2>2. \A k \in Connections : ~ (q = p /\ k = c) => wire'[q][k] = wire[q][k]
    BY <1>2, <2>1
  <2>3. vanished[q] \subseteq vanished'[q] /\ (q = p => Range(wire[q][c]) \subseteq vanished'[q])
    BY <1>2, <2>1
  <2>4. QED
    BY <1>1, <2>1, <2>2, <2>3, PlacesOf
<1>5. ASSUME NEW c \in Connections, Receive(p, c)
      PROVE  Somewhere(q) \subseteq Somewhere(q)'
  <2> DEFINE e == Head(wire[p][c])
             rest == Tail(wire[p][c])
             queue == Enqueued(inbound[p], e)
  <2>1. /\ wire[p][c] # <<>>
        /\ wire' = [wire EXCEPT ![p][c] = rest]
        /\ inbound' = [inbound EXCEPT ![p] = queue]
        /\ vanished' = [vanished EXCEPT ![p] = @ \cup Evicted(inbound[p])]
        /\ UNCHANGED ingested
    BY <1>5 DEF Receive
  <2>2. wire[p][c] \in Seq(Events)
    BY <1>2
  <2>3. e \in Events /\ Range(wire[p][c]) \subseteq {e} \cup Range(rest)
    BY <2>1, <2>2, TailContents
  <2>4. Range(inbound[p]) \cup {e} \subseteq Evicted(inbound[p]) \cup Range(queue)
    BY <1>2, <2>3, EnqueuedContents
  <2> HIDE DEF e, rest, queue
  <2>5. CASE q = p
    <3>1. /\ wire'[q][c] = rest /\ inbound'[q] = queue
          /\ vanished'[q] = vanished[q] \cup Evicted(inbound[p])
          /\ \A k \in Connections \ {c} : wire'[q][k] = wire[q][k]
      BY <1>2, <2>1, <2>5
    <3>2. Range(inbound[q]) \cup {e} \cup vanished[q] \subseteq Range(inbound'[q]) \cup vanished'[q]
      BY <2>4, <2>5, <3>1
    <3>3. \A k \in Connections : Range(wire[q][k]) \subseteq {e} \cup Range(wire'[q][k])
      BY <2>3, <2>5, <3>1
    <3>4. QED
      BY <1>1, <2>1, <3>2, <3>3, PlacesOf
  <2>6. CASE q # p
    <3>1. wire'[q] = wire[q] /\ inbound'[q] = inbound[q] /\ vanished'[q] = vanished[q]
      BY <1>2, <2>1, <2>6
    <3>2. QED
      BY <1>1, <2>1, <3>1, PlacesOf
  <2>7. QED
    BY <2>5, <2>6
<1>6. QED
  BY <1>3, <1>4, <1>5 DEF Remote

LEMMA AccountedStep ==
  ASSUME LinkInv, [LinkNext]_linkVars
  PROVE  MarkedIsSomewhere' /\ AcceptedIsSomewhere'
<1>1. /\ Typed /\ LinkTypeOK /\ UnmadeIdle /\ FlushInv
      /\ MarkedIsSomewhere /\ AcceptedIsSomewhere
  BY DEF LinkInv
<1>2. /\ handed \in [Peers -> SUBSET Events]
      /\ \A q \in Peers : handed[q] \subseteq Somewhere(q)
      /\ Range(flush.accepted) \subseteq Events
  <2>1. flush.accepted \in Seq(Events)
    BY <1>1 DEF LinkTypeOK
  <2>2. Range(flush.accepted) \subseteq Events
    BY <2>1, RangeOfSeq
  <2>3. QED
    BY <1>1, <2>2 DEF Typed, MarkedIsSomewhere
<1>3. ASSUME UNCHANGED pumpVars,
             \A q \in Peers : Somewhere(q) \cap Events \subseteq Somewhere(q)'
      PROVE  MarkedIsSomewhere' /\ AcceptedIsSomewhere'
  <2>1. handed' = handed /\ flush' = flush
    BY <1>3 DEF pumpVars, gossipVars
  <2>2. MarkedIsSomewhere'
    BY <1>2, <1>3, <2>1 DEF MarkedIsSomewhere
  <2>3. AcceptedIsSomewhere'
    <3>1. CASE flush = NoFlush
      BY <2>1, <3>1 DEF AcceptedIsSomewhere
    <3>2. CASE flush # NoFlush
      <4>1. PICK q \in Peers : q = flush.peer
        BY <1>1, <3>2 DEF FlushInv
      <4>2. Range(flush.accepted) \subseteq Somewhere(q)
        BY <1>1, <3>2, <4>1 DEF AcceptedIsSomewhere
      <4>3. Range(flush.accepted) \subseteq Somewhere(q)'
        BY <1>2, <1>3, <4>2
      <4>4. QED
        BY <2>1, <4>1, <4>3 DEF AcceptedIsSomewhere
    <3>3. QED
      BY <3>1, <3>2
  <2>4. QED
    BY <2>2, <2>3
<1>4. ASSUME NEW e \in Events, Publish(e)
      PROVE  MarkedIsSomewhere' /\ AcceptedIsSomewhere'
  <2>1. /\ flush = NoFlush /\ flush' = flush
        /\ \A q \in Peers : handed'[q] \subseteq handed[q]
        /\ UNCHANGED <<outbound, connVars, peerVars, dropped, vanished>>
    BY <1>4 DEF Publish, Insert
  <2>2. \A q \in Peers : Somewhere(q)' = Somewhere(q)
    BY <2>1 DEF Somewhere, connVars, peerVars
  <2>3. QED
    BY <1>2, <2>1, <2>2 DEF MarkedIsSomewhere, AcceptedIsSomewhere
<1>5. ASSUME NEW p \in Peers, FlushBegin(p)
      PROVE  MarkedIsSomewhere' /\ AcceptedIsSomewhere'
  <2>1. /\ UNCHANGED <<gossipVars, outbound, connVars, peerVars, dropped, vanished>>
        /\ flush'.accepted = <<>>
    BY <1>5 DEF FlushBegin
  <2>2. Range(flush'.accepted) = {}
    BY <2>1 DEF Range
  <2>3. handed' = handed /\ \A q \in Peers : Somewhere(q)' = Somewhere(q)
    BY <2>1 DEF Somewhere, connVars, peerVars, gossipVars
  <2>4. QED
    BY <1>2, <2>2, <2>3 DEF MarkedIsSomewhere, AcceptedIsSomewhere
<1>6. ASSUME NEW p \in Peers, FlushFrame(p)
      PROVE  MarkedIsSomewhere' /\ AcceptedIsSomewhere'
  <2>1. handed' = handed /\ flush.peer = p
    BY <1>6 DEF FlushFrame, FlushFrameThen, gossipVars
  <2>2. /\ \A q \in Peers : Somewhere(q) \subseteq Somewhere(q)'
        /\ Range(flush'.accepted) \subseteq Range(flush.accepted) \cup Somewhere(p)'
        /\ flush'.peer = p
    BY <1>1, <1>6, <2>1, PumpKeeps
  <2>3. Range(flush.accepted) \subseteq Somewhere(p)
    BY <1>1, <2>1, FlushHasPeer DEF AcceptedIsSomewhere
  <2>4. Range(flush'.accepted) \subseteq Somewhere(p)'
    BY <2>2, <2>3
  <2>5. MarkedIsSomewhere'
    BY <1>2, <2>1, <2>2 DEF MarkedIsSomewhere
  <2>6. AcceptedIsSomewhere'
    BY <2>2, <2>4 DEF AcceptedIsSomewhere
  <2>7. QED
    BY <2>5, <2>6
<1>7. ASSUME NEW p \in Peers, FlushEnd(p)
      PROVE  MarkedIsSomewhere' /\ AcceptedIsSomewhere'
  <2>1. /\ flush.peer = p /\ flush' = NoFlush
        /\ handed' = [handed EXCEPT ![p] = @ \cup Range(flush.accepted)]
        /\ UNCHANGED <<outbound, connVars, peerVars, dropped, vanished>>
    BY <1>7 DEF FlushEnd, MarkDelivered
  <2>2. Range(flush.accepted) \subseteq Somewhere(p)
    BY <1>1, <2>1, FlushHasPeer DEF AcceptedIsSomewhere
  <2>3. \A q \in Peers : Somewhere(q)' = Somewhere(q)
    BY <2>1 DEF Somewhere, connVars, peerVars
  <2>4. \A q \in Peers : handed'[q] \subseteq Somewhere(q)
    BY <1>2, <2>1, <2>2
  <2>5. MarkedIsSomewhere'
    BY <2>3, <2>4 DEF MarkedIsSomewhere
  <2>6. AcceptedIsSomewhere'
    BY <2>1 DEF AcceptedIsSomewhere
  <2>7. QED
    BY <2>5, <2>6
<1>8. ASSUME NEW p \in Peers, Client(p) \/ ProcessInbound(p)
      PROVE  MarkedIsSomewhere' /\ AcceptedIsSomewhere'
  <2>1. UNCHANGED pumpVars
    BY <1>8 DEF Client, Connect, ReaderEnds, ReaderReturns, ClientEnds, ProcessInbound, pumpVars
  <2>2. \A q \in Peers : Somewhere(q) \cap Events \subseteq Somewhere(q)'
    BY <1>1, <1>8, ClientKeeps, PeerKeeps
  <2>3. QED
    BY <1>3, <2>1, <2>2
<1>9. ASSUME NEW p \in Peers, NEW c \in Connections, Writer(p, c) \/ Remote(p, c)
      PROVE  MarkedIsSomewhere' /\ AcceptedIsSomewhere'
  <2>1. UNCHANGED pumpVars
    BY <1>9 DEF Writer, WriterPop, WriterTakes, WriterSend, WriterFail, WriterFails, WriterEnds,
                Remote, Cut, WireLost, Receive, pumpVars
  <2>2. \A q \in Peers : Somewhere(q) \cap Events \subseteq Somewhere(q)'
    BY <1>1, <1>9, WriterKeeps, PeerKeeps
  <2>3. QED
    BY <1>3, <2>1, <2>2
<1>10. ASSUME Stop \/ UNCHANGED linkVars
       PROVE  MarkedIsSomewhere' /\ AcceptedIsSomewhere'
  <2>1. UNCHANGED <<pumpVars, outbound, connVars, peerVars, dropped, vanished>>
    BY <1>10 DEF Stop, linkVars, pumpVars, connVars, peerVars
  <2>2. \A q \in Peers : Somewhere(q)' = Somewhere(q)
    BY <2>1 DEF Somewhere, connVars, peerVars
  <2>3. QED
    BY <1>3, <2>1, <2>2
<1>11. QED
  BY <1>4, <1>5, <1>6, <1>7, <1>8, <1>9, <1>10 DEF LinkNext, Pump

-----------------------------------------------------------------------------
(* The results *)

LEMMA LinkInvInit == LinkInit => LinkInv
<1> SUFFICES ASSUME LinkInit PROVE LinkInv
  OBVIOUS
<1>1. Typed
  BY TypeInit DEF LinkInit
<1>2. QED
  BY <1>1, LinkTypeInit, FlushInit, AccountedInit DEF LinkInv

LEMMA LinkInvStep == LinkInv /\ [LinkNext]_linkVars => LinkInv'
<1> SUFFICES ASSUME LinkInv, [LinkNext]_linkVars PROVE LinkInv'
  OBVIOUS
<1>1. Typed /\ LinkTypeOK /\ UnmadeIdle /\ FlushInv
  BY DEF LinkInv
<1>2. Typed'
  BY <1>1, StepImplements, TypeStep
<1>3. LinkTypeOK' /\ UnmadeIdle'
  BY <1>1, LinkTypeStep
<1>4. FlushInv'
  BY <1>1, FlushStep
<1>5. MarkedIsSomewhere' /\ AcceptedIsSomewhere'
  BY AccountedStep
<1>6. QED
  BY <1>2, <1>3, <1>4, <1>5 DEF LinkInv

\* The queues of the transport keep their bounds: the inbound queue its capacity,
\* an outbound queue its capacity and one frame for each writer that has failed.
THEOREM QueuesBounded == LinkSpec => []LinkTypeOK
<1>1. LinkInv => LinkTypeOK
  BY DEF LinkInv
<1>2. QED
  BY LinkInvInit, LinkInvStep, <1>1, PTL DEF LinkSpec

\* An event marked as delivered to a peer is in a queue, held by a writer, in
\* flight, processed by the peer or counted as lost, for any number of peers,
\* connections and events.
THEOREM MarkedNeverDisappears == LinkSpec => []MarkedIsSomewhere
<1>1. LinkInv => MarkedIsSomewhere
  BY DEF LinkInv
<1>2. QED
  BY LinkInvInit, LinkInvStep, <1>1, PTL DEF LinkSpec

\* The pump of tcp.rs, frame by frame and interleaved with the writers, marks
\* what Gossip allows an atomic emission to mark.
THEOREM PumpImplementsGossip == LinkSpec => GossipSpec
<1>1. LinkInit => GossipInit
  BY DEF LinkInit
<1>2. LinkInv /\ [LinkNext]_linkVars => [GossipNext]_gossipVars
  BY StepImplements DEF LinkInv
<1>3. QED
  BY LinkInvInit, LinkInvStep, <1>1, <1>2, PTL DEF LinkSpec, GossipSpec

\* So the transport hands no event to a peer twice during its stay in the outbox.
THEOREM LinkHandsOnce == LinkSpec => []HandedStaysMarked
BY PumpImplementsGossip, HandedNeverRepeated

-----------------------------------------------------------------------------
(* A frame is in one place *)

\* Places of the transport; HeldBy and InFlight, for each connection.
InQueue == <<"queued", 0>>
HeldBy(c) == <<"held", c>>
InFlight(c) == <<"in flight", c>>
Arrived == <<"arrived", 0>>
Ingested == <<"ingested", 0>>
Dropped == <<"dropped", 0>>
Vanished == <<"vanished", 0>>

\* The places of event e on its way to p, without its position in a queue.
Spots(p, e) ==
  {InQueue : x \in Range(outbound[p]) \cap {e}}
  \cup {HeldBy(c) : c \in {d \in Connections : writer[p][d] = e}}
  \cup {InFlight(c) : c \in {d \in Connections : e \in Range(wire[p][d])}}
  \cup {Arrived : x \in Range(inbound[p]) \cap {e}}
  \cup {Ingested : x \in ingested[p] \cap {e}}
  \cup {Dropped : x \in dropped[p] \cap {e}}
  \cup {Vanished : x \in vanished[p] \cap {e}}

\* The events that have never been queued for p: those not yet inserted, and
\* those of the outbox neither marked for p nor accepted by the flush under way.
Fresh(p) ==
  {e \in Events :
     \/ e \notin known
     \/ /\ e \in Range(pending) \ handed[p]
        /\ ~ (flush.peer = p /\ e \in Range(flush.accepted))}

\* As long as nothing is forgotten: a fresh event is nowhere, another one is in
\* one place at most, and no queue holds an event twice.
OnceAt(p) ==
  /\ \A e \in Events : \A s, t \in Spots(p, e) : s = t
  /\ \A e \in Fresh(p) : Spots(p, e) = {}
  /\ IsInjective(outbound[p]) /\ IsInjective(inbound[p])
  /\ \A c \in Connections : IsInjective(wire[p][c])

OnceInv == Cardinality(Events) <= MaxKnown => \A p \in Peers : OnceAt(p)

\* The head of a queue without repetition is not in the rest of it.
LEMMA TailOnce ==
  ASSUME NEW q \in Seq(Events), q # <<>>, IsInjective(q)
  PROVE  /\ IsInjective(Tail(q))
         /\ Head(q) \in Range(q)
         /\ Range(Tail(q)) \subseteq Range(q) \ {Head(q)}
<1>1. /\ Len(q) \in Nat \ {0} /\ DOMAIN q = 1 .. Len(q)
      /\ Head(q) = q[1] /\ DOMAIN Tail(q) = 1 .. Len(q) - 1
      /\ \A k \in 1 .. Len(q) - 1 : Tail(q)[k] = q[k + 1]
  OBVIOUS
<1>2. \A k \in DOMAIN Tail(q) : k + 1 \in DOMAIN q /\ k + 1 # 1 /\ Tail(q)[k] = q[k + 1]
  BY <1>1
<1>3. \A k, m \in DOMAIN Tail(q) : k + 1 = m + 1 => k = m
  BY <1>1
<1>4. 1 \in DOMAIN q
  BY <1>1
<1>5. QED
  BY <1>1, <1>2, <1>3, <1>4 DEF IsInjective, Range

\* A new event at the tail or at the head of a queue without repetition.
LEMMA PutOnce ==
  ASSUME NEW q \in Seq(Events), NEW e \in Events, IsInjective(q), e \notin Range(q)
  PROVE  /\ IsInjective(Append(q, e))
         /\ IsInjective(<<e>> \o q)
         /\ Range(<<e>> \o q) \subseteq Range(q) \cup {e}
<1>1. Len(q) \in Nat /\ DOMAIN q = 1 .. Len(q)
  OBVIOUS
<1>2. \A k \in DOMAIN q : q[k] # e
  BY DEF Range
<1>3. IsInjective(Append(q, e))
  <2>1. /\ DOMAIN Append(q, e) = 1 .. Len(q) + 1
        /\ Append(q, e)[Len(q) + 1] = e
        /\ \A k \in 1 .. Len(q) : Append(q, e)[k] = q[k]
    OBVIOUS
  <2>2. \A k \in DOMAIN Append(q, e) : k = Len(q) + 1 \/ k \in DOMAIN q
    BY <1>1, <2>1
  <2>3. QED
    BY <1>1, <1>2, <2>1, <2>2 DEF IsInjective
<1>4. /\ DOMAIN (<<e>> \o q) = 1 .. Len(q) + 1
      /\ (<<e>> \o q)[1] = e
      /\ \A k \in 1 .. Len(q) : (<<e>> \o q)[k + 1] = q[k]
  <2>1. <<e>> \in Seq(Events) /\ Len(<<e>>) = 1
    OBVIOUS
  <2>2. /\ <<e>> \o q \in Seq(Events)
        /\ Len(<<e>> \o q) = Len(q) + 1
        /\ (<<e>> \o q)[1] = e
        /\ \A k \in 1 .. Len(q) : (<<e>> \o q)[k + 1] = q[k]
    BY <1>1, <2>1, ConcatProperties
  <2>3. QED
    BY <1>1, <2>2
<1>5. ASSUME NEW k \in DOMAIN (<<e>> \o q)
      PROVE  \/ k = 1 /\ (<<e>> \o q)[k] = e
             \/ \E i \in DOMAIN q : k = i + 1 /\ (<<e>> \o q)[k] = q[i]
  <2>1. CASE k = 1
    BY <1>4, <2>1
  <2>2. CASE k # 1
    <3>1. k - 1 \in DOMAIN q /\ k = (k - 1) + 1
      BY <1>1, <1>4, <2>2
    <3>2. (<<e>> \o q)[k] = q[k - 1]
      BY <1>1, <1>4, <3>1
    <3>3. QED
      BY <3>1, <3>2
  <2>3. QED
    BY <2>1, <2>2
<1>6. IsInjective(<<e>> \o q)
  BY <1>2, <1>5 DEF IsInjective
<1>7. Range(<<e>> \o q) \subseteq Range(q) \cup {e}
  BY <1>5 DEF Range
<1>8. QED
  BY <1>3, <1>6, <1>7

\* A new event in a bounded queue without repetition: what is evicted is gone.
LEMMA EnqueuedOnce ==
  ASSUME NEW q \in Seq(Events), NEW e \in Events, IsInjective(q), e \notin Range(q)
  PROVE  /\ IsInjective(Enqueued(q, e))
         /\ Range(Enqueued(q, e)) \subseteq (Range(q) \ Evicted(q)) \cup {e}
<1>1. PICK drop \in 0 .. Len(q) :
        /\ Enqueued(q, e) \in Seq(Events)
        /\ Len(Enqueued(q, e)) = Len(q) - drop + 1
        /\ \A k \in 1 .. Len(q) - drop : Enqueued(q, e)[k] = q[k + drop]
        /\ Enqueued(q, e)[Len(q) - drop + 1] = e
        /\ Evicted(q) = {q[i] : i \in 1 .. drop}
  BY EnqueuedShape
<1>2. /\ Len(q) \in Nat /\ DOMAIN q = 1 .. Len(q) /\ drop \in Nat /\ drop <= Len(q)
      /\ DOMAIN Enqueued(q, e) = 1 .. Len(q) - drop + 1
  BY <1>1
<1>3. \A i \in 1 .. drop : i \in DOMAIN q
  BY <1>2
<1>4. \A k \in DOMAIN q : q[k] # e
  BY DEF Range
<1> DEFINE r == Enqueued(q, e)
<1>5. ASSUME NEW k \in DOMAIN r
      PROVE  \/ k = Len(q) - drop + 1 /\ r[k] = e
             \/ k + drop \in DOMAIN q /\ r[k] = q[k + drop] /\ ~ (k + drop <= drop)
  BY <1>1, <1>2
<1> HIDE DEF r
<1>6. ASSUME NEW k \in DOMAIN r, NEW m \in DOMAIN r, r[k] = r[m]
      PROVE  k = m
  <2>1. k + drop = m + drop => k = m
    BY <1>2 DEF r
  <2>2. CASE k = Len(q) - drop + 1 /\ r[k] = e
    BY <1>4, <1>5, <1>6, <2>2
  <2>3. CASE ~ (k = Len(q) - drop + 1 /\ r[k] = e)
    BY <1>4, <1>5, <1>6, <2>1, <2>3 DEF IsInjective
  <2>4. QED
    BY <2>2, <2>3
<1>7. ASSUME NEW k \in DOMAIN r, r[k] # e
      PROVE  r[k] \in Range(q) \ Evicted(q)
  <2>1. k + drop \in DOMAIN q /\ r[k] = q[k + drop] /\ ~ (k + drop <= drop)
    BY <1>5, <1>7
  <2>2. ASSUME NEW i \in 1 .. drop, q[i] = q[k + drop] PROVE FALSE
    <3>1. i = k + drop
      BY <1>3, <2>1, <2>2 DEF IsInjective
    <3>2. QED
      BY <2>1, <3>1
  <2>3. QED
    BY <1>1, <2>1, <2>2 DEF Range
<1>8. QED
  BY <1>6, <1>7 DEF r, IsInjective, Range

\* Which event is at which spot, before and after a step.
LEMMA SpotsOf ==
  ASSUME NEW p \in Peers, NEW e
  PROVE  /\ InQueue \in Spots(p, e) <=> e \in Range(outbound[p])
         /\ Arrived \in Spots(p, e) <=> e \in Range(inbound[p])
         /\ Ingested \in Spots(p, e) <=> e \in ingested[p]
         /\ Dropped \in Spots(p, e) <=> e \in dropped[p]
         /\ Vanished \in Spots(p, e) <=> e \in vanished[p]
         /\ \A c \in Connections : HeldBy(c) \in Spots(p, e) <=> writer[p][c] = e
         /\ \A c \in Connections :
              InFlight(c) \in Spots(p, e) <=> e \in Range(wire[p][c])
BY DEF Spots, InQueue, HeldBy, InFlight, Arrived, Ingested, Dropped, Vanished

LEMMA NextSpotsOf ==
  ASSUME NEW p \in Peers, NEW e
  PROVE  /\ InQueue \in Spots(p, e)' <=> e \in Range(outbound'[p])
         /\ Arrived \in Spots(p, e)' <=> e \in Range(inbound'[p])
         /\ Ingested \in Spots(p, e)' <=> e \in ingested'[p]
         /\ Dropped \in Spots(p, e)' <=> e \in dropped'[p]
         /\ Vanished \in Spots(p, e)' <=> e \in vanished'[p]
         /\ \A c \in Connections : HeldBy(c) \in Spots(p, e)' <=> writer'[p][c] = e
         /\ \A c \in Connections :
              InFlight(c) \in Spots(p, e)' <=> e \in Range(wire'[p][c])
BY DEF Spots, InQueue, HeldBy, InFlight, Arrived, Ingested, Dropped, Vanished

\* The spots after a step, when every place gains at most what spot b stands for.
LEMMA SpotsGain ==
  ASSUME NEW p \in Peers, NEW e, NEW b,
         e \in Range(outbound'[p]) => e \in Range(outbound[p]) \/ b = InQueue,
         e \in Range(inbound'[p]) => e \in Range(inbound[p]) \/ b = Arrived,
         e \in ingested'[p] => e \in ingested[p] \/ b = Ingested,
         e \in dropped'[p] => e \in dropped[p] \/ b = Dropped,
         e \in vanished'[p] => e \in vanished[p] \/ b = Vanished,
         \A c \in Connections : writer'[p][c] = e => writer[p][c] = e \/ b = HeldBy(c),
         \A c \in Connections :
           e \in Range(wire'[p][c]) => e \in Range(wire[p][c]) \/ b = InFlight(c)
  PROVE  Spots(p, e)' \subseteq Spots(p, e) \cup {b}
<1>1. SUFFICES ASSUME NEW s \in Spots(p, e)', s # b
                PROVE  s \in Spots(p, e)
  OBVIOUS
<1>2. \/ s = InQueue /\ e \in Range(outbound'[p])
      \/ s = Arrived /\ e \in Range(inbound'[p])
      \/ s = Ingested /\ e \in ingested'[p]
      \/ s = Dropped /\ e \in dropped'[p]
      \/ s = Vanished /\ e \in vanished'[p]
      \/ \E c \in Connections : s = HeldBy(c) /\ writer'[p][c] = e
      \/ \E c \in Connections : s = InFlight(c) /\ e \in Range(wire'[p][c])
  BY <1>1 DEF Spots
<1>3. CASE \E c \in Connections : s = HeldBy(c) /\ writer'[p][c] = e
  BY <1>1, <1>3, SpotsOf
<1>4. CASE \E c \in Connections : s = InFlight(c) /\ e \in Range(wire'[p][c])
  BY <1>1, <1>4, SpotsOf
<1>5. CASE ~ \E c \in Connections : \/ s = HeldBy(c) /\ writer'[p][c] = e
                                    \/ s = InFlight(c) /\ e \in Range(wire'[p][c])
  BY <1>1, <1>2, <1>5, SpotsOf
<1>6. QED
  BY <1>3, <1>4, <1>5

\* Only the pump and the insertions touch the gossip and the flush.
LEMMA PumpAlone ==
  ASSUME [LinkNext]_linkVars
  PROVE  \/ \E e \in Events : Publish(e)
         \/ \E p \in Peers : FlushBegin(p) \/ FlushFrame(p) \/ FlushEnd(p)
         \/ UNCHANGED pumpVars
<1>1. ASSUME NEW p \in Peers, Client(p) \/ ProcessInbound(p)
      PROVE  UNCHANGED pumpVars
  BY <1>1 DEF Client, Connect, ReaderEnds, ReaderReturns, ClientEnds, ProcessInbound, pumpVars
<1>2. ASSUME NEW p \in Peers, NEW c \in Connections, Writer(p, c) \/ Remote(p, c)
      PROVE  UNCHANGED pumpVars
  BY <1>2 DEF Writer, WriterPop, WriterTakes, WriterSend, WriterFail, WriterFails, WriterEnds,
              Remote, Cut, WireLost, Receive, pumpVars
<1>3. ASSUME Stop \/ UNCHANGED linkVars
      PROVE  UNCHANGED pumpVars
  BY <1>3 DEF Stop, linkVars, pumpVars
<1>4. QED
  BY <1>1, <1>2, <1>3 DEF LinkNext, Pump

\* The flush keeps its peer and what it has accepted; an accepted frame is added.
LEMMA AcceptedGrows ==
  ASSUME LinkTypeOK, NEW q \in Peers, FlushFrame(q)
  PROVE  /\ flush'.peer = flush.peer /\ flush.peer = q
         /\ Head(flush.todo) \in Events
         /\ Range(flush'.accepted) =
              IF Head(flush.todo) \in Oversized THEN Range(flush.accepted)
              ELSE Range(flush.accepted) \cup {Head(flush.todo)}
<1>1. /\ flush \in [peer : Peers \cup {"none"}, todo : Seq(Events), accepted : Seq(Events)]
      /\ flush.todo # <<>> /\ flush.peer = q
      /\ IF Head(flush.todo) \in Oversized
         THEN flush' = [flush EXCEPT !.todo = <<>>]
         ELSE flush' = [flush EXCEPT !.todo = Tail(@), !.accepted = Append(@, Head(flush.todo))]
  BY DEF FlushFrame, FlushFrameThen, LinkTypeOK
<1>2. Head(flush.todo) \in Events /\ flush.accepted \in Seq(Events)
  BY <1>1, TailContents
<1>3. CASE Head(flush.todo) \in Oversized
  BY <1>1, <1>2, <1>3
<1>4. CASE Head(flush.todo) \notin Oversized
  <2>1. flush'.peer = flush.peer /\ flush'.accepted = Append(flush.accepted, Head(flush.todo))
    BY <1>1, <1>4
  <2>2. QED
    BY <1>1, <1>2, <1>4, <2>1, ExtendedContents
<1>5. QED
  BY <1>3, <1>4

\* The next frame of a batch has never been queued for its peer.
LEMMA NextIsFresh ==
  ASSUME OutboxInv, HandedInv, LinkTypeOK, FlushInv, NEW p \in Peers,
         flush.peer = p, flush.todo # <<>>
  PROVE  Head(flush.todo) \in Fresh(p) /\ Head(flush.todo) \in Range(pending)
<1> DEFINE batch == Peek(p, PumpBatch)
           e == Head(flush.todo)
<1>1. Typed /\ OutboxKnown
  BY DEF OutboxInv
<1>2. /\ batch \in Seq(Events) /\ Len(batch) \in Nat /\ DOMAIN batch = 1 .. Len(batch)
      /\ Range(batch) \subseteq Range(pending) \ Range(delivered[p])
      /\ \A a, b \in DOMAIN batch : batch[a] = batch[b] => a = b
  <2>1. PumpBatch \in Nat
    BY BoundsAssumption
  <2>2. IsBatch(p, batch)
    BY <1>1, <2>1, PeekIsBatch
  <2>3. QED
    BY <1>1, <2>2 DEF IsBatch, OutboxKnown
<1>3. PICK n \in 0 .. Len(batch) : /\ flush.accepted = SubSeq(batch, 1, n)
                                   /\ flush.todo = SubSeq(batch, n + 1, Len(batch))
  BY FlushHasPeer DEF FlushInv
<1> HIDE DEF batch
<1>4. n \in Nat /\ n <= Len(batch)
  BY <1>2, <1>3
<1>5. /\ flush.todo \in Seq(Events) /\ Len(flush.todo) = Len(batch) - n
      /\ \A k \in 1 .. Len(batch) - n : flush.todo[k] = batch[k + n]
  <2>1. /\ SubSeq(batch, n + 1, Len(batch)) \in Seq(Events)
        /\ Len(SubSeq(batch, n + 1, Len(batch))) = Len(batch) - n
        /\ \A k \in 1 .. Len(batch) - n : SubSeq(batch, n + 1, Len(batch))[k] = batch[k + n]
    BY <1>2, <1>3, SuffixProperties
  <2>2. QED
    BY <1>3, <2>1
<1>6. n < Len(batch)
  <2>1. Len(batch) \in Nat
    BY <1>2
  <2>2. SUFFICES ASSUME n = Len(batch) PROVE FALSE
    BY <1>4, <2>1
  <2>3. Len(flush.todo) = 0
    BY <1>5, <2>1, <2>2
  <2>4. QED
    BY <1>5, <2>3
<1>7. e = batch[n + 1] /\ n + 1 \in DOMAIN batch
  <2>1. e = flush.todo[1]
    BY <1>5
  <2>2. 1 \in 1 .. Len(batch) - n /\ 1 + n = n + 1
    BY <1>2, <1>4, <1>6
  <2>3. flush.todo[1] = batch[n + 1]
    <3>1. flush.todo[1] = batch[1 + n]
      BY <1>5, <2>2
    <3>2. QED
      BY <2>2, <3>1
  <2>4. n + 1 \in DOMAIN batch
    BY <1>2, <1>4, <1>6
  <2>5. QED
    BY <2>1, <2>3, <2>4
<1>8. e \notin Range(flush.accepted)
  <2>1. \A k \in DOMAIN SubSeq(batch, 1, n) : k \in DOMAIN batch /\ k # n + 1 /\ SubSeq(batch, 1, n)[k] = batch[k]
    BY <1>2, <1>4
  <2>2. QED
    BY <1>2, <1>3, <1>7, <2>1 DEF Range
<1>9. e \in Range(batch)
  BY <1>7 DEF Range
<1>10. handed[p] \subseteq Range(delivered[p])
  BY DEF HandedInv, HandedStaysMarked
<1>11. e \in Events
  BY <1>2, <1>7
<1>12. QED
  BY <1>2, <1>8, <1>9, <1>10, <1>11 DEF Fresh

\* A step that takes no event out of one place without putting it in another.
LEMMA OnceMoves ==
  ASSUME NEW p \in Peers, OnceAt(p), Fresh(p)' \subseteq Fresh(p),
         \A e \in Events :
           \/ Spots(p, e)' \subseteq Spots(p, e)
           \/ \E a \in Spots(p, e) : \E b : a \notin Spots(p, e)' /\ Spots(p, e)' \subseteq Spots(p, e) \cup {b}
           \/ e \in Fresh(p) \ Fresh(p)' /\ \E b : Spots(p, e)' \subseteq Spots(p, e) \cup {b},
         IsInjective(outbound'[p]), IsInjective(inbound'[p]),
         \A c \in Connections : IsInjective(wire'[p][c])
  PROVE  OnceAt(p)'
<1>1. /\ \A e \in Events : \A s, t \in Spots(p, e) : s = t
      /\ \A e \in Fresh(p) : Spots(p, e) = {}
  BY DEF OnceAt
<1>2. Fresh(p) \subseteq Events
  BY DEF Fresh
<1>3. ASSUME NEW e \in Events, NEW s \in Spots(p, e)', NEW t \in Spots(p, e)'
      PROVE  s = t /\ e \notin Fresh(p)'
  <2>1. CASE Spots(p, e)' \subseteq Spots(p, e)
    BY <1>1, <1>3, <2>1
  <2>2. ASSUME NEW a \in Spots(p, e), NEW b, a \notin Spots(p, e)',
               Spots(p, e)' \subseteq Spots(p, e) \cup {b}
        PROVE  s = t /\ e \notin Fresh(p)'
    <3>1. Spots(p, e) \subseteq {a}
      BY <1>1, <2>2
    <3>2. s = b /\ t = b
      BY <1>3, <2>2, <3>1
    <3>3. e \notin Fresh(p)
      BY <1>1, <2>2
    <3>4. QED
      BY <3>2, <3>3
  <2>3. ASSUME e \in Fresh(p) \ Fresh(p)', NEW b, Spots(p, e)' \subseteq Spots(p, e) \cup {b}
        PROVE  s = t /\ e \notin Fresh(p)'
    BY <1>1, <1>3, <2>3
  <2>4. QED
    BY <2>1, <2>2, <2>3
<1>4. \A e \in Fresh(p)' : Spots(p, e)' = {}
  BY <1>2, <1>3
<1>5. QED
  BY <1>3, <1>4 DEF OnceAt

\* A step that touches nothing of p but perhaps ends the freshness of an event.
LEMMA OnceKept ==
  ASSUME NEW p \in Peers, OnceAt(p), Fresh(p)' \subseteq Fresh(p),
         outbound'[p] = outbound[p], writer'[p] = writer[p], wire'[p] = wire[p],
         inbound'[p] = inbound[p], ingested'[p] = ingested[p],
         dropped'[p] = dropped[p], vanished'[p] = vanished[p]
  PROVE  OnceAt(p)'
<1>1. \A e \in Events : Spots(p, e)' = Spots(p, e)
  BY DEF Spots
<1>2. Fresh(p)' \subseteq Events
  BY DEF Fresh
<1>3. QED
  BY <1>1, <1>2 DEF OnceAt

\* A step after which every place holds at most what it held.
LEMMA SpotsShrink ==
  ASSUME NEW p \in Peers, NEW e,
         e \in Range(outbound'[p]) => e \in Range(outbound[p]),
         e \in Range(inbound'[p]) => e \in Range(inbound[p]),
         e \in ingested'[p] => e \in ingested[p],
         e \in dropped'[p] => e \in dropped[p],
         e \in vanished'[p] => e \in vanished[p],
         \A c \in Connections : writer'[p][c] = e => writer[p][c] = e,
         \A c \in Connections : e \in Range(wire'[p][c]) => e \in Range(wire[p][c])
  PROVE  Spots(p, e)' \subseteq Spots(p, e)
<1>1. /\ Spots(p, e)' \subseteq Spots(p, e) \cup {Dropped}
      /\ Spots(p, e)' \subseteq Spots(p, e) \cup {Vanished}
  BY SpotsGain
<1>2. Dropped # Vanished
  BY DEF Dropped, Vanished
<1>3. QED
  BY <1>1, <1>2

\* While nothing is forgotten, no event becomes fresh.
LEMMA FreshShrinks ==
  ASSUME OutboxInv, LinkTypeOK, Cardinality(Events) <= MaxKnown,
         [LinkNext]_linkVars, NEW p \in Peers
  PROVE  Fresh(p)' \subseteq Fresh(p)
<1>1. Typed /\ OutboxKnown
  BY DEF OutboxInv
<1>2. NoFlush.peer # p
  BY NamesAssumption DEF NoFlush
<1>3. ASSUME NEW e \in Events, Publish(e)
      PROVE  Fresh(p)' \subseteq Fresh(p)
  <2>1. /\ e \notin known /\ pending' = Pushed(e)
        /\ known' \in AfterExpiry(known \cup {e}, Range(pending'))
        /\ handed' = [q \in Peers |-> handed[q] \cap (Range(pending') \ {e})]
        /\ flush = NoFlush
    BY <1>3 DEF Publish, Insert
  <2>2. known' = known \cup {e}
    <3>1. known \cup {e} \subseteq Events
      BY <1>1 DEF Typed
    <3>2. IsFiniteSet(Events) /\ MaxKnown \in Nat
      BY LinkAssumption, BoundsAssumption
    <3>3. /\ Cardinality(known \cup {e}) <= Cardinality(Events)
          /\ Cardinality(known \cup {e}) \in Nat /\ Cardinality(Events) \in Nat
      BY <3>1, <3>2, FS_Subset, FS_CardinalityType
    <3>4. Cardinality(known \cup {e}) <= MaxKnown
      BY <3>2, <3>3
    <3>5. QED
      BY <2>1, <3>4 DEF AfterExpiry
  <2>3. Range(pending') \subseteq Range(pending) \cup {e}
    BY <1>1, <2>1, PushedContents
  <2>4. handed'[p] = handed[p] \cap (Range(pending') \ {e})
    BY <2>1
  <2>5. QED
    BY <1>2, <2>1, <2>2, <2>3, <2>4 DEF Fresh
<1>4. ASSUME NEW q \in Peers, FlushBegin(q)
      PROVE  Fresh(p)' \subseteq Fresh(p)
  <2>1. flush = NoFlush /\ UNCHANGED <<known, pending, handed>>
    BY <1>4 DEF FlushBegin, gossipVars
  <2>2. QED
    BY <1>2, <2>1 DEF Fresh
<1>5. ASSUME NEW q \in Peers, FlushFrame(q)
      PROVE  Fresh(p)' \subseteq Fresh(p)
  <2>1. UNCHANGED <<known, pending, handed>>
    BY <1>5 DEF FlushFrame, FlushFrameThen, gossipVars
  <2>2. flush'.peer = flush.peer /\ Range(flush.accepted) \subseteq Range(flush'.accepted)
    BY <1>5, AcceptedGrows
  <2>3. QED
    BY <2>1, <2>2 DEF Fresh
<1>6. ASSUME NEW q \in Peers, FlushEnd(q)
      PROVE  Fresh(p)' \subseteq Fresh(p)
  <2>1. /\ flush.peer = q /\ flush' = NoFlush
        /\ handed' = [handed EXCEPT ![q] = @ \cup Range(flush.accepted)]
        /\ UNCHANGED <<known, pending>>
    BY <1>6 DEF FlushEnd, MarkDelivered
  <2>2. /\ handed[p] \subseteq handed'[p]
        /\ p = q => Range(flush.accepted) \subseteq handed'[p]
    BY <1>1, <2>1 DEF Typed
  <2>3. QED
    BY <2>1, <2>2 DEF Fresh
<1>7. ASSUME UNCHANGED pumpVars
      PROVE  Fresh(p)' \subseteq Fresh(p)
  BY <1>7 DEF pumpVars, gossipVars, Fresh
<1>8. QED
  BY <1>3, <1>4, <1>5, <1>6, <1>7, PumpAlone DEF LinkNext, Pump

\* The pump queues a fresh event; what the full queue evicts is dropped.
LEMMA PumpOnce ==
  ASSUME OutboxInv, HandedInv, LinkTypeOK, FlushInv, NEW q \in Peers, FlushFrame(q),
         NEW p \in Peers, OnceAt(p), Fresh(p)' \subseteq Fresh(p)
  PROVE  OnceAt(p)'
<1>0. PICK e : e = Head(flush.todo)
  OBVIOUS
<1>1. /\ UNCHANGED <<known, pending, writer, wire, inbound, ingested, vanished>>
      /\ outbound \in [Peers -> Seq(Events)] /\ dropped \in [Peers -> SUBSET Events]
      /\ flush.todo # <<>> /\ flush.peer = q
  BY DEF FlushFrame, FlushFrameThen, gossipVars, connVars, peerVars, LinkTypeOK
<1>2. CASE e \in Oversized
  <2>1. UNCHANGED <<outbound, dropped>>
    BY <1>0, <1>2 DEF FlushFrame, FlushFrameThen
  <2>2. QED
    BY <1>1, <2>1, OnceKept
<1>3. CASE e \notin Oversized
  <2>1. /\ outbound' = [outbound EXCEPT ![q] = Enqueued(outbound[q], e)]
        /\ dropped' = [dropped EXCEPT ![q] = dropped[q] \cup Evicted(outbound[q])]
    BY <1>0, <1>3 DEF FlushFrame, FlushFrameThen
  <2>2. CASE p # q
    <3>1. outbound'[p] = outbound[p] /\ dropped'[p] = dropped[p]
      BY <1>1, <2>1, <2>2
    <3>2. QED
      BY <1>1, <3>1, OnceKept
  <2>3. CASE p = q
    <3>1. /\ outbound'[p] = Enqueued(outbound[p], e)
          /\ dropped'[p] = dropped[p] \cup Evicted(outbound[p])
          /\ outbound[p] \in Seq(Events)
      BY <1>1, <2>1, <2>3
    <3>2. /\ e \in Fresh(p) /\ e \in known /\ e \in Events
          /\ flush'.peer = p /\ e \in Range(flush'.accepted)
      BY <1>0, <1>1, <1>3, <2>3, NextIsFresh, AcceptedGrows DEF OutboxInv, OutboxKnown
    <3>3. e \notin Fresh(p)'
      BY <1>1, <3>2 DEF Fresh
    <3>4. /\ IsInjective(outbound[p]) /\ IsInjective(inbound[p])
          /\ \A c \in Connections : IsInjective(wire[p][c])
          /\ Spots(p, e) = {}
      BY <3>2 DEF OnceAt
    <3>5. e \notin Range(outbound[p])
      BY <3>4, SpotsOf
    <3>6. /\ IsInjective(outbound'[p])
          /\ Range(outbound'[p]) \subseteq (Range(outbound[p]) \ Evicted(outbound[p])) \cup {e}
          /\ Evicted(outbound[p]) \subseteq Range(outbound[p])
      BY <3>1, <3>2, <3>4, <3>5, EnqueuedOnce, EnqueuedContents
    <3>7. Spots(p, e)' \subseteq Spots(p, e) \cup {InQueue}
      <4>1. e \in dropped'[p] => e \in dropped[p]
        BY <3>1, <3>5, <3>6
      <4>2. QED
        BY <1>1, <4>1, SpotsGain
    <3>8. ASSUME NEW x \in Evicted(outbound[p])
          PROVE  /\ InQueue \in Spots(p, x) /\ InQueue \notin Spots(p, x)'
                 /\ Spots(p, x)' \subseteq Spots(p, x) \cup {Dropped}
      <4>1. x \in Range(outbound[p]) /\ x \notin Range(outbound'[p])
        BY <3>5, <3>6, <3>8
      <4>2. Spots(p, x)' \subseteq Spots(p, x) \cup {Dropped}
        BY <1>1, <4>1, SpotsGain
      <4>3. QED
        BY <4>1, <4>2, SpotsOf, NextSpotsOf
    <3>9. ASSUME NEW x, x # e, x \notin Evicted(outbound[p])
          PROVE  Spots(p, x)' \subseteq Spots(p, x)
      <4>1. /\ x \in Range(outbound'[p]) => x \in Range(outbound[p])
            /\ x \in dropped'[p] => x \in dropped[p]
        BY <3>1, <3>6, <3>9
      <4>2. QED
        BY <1>1, <4>1, SpotsShrink
    <3>10. ASSUME NEW x \in Events
           PROVE
             \/ Spots(p, x)' \subseteq Spots(p, x)
             \/ \E a \in Spots(p, x) : \E b : a \notin Spots(p, x)' /\ Spots(p, x)' \subseteq Spots(p, x) \cup {b}
             \/ x \in Fresh(p) \ Fresh(p)' /\ \E b : Spots(p, x)' \subseteq Spots(p, x) \cup {b}
      <4>1. CASE x = e
        BY <3>2, <3>3, <3>7, <4>1
      <4>2. CASE x # e /\ x \in Evicted(outbound[p])
        BY <3>8, <4>2
      <4>3. CASE x # e /\ x \notin Evicted(outbound[p])
        BY <3>9, <4>3
      <4>4. QED
        BY <4>1, <4>2, <4>3
    <3>11. QED
      BY <1>1, <3>4, <3>6, <3>10, OnceMoves
  <2>4. QED
    BY <2>2, <2>3
<1>4. QED
  BY <1>2, <1>3

\* A client thread gives a new connection a writer that holds no frame.
LEMMA ClientOnce ==
  ASSUME LinkTypeOK, NEW q \in Peers, Client(q),
         NEW p \in Peers, OnceAt(p), Fresh(p)' \subseteq Fresh(p)
  PROVE  OnceAt(p)'
<1>1. UNCHANGED <<outbound, wire, inbound, ingested, dropped, vanished>>
  BY DEF Client, Connect, ReaderEnds, ReaderReturns, ClientEnds, peerVars
<1>2. /\ writer \in [Peers -> [Connections -> WriterStates]]
      /\ conns \in [Peers -> 0 .. MaxConns]
  BY DEF LinkTypeOK
<1>3. ASSUME NEW x \in Events, NEW c \in Connections, writer'[p][c] = x
      PROVE  writer[p][c] = x
  <2>1. CASE Connect(q)
    <3>1. PICK w \in WriterStarts : writer' = [writer EXCEPT ![q][conns[q] + 1] = w]
      BY <2>1 DEF Connect
    <3>2. w \notin Events
      BY LinkAssumption, NamesAssumption
    <3>3. QED
      BY <1>2, <1>3, <3>1, <3>2
  <2>2. CASE ReaderEnds(q) \/ ClientEnds(q)
    BY <1>3, <2>2 DEF ReaderEnds, ReaderReturns, ClientEnds
  <2>3. QED
    BY <2>1, <2>2 DEF Client
<1>4. \A x \in Events : Spots(p, x)' \subseteq Spots(p, x)
  BY <1>1, <1>3, SpotsShrink
<1>5. QED
  BY <1>1, <1>4, OnceMoves DEF OnceAt

\* A writer moves one frame: from the queue, to the wire or back.
LEMMA WriterOnce ==
  ASSUME LinkTypeOK, NEW q \in Peers, NEW c \in Connections, Writer(q, c),
         NEW p \in Peers, OnceAt(p), Fresh(p)' \subseteq Fresh(p)
  PROVE  OnceAt(p)'
<1>1. UNCHANGED <<inbound, ingested, dropped>>
  BY DEF Writer, WriterPop, WriterTakes, WriterSend, WriterFail, WriterFails, WriterEnds, peerVars
<1>2. /\ outbound \in [Peers -> Seq(Events)] /\ vanished \in [Peers -> SUBSET Events]
      /\ writer \in [Peers -> [Connections -> WriterStates]]
      /\ wire \in [Peers -> [Connections -> Seq(Events)]]
  BY DEF LinkTypeOK
<1>3. CASE p # q
  <2>1. /\ outbound'[p] = outbound[p] /\ writer'[p] = writer[p]
        /\ wire'[p] = wire[p] /\ vanished'[p] = vanished[p]
    BY <1>2, <1>3 DEF Writer, WriterPop, WriterTakes, WriterSend, WriterFail, WriterFails, WriterEnds
  <2>2. QED
    BY <1>1, <2>1, OnceKept
<1>4. CASE p = q
  <2>1. /\ IsInjective(outbound[p]) /\ IsInjective(inbound[p])
        /\ \A k \in Connections : IsInjective(wire[p][k])
        /\ \A x \in Events : \A s, t \in Spots(p, x) : s = t
    BY DEF OnceAt
  <2>2. /\ InQueue # HeldBy(c) /\ HeldBy(c) # InFlight(c)
    BY DEF InQueue, HeldBy, InFlight
  <2>3. CASE WriterPop(p, c)
    <3>0. PICK w : w = Head(outbound[p])
      OBVIOUS
    <3>1. /\ writer[p][c] = "polling" /\ outbound[p] # <<>> /\ outbound[p] \in Seq(Events)
          /\ writer' = [writer EXCEPT ![p][c] = w]
          /\ outbound' = [outbound EXCEPT ![p] = Tail(outbound[p])]
          /\ UNCHANGED <<wire, vanished>>
      BY <1>2, <2>3, <3>0 DEF WriterPop, WriterTakes
    <3>2. /\ w \in Range(outbound[p]) /\ IsInjective(Tail(outbound[p]))
          /\ Range(Tail(outbound[p])) \subseteq Range(outbound[p]) \ {w}
      BY <2>1, <3>0, <3>1, TailOnce
    <3>3. /\ outbound'[p] = Tail(outbound[p]) /\ writer'[p][c] = w
          /\ \A k \in Connections \ {c} : writer'[p][k] = writer[p][k]
      BY <1>2, <3>1
    <3>4. Spots(p, w)' \subseteq Spots(p, w) \cup {HeldBy(c)}
      <4>1. \A k \in Connections : writer'[p][k] = w => writer[p][k] = w \/ HeldBy(c) = HeldBy(k)
        BY <3>3
      <4>2. w \in Range(outbound'[p]) => w \in Range(outbound[p])
        BY <3>2
      <4>3. QED
        BY <1>1, <3>1, <4>1, <4>2, SpotsGain
    <3>5. InQueue \in Spots(p, w) /\ InQueue \notin Spots(p, w)'
      BY <3>2, <3>3, SpotsOf, NextSpotsOf
    <3>6. ASSUME NEW x, x # w
          PROVE  Spots(p, x)' \subseteq Spots(p, x)
      <4>1. \A k \in Connections : writer'[p][k] = x => writer[p][k] = x
        BY <3>3, <3>6
      <4>2. x \in Range(outbound'[p]) => x \in Range(outbound[p])
        BY <3>2, <3>3
      <4>3. QED
        BY <1>1, <3>1, <4>1, <4>2, SpotsShrink
    <3>7. QED
      BY <1>1, <2>1, <3>1, <3>2, <3>3, <3>4, <3>5, <3>6, OnceMoves
  <2>4. CASE WriterSend(p, c)
    <3>0. PICK w : w = writer[p][c]
      OBVIOUS
    <3>1. /\ w \in Events
          /\ writer' = [writer EXCEPT ![p][c] = "polling"]
          /\ UNCHANGED outbound
          /\ \/ /\ wire' = [wire EXCEPT ![p][c] = Append(wire[p][c], w)]
                /\ vanished' = vanished
             \/ /\ vanished' = [vanished EXCEPT ![p] = vanished[p] \cup {w}]
                /\ wire' = wire
      BY <2>4, <3>0 DEF WriterSend, Holds
    <3>2. /\ writer'[p][c] = "polling" /\ "polling" \notin Events
          /\ \A k \in Connections \ {c} : writer'[p][k] = writer[p][k]
      BY <1>2, <3>1, NamesAssumption
    <3>3. HeldBy(c) \in Spots(p, w) /\ HeldBy(c) \notin Spots(p, w)'
      BY <3>0, <3>1, <3>2, SpotsOf, NextSpotsOf
    <3>4. wire[p][c] \in Seq(Events) /\ w \notin Range(wire[p][c])
      BY <1>2, <2>1, <2>2, <3>1, <3>3, SpotsOf
    <3>5. Range(Append(wire[p][c], w)) = Range(wire[p][c]) \cup {w} /\ IsInjective(Append(wire[p][c], w))
      BY <2>1, <3>1, <3>4, ExtendedContents, PutOnce
    <3>6. \A x \in Events, k \in Connections : writer'[p][k] = x => writer[p][k] = x
      BY <3>2
    <3>7. CASE wire' = [wire EXCEPT ![p][c] = Append(wire[p][c], w)] /\ vanished' = vanished
      <4>1. /\ wire'[p][c] = Append(wire[p][c], w)
            /\ \A k \in Connections \ {c} : wire'[p][k] = wire[p][k]
        BY <1>2, <3>7
      <4>2. \A k \in Connections : IsInjective(wire'[p][k])
        BY <2>1, <3>5, <4>1
      <4>3. Spots(p, w)' \subseteq Spots(p, w) \cup {InFlight(c)}
        <5>1. \A k \in Connections :
                w \in Range(wire'[p][k]) => w \in Range(wire[p][k]) \/ InFlight(c) = InFlight(k)
          BY <4>1
        <5>2. QED
          BY <1>1, <3>1, <3>6, <3>7, <5>1, SpotsGain
      <4>4. ASSUME NEW x \in Events, x # w
            PROVE  Spots(p, x)' \subseteq Spots(p, x)
        <5>1. \A k \in Connections : x \in Range(wire'[p][k]) => x \in Range(wire[p][k])
          BY <3>5, <4>1, <4>4
        <5>2. QED
          BY <1>1, <3>1, <3>6, <3>7, <5>1, SpotsShrink
      <4>5. QED
        BY <1>1, <2>1, <3>1, <3>3, <4>2, <4>3, <4>4, OnceMoves
    <3>8. CASE vanished' = [vanished EXCEPT ![p] = vanished[p] \cup {w}] /\ wire' = wire
      <4>1. vanished'[p] = vanished[p] \cup {w}
        BY <1>2, <3>8
      <4>2. Spots(p, w)' \subseteq Spots(p, w) \cup {Vanished}
        BY <1>1, <3>1, <3>6, <3>8, SpotsGain
      <4>3. ASSUME NEW x \in Events, x # w
            PROVE  Spots(p, x)' \subseteq Spots(p, x)
        <5>1. x \in vanished'[p] => x \in vanished[p]
          BY <4>1, <4>3
        <5>2. QED
          BY <1>1, <3>1, <3>6, <3>8, <5>1, SpotsShrink
      <4>4. QED
        BY <1>1, <2>1, <3>1, <3>3, <3>8, <4>2, <4>3, OnceMoves
    <3>9. QED
      BY <3>1, <3>7, <3>8
  <2>5. CASE WriterFail(p, c)
    <3>0. PICK w : w = writer[p][c]
      OBVIOUS
    <3>1. /\ w \in Events /\ outbound[p] \in Seq(Events)
          /\ writer' = [writer EXCEPT ![p][c] = "ended"]
          /\ outbound' = [outbound EXCEPT ![p] = <<w>> \o outbound[p]]
          /\ UNCHANGED <<wire, vanished>>
      BY <1>2, <2>5, <3>0 DEF WriterFail, WriterFails, Holds
    <3>2. /\ writer'[p][c] = "ended" /\ "ended" \notin Events
          /\ \A k \in Connections \ {c} : writer'[p][k] = writer[p][k]
          /\ outbound'[p] = <<w>> \o outbound[p]
      BY <1>2, <3>1, NamesAssumption
    <3>3. HeldBy(c) \in Spots(p, w) /\ HeldBy(c) \notin Spots(p, w)'
      BY <3>0, <3>1, <3>2, SpotsOf, NextSpotsOf
    <3>4. w \notin Range(outbound[p])
      BY <2>1, <2>2, <3>1, <3>3, SpotsOf
    <3>5. IsInjective(outbound'[p]) /\ Range(outbound'[p]) \subseteq Range(outbound[p]) \cup {w}
      BY <2>1, <3>1, <3>2, <3>4, PutOnce
    <3>6. \A x \in Events, k \in Connections : writer'[p][k] = x => writer[p][k] = x
      BY <3>2
    <3>7. Spots(p, w)' \subseteq Spots(p, w) \cup {InQueue}
      BY <1>1, <3>1, <3>6, SpotsGain
    <3>8. ASSUME NEW x \in Events, x # w
          PROVE  Spots(p, x)' \subseteq Spots(p, x)
      <4>1. x \in Range(outbound'[p]) => x \in Range(outbound[p])
        BY <3>5, <3>8
      <4>2. QED
        BY <1>1, <3>1, <3>6, <4>1, SpotsShrink
    <3>9. QED
      BY <1>1, <2>1, <3>1, <3>3, <3>5, <3>7, <3>8, OnceMoves
  <2>6. CASE WriterEnds(p, c)
    <3>1. writer' = [writer EXCEPT ![p][c] = "ended"] /\ UNCHANGED <<outbound, wire, vanished>>
      BY <2>6 DEF WriterEnds
    <3>2. \A x \in Events, k \in Connections : writer'[p][k] = x => writer[p][k] = x
      BY <1>2, <3>1, NamesAssumption
    <3>3. \A x \in Events : Spots(p, x)' \subseteq Spots(p, x)
      BY <1>1, <3>1, <3>2, SpotsShrink
    <3>4. QED
      BY <1>1, <2>1, <3>1, <3>3, OnceMoves
  <2>7. QED
    BY <1>4, <2>3, <2>4, <2>5, <2>6 DEF Writer
<1>5. QED
  BY <1>3, <1>4

\* What is in flight arrives or is lost, what has arrived is processed or evicted.
LEMMA PeerOnce ==
  ASSUME LinkTypeOK, NEW q \in Peers,
         ProcessInbound(q) \/ \E c \in Connections : Remote(q, c),
         NEW p \in Peers, OnceAt(p), Fresh(p)' \subseteq Fresh(p)
  PROVE  OnceAt(p)'
<1>1. UNCHANGED <<outbound, writer, dropped>>
  BY DEF ProcessInbound, Remote, Cut, WireLost, Receive, pumpVars, connVars
<1>2. /\ wire \in [Peers -> [Connections -> Seq(Events)]]
      /\ inbound \in [Peers -> Seq(Events)] /\ inbound[p] \in Seq(Events)
      /\ ingested \in [Peers -> SUBSET Events]
      /\ vanished \in [Peers -> SUBSET Events]
  BY DEF LinkTypeOK
<1>3. CASE p # q
  <2>1. /\ wire'[p] = wire[p] /\ inbound'[p] = inbound[p]
        /\ ingested'[p] = ingested[p] /\ vanished'[p] = vanished[p]
    BY <1>2, <1>3 DEF ProcessInbound, Remote, Cut, WireLost, Receive, connVars, peerVars
  <2>2. QED
    BY <1>1, <2>1, OnceKept
<1>4. /\ IsInjective(outbound[p]) /\ IsInjective(inbound[p])
      /\ \A k \in Connections : IsInjective(wire[p][k])
      /\ \A x \in Events : \A s, t \in Spots(p, x) : s = t
  BY DEF OnceAt
<1>5. IsInjective(<<>>) /\ Range(<<>>) = {}
  BY DEF IsInjective, Range
<1>6. CASE p = q /\ ProcessInbound(p)
  <2>1. /\ ingested' = [ingested EXCEPT ![p] = ingested[p] \cup Range(inbound[p])]
        /\ inbound' = [inbound EXCEPT ![p] = <<>>]
        /\ UNCHANGED <<wire, vanished>>
    BY <1>6 DEF ProcessInbound, connVars
  <2>2. ingested'[p] = ingested[p] \cup Range(inbound[p]) /\ inbound'[p] = <<>>
    BY <1>2, <2>1
  <2>3. ASSUME NEW x \in Range(inbound[p])
        PROVE  /\ Arrived \in Spots(p, x) /\ Arrived \notin Spots(p, x)'
               /\ Spots(p, x)' \subseteq Spots(p, x) \cup {Ingested}
    <3>1. x \notin Range(inbound'[p])
      BY <1>5, <2>2
    <3>2. Spots(p, x)' \subseteq Spots(p, x) \cup {Ingested}
      BY <1>1, <2>1, <3>1, SpotsGain
    <3>3. QED
      BY <3>1, <3>2, SpotsOf, NextSpotsOf
  <2>4. ASSUME NEW x, x \notin Range(inbound[p])
        PROVE  Spots(p, x)' \subseteq Spots(p, x)
    <3>1. x \notin Range(inbound'[p]) /\ (x \in ingested'[p] => x \in ingested[p])
      BY <1>5, <2>2, <2>4
    <3>2. QED
      BY <1>1, <2>1, <3>1, SpotsShrink
  <2>5. QED
    BY <1>1, <1>4, <1>5, <2>1, <2>2, <2>3, <2>4, OnceMoves
<1>7. ASSUME NEW c \in Connections, p = q, Cut(p, c) \/ WireLost(p, c)
      PROVE  OnceAt(p)'
  <2>1. /\ wire' = [wire EXCEPT ![p][c] = <<>>]
        /\ vanished' = [vanished EXCEPT ![p] = vanished[p] \cup Range(wire[p][c])]
        /\ UNCHANGED <<inbound, ingested>>
    BY <1>7 DEF Cut, WireLost, peerVars
  <2>2. /\ wire'[p][c] = <<>> /\ \A k \in Connections \ {c} : wire'[p][k] = wire[p][k]
        /\ vanished'[p] = vanished[p] \cup Range(wire[p][c])
    BY <1>2, <2>1
  <2>3. /\ \A k \in Connections : Range(wire'[p][k]) \subseteq Range(wire[p][k])
        /\ \A k \in Connections : IsInjective(wire'[p][k])
    BY <1>4, <1>5, <2>2
  <2>4. ASSUME NEW x \in Range(wire[p][c])
        PROVE  /\ InFlight(c) \in Spots(p, x) /\ InFlight(c) \notin Spots(p, x)'
               /\ Spots(p, x)' \subseteq Spots(p, x) \cup {Vanished}
    <3>1. x \notin Range(wire'[p][c])
      BY <1>5, <2>2
    <3>2. \A k \in Connections : x \in Range(wire'[p][k]) => x \in Range(wire[p][k])
      BY <2>3
    <3>3. Spots(p, x)' \subseteq Spots(p, x) \cup {Vanished}
      BY <1>1, <2>1, <3>2, SpotsGain
    <3>4. QED
      BY <3>1, <3>3, SpotsOf, NextSpotsOf
  <2>5. ASSUME NEW x, x \notin Range(wire[p][c])
        PROVE  Spots(p, x)' \subseteq Spots(p, x)
    <3>1. \A k \in Connections : x \in Range(wire'[p][k]) => x \in Range(wire[p][k])
      BY <2>3
    <3>2. x \in vanished'[p] => x \in vanished[p]
      BY <2>2, <2>5
    <3>3. QED
      BY <1>1, <2>1, <3>1, <3>2, SpotsShrink
  <2>6. QED
    BY <1>1, <1>4, <2>1, <2>3, <2>4, <2>5, OnceMoves
<1>8. ASSUME NEW c \in Connections, p = q, Receive(p, c)
      PROVE  OnceAt(p)'
  <2>0. PICK e : e = Head(wire[p][c])
    OBVIOUS
  <2>1. /\ wire[p][c] # <<>> /\ wire[p][c] \in Seq(Events)
        /\ wire' = [wire EXCEPT ![p][c] = Tail(wire[p][c])]
        /\ inbound' = [inbound EXCEPT ![p] = Enqueued(inbound[p], e)]
        /\ vanished' = [vanished EXCEPT ![p] = vanished[p] \cup Evicted(inbound[p])]
        /\ UNCHANGED ingested
    BY <1>2, <1>8, <2>0 DEF Receive
  <2>2. /\ e \in Events /\ e \in Range(wire[p][c]) /\ IsInjective(Tail(wire[p][c]))
        /\ Range(Tail(wire[p][c])) \subseteq Range(wire[p][c]) \ {e}
    BY <1>4, <2>0, <2>1, TailOnce, TailContents
  <2>3. /\ wire'[p][c] = Tail(wire[p][c])
        /\ \A k \in Connections \ {c} : wire'[p][k] = wire[p][k]
        /\ inbound'[p] = Enqueued(inbound[p], e)
        /\ vanished'[p] = vanished[p] \cup Evicted(inbound[p])
    BY <1>2, <2>1
  <2>4. /\ \A k \in Connections : Range(wire'[p][k]) \subseteq Range(wire[p][k])
        /\ \A k \in Connections : IsInjective(wire'[p][k])
        /\ e \notin Range(wire'[p][c])
    BY <1>4, <2>2, <2>3
  <2>5. InFlight(c) \in Spots(p, e) /\ InFlight(c) \notin Spots(p, e)'
    BY <2>2, <2>4, SpotsOf, NextSpotsOf
  <2>6. e \notin Range(inbound[p])
    <3>1. Arrived # InFlight(c)
      BY DEF Arrived, InFlight
    <3>2. QED
      BY <1>4, <2>2, <2>5, <3>1, SpotsOf
  <2>7. /\ IsInjective(inbound'[p])
        /\ Range(inbound'[p]) \subseteq (Range(inbound[p]) \ Evicted(inbound[p])) \cup {e}
        /\ Evicted(inbound[p]) \subseteq Range(inbound[p])
    BY <1>2, <1>4, <2>2, <2>3, <2>6, EnqueuedOnce, EnqueuedContents
  <2>8. Spots(p, e)' \subseteq Spots(p, e) \cup {Arrived}
    <3>1. \A k \in Connections : e \in Range(wire'[p][k]) => e \in Range(wire[p][k])
      BY <2>4
    <3>2. e \in vanished'[p] => e \in vanished[p]
      BY <2>3, <2>6, <2>7
    <3>3. QED
      BY <1>1, <2>1, <3>1, <3>2, SpotsGain
  <2>9. ASSUME NEW x \in Evicted(inbound[p])
         PROVE  /\ Arrived \in Spots(p, x) /\ Arrived \notin Spots(p, x)'
                /\ Spots(p, x)' \subseteq Spots(p, x) \cup {Vanished}
    <3>1. x \in Range(inbound[p]) /\ x \notin Range(inbound'[p])
      BY <2>6, <2>7
    <3>2. \A k \in Connections : x \in Range(wire'[p][k]) => x \in Range(wire[p][k])
      BY <2>4
    <3>3. Spots(p, x)' \subseteq Spots(p, x) \cup {Vanished}
      BY <1>1, <2>1, <3>1, <3>2, SpotsGain
    <3>4. QED
      BY <3>1, <3>3, SpotsOf, NextSpotsOf
  <2>10. ASSUME NEW x, x # e, x \notin Evicted(inbound[p])
         PROVE  Spots(p, x)' \subseteq Spots(p, x)
    <3>1. \A k \in Connections : x \in Range(wire'[p][k]) => x \in Range(wire[p][k])
      BY <2>4
    <3>2. /\ x \in vanished'[p] => x \in vanished[p]
          /\ x \in Range(inbound'[p]) => x \in Range(inbound[p])
      BY <2>3, <2>7, <2>10
    <3>3. QED
      BY <1>1, <2>1, <3>1, <3>2, SpotsShrink
  <2>11. ASSUME NEW x \in Events
         PROVE
           \/ Spots(p, x)' \subseteq Spots(p, x)
           \/ \E a \in Spots(p, x) : \E b : a \notin Spots(p, x)' /\ Spots(p, x)' \subseteq Spots(p, x) \cup {b}
           \/ x \in Fresh(p) \ Fresh(p)' /\ \E b : Spots(p, x)' \subseteq Spots(p, x) \cup {b}
    <3>1. CASE x = e
      BY <2>5, <2>8, <3>1
    <3>2. CASE x # e /\ x \in Evicted(inbound[p])
      BY <2>9, <3>2
    <3>3. CASE x # e /\ x \notin Evicted(inbound[p])
      BY <2>10, <3>3
    <3>4. QED
      BY <3>1, <3>2, <3>3
  <2>12. QED
    BY <1>1, <1>4, <2>4, <2>7, <2>11, OnceMoves
<1>9. QED
  BY <1>3, <1>6, <1>7, <1>8 DEF Remote

LEMMA OnceInit == LinkInit => OnceInv
<1> SUFFICES ASSUME LinkInit, NEW p \in Peers PROVE OnceAt(p)
  BY DEF OnceInv
<1>1. /\ outbound[p] = <<>> /\ inbound[p] = <<>>
      /\ \A c \in Connections : wire[p][c] = <<>> /\ writer[p][c] = "none"
      /\ ingested[p] = {} /\ dropped[p] = {} /\ vanished[p] = {}
  BY DEF LinkInit
<1>2. IsInjective(<<>>) /\ Range(<<>>) = {}
  BY DEF IsInjective, Range
<1>3. \A e \in Events : Spots(p, e) = {}
  BY <1>1, <1>2, NamesAssumption DEF Spots
<1>4. Fresh(p) \subseteq Events
  BY DEF Fresh
<1>5. QED
  BY <1>1, <1>2, <1>3, <1>4 DEF OnceAt

LEMMA OnceStep ==
  ASSUME OutboxInv, HandedInv, LinkInv, OnceInv, [LinkNext]_linkVars
  PROVE  OnceInv'
<1> SUFFICES ASSUME Cardinality(Events) <= MaxKnown, NEW p \in Peers
             PROVE  OnceAt(p)'
  BY DEF OnceInv
<1>1. OnceAt(p) /\ LinkTypeOK /\ FlushInv
  BY DEF OnceInv, LinkInv
<1>2. Fresh(p)' \subseteq Fresh(p)
  BY <1>1, FreshShrinks
<1>3. ASSUME UNCHANGED <<outbound, connVars, peerVars, dropped, vanished>>
      PROVE  OnceAt(p)'
  BY <1>1, <1>2, <1>3, OnceKept DEF connVars, peerVars
<1>4. ASSUME NEW e \in Events, Publish(e)
      PROVE  OnceAt(p)'
  BY <1>3, <1>4 DEF Publish
<1>5. ASSUME NEW q \in Peers, FlushBegin(q) \/ FlushEnd(q)
      PROVE  OnceAt(p)'
  BY <1>3, <1>5 DEF FlushBegin, FlushEnd
<1>6. ASSUME NEW q \in Peers, FlushFrame(q)
      PROVE  OnceAt(p)'
  BY <1>1, <1>2, <1>6, PumpOnce
<1>7. ASSUME NEW q \in Peers, Client(q)
      PROVE  OnceAt(p)'
  BY <1>1, <1>2, <1>7, ClientOnce
<1>8. ASSUME NEW q \in Peers, NEW c \in Connections, Writer(q, c)
      PROVE  OnceAt(p)'
  BY <1>1, <1>2, <1>8, WriterOnce
<1>9. ASSUME NEW q \in Peers, ProcessInbound(q) \/ \E c \in Connections : Remote(q, c)
      PROVE  OnceAt(p)'
  BY <1>1, <1>2, <1>9, PeerOnce
<1>10. ASSUME Stop \/ UNCHANGED linkVars
       PROVE  OnceAt(p)'
  BY <1>3, <1>10 DEF Stop, linkVars, connVars, peerVars
<1>11. QED
  BY <1>4, <1>5, <1>6, <1>7, <1>8, <1>9, <1>10 DEF LinkNext, Pump

\* An event in one spot, in queues without repetition, is one copy.
LEMMA OneCopy ==
  ASSUME LinkTypeOK, NEW p \in Peers, NEW e \in Events, OnceAt(p)
  PROVE  Cardinality(Copies(p, e)) <= 1
<1>1. /\ \A s, t \in Spots(p, e) : s = t
      /\ IsInjective(outbound[p]) /\ IsInjective(inbound[p])
      /\ \A c \in Connections : IsInjective(wire[p][c])
  BY DEF OnceAt
<1>2. ASSUME NEW x \in Copies(p, e)
      PROVE
        \/ InQueue \in Spots(p, e) /\ \E i \in Places(outbound[p], e) : x = <<"queued", 0, i>>
        \/ \E c \in Connections : HeldBy(c) \in Spots(p, e) /\ x = <<"held", c, 0>>
        \/ \E c \in Connections : /\ InFlight(c) \in Spots(p, e)
                                  /\ \E i \in Places(wire[p][c], e) : x = <<"in flight", c, i>>
        \/ Arrived \in Spots(p, e) /\ \E i \in Places(inbound[p], e) : x = <<"arrived", 0, i>>
        \/ Ingested \in Spots(p, e) /\ x = <<"ingested", 0, 0>>
        \/ Dropped \in Spots(p, e) /\ x = <<"dropped", 0, 0>>
        \/ Vanished \in Spots(p, e) /\ x = <<"vanished", 0, 0>>
  <2>1. \A q : Places(q, e) # {} => e \in Range(q)
    BY DEF Places, Range
  <2>2. \/ \E i \in Places(outbound[p], e) : x = <<"queued", 0, i>>
        \/ \E c \in Connections : writer[p][c] = e /\ x = <<"held", c, 0>>
        \/ \E c \in Connections : \E i \in Places(wire[p][c], e) : x = <<"in flight", c, i>>
        \/ \E i \in Places(inbound[p], e) : x = <<"arrived", 0, i>>
        \/ e \in ingested[p] /\ x = <<"ingested", 0, 0>>
        \/ e \in dropped[p] /\ x = <<"dropped", 0, 0>>
        \/ e \in vanished[p] /\ x = <<"vanished", 0, 0>>
    BY DEF Copies
  <2>3. QED
    BY <2>1, <2>2, SpotsOf
<1>3. \A q, i, j : IsInjective(q) /\ i \in Places(q, e) /\ j \in Places(q, e) => i = j
  BY DEF IsInjective, Places
<1>4. ASSUME NEW x \in Copies(p, e), NEW y \in Copies(p, e)
      PROVE  x = y
  <2>1. /\ \A c, d : /\ HeldBy(c) = HeldBy(d) => c = d
                     /\ InFlight(c) = InFlight(d) => c = d
                     /\ HeldBy(c) # InFlight(d)
                     /\ HeldBy(c) \notin {InQueue, Arrived, Ingested, Dropped, Vanished}
                     /\ InFlight(c) \notin {InQueue, Arrived, Ingested, Dropped, Vanished}
        /\ InQueue \notin {Arrived, Ingested, Dropped, Vanished}
        /\ Arrived \notin {Ingested, Dropped, Vanished}
        /\ Ingested \notin {Dropped, Vanished}
        /\ Dropped # Vanished
    BY DEF InQueue, HeldBy, InFlight, Arrived, Ingested, Dropped, Vanished
  <2>2. CASE InQueue \in Spots(p, e)
    BY <1>1, <1>2, <1>3, <2>1, <2>2
  <2>3. ASSUME NEW c \in Connections, HeldBy(c) \in Spots(p, e)
        PROVE  x = y
    BY <1>1, <1>2, <2>1, <2>3
  <2>4. ASSUME NEW c \in Connections, InFlight(c) \in Spots(p, e)
        PROVE  x = y
    <3>1. \A s \in Spots(p, e) : s = InFlight(c)
      BY <1>1, <2>4
    <3>2. ASSUME NEW z \in Copies(p, e)
          PROVE  \E i \in Places(wire[p][c], e) : z = <<"in flight", c, i>>
      <4>1. PICK d \in Connections :
              InFlight(d) \in Spots(p, e) /\ \E i \in Places(wire[p][d], e) : z = <<"in flight", d, i>>
        BY <1>2, <2>1, <3>1
      <4>2. d = c
        BY <2>1, <3>1, <4>1
      <4>3. QED
        BY <4>1, <4>2
    <3>3. QED
      BY <1>1, <1>3, <3>2
  <2>5. CASE Arrived \in Spots(p, e)
    BY <1>1, <1>2, <1>3, <2>1, <2>5
  <2>6. CASE Ingested \in Spots(p, e)
    BY <1>1, <1>2, <2>1, <2>6
  <2>7. CASE Dropped \in Spots(p, e)
    BY <1>1, <1>2, <2>1, <2>7
  <2>8. CASE Vanished \in Spots(p, e)
    BY <1>1, <1>2, <2>1, <2>8
  <2>9. QED
    BY <1>2, <2>2, <2>3, <2>4, <2>5, <2>6, <2>7, <2>8
<1>5. CASE Copies(p, e) = {}
  BY <1>5, FS_EmptySet
<1>6. CASE Copies(p, e) # {}
  <2>1. PICK x : Copies(p, e) = {x}
    BY <1>4, <1>6
  <2>2. QED
    <3>1. Cardinality({x}) = 1
      BY FS_Singleton
    <3>2. QED
      BY <2>1, <3>1
<1>7. QED
  BY <1>5, <1>6

\* No frame is ever in two places, nor twice in a queue: as long as the node
\* forgets no event, a peer gets it once, whatever the writers that share its
\* queue and whatever they put back.
THEOREM NeverTwice == LinkSpec => []AtMostOneCopy
<1>1. LinkInit => OutboxInv /\ HandedInv /\ LinkInv /\ OnceInv
  BY OutboxInit, HandedInit, LinkInvInit, OnceInit DEF LinkInit
<1>2. /\ OutboxInv /\ HandedInv /\ LinkInv /\ OnceInv
      /\ [LinkNext]_linkVars
      => (OutboxInv /\ HandedInv /\ LinkInv /\ OnceInv)'
  <2> SUFFICES ASSUME OutboxInv, HandedInv, LinkInv, OnceInv, [LinkNext]_linkVars
               PROVE  OutboxInv' /\ HandedInv' /\ LinkInv' /\ OnceInv'
    OBVIOUS
  <2>1. [GossipNext]_gossipVars
    BY StepImplements DEF LinkInv
  <2>2. QED
    BY <2>1, OutboxStep, HandedStep, LinkInvStep, OnceStep
<1>3. LinkInv /\ OnceInv => AtMostOneCopy
  BY OneCopy DEF LinkInv, OnceInv, AtMostOneCopy
<1>4. QED
  BY <1>1, <1>2, <1>3, PTL DEF LinkSpec
=============================================================================
