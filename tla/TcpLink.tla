------------------------------ MODULE TcpLink ------------------------------
(***************************************************************************)
(* How events leave a node over TCP (network/tcp.rs), from the outbox of   *)
(* Gossip to the gossip of a peer.  The actors of one node:                *)
(*   - the pump, alone on the thread that owns the node: flush_outbound    *)
(*     peeks a batch, queues its frames one lock at a time, then marks;    *)
(*   - one client thread per peer: connects, starts a detached writer,     *)
(*     reads until the socket ends, connects again;                        *)
(*   - the writers, one per connection ever made: all those of a peer pop  *)
(*     the same queue, and nothing joins the old ones.                     *)
(* A connection is its number; a frame is the event it carries.            *)
(***************************************************************************)
EXTENDS Gossip

CONSTANTS
  Oversized,     \* events whose wire form exceeds MAX_FRAME_PAYLOAD
  Capacity,      \* queue_capacity: each peer's outbound queue, the inbound queue
  MaxConns,      \* bound on the connections made to one peer
  WriterStarts   \* what try_clone and spawn may yield: "polling", "none"

\* A capacity of 0 would make enqueue_outbound loop for ever.
ASSUME LinkAssumption ==
  /\ Oversized \subseteq Events /\ IsFiniteSet(Events)
  /\ Capacity \in Nat \ {0}
  /\ MaxConns \in Nat
  /\ WriterStarts \subseteq {"polling", "none"}

\* Peers and frames are not the words that stand for their absence.
ASSUME NamesAssumption ==
  /\ "none" \notin Peers
  /\ {"none", "polling", "ended"} \cap Events = {}

VARIABLES
  flush,      \* flush_outbound in progress, NoFlush between two passes
  outbound,   \* for each peer, the frames waiting for a writer
  client,     \* the client thread of each peer: "dialing", "reading" or "ended"
  conns,      \* connections made to each peer so far; the last is the current one
  sock,       \* each connection: "new", "open", "cut" (remotely) or "shut" (by us)
  writer,     \* its writer: "none", "polling", "ended" or the frame it holds
  wire,       \* its frames in flight
  inbound,    \* inbound queue of each peer
  ingested,   \* events each peer has processed
  dropped,    \* frames evicted from a full outbound queue
  vanished,   \* frames lost with a connection or evicted from the inbound queue
  stop        \* the stop flag

linkVars == <<gossipVars, flush, outbound, client, conns, sock, writer, wire,
              inbound, ingested, dropped, vanished, stop>>
pumpVars == <<gossipVars, flush>>
connVars == <<client, conns, sock, writer, wire>>
peerVars == <<inbound, ingested>>

NoFlush == [peer |-> "none", todo |-> <<>>, accepted |-> <<>>]
Connections == 1 .. MaxConns

-----------------------------------------------------------------------------
(* Bounded queues *)

\* enqueue_outbound and push_inbound: the oldest frames leave a full queue.
Evicted(q) == {q[i] : i \in {j \in DOMAIN q : j <= Len(q) + 1 - Capacity}}

Enqueued(q, e) ==
  Append(IF Len(q) >= Capacity THEN SubSeq(q, Len(q) + 2 - Capacity, Len(q)) ELSE q, e)

-----------------------------------------------------------------------------
(* The owner thread: publication and the pump *)

\* An event enters the outbox between two passes of the pump.
Publish(e) ==
  /\ ~stop /\ flush = NoFlush
  /\ Insert(e)
  /\ UNCHANGED <<flush, outbound, connVars, peerVars, dropped, vanished, stop>>

FlushBegin(p) ==
  /\ ~stop /\ flush = NoFlush /\ Unmarked(p) # {}
  /\ flush' = [peer |-> p, todo |-> Peek(p, PumpBatch), accepted |-> <<>>]
  /\ UNCHANGED <<gossipVars, outbound, connVars, peerVars, dropped, vanished, stop>>

\* The next frame of the batch: queued and accepted, or refused if too large.
FlushFrameThen(p, afterRefusal) ==
  /\ flush.peer = p /\ flush.todo # <<>>
  /\ LET e == Head(flush.todo) IN
       IF e \in Oversized
       THEN /\ flush' = [flush EXCEPT !.todo = afterRefusal]
            /\ UNCHANGED <<outbound, dropped>>
       ELSE /\ flush' = [flush EXCEPT !.todo = Tail(@), !.accepted = Append(@, e)]
            /\ outbound' = [outbound EXCEPT ![p] = Enqueued(@, e)]
            /\ dropped' = [dropped EXCEPT ![p] = @ \cup Evicted(outbound[p])]
  /\ UNCHANGED <<gossipVars, connVars, peerVars, vanished, stop>>

\* Slip: the batch carries on after a refusal.
FlushFrameSkipping(p) == FlushFrameThen(p, Tail(flush.todo))

\* A full queue refuses nothing: it evicts.  A refusal ends the batch.
FlushFrame(p) == FlushFrameThen(p, <<>>)

\* The accepted frames are marked delivered.
FlushEnd(p) ==
  /\ flush.peer = p /\ flush.todo = <<>>
  /\ MarkDelivered(p, flush.accepted)
  /\ flush' = NoFlush
  /\ UNCHANGED <<known, pending, outbound, connVars, peerVars, dropped, vanished, stop>>

\* TcpTransport::stop, called once the pump loop has ended.
Stop ==
  /\ ~stop /\ flush = NoFlush
  /\ stop' = TRUE
  /\ UNCHANGED <<pumpVars, outbound, connVars, peerVars, dropped, vanished>>

-----------------------------------------------------------------------------
(* The client thread *)

\* client_loop, run_client_connection: a new connection and, if the socket can
\* be cloned and a thread started, its writer; failure there is only logged.
Connect(p) ==
  /\ ~stop /\ client[p] = "dialing" /\ conns[p] < MaxConns
  /\ client' = [client EXCEPT ![p] = "reading"]
  /\ conns' = [conns EXCEPT ![p] = @ + 1]
  /\ sock' = [sock EXCEPT ![p][conns[p] + 1] = "open"]
  /\ \E w \in WriterStarts : writer' = [writer EXCEPT ![p][conns[p] + 1] = w]
  /\ UNCHANGED <<pumpVars, outbound, wire, peerVars, dropped, vanished, stop>>

\* read_frames_until_closed returns: end of stream, error or stop.  The socket
\* is shut down.
ReaderReturns(p, next) ==
  /\ client[p] = "reading"
  /\ stop \/ sock[p][conns[p]] # "open"
  /\ sock' = [sock EXCEPT ![p][conns[p]] = "shut"]
  /\ client' = [client EXCEPT ![p] = next]
  /\ UNCHANGED <<pumpVars, outbound, conns, writer, wire, peerVars, dropped, vanished, stop>>

\* Slip: the client thread ends with its first connection.
ReaderEndsForGood(p) == ReaderReturns(p, "ended")

\* The client thread dials again.
ReaderEnds(p) == ReaderReturns(p, "dialing")

\* client_loop leaves its loop once the stop flag is set.
ClientEnds(p) ==
  /\ stop /\ client[p] = "dialing"
  /\ client' = [client EXCEPT ![p] = "ended"]
  /\ UNCHANGED <<pumpVars, outbound, conns, sock, writer, wire, peerVars, dropped, vanished, stop>>

-----------------------------------------------------------------------------
(* The writers *)

\* A writer takes the oldest frame, whatever became of its socket: with an
\* empty queue it sleeps and never looks at the socket.
WriterTakes(p, c, rest) ==
  /\ ~stop /\ writer[p][c] = "polling" /\ outbound[p] # <<>>
  /\ writer' = [writer EXCEPT ![p][c] = Head(outbound[p])]
  /\ outbound' = [outbound EXCEPT ![p] = rest]
  /\ UNCHANGED <<pumpVars, client, conns, sock, wire, peerVars, dropped, vanished, stop>>

\* Slip: the frame is read without being taken out of the queue.
WriterPeeks(p, c) == WriterTakes(p, c, outbound[p])

WriterPop(p, c) == WriterTakes(p, c, Tail(outbound[p]))

Holds(p, c) == writer[p][c] \in Events

\* The kernel takes the frame; on a connection already cut it goes nowhere.
WriterSend(p, c) ==
  /\ Holds(p, c) /\ sock[p][c] \in {"open", "cut"}
  /\ writer' = [writer EXCEPT ![p][c] = "polling"]
  /\ IF sock[p][c] = "open"
     THEN /\ wire' = [wire EXCEPT ![p][c] = Append(@, writer[p][c])]
          /\ UNCHANGED vanished
     ELSE /\ vanished' = [vanished EXCEPT ![p] = @ \cup {writer[p][c]}]
          /\ UNCHANGED wire
  /\ UNCHANGED <<pumpVars, outbound, client, conns, sock, peerVars, dropped, stop>>

\* The write fails (on an open socket: its time ran out, not on the last
\* connection); the writer shuts the socket and ends.
WriterFails(p, c, queue) ==
  /\ Holds(p, c)
  /\ sock[p][c] # "open" \/ c < MaxConns
  /\ outbound' = [outbound EXCEPT ![p] = queue]
  /\ writer' = [writer EXCEPT ![p][c] = "ended"]
  /\ sock' = [sock EXCEPT ![p][c] = "shut"]
  /\ UNCHANGED <<pumpVars, client, conns, wire, peerVars, dropped, vanished, stop>>

\* Slip: the frame that could not be written is forgotten.
WriterFailDropping(p, c) == WriterFails(p, c, outbound[p])

\* The frame goes back to the head of the queue, past its cap.
WriterFail(p, c) == WriterFails(p, c, <<writer[p][c]>> \o outbound[p])

\* Slip: the stop flag is looked at only when the queue is empty.
WriterEndsDrained(p, c) ==
  /\ stop /\ writer[p][c] = "polling" /\ outbound[p] = <<>>
  /\ writer' = [writer EXCEPT ![p][c] = "ended"]
  /\ sock' = [sock EXCEPT ![p][c] = "shut"]
  /\ UNCHANGED <<pumpVars, outbound, client, conns, wire, peerVars, dropped, vanished, stop>>

\* Between two frames the writer sees the stop flag.
WriterEnds(p, c) ==
  /\ stop /\ writer[p][c] = "polling"
  /\ writer' = [writer EXCEPT ![p][c] = "ended"]
  /\ sock' = [sock EXCEPT ![p][c] = "shut"]
  /\ UNCHANGED <<pumpVars, outbound, client, conns, wire, peerVars, dropped, vanished, stop>>

-----------------------------------------------------------------------------
(* The network and the peer *)

\* The peer or the network ends a connection, with what is in flight; the last
\* connection of the bound stays up.
Cut(p, c) ==
  /\ c < MaxConns /\ sock[p][c] = "open"
  /\ sock' = [sock EXCEPT ![p][c] = "cut"]
  /\ wire' = [wire EXCEPT ![p][c] = <<>>]
  /\ vanished' = [vanished EXCEPT ![p] = @ \cup Range(wire[p][c])]
  /\ UNCHANGED <<pumpVars, outbound, client, conns, writer, peerVars, dropped, stop>>

\* What was in flight on a socket we shut down may be lost as well.
WireLost(p, c) ==
  /\ sock[p][c] = "shut" /\ wire[p][c] # <<>>
  /\ wire' = [wire EXCEPT ![p][c] = <<>>]
  /\ vanished' = [vanished EXCEPT ![p] = @ \cup Range(wire[p][c])]
  /\ UNCHANGED <<pumpVars, outbound, client, conns, sock, writer, peerVars, dropped, stop>>

\* The serving thread of the peer reads a frame (read_frames_until_closed).
Receive(p, c) ==
  /\ wire[p][c] # <<>>
  /\ wire' = [wire EXCEPT ![p][c] = Tail(@)]
  /\ inbound' = [inbound EXCEPT ![p] = Enqueued(@, Head(wire[p][c]))]
  /\ vanished' = [vanished EXCEPT ![p] = @ \cup Evicted(inbound[p])]
  /\ UNCHANGED <<pumpVars, outbound, client, conns, sock, writer, ingested, dropped, stop>>

\* The pump of the peer: process_inbound takes the whole queue.
ProcessInbound(p) ==
  /\ inbound[p] # <<>>
  /\ ingested' = [ingested EXCEPT ![p] = @ \cup Range(inbound[p])]
  /\ inbound' = [inbound EXCEPT ![p] = <<>>]
  /\ UNCHANGED <<pumpVars, outbound, connVars, dropped, vanished, stop>>

-----------------------------------------------------------------------------
LinkInit ==
  /\ GossipInit
  /\ flush = NoFlush
  /\ outbound = [p \in Peers |-> <<>>]
  /\ client = [p \in Peers |-> "dialing"]
  /\ conns = [p \in Peers |-> 0]
  /\ sock = [p \in Peers |-> [c \in Connections |-> "new"]]
  /\ writer = [p \in Peers |-> [c \in Connections |-> "none"]]
  /\ wire = [p \in Peers |-> [c \in Connections |-> <<>>]]
  /\ inbound = [p \in Peers |-> <<>>]
  /\ ingested = [p \in Peers |-> {}]
  /\ dropped = [p \in Peers |-> {}]
  /\ vanished = [p \in Peers |-> {}]
  /\ stop = FALSE

Pump(p) == FlushBegin(p) \/ FlushFrame(p) \/ FlushEnd(p)
Client(p) == Connect(p) \/ ReaderEnds(p) \/ ClientEnds(p)
Writer(p, c) == WriterPop(p, c) \/ WriterSend(p, c) \/ WriterFail(p, c) \/ WriterEnds(p, c)
Remote(p, c) == Cut(p, c) \/ WireLost(p, c) \/ Receive(p, c)

LinkNext ==
  \/ \E e \in Events : Publish(e)
  \/ Stop
  \/ \E p \in Peers :
       \/ Pump(p) \/ Client(p) \/ ProcessInbound(p)
       \/ \E c \in Connections : Writer(p, c) \/ Remote(p, c)

LinkSpec == LinkInit /\ [][LinkNext]_linkVars

\* The pump runs every 200 ms, the threads loop, and a peer that keeps a
\* connection open reads it and runs its own pump.
LinkFairness ==
  \A p \in Peers :
    /\ WF_linkVars(Pump(p)) /\ WF_linkVars(Client(p)) /\ WF_linkVars(ProcessInbound(p))
    /\ \A c \in Connections : WF_linkVars(Writer(p, c)) /\ WF_linkVars(Receive(p, c))

FairLinkSpec == LinkSpec /\ LinkFairness

-----------------------------------------------------------------------------
(* Properties *)

ConnectionStates == {"new", "open", "cut", "shut"}

WriterStates == {"none", "polling", "ended"} \cup Events

EndedWriters(p) == {c \in Connections : writer[p][c] = "ended"}

\* Types; the peer's queue keeps its cap, and the outbound queue exceeds its own
\* only by the frames that failed writers put back.
LinkTypeOK ==
  /\ flush \in [peer : Peers \cup {"none"}, todo : Seq(Events), accepted : Seq(Events)]
  /\ outbound \in [Peers -> Seq(Events)] /\ inbound \in [Peers -> Seq(Events)]
  /\ client \in [Peers -> {"dialing", "reading", "ended"}]
  /\ conns \in [Peers -> 0 .. MaxConns]
  /\ sock \in [Peers -> [Connections -> ConnectionStates]]
  /\ writer \in [Peers -> [Connections -> WriterStates]]
  /\ wire \in [Peers -> [Connections -> Seq(Events)]]
  /\ {ingested, dropped, vanished} \subseteq [Peers -> SUBSET Events]
  /\ stop \in BOOLEAN
  /\ \A p \in Peers :
       /\ Len(outbound[p]) <= Capacity + Cardinality(EndedWriters(p))
       /\ Len(inbound[p]) <= Capacity

Places(q, e) == {i \in DOMAIN q : q[i] = e}

\* The copies of event e that are on their way to p or have ended somewhere, each
\* named by where it is.
Copies(p, e) ==
  {<<"queued", 0, i>> : i \in Places(outbound[p], e)}
  \cup {<<"held", c, 0>> : c \in {d \in Connections : writer[p][d] = e}}
  \cup (UNION {{<<"in flight", c, i>> : i \in Places(wire[p][c], e)} : c \in Connections})
  \cup {<<"arrived", 0, i>> : i \in Places(inbound[p], e)}
  \cup {<<"ingested", 0, 0>> : x \in ingested[p] \cap {e}}
  \cup {<<"dropped", 0, 0>> : x \in dropped[p] \cap {e}}
  \cup {<<"vanished", 0, 0>> : x \in vanished[p] \cap {e}}

\* Where a frame for p may be: in a queue, held by a writer, in flight, processed
\* by p, evicted from a full queue or lost with a connection.
Somewhere(p) ==
  Range(outbound[p]) \cup {writer[p][c] : c \in Connections}
  \cup (UNION {Range(wire[p][c]) : c \in Connections}) \cup Range(inbound[p])
  \cup ingested[p] \cup dropped[p] \cup vanished[p]

\* Nothing disappears in the transport: an event marked as delivered to p is
\* accounted for, whatever the writers, cuts and failures did since.
MarkedIsSomewhere == \A p \in Peers : handed[p] \subseteq Somewhere(p)

\* No frame is transmitted twice, although several writers share a queue and a
\* failed write puts its frame back, as long as the node forgets no event.
AtMostOneCopy ==
  Cardinality(Events) <= MaxKnown =>
    \A p \in Peers, e \in Events : Cardinality(Copies(p, e)) <= 1

\* An event too large for a frame is ahead of e in the outbox: every batch ends there.
Blocked(e) ==
  \E i, j \in DOMAIN pending : i < j /\ pending[i] \in Oversized /\ pending[j] = e

\* The thread of the current connection's writer could not be started: the queue
\* waits for the next connection.
WriterMissing(p) == client[p] = "reading" /\ writer[p][conns[p]] = "none"

\* An event of the outbox that fits in a frame reaches the peer, or its loss is
\* accounted for, unless the node stops, the cap of the outbox pushes it out or one
\* of these two holds it back: cut connections, old writers and full queues do not.  (bin/node.rs 326-328:
\* an event published at start is delivered to every peer that connects afterwards.)
Delivery ==
  \A p \in Peers, e \in Events \ Oversized :
    e \in Range(pending) ~>
      (stop \/ Blocked(e) \/ WriterMissing(p) \/ e \notin Range(pending)
       \/ e \in ingested[p] \cup dropped[p] \cup vanished[p])

\* After stop every thread ends, the writers of dead connections included.
StopEnds ==
  stop ~> \A p \in Peers : /\ client[p] = "ended"
                           /\ \A c \in Connections : writer[p][c] \in {"none", "ended"}
=============================================================================
