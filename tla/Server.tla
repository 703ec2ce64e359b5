------------------------------- MODULE Server -------------------------------
(***************************************************************************)
(* The two servers of a node: the frames of the mesh (network/tcp.rs) and  *)
(* the local health endpoint (health.rs).  Both have the same shape: one   *)
(* thread accepts and decides on a shared count of slots before it starts  *)
(* a thread for the connection; that thread reads, ends, and gives its     *)
(* slot back.  They differ in what a serving thread reads and in when it   *)
(* looks at the stop flag: between two polls of a frame, or never.         *)
(*                                                                         *)
(* A client sends a fixed stream of bytes that arrives bit by bit; a read  *)
(* returns any part of what has arrived, so frames and lines are split at  *)
(* every place.  A byte of a frame is <<frame, place>>.                    *)
(***************************************************************************)
EXTENDS Naturals, Sequences, FiniteSets, SequencesExt

CONSTANTS
  Clients,
  Slots,        \* max_connections, MAX_CONCURRENT_CONNECTIONS
  MaxErrors,    \* MAX_CONSECUTIVE_ACCEPT_ERRORS
  HeaderLen,    \* FRAME_HEADER_LEN
  MaxPayload,   \* MAX_FRAME_PAYLOAD
  MaxRequest,   \* MAX_REQUEST_BYTES, in tokens
  Budget,       \* reads that fit in CONNECTION_BUDGET
  Declared,     \* frames server: for each client the lengths its frames declare
  Request,      \* health server: for each client the tokens it sends
  NoClient      \* no client

ASSUME ServerAssumption ==
  /\ IsFiniteSet(Clients)
  /\ {Slots, MaxErrors, HeaderLen, MaxPayload, MaxRequest, Budget} \subseteq Nat \ {0}
  /\ \A c \in Clients : Request[c] \in Seq(STRING) /\ Declared[c] \in Seq(Nat)
  /\ NoClient \notin Clients

VARIABLES
  kind,      \* which server this is: "frames" or "health"
  stop,      \* the stop flag
  loop,      \* where the accepting thread is
  current,   \* the client it is deciding about
  errors,    \* consecutive accept errors
  active,    \* active_conns, active: the shared count of slots
  conn,      \* state of each client's connection on our side
  peer,      \* the client itself: "up", "closed", "reset", or "gone" without a word
  arrived,   \* bytes of its stream that have reached us
  taken,     \* bytes read so far
  header,    \* FrameReader.header, or the buffer of read_request_head
  body,      \* FrameReader.body
  frames,    \* payloads pushed to the inbound queue
  fatal,     \* counted in protocol_violations
  reply,     \* status of the answer, "none" before
  reads      \* reads made by a health connection

acceptVars == <<loop, current, errors, active>>
readVars   == <<taken, header, body, frames, fatal, reply, reads>>
vars == <<kind, stop, acceptVars, conn, peer, arrived, readVars>>

\* Connections whose thread has not given its slot back.
Holding == {c \in Clients : conn[c] \in {"serving", "polling", "leaving"}}

\* The bytes a client sends.
FrameBytes(f, n) == [k \in 1 .. HeaderLen + n |-> <<f, k>>]
Stream(c) ==
  IF kind = "frames"
  THEN FlattenSeq([f \in DOMAIN Declared[c] |-> FrameBytes(f, Declared[c][f])])
  ELSE Request[c]

-----------------------------------------------------------------------------
(* The accepting thread *)

\* Its listener is closed when it ends: connections not yet accepted die.
EndLoop ==
  /\ loop' = "ended"
  /\ conn' = [c \in Clients |-> IF conn[c] = "backlog" THEN "closed" ELSE conn[c]]

LoopUnchanged == UNCHANGED <<kind, stop, peer, arrived, readVars>>

CheckStop ==
  /\ loop = "top"
  /\ IF stop THEN EndLoop ELSE loop' = "accepting" /\ UNCHANGED conn
  /\ UNCHANGED <<current, errors, active>> /\ LoopUnchanged

\* The slot is taken by the same atomic step that reads the count.
Accept(c) ==
  /\ loop = "accepting" /\ conn[c] = "backlog"
  /\ errors' = 0
  /\ active' = active + 1
  /\ current' = c
  /\ loop' = IF active >= Slots THEN "refusing" ELSE "spawning"
  /\ conn' = [conn EXCEPT ![c] = "accepted"]
  /\ LoopUnchanged

\* serve_inline_busy: the accepting thread itself answers 503; a connection of
\* frames is shut down without a word.
BusyReply == IF kind = "health" THEN [reply EXCEPT ![current] = "503"] ELSE reply

\* Over the bound: the count is put back.
Refuse ==
  /\ loop = "refusing"
  /\ active' = active - 1
  /\ conn' = [conn EXCEPT ![current] = "refused"]
  /\ reply' = BusyReply
  /\ loop' = "top" /\ current' = NoClient
  /\ UNCHANGED <<kind, stop, errors, peer, arrived, taken, header, body, frames, fatal, reads>>

Spawn ==
  /\ loop = "spawning"
  /\ conn' = [conn EXCEPT ![current] = "serving"]
  /\ loop' = "top" /\ current' = NoClient
  /\ UNCHANGED <<errors, active>> /\ LoopUnchanged

SpawnFailsWith(count) ==
  /\ loop = "spawning"
  /\ active' = count
  /\ conn' = [conn EXCEPT ![current] = "closed"]
  /\ loop' = "top" /\ current' = NoClient
  /\ UNCHANGED errors /\ LoopUnchanged

\* Slip: the slot of a thread that could not start is kept.
SpawnFailsKeeping == SpawnFailsWith(active)

SpawnFails == SpawnFailsWith(active - 1)

\* Nothing to accept: a short sleep, back to the stop flag.
NothingToAccept ==
  /\ loop = "accepting" /\ \A c \in Clients : conn[c] # "backlog"
  /\ loop' = "top"
  /\ UNCHANGED <<current, errors, active, conn>> /\ LoopUnchanged

\* After MaxErrors errors in a row the loop ends.
AcceptError ==
  /\ loop = "accepting"
  /\ IF stop
     THEN EndLoop /\ UNCHANGED errors
     ELSE /\ errors' = errors + 1
          /\ IF errors' >= MaxErrors THEN EndLoop ELSE loop' = "top" /\ UNCHANGED conn
  /\ UNCHANGED <<current, active>> /\ LoopUnchanged

Accepting ==
  \/ CheckStop \/ Refuse \/ Spawn \/ SpawnFails \/ NothingToAccept \/ AcceptError
  \/ \E c \in Clients : Accept(c)

-----------------------------------------------------------------------------
(* A serving thread: what the socket gives it *)

ServeUnchanged == UNCHANGED <<kind, stop, loop, current, errors, active, peer, arrived>>

\* What a read may return, at most room bytes of what has arrived.
Readable(c, room) ==
  {SubSeq(Stream(c), taken[c] + 1, taken[c] + n) :
     n \in 1 .. (IF room < arrived[c] - taken[c] THEN room ELSE arrived[c] - taken[c])}

NothingArrived(c) == peer[c] # "reset" /\ taken[c] = arrived[c]
EndOfStream(c)    == peer[c] = "closed" /\ taken[c] = arrived[c]

Take(c, bytes) == taken' = [taken EXCEPT ![c] = @ + Len(bytes)]

Goto(c, state) == conn' = [conn EXCEPT ![c] = state]

\* The thread gives its slot back as its last step.
Leave(c) ==
  /\ conn[c] = "leaving"
  /\ active' = active - 1
  /\ Goto(c, "closed")
  /\ UNCHANGED <<kind, stop, loop, current, errors, peer, arrived, readVars>>

-----------------------------------------------------------------------------
(* Frames: FrameReader::poll under read_frames_until_closed *)

\* The stop flag is looked at between two polls.
StartPoll(c) ==
  /\ kind = "frames" /\ conn[c] = "serving"
  /\ Goto(c, IF stop THEN "leaving" ELSE "polling")
  /\ UNCHANGED readVars /\ ServeUnchanged

\* The length a full header declares; a header made of other bytes is garbage
\* that may pass for a length.
LengthIn(c, h) ==
  IF \E f \in DOMAIN Declared[c] : h = FrameBytes(f, 0)
  THEN Declared[c][(CHOOSE f \in DOMAIN Declared[c] : h = FrameBytes(f, 0))]
  ELSE 1

\* Part of the header; once full it is judged before any byte of the body.
ReadHeader(c) ==
  /\ kind = "frames" /\ conn[c] = "polling" /\ Len(header[c]) < HeaderLen
  /\ peer[c] # "reset"
  /\ \E bytes \in Readable(c, HeaderLen - Len(header[c])) :
       LET h == header[c] \o bytes
           refused == Len(h) = HeaderLen /\ LengthIn(c, h) \notin 1 .. MaxPayload
       IN /\ Take(c, bytes)
          /\ header' = [header EXCEPT ![c] = IF refused THEN <<>> ELSE h]
          /\ fatal' = [fatal EXCEPT ![c] = refused]
          /\ Goto(c, IF refused THEN "leaving" ELSE "polling")
  /\ UNCHANGED <<body, frames, reply, reads>> /\ ServeUnchanged

\* Part of the body; the last byte completes the frame, which push_inbound takes.
ReadBody(c) ==
  /\ kind = "frames" /\ conn[c] = "polling" /\ Len(header[c]) = HeaderLen
  /\ peer[c] # "reset"
  /\ \E bytes \in Readable(c, LengthIn(c, header[c]) - Len(body[c])) :
       LET b == body[c] \o bytes
           whole == Len(b) = LengthIn(c, header[c])
       IN /\ Take(c, bytes)
          /\ body' = [body EXCEPT ![c] = IF whole THEN <<>> ELSE b]
          /\ header' = [header EXCEPT ![c] = IF whole THEN <<>> ELSE @]
          /\ frames' = [frames EXCEPT ![c] = IF whole THEN Append(@, b) ELSE @]
          /\ Goto(c, IF whole THEN "serving" ELSE "polling")
  /\ UNCHANGED <<fatal, reply, reads>> /\ ServeUnchanged

PollTimesOutTo(c, state, h) ==
  /\ kind = "frames" /\ conn[c] = "polling"
  /\ NothingArrived(c) /\ ~EndOfStream(c)
  /\ Goto(c, state)
  /\ header' = [header EXCEPT ![c] = h]
  /\ UNCHANGED <<taken, body, frames, fatal, reply, reads>> /\ ServeUnchanged

\* Slips: a partial header is forgotten; the wait goes on inside the poll.
PollTimesOutForgetting(c) == PollTimesOutTo(c, "serving", <<>>)
PollTimesOutStaying(c)    == PollTimesOutTo(c, "polling", header[c])

\* A read that times out leaves the partial frame where it is (Pending).
PollTimesOut(c) == PollTimesOutTo(c, "serving", header[c])

\* End of stream, clean between two frames only, or a failed read.
PollEnds(c) ==
  /\ kind = "frames" /\ conn[c] = "polling"
  /\ EndOfStream(c) \/ peer[c] = "reset"
  /\ fatal' = [fatal EXCEPT ![c] = peer[c] = "reset" \/ header[c] # <<>>]
  /\ Goto(c, "leaving")
  /\ UNCHANGED <<taken, header, body, frames, reply, reads>> /\ ServeUnchanged

-----------------------------------------------------------------------------
(* Health: read_request_head and handle_connection_with_budget *)

\* Place of the first end of line, 0 if there is none.
LineEnds(b) == {i \in 1 .. Len(b) : i < Len(b) /\ b[i] = "CR" /\ b[i + 1] = "LF"}
FirstLineEnd(b) ==
  IF LineEnds(b) = {} THEN 0
  ELSE CHOOSE i \in LineEnds(b) : \A j \in LineEnds(b) : i <= j

\* The number of empty lines b starts with.
EmptyLines(b) ==
  Cardinality({n \in 1 .. Len(b) \div 2 :
                 \A i \in 1 .. n : b[2 * i - 1] = "CR" /\ b[2 * i] = "LF"})

\* Leading empty lines are dropped.
SkipEmptyLines(b) == SubSeq(b, 2 * EmptyLines(b) + 1, Len(b))

\* The answer to a request line; a token stands for method and path.
Route(line) ==
  CASE line \in {<<"GET /health">>, <<"GET /health?">>} -> "200"
    [] line = <<"GET /other">> -> "404"
    [] OTHER -> "405"

\* Slip: each read starts a new buffer.
BufferedAlone(c, bytes) == bytes

\* What the buffer holds after a read.
Buffered(c, bytes) == header[c] \o bytes

\* One read: the line if there is one now, 431 for too long a line.
ReadRequest(c) ==
  /\ kind = "health" /\ conn[c] = "serving" /\ reads[c] < Budget /\ peer[c] # "reset"
  /\ \E bytes \in Readable(c, Len(Request[c])) :
       LET b == SkipEmptyLines(Buffered(c, bytes))
           answer == CASE FirstLineEnd(b) > 0 -> Route(SubSeq(b, 1, FirstLineEnd(b) - 1))
                       [] FirstLineEnd(b) = 0 /\ Len(b) > MaxRequest -> "431"
                       [] OTHER -> "none"
       IN /\ Take(c, bytes)
          /\ header' = [header EXCEPT ![c] = b]
          /\ reply' = [reply EXCEPT ![c] = answer]
          /\ Goto(c, IF answer = "none" THEN "serving" ELSE "leaving")
  /\ reads' = [reads EXCEPT ![c] = @ + 1]
  /\ UNCHANGED <<body, frames, fatal>> /\ ServeUnchanged

\* The budget is spent, nothing came in time, or the stream ended: closed
\* without an answer.
RequestDead(c) ==
  /\ kind = "health" /\ conn[c] = "serving"
  /\ reads[c] = Budget \/ NothingArrived(c) \/ peer[c] = "reset"
  /\ Goto(c, "leaving")
  /\ UNCHANGED readVars /\ ServeUnchanged

Serving(c) ==
  \/ StartPoll(c) \/ ReadHeader(c) \/ ReadBody(c) \/ PollTimesOut(c) \/ PollEnds(c)
  \/ ReadRequest(c) \/ RequestDead(c) \/ Leave(c)

-----------------------------------------------------------------------------
(* The clients and the owner of the server *)

ClientUnchanged == UNCHANGED <<kind, stop, acceptVars, readVars>>

Connect(c) ==
  /\ conn[c] = "away" /\ loop # "ended"
  /\ Goto(c, "backlog")
  /\ UNCHANGED <<peer, arrived>> /\ ClientUnchanged

\* Bytes count as arrived once a thread may read them.
Send(c) ==
  /\ conn[c] \in {"serving", "polling"} /\ peer[c] = "up"
  /\ arrived[c] < Len(Stream(c))
  /\ arrived' = [arrived EXCEPT ![c] = @ + 1]
  /\ UNCHANGED <<conn, peer>> /\ ClientUnchanged

\* The client closes, its host resets the connection, or it vanishes.
ClientEnds(c) ==
  /\ conn[c] \in {"serving", "polling"} /\ peer[c] = "up"
  /\ \E how \in {"closed", "reset", "gone"} : peer' = [peer EXCEPT ![c] = how]
  /\ UNCHANGED <<conn, arrived>> /\ ClientUnchanged

\* TcpTransport::stop, HealthHandle::drop.
Stop ==
  /\ ~stop
  /\ stop' = TRUE
  /\ UNCHANGED <<kind, acceptVars, conn, peer, arrived, readVars>>

Init ==
  /\ kind \in {"frames", "health"}
  /\ stop = FALSE
  /\ loop = "top" /\ current = NoClient /\ errors = 0 /\ active = 0
  /\ conn = [c \in Clients |-> "away"]
  /\ peer = [c \in Clients |-> "up"]
  /\ arrived = [c \in Clients |-> 0] /\ taken = arrived /\ reads = arrived
  /\ header = [c \in Clients |-> <<>>] /\ body = header /\ frames = header
  /\ fatal = [c \in Clients |-> FALSE]
  /\ reply = [c \in Clients |-> "none"]

Next ==
  \/ Accepting
  \/ Stop
  \/ \E c \in Clients : Serving(c) \/ Connect(c) \/ Send(c) \/ ClientEnds(c)

Spec == Init /\ [][Next]_vars

\* Each thread keeps running; a blocked read ends with its time.
FairSpec == Spec /\ WF_vars(Accepting) /\ \A c \in Clients : WF_vars(Serving(c))

-----------------------------------------------------------------------------
(* Properties *)

\* The connections whose thread runs or is being started; the clients refused.
Pool == INSTANCE SlotPool WITH
  held <- Holding \cup IF loop = "spawning" THEN {current} ELSE {},
  turnedAway <- {c \in Clients : conn[c] = "refused"}
                \cup IF loop = "refusing" THEN {current} ELSE {}

\* The count kept by fetch_add and fetch_sub of several threads behaves as a
\* pool of slots: never more than the bound served, a client refused only while
\* every slot is held, no slot lost when a thread cannot start or ends.
PoolSpec == Pool!Spec

\* The frames a client declares and sends: payload f of the stream.
Payload(c, f) == [k \in 1 .. Declared[c][f] |-> <<f, HeaderLen + k>>]

\* The bytes read are those of the frames received.
AtBoundary(c) ==
  taken[c] = Len(FlattenSeq([f \in DOMAIN frames[c] |-> FrameBytes(f, Declared[c][f])]))
NextLengthSound(c) ==
  LET f == Len(frames[c]) + 1
  IN  f \in DOMAIN Declared[c] /\ Declared[c][f] \in 1 .. MaxPayload

\* However reads split the stream and wherever they time out, the inbound queue
\* receives the frames of a client whole and in order; a connection is counted
\* as a violation only for a length out of bounds, a stream cut inside a frame
\* or a failed read.
FramesWhole ==
  \A c \in Clients :
    /\ \A f \in DOMAIN frames[c] : f \in DOMAIN Declared[c] /\ frames[c][f] = Payload(c, f)
    /\ fatal[c] =>
         \/ peer[c] = "reset"
         \/ ~AtBoundary(c) /\ (peer[c] = "closed" \/ ~NextLengthSound(c))

\* The answer of the health server depends on what the client sent and not on
\* how it arrived: the route of its first line that is not empty, or 431 only
\* when that line is longer than a request may be.
ReplyFitsRequest ==
  \A c \in Clients :
    LET b == SkipEmptyLines(Request[c])
        end == FirstLineEnd(b)
    IN  reply[c] \notin {"none", "503"} =>
          \/ end > 0 /\ reply[c] = Route(SubSeq(b, 1, end - 1))
          \/ reply[c] = "431" /\ Len(b) > MaxRequest /\ (end > 0 => end >= MaxRequest)

\* Who connects is served or turned away, and who is served is done: accept errors
\* cannot keep the thread busy for ever; a health connection always ends, by its budget
\* at the latest; a connection of frames ends when its stream does or when the transport
\* stops, even if the client has vanished.
Ending(c) == kind = "health" \/ stop \/ peer[c] \in {"closed", "reset"}

ServingEnds ==
  \A c \in Clients :
    /\ conn[c] = "backlog" ~> conn[c] # "backlog"
    /\ (conn[c] \in {"serving", "polling"} /\ Ending(c)) ~> conn[c] = "closed"
=============================================================================
