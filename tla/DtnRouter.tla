------------------------------ MODULE DtnRouter ------------------------------
(***************************************************************************)
(* The store-and-forward router (crates/dtn-router): a bounded buffer per  *)
(* node that keeps the most urgent messages, forwarding when two nodes     *)
(* meet, expiry by time and by hops, and the statistics, which a task      *)
(* updates under a second lock after it has released the buffers.          *)
(*                                                                         *)
(* A copy of a message is [msg, ttl, served, path]: served is delivered_to *)
(* and path, a history, the nodes that carried it; hop_count is the length *)
(* of the path less one.  Copies handed over by an encounter are stored or *)
(* lost by the application.  A buffer is a set: the code's order decides   *)
(* only which of two equally old and urgent copies goes first.             *)
(***************************************************************************)
EXTENDS Naturals, Sequences, FiniteSets, Functions, SequencesExt, FiniteSetsExt

CONSTANTS
  Nodes,
  Messages,   \* records [source, dest, priority, at, ttl]; dest may be "all"
  MaxBuffer,  \* max_buffer
  MaxTasks    \* bound on the tasks between their two locks

ASSUME DtnAssumption ==
  /\ MaxBuffer \in Nat /\ MaxTasks \in Nat \ {0}
  /\ IsFiniteSet(Nodes) /\ "all" \notin Nodes
  /\ \A m \in Messages :
       m.source \in Nodes /\ m.dest \in Nodes \cup {"all"} /\ m.ttl \in Nat

VARIABLES
  buffer,   \* buffers: the copies of each node
  sent,     \* messages their source has submitted
  carried,  \* copies handed over, not yet stored: [to, copy]
  stats,    \* RouterStats
  tasks,    \* what tasks have still to add to the statistics, oldest first
  done      \* history: how many copies were offered, forwarded out or expired

vars == <<buffer, sent, carried, stats, tasks, done>>

Hops(c) == Len(c.path) - 1
Broadcast(c) == c.msg.dest = "all"

NoStats == [stored |-> 0, forwarded |-> 0, expired |-> 0, dropped |-> 0]

\* Slip: what a task has to add replaces what is there.
Replaced(s, t) == t

\* What a task adds to the statistics.
Plus(s, t) == [f \in DOMAIN s |-> s[f] + t[f]]

\* The task that did this has still to report it, if there is anything to.
Reports(delta) ==
  /\ delta # NoStats => Len(tasks) < MaxTasks
  /\ tasks' = IF delta # NoStats THEN Append(tasks, delta) ELSE tasks
  /\ UNCHANGED stats

-----------------------------------------------------------------------------
(* Storing *)

\* worst_index: the least urgent copies (0 is most urgent), the oldest of them.
Worst(b) ==
  {c \in b : \A d \in b :
     c.msg.priority > d.msg.priority \/ (c.msg.priority = d.msg.priority /\ c.msg.at <= d.msg.at)}

\* A buffer without any place still takes one copy: it has no worst one.
Full(n) == Cardinality(buffer[n]) >= MaxBuffer /\ buffer[n] # {}

\* store: a full buffer drops its worst copy for a more urgent one only.
Store(n, c) ==
  \/ /\ ~Full(n)
     /\ buffer' = [buffer EXCEPT ![n] = @ \cup {c}]
     /\ Reports([NoStats EXCEPT !.stored = 1])
  \/ \E w \in Worst(buffer[n]) :
       /\ Full(n) /\ c.msg.priority < w.msg.priority
       /\ buffer' = [buffer EXCEPT ![n] = (@ \ {w}) \cup {c}]
       /\ Reports([NoStats EXCEPT !.stored = 1, !.dropped = 1])
  \/ /\ Full(n) /\ \E w \in Worst(buffer[n]) : c.msg.priority >= w.msg.priority
     /\ Reports([NoStats EXCEPT !.dropped = 1])
     /\ UNCHANGED buffer

Submit(m) ==
  /\ m \notin sent
  /\ Store(m.source, [msg |-> m, ttl |-> m.ttl, served |-> {}, path |-> <<m.source>>])
  /\ sent' = sent \cup {m}
  /\ done' = [done EXCEPT !.offered = @ + 1]
  /\ UNCHANGED carried

\* The application at the other end stores a broadcast it was handed.
StoreCarried(h) ==
  /\ Broadcast(h.copy)
  /\ Store(h.to, h.copy)
  /\ carried' = carried \ {h}
  /\ done' = [done EXCEPT !.offered = @ + 1]
  /\ UNCHANGED sent

\* The link breaks or the application stops; a message at its destination ends here.
Lose(h) ==
  /\ carried' = carried \ {h}
  /\ UNCHANGED <<buffer, sent, stats, tasks, done>>

-----------------------------------------------------------------------------
(* Forwarding *)

\* Slip: only the peer that is served is marked.
ServedPeerOnly(c, from, to) == c.served \cup {to}

\* Both ends of an encounter are marked as served.
Served(c, from, to) == c.served \cup {to, from}

TooFar(c) == Hops(c) >= c.ttl

Handed(c, to) == IF Broadcast(c) THEN to \notin c.served ELSE c.msg.dest = to

\* collect_forwarded: what from hands to to, and what from keeps.
Dead(from) == {c \in buffer[from] : TooFar(c)}
Given(from, to) == {c \in buffer[from] : ~TooFar(c) /\ Handed(c, to)}
Kept(from, to) ==
  (buffer[from] \ (Dead(from) \cup Given(from, to))) \cup
  {[c EXCEPT !.served = Served(c, from, to)] : c \in {d \in Given(from, to) : Broadcast(d)}}
Forwarded(from, to) ==
  {[to |-> to,
    copy |-> [c EXCEPT !.served = Served(c, from, to), !.path = Append(@, to)]] :
     c \in Given(from, to)}
Unicasts(from, to) == {c \in Given(from, to) : ~Broadcast(c)}

\* encounter: both directions under one lock.
Encounter(a, b) ==
  /\ a # b
  /\ buffer' = [buffer EXCEPT ![a] = Kept(a, b), ![b] = Kept(b, a)]
  /\ carried' = carried \cup Forwarded(a, b) \cup Forwarded(b, a)
  /\ Reports([NoStats EXCEPT
       !.forwarded = Cardinality(Given(a, b)) + Cardinality(Given(b, a)),
       !.expired = Cardinality(Dead(a)) + Cardinality(Dead(b))])
  /\ done' = [done EXCEPT
       !.gone = @ + Cardinality(Unicasts(a, b)) + Cardinality(Unicasts(b, a))]
  /\ UNCHANGED sent

-----------------------------------------------------------------------------
(* Time and statistics *)

\* Slip: the copies that do not expire keep their time.
AgedNot(c) == c

Aged(c) == [c EXCEPT !.ttl = IF @ = 0 THEN 0 ELSE @ - 1]

\* tick: a copy whose last tick has come expires, the others lose one.
Tick(n) ==
  LET expired == {c \in buffer[n] : c.ttl <= 1}
  IN  /\ buffer[n] # {}
      /\ buffer' = [buffer EXCEPT ![n] = {Aged(c) : c \in @ \ expired}]
      /\ Reports([NoStats EXCEPT !.expired = Cardinality(expired)])
      /\ UNCHANGED <<sent, carried, done>>

\* The second lock of any task.
Report ==
  \E i \in DOMAIN tasks :
    /\ stats' = Plus(stats, tasks[i])
    /\ tasks' = RemoveAt(tasks, i)
    /\ UNCHANGED <<buffer, sent, carried, done>>

Init ==
  /\ buffer = [n \in Nodes |-> {}]
  /\ sent = {} /\ carried = {}
  /\ stats = NoStats /\ tasks = <<>>
  /\ done = [offered |-> 0, gone |-> 0]

Next ==
  \/ \E m \in Messages : Submit(m)
  \/ \E h \in carried : StoreCarried(h) \/ Lose(h)
  \/ \E a, b \in Nodes : Encounter(a, b)
  \/ \E n \in Nodes : Tick(n)
  \/ Report

Spec == Init /\ [][Next]_vars

\* The clock of each node ticks on, tasks end and what was handed over is dealt with.
DtnFairness ==
  /\ \A n \in Nodes : WF_vars(Tick(n))
  /\ WF_vars(Report)
  /\ WF_vars(\E h \in carried : StoreCarried(h) \/ Lose(h))

-----------------------------------------------------------------------------
(* Properties *)

\* A buffer keeps its bound, save that one without any place takes one copy.
BufferBounded ==
  \A n \in Nodes : Cardinality(buffer[n]) <= IF MaxBuffer = 0 THEN 1 ELSE MaxBuffer

\* The bound on the buffers, and the account of copies: each one offered to a
\* buffer is there, was handed to its destination, expired or was dropped, once
\* the tasks have reported.  Counters updated outside the lock lose nothing.
Reported(field) == stats[field] + SumFunction([i \in DOMAIN tasks |-> tasks[i][field]])

CopiesAccounted ==
  /\ BufferBounded
  /\ done.offered =
       SumFunction([n \in Nodes |-> Cardinality(buffer[n])])
       + done.gone + Reported("expired") + Reported("dropped")

Copies == (UNION {buffer[n] : n \in Nodes}) \cup {h.copy : h \in carried}

\* A broadcast never comes back to a node that carried it, by whatever encounters
\* it travelled, so no copy travels further than there are nodes or than its
\* lifetime allows; a copy that is kept is at the end of its path.
NeverReturns ==
  /\ \A c \in Copies : IsInjective(c.path) /\ Hops(c) <= c.msg.ttl
  /\ \A n \in Nodes : \A c \in buffer[n] : Last(c.path) = n

\* When the application submits no more, every copy dies: the flood of a broadcast
\* ends, whoever meets whom.
FloodEnds == <>[](\A n \in Nodes : buffer[n] = {})
=============================================================================
