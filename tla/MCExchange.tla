----------------------------- MODULE MCExchange -----------------------------
(* Instances of what nodes hand each other: the gossip, the router that      *)
(* stores and forwards, and the distribution of updates.  None waits for     *)
(* another, so a behaviour is about one of them.                             *)
EXTENDS Gossip, Update, DtnRouter

CONSTANTS
  MaxInserts,       \* bound on the insertions in the gossip
  old, new,         \* packages
  a, b, c           \* carriers

VARIABLES
  part,             \* what the behaviour is about
  inserts           \* insertions in the gossip so far

countedVars == <<gossipVars, inserts>>
exchangeVars == <<part, countedVars, updateVars, vars>>

-----------------------------------------------------------------------------
\* Two packages of two chunks; the last chunk of the second is shorter.
MCSize == [x \in {old, new} |-> IF x = old THEN 4 ELSE 3]
MCReleases == {[version |-> 1, apk |-> old], [version |-> 2, apk |-> new]}

\* A broadcast with time for two hops, an urgent message for c, and an old
\* broadcast that is already dead.
MCMessages ==
  {[source |-> a, dest |-> "all", priority |-> 1, at |-> 1, ttl |-> 3],
   [source |-> a, dest |-> c, priority |-> 0, at |-> 2, ttl |-> 2],
   [source |-> a, dest |-> "all", priority |-> 2, at |-> 0, ttl |-> 0]}

-----------------------------------------------------------------------------
ExchangeInit ==
  /\ part \in {"gossip", "update", "dtn"}
  /\ GossipInit /\ inserts = 0
  /\ UpdateInit
  /\ Init

\* Publications stop, although events may be forgotten and come back.
CountedNext ==
  \/ /\ inserts < MaxInserts /\ inserts' = inserts + 1
     /\ \E e \in Events : Insert(e)
  \/ /\ \E p \in Peers : GetPendingForPeer(p) \/ TakeHealBatch(p) \/ FlushBatch(p)
     /\ UNCHANGED inserts

ExchangeNext ==
  \/ part = "gossip" /\ CountedNext /\ UNCHANGED <<part, updateVars, vars>>
  \/ part = "update" /\ UpdateNext /\ UNCHANGED <<part, countedVars, vars>>
  \/ part = "dtn" /\ Next /\ UNCHANGED <<part, countedVars, updateVars>>

\* The transport loops on the catch-up until its batches are empty.
CatchUpFairness ==
  \A p \in Peers : WF_countedVars(TakeHealBatch(p) /\ UNCHANGED inserts)

ExchangeSpec ==
  /\ ExchangeInit /\ [][ExchangeNext]_exchangeVars
  /\ CatchUpFairness /\ UpdateFairness /\ DtnFairness

\* The catch-up of take_heal_batch ends: once publications stop, every peer has
\* been handed the whole outbox and stays so.  A per-peer list shorter than the
\* outbox would instead hand the same events round and round.
CatchUpEnds == <>[](\A p \in Peers : CaughtUp(p))
=============================================================================
