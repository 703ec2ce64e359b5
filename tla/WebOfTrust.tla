----------------------------- MODULE WebOfTrust -----------------------------
(***************************************************************************)
(* The web of trust of a network of nodes (ReputationSystem and the        *)
(* endorsements of node/mod.rs).  Each node scores the keys it knows: the  *)
(* founders of its configuration and itself are trusted from the start, a  *)
(* key becomes trusted after enough endorsements by keys the node trusts   *)
(* when they reach it.  An endorsement integrated is relayed; one refused  *)
(* is forgotten, while its sender has marked it as handed: what a node     *)
(* believes depends on the order in which endorsements reached it.  What   *)
(* reaches a node passes the gate of admit_peer_event first, which counts  *)
(* per signer what the node does not know, copies of what it refused too.  *)
(*                                                                         *)
(* The outbox and the marks of the gossip have no bound here (Gossip has   *)
(* them) and a link hands the events of an outbox in order (TcpLink).  The *)
(* clock, the graces and the events of other kinds, which share the window *)
(* of their signer, are those of Admission: here a window slides at any    *)
(* time, and penalties do not decay.  Scores are in hundredths, penalties  *)
(* in tenths.                                                              *)
(***************************************************************************)
EXTENDS Naturals, Sequences, FiniteSets, Functions

CONSTANTS
  Nodes,       \* the nodes of the network
  Keys,        \* all keys, those of the nodes and others
  Founders,    \* trust_pubkeys of the configurations
  Links,       \* who hands events to whom
  Required,    \* REQUIRED_ENDORSEMENTS
  Budgets,     \* SPAM_BUDGET_PER_WINDOW, and what the gate allows during a grace
  Wishes,      \* <<endorser, endorsed>>: what the users of the nodes may ask
  Malformed,   \* <<node, signer>>: who hands a node a signed event that is no sound endorsement
  Reported,    \* <<node, key>>: the abuse reports that a node may integrate
  Restarts     \* bound: for each node, how often it may restart

ASSUME TrustAssumption ==
  /\ IsFiniteSet(Keys) /\ Nodes \subseteq Keys /\ Founders \subseteq Keys
  /\ Links \subseteq Nodes \X Nodes
  /\ Required \in Nat \ {0} /\ Budgets \subseteq Nat \ {0} /\ Restarts \in [Nodes -> Nat]
  /\ Wishes \subseteq Nodes \X Keys
  /\ Malformed \subseteq {e \in Nodes \X Keys : e[1] # e[2]}
  /\ Reported \subseteq Nodes \X Keys

VARIABLES
  score,      \* scores: for each node, key -> score
  endorsers,  \* endorsements: for each node, key -> those whose endorsement it integrated
  penalties,  \* reputation.abuse: for each node, key -> level
  counted,    \* spam_guard: for each node, key -> admissions in its window
  outbox,     \* events each node relays, oldest first
  sent,       \* for each node and peer, how many events of the outbox were handed
  restarts,   \* how often each node restarted
  noise       \* history: for each node, key -> its endorsements handed over in this
              \* life, each copy, that the node did not know then or after

guardVars == <<penalties, counted, noise>>
vars == <<score, endorsers, guardVars, outbox, sent, restarts>>

Trusted70 == 70  \* TRUSTED_THRESHOLD, ENDORSEMENT_THRESHOLD
Genesis   == 80  \* GENESIS_TRUST

\* Levels of abuse: those from ABUSE_THROTTLE_THRESHOLD (0.15) and from
\* ABUSE_IGNORE_THRESHOLD, the highest one, and what violations add.
Throttled == 2
Ignored   == 8
Worst     == 10
ExcessiveRate == 3
InvalidEvent  == 1
RemoteReport  == 1

\* is_trusted
Trusted(n) == {k \in Keys : score[n][k] >= Trusted70}

\* bootstrap: the founders and the node itself.
Base(n) == Founders \cup {n}
Bootstrapped(n) == [k \in Keys |-> IF k \in Base(n) THEN Genesis ELSE 0]

-----------------------------------------------------------------------------
(* ReputationSystem *)

\* required_pow_difficulty: maximal for a throttled or an unknown author, none
\* for a trusted one, in between by its score, rounded to the nearest.
RequiredPow(n, k) ==
  CASE penalties[n][k] >= Throttled                          -> 4
    [] penalties[n][k] < Throttled /\ score[n][k] >= Trusted70 -> 0
    [] OTHER -> (2 * (4 * Trusted70 - 2 * score[n][k]) + Trusted70) \div (2 * Trusted70)

\* The refusals of endorse, in its order.
Refusal(n, a, b) ==
  CASE a = b                                    -> "itself"
    [] a # b /\ a \notin Trusted(n)              -> "not trusted"
    [] a \in Trusted(n) \ {b} /\ a \in endorsers[n][b] -> "duplicate"
    [] OTHER                                    -> "none"

\* Slip: one endorsement too many is asked.
PromotesAbove(qualified) == Cardinality(qualified) > Required

\* Enough endorsements by keys trusted now promote.
Promotes(qualified) == Cardinality(qualified) >= Required

ScoreGaining(n, a, b, gained) ==
  LET raised    == IF score[n][b] > gained THEN score[n][b] ELSE gained
      qualified == (endorsers[n][b] \cup {a}) \cap Trusted(n)
  IN  IF Promotes(qualified) /\ raised < Trusted70 THEN Trusted70 ELSE raised

\* The score of b once a's endorsement is in; no key endorses itself.
ScoreAfter(n, a, b) == ScoreGaining(n, a, b, score[n][a] \div 2)

\* endorse, when nothing refuses it.
Integrate(n, a, b) ==
  /\ Refusal(n, a, b) = "none"
  /\ endorsers' = [endorsers EXCEPT ![n][b] = @ \cup {a}]
  /\ score' = [score EXCEPT ![n][b] = ScoreAfter(n, a, b)]

-----------------------------------------------------------------------------
(* Nodes *)

\* An event names the restart it was made after: its id holds a timestamp.
Endorsement(n, b) == [signer |-> n, endorsed |-> b, pow |-> RequiredPow(n, n), at |-> restarts[n]]

\* Node::endorse: applied to the node's own view first, then published.
Endorse(n, b) ==
  /\ Integrate(n, n, b)
  /\ outbox' = [outbox EXCEPT ![n] = Append(@, Endorsement(n, b))]
  /\ UNCHANGED <<guardVars, sent, restarts>>

\* The proof of work a throttled node needs is not found: the endorsement stays
\* in its own view, unpublished, and asking again is a duplicate.
EndorseUnpublished(n, b) ==
  /\ RequiredPow(n, n) > 0
  /\ Integrate(n, n, b)
  /\ UNCHANGED <<guardVars, outbox, sent, restarts>>

\* Slip: what is integrated is not relayed.
RelayNever(n, e) == outbox

\* add_event_with_reputation: nothing for a known event, nor for one whose work
\* is too little for what the node now asks of its author.
Relay(n, e) ==
  IF e \in Range(outbox[n]) \/ e.pow < RequiredPow(n, e.signer)
  THEN outbox
  ELSE [outbox EXCEPT ![n] = Append(@, e)]

\* Refusals that are the normal noise of the network and penalise nobody.
PoliticalNoise == {"duplicate", "not trusted", "itself"}

\* record_violation
Penalised(n, k, amount) ==
  [penalties EXCEPT ![n][k] = IF @ + amount > Worst THEN Worst ELSE @ + amount]

\* handle_incoming_endorsement, and what receive_peer_event makes of its refusals.
Handle(m, e) ==
  LET refusal == Refusal(m, e.signer, e.endorsed)
  IN  \/ /\ Integrate(m, e.signer, e.endorsed)
         /\ outbox' = Relay(m, e)
         /\ UNCHANGED penalties
      \/ /\ refusal # "none"
         /\ penalties' = IF refusal \in PoliticalNoise THEN penalties
                         ELSE Penalised(m, e.signer, InvalidEvent)
         /\ UNCHANGED <<score, endorsers, outbox>>

-----------------------------------------------------------------------------
(* The gate *)

\* Slip: the copies of a known event count.
UncountedOwn(m, e) == e.signer = m

\* The node's own events and those it knows pass uncounted.
Uncounted(m, e) == e.signer = m \/ e \in Range(outbox[m])

\* The signer is not ignored, and its window has room for one more.
GateAdmits(m, k) ==
  /\ penalties[m][k] < Ignored
  /\ \E budget \in Budgets : counted[m][k] < budget
  /\ counted' = [counted EXCEPT ![m][k] = @ + 1]

\* An ignored signer is dropped; one whose window is full is held guilty of it.
GateRejects(m, k) ==
  /\ \/ penalties[m][k] >= Ignored /\ UNCHANGED penalties
     \/ /\ penalties[m][k] < Ignored
        /\ \E budget \in Budgets : counted[m][k] >= budget
        /\ penalties' = Penalised(m, k, ExcessiveRate)
  /\ UNCHANGED counted

\* receive_peer_event: the gate, then the handler.
Receive(m, e) ==
  \/ Uncounted(m, e) /\ Handle(m, e) /\ UNCHANGED counted
  \/ ~Uncounted(m, e) /\ GateAdmits(m, e.signer) /\ Handle(m, e)
  \/ /\ ~Uncounted(m, e) /\ GateRejects(m, e.signer)
     /\ UNCHANGED <<score, endorsers, outbox>>

\* The pump hands the next event.
Hand(n, m) ==
  /\ sent[n][m] < Len(outbox[n])
  /\ sent' = [sent EXCEPT ![n][m] = @ + 1]
  /\ LET e == outbox[n][sent[n][m] + 1]
     IN  /\ Receive(m, e)
         /\ noise' = IF e.signer = m \/ e \in Range(outbox'[m]) THEN noise
                     ELSE [noise EXCEPT ![m][e.signer] = @ + 1]
  /\ UNCHANGED restarts

\* A signed event with too long a payload, one that does not decode or that names
\* another endorser than its signer: once past the gate, it is refused and held
\* against its signer.
ReceiveMalformed(n, k) ==
  /\ \/ GateAdmits(n, k) /\ penalties' = Penalised(n, k, InvalidEvent)
     \/ GateRejects(n, k)
  /\ UNCHANGED <<score, endorsers, outbox, sent, restarts, noise>>

\* An abuse report integrated by n.
Report(n, k) ==
  /\ penalties' = Penalised(n, k, RemoteReport)
  /\ UNCHANGED <<score, endorsers, counted, outbox, sent, restarts, noise>>

\* Admissions leave the window as time passes; past MAX_TRACKED_AUTHORS a signer
\* is forgotten with all of its own.
Lapse(n, k) ==
  /\ \E fewer \in 0 .. counted[n][k] - 1 : counted' = [counted EXCEPT ![n][k] = fewer]
  /\ UNCHANGED <<score, endorsers, penalties, outbox, sent, restarts, noise>>

\* Everything is in memory; the marks of the peers stay.
Restart(n) ==
  /\ restarts[n] < Restarts[n]
  /\ restarts' = [restarts EXCEPT ![n] = @ + 1]
  /\ score' = [score EXCEPT ![n] = Bootstrapped(n)]
  /\ endorsers' = [endorsers EXCEPT ![n] = [k \in Keys |-> {}]]
  /\ penalties' = [penalties EXCEPT ![n] = [k \in Keys |-> 0]]
  /\ counted' = [counted EXCEPT ![n] = [k \in Keys |-> 0]]
  /\ noise' = [noise EXCEPT ![n] = [k \in Keys |-> 0]]
  /\ outbox' = [outbox EXCEPT ![n] = <<>>]
  /\ sent' = [sent EXCEPT ![n] = [m \in Nodes |-> 0]]

Init ==
  /\ score = [n \in Nodes |-> Bootstrapped(n)]
  /\ endorsers = [n \in Nodes |-> [k \in Keys |-> {}]]
  /\ penalties = [n \in Nodes |-> [k \in Keys |-> 0]]
  /\ counted = [n \in Nodes |-> [k \in Keys |-> 0]]
  /\ noise = [n \in Nodes |-> [k \in Keys |-> 0]]
  /\ outbox = [n \in Nodes |-> <<>>]
  /\ sent = [n \in Nodes |-> [m \in Nodes |-> 0]]
  /\ restarts = [n \in Nodes |-> 0]

Next ==
  \/ \E w \in Wishes : Endorse(w[1], w[2]) \/ EndorseUnpublished(w[1], w[2])
  \/ \E l \in Links : Hand(l[1], l[2])
  \/ \E e \in Malformed : ReceiveMalformed(e[1], e[2])
  \/ \E r \in Reported : Report(r[1], r[2])
  \/ \E n \in Nodes : Restart(n) \/ \E k \in Keys : Lapse(n, k)

Spec == Init /\ [][Next]_vars

\* The pump of each node visits each of its peers again and again.
FairSpec == Spec /\ \A l \in Links : WF_vars(Hand(l[1], l[2]))

-----------------------------------------------------------------------------
(* Properties *)

\* Types, and the scores that endorsements can give.
TypeOK ==
  /\ \A n \in Nodes, k \in Keys :
       score[n][k] \in IF k \in Base(n) THEN {Genesis} ELSE {0, 35, 40, Trusted70}
  /\ endorsers \in [Nodes -> [Keys -> SUBSET Keys]]
  /\ penalties \in [Nodes -> [Keys -> 0 .. Worst]]
  /\ \A n \in Nodes, k \in Keys :
       counted[n][k] > 0 => \E budget \in Budgets : counted[n][k] <= budget
  /\ \A l \in Links : sent[l[1]][l[2]] <= Len(outbox[l[1]])
  /\ \A n \in Nodes : restarts[n] \in 0 .. Restarts[n]

\* A set of keys closed under what node n has integrated: with Required members
\* who endorsed a key, that key too.
Closed(n, S) ==
  \A k \in Keys : Cardinality(endorsers[n][k] \cap S) >= Required => k \in S

\* The keys a node trusts are exactly those that its founders and itself support:
\* the least set with them that the integrated endorsements close.  Keys that
\* endorse each other cannot lift themselves, and no support is overlooked in
\* whatever order endorsements and promotions came.
TrustGrounded ==
  \A n \in Nodes :
    /\ Base(n) \subseteq Trusted(n) /\ Closed(n, Trusted(n))
    /\ \A S \in SUBSET (Keys \ Base(n)) :
         Closed(n, Base(n) \cup S) => Trusted(n) \subseteq Base(n) \cup S

\* The endorsements of k that n knows.
KnownOf(n, k) == {i \in DOMAIN outbox[n] : outbox[n][i].signer = k}

\* Who is neither reported nor a signer of malformed payloads is held guilty of its
\* rate alone: more of its endorsements than a budget are known to the node or
\* were refused there in this life.  Copies of what the node relays weigh nothing,
\* however many peers hand them on and whoever restarts (node/mod.rs 1448-1449).
ExcessAlonePunished ==
  \A n \in Nodes, k \in Keys :
    penalties[n][k] > 0 /\ <<n, k>> \notin Reported \cup Malformed
      => \E budget \in Budgets : noise[n][k] + Cardinality(KnownOf(n, k)) > budget

Calm == \A n \in Nodes : restarts[n] = 0 /\ \A k \in Keys : penalties[n][k] = 0

\* While nothing restarts or is throttled, a founder's endorsement reaches the
\* view of every node through the relays.
Spreads ==
  \A w \in Wishes : w[1] \in Founders =>
    \A n \in Nodes :
      w[1] \in endorsers[w[1]][w[2]] ~> (w[1] \in endorsers[n][w[2]] \/ ~Calm)

-----------------------------------------------------------------------------
(* What a comment of the source says, and the code does not do *)

\* node/mod.rs 1504-1508: duplicates that the gossip relays and endorsers without
\* the standing are noise and penalise nobody; only malformed payloads and
\* missing work weigh (and reports).
NoiseUnpunished ==
  \A n \in Nodes, k \in Keys :
    penalties[n][k] > 0 => <<n, k>> \in Reported \cup Malformed
=============================================================================
