-------------------------- MODULE IdentityRotation --------------------------
(***************************************************************************)
(* Rotation of the session key of one node, the owner (RotatingIdentity,   *)
(* crypto/mod.rs), its announcement, and what peers make of announcements  *)
(* that reach them late, twice or in any order (handle_incoming_rotation,  *)
(* node/mod.rs).  A key is <<life, number>>: the owner draws fresh keys at *)
(* each start and numbers its rotations from zero again, while its peers   *)
(* remember the highest number they accepted.                              *)
(*                                                                         *)
(* The announcement is signed by the stable identity; one whose payload or *)
(* signature is not sound changes nothing and is left out.                 *)
(***************************************************************************)
EXTENDS Integers, FiniteSets

CONSTANTS
  Peers,
  Trusting,  \* the peers that trust the owner
  Interval,  \* rotation_interval_secs, 60 at least
  MaxTime,   \* bound on the clock
  MaxLife,   \* bound on the restarts of the owner
  NoKey      \* no key known

ASSUME RotationAssumption ==
  /\ Trusting \subseteq Peers
  /\ Interval \in Nat \ {0} /\ MaxTime \in Nat /\ MaxLife \in Nat
  /\ NoKey \notin Nat \X Nat

VARIABLES
  clock,         \* system clock of the owner
  life,          \* how often the owner restarted
  rotations,     \* rotations in this life; the current key is <<life, rotations>>
  lastRotation,  \* clock at the last rotation, or at the start
  announced,     \* announcements in the network
  held,          \* peer_x25519[owner] at each peer
  grace,         \* peer_x25519_grace[owner]
  lastCount,     \* peer_rotation_count[owner], -1 before the first
  received,      \* history: announcements each peer handled
  started        \* history: clock when this life of the owner started

ownerVars == <<clock, life, rotations, lastRotation, started>>
peerVars == <<held, grace, lastCount, received>>
rotationVars == <<ownerVars, announced, peerVars>>

-----------------------------------------------------------------------------
(* The owner *)

\* The subtraction saturates: a clock that stepped back delays the rotation.
Due == (IF clock > lastRotation THEN clock - lastRotation ELSE 0) >= Interval

\* maybe_rotate
MaybeRotate ==
  /\ rotations' = IF Due THEN rotations + 1 ELSE rotations
  /\ lastRotation' = IF Due THEN clock ELSE lastRotation
  /\ UNCHANGED <<clock, life, started>>

\* maybe_rotate_identity, from start: peers are not told.
RotateSilently == MaybeRotate /\ UNCHANGED <<announced, peerVars>>

Announcement == [key |-> <<life, rotations'>>, count |-> rotations']

\* announce_identity_rotation; when its proof of work or its validation fails the
\* rotation has happened and nothing is published.
Announce ==
  /\ MaybeRotate
  /\ announced' = announced \cup {Announcement}
  /\ UNCHANGED peerVars

\* A new process: fresh keys, numbered from zero.
RestartOwner ==
  /\ life < MaxLife
  /\ life' = life + 1
  /\ rotations' = 0
  /\ lastRotation' = clock /\ started' = clock
  /\ UNCHANGED <<clock, announced, peerVars>>

ClockMoves ==
  /\ \E t \in {clock - 1, clock + 1} \cap (0 .. MaxTime) : clock' = t
  /\ UNCHANGED <<life, rotations, lastRotation, started, announced, peerVars>>

-----------------------------------------------------------------------------
(* The peers *)

\* Slip: only a number repeated is refused.
NotRepeated(p, e) == e.count # lastCount[p]

\* The number must grow: an announcement replayed is refused.
InOrder(p, e) == e.count > lastCount[p]

\* handle_incoming_rotation: the key replaced stays as the grace key.
Receive(p, e) ==
  /\ received' = [received EXCEPT ![p] = @ \cup {e}]
  /\ IF p \in Trusting /\ InOrder(p, e) /\ e.key # held[p]
     THEN /\ grace' = [grace EXCEPT ![p] = IF held[p] # NoKey THEN held[p] ELSE @]
          /\ held' = [held EXCEPT ![p] = e.key]
          /\ lastCount' = [lastCount EXCEPT ![p] = e.count]
     ELSE UNCHANGED <<held, grace, lastCount>>
  /\ UNCHANGED <<ownerVars, announced>>

RestartPeer(p) ==
  /\ held' = [held EXCEPT ![p] = NoKey]
  /\ grace' = [grace EXCEPT ![p] = NoKey]
  /\ lastCount' = [lastCount EXCEPT ![p] = -1]
  /\ received' = [received EXCEPT ![p] = {}]
  /\ UNCHANGED <<ownerVars, announced>>

RotationInit ==
  /\ clock \in 0 .. MaxTime
  /\ life = 0 /\ rotations = 0
  /\ lastRotation = clock /\ started = clock
  /\ announced = {}
  /\ held = [p \in Peers |-> NoKey] /\ grace = held
  /\ lastCount = [p \in Peers |-> -1]
  /\ received = [p \in Peers |-> {}]

RotationNext ==
  \/ RotateSilently \/ Announce \/ RestartOwner \/ ClockMoves
  \/ \E p \in Peers : RestartPeer(p) \/ \E e \in announced : Receive(p, e)

RotationSpec == RotationInit /\ [][RotationNext]_rotationVars

-----------------------------------------------------------------------------
(* Properties *)

\* Types, and the pace of the rotations: a clock that moves both ways never
\* hastens one, each key of a life is current for an interval at least.
RotationTypeOK ==
  /\ clock \in 0 .. MaxTime /\ life \in 0 .. MaxLife
  /\ rotations \in Nat /\ lastRotation \in 0 .. MaxTime /\ started \in 0 .. MaxTime
  /\ rotations * Interval <= lastRotation - started
  /\ \A e \in announced : e.key \in (0 .. life) \X Nat /\ e.count = e.key[2]
  /\ lastCount \in [Peers -> Nat \cup {-1}]
  /\ held \in [Peers -> {NoKey} \cup Nat \X Nat] /\ grace \in [Peers -> {NoKey} \cup Nat \X Nat]
  /\ received \in [Peers -> SUBSET announced]

\* Numbers of the announcements peer p handled, when they come from one life.
Numbers(p) == {e.count : e \in received[p]}
OneLife(p) == \A d, e \in received[p] : d.key[1] = e.key[1]

\* Whatever was late, lost or repeated, a trusting peer that heard one life of the
\* owner holds the newest key it was told, and as grace key an older one it was
\* told too.
NewestHeld ==
  \A p \in Trusting : OneLife(p) =>
    /\ held[p] = NoKey <=> received[p] = {}
    /\ \A e \in received[p] : e.count <= lastCount[p] /\ (e.count = lastCount[p] => e.key = held[p])
    /\ received[p] # {} => lastCount[p] \in Numbers(p)
    /\ grace[p] # NoKey => \E e \in received[p] : e.key = grace[p] /\ e.count < lastCount[p]
=============================================================================
