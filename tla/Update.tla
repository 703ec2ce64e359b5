------------------------------- MODULE Update -------------------------------
(***************************************************************************)
(* The distribution of signed application packages over the mesh           *)
(* (update/mod.rs, driven by handle_incoming_update of node/mod.rs).  A     *)
(* distributor announces a release; a receiver asks for its manifest, then *)
(* for one chunk after another, then verifies and installs.  What a node    *)
(* publishes goes to every other node: chunks answer everybody, and name   *)
(* neither their release nor the request they answer.                      *)
(*                                                                         *)
(* Signed blobs come from distributors, so their checks on signatures pass *)
(* and the receiver's bounds on sizes repeat the announcer's.  Two packages*)
(* have no chunk in common.                                                *)
(***************************************************************************)
EXTENDS Integers, Functions, FiniteSets

CONSTANTS
  Members,       \* the nodes of the mesh
  Distributors,  \* the nodes that hold update_root_seed
  Releases,      \* records [version, apk] that distributors may announce
  Size,          \* size of each package
  ChunkSize,     \* DEFAULT_CHUNK_SIZE
  BaseVersion,   \* update_version of the configuration
  None,
  MaxFaults      \* bound on the losses, duplications and restarts

ASSUME UpdateAssumption ==
  /\ Distributors \subseteq Members
  /\ \A r \in Releases : r.version \in Nat /\ r.apk \in DOMAIN Size
  /\ \A apk \in DOMAIN Size : Size[apk] \in Nat
  /\ ChunkSize \in Nat \ {0}
  /\ BaseVersion \in Nat /\ MaxFaults \in Nat
  /\ None \notin Releases

VARIABLES
  current,       \* current_version of each node
  announcement,  \* pending_announcement: the release accepted last, or None
  transfer,      \* pending: the release being received and its chunks, or None
  installed,     \* installed: the transfers each node has written and recorded
  offer,         \* update_offer: the release each distributor serves, or None
  net,           \* copies of messages on their way
  announced,     \* history: releases announced so far, each once
  faults         \* losses, duplications and restarts so far

protocolVars == <<current, announcement, transfer, installed>>
updateVars == <<protocolVars, offer, net, announced, faults>>

-----------------------------------------------------------------------------
(* Chunks *)

\* chunk_count: div_ceil
Total(apk) == (Size[apk] + ChunkSize - 1) \div ChunkSize

\* Length of chunk i of a package: what is left of it, at most ChunkSize.
ChunkLen(apk, i) ==
  LET left == Size[apk] - i * ChunkSize IN IF left < ChunkSize THEN left ELSE ChunkSize

\* A transfer holds, for each index received, the package its chunk came from.
Holds(t) == DOMAIN t.chunks
HoldsAll(t) == Holds(t) = 0 .. Total(t.release.apk) - 1

\* Chunks are never longer than expected, so their sum is the announced size
\* exactly when each is as long as expected.
RightSize(t) ==
  \A i \in Holds(t) : ChunkLen(t.chunks[i], i) = ChunkLen(t.release.apk, i)

\* Slip: the assembled package is not compared with the signed hash.
HashUnchecked(t) == TRUE

\* verify_apk_signature: the hash of the whole package is the signed one.
HashMatches(t) == \A i \in Holds(t) : t.chunks[i] = t.release.apk

-----------------------------------------------------------------------------
(* Messages *)

Announcement(n, r) == [kind |-> "announce", from |-> n, release |-> r]
Manifest(n, r) == [kind |-> "manifest", from |-> n, release |-> r]
Chunk(n, apk, i) == [kind |-> "chunk", from |-> n, apk |-> apk, index |-> i]
Request(index) == [kind |-> "request", index |-> index]

\* The index of a request for the manifest.
ForManifest == -1

\* publish_gossip_event: a copy goes to every other node.
Published(m) == {[to |-> n, msg |-> m, again |-> FALSE] : n \in Members \ {m.from}}

\* A request is ignored by all but the node it names.
Asked(to, index) == {[to |-> to, msg |-> Request(index), again |-> FALSE]}

\* Copy c leaves the network, and the answers enter it.
Answer(c, answers) == net' = (net \ {c}) \cup answers

NoAnswer(c) == Answer(c, {})

-----------------------------------------------------------------------------
(* The distributor *)

\* announce_update
Announce(n, r) ==
  /\ n \in Distributors /\ r \notin announced
  /\ offer' = [offer EXCEPT ![n] = r]
  /\ net' = net \cup Published(Announcement(n, r))
  /\ announced' = announced \cup {r}
  /\ UNCHANGED <<protocolVars, faults>>

\* Slip: the last chunk is out of bounds.
HasChunkShort(apk, i) == i + 1 < Total(apk)

\* UpdateProtocol::chunk: nothing from the end of the package on.
HasChunk(apk, i) == i < Total(apk)

\* on_update_request: the node named by the request answers from what it offers
\* now.
OnRequest(c) ==
  /\ c.msg.kind = "request"
  /\ LET n == c.to
         o == offer[n]
     IN  IF o = None
         THEN NoAnswer(c)
         ELSE IF c.msg.index = ForManifest
         THEN Answer(c, Published(Manifest(n, o)))
         ELSE IF HasChunk(o.apk, c.msg.index)
         THEN Answer(c, Published(Chunk(n, o.apk, c.msg.index)))
         ELSE NoAnswer(c)
  /\ UNCHANGED <<protocolVars, offer, announced, faults>>

-----------------------------------------------------------------------------
(* The receiver *)

Highest(V) == CHOOSE v \in V : \A w \in V : w <= v

\* handle_announcement: only a release above the current version is taken.
Newer(r, n) == r.version > current[n]

\* on_update_announce: a newer release is remembered and its manifest requested.
OnAnnounce(c) ==
  /\ c.msg.kind = "announce"
  /\ LET n == c.to
         r == c.msg.release
     IN  IF Newer(r, n)
         THEN /\ announcement' = [announcement EXCEPT ![n] = r]
              /\ Answer(c, Asked(c.msg.from, ForManifest))
         ELSE NoAnswer(c) /\ UNCHANGED announcement
  /\ UNCHANGED <<current, transfer, installed, offer, announced, faults>>

\* handle_manifest: the manifest signed for the package announced last.
Takes(r, m) == r # None /\ m.release.apk = r.apk

\* on_update_manifest: the manifest of the package announced last begins a
\* transfer, whatever was under way.
OnManifest(c) ==
  /\ c.msg.kind = "manifest"
  /\ LET n == c.to
         r == announcement[n]
     IN  IF Takes(r, c.msg)
         THEN /\ transfer' = [transfer EXCEPT ![n] = [release |-> r, chunks |-> << >>]]
              /\ Answer(c, Asked(c.msg.from, 0))
         ELSE NoAnswer(c) /\ UNCHANGED transfer
  /\ UNCHANGED <<current, announcement, installed, offer, announced, faults>>

\* handle_chunk: some transfer is under way, and the chunk has a place in it.
Fits(t, m) ==
  /\ t # None
  /\ m.index < Total(t.release.apk)
  /\ ChunkLen(m.apk, m.index) <= ChunkLen(t.release.apk, m.index)

\* A chunk received before at the same index is kept.
WithChunk(t, m) ==
  [release |-> t.release,
   chunks |-> [i \in Holds(t) \cup {m.index} |->
                 IF i \in Holds(t) THEN t.chunks[i] ELSE m.apk]]

\* Slip: the release installed stays announced.
FinishRemembering(n, t) ==
  /\ transfer' = [transfer EXCEPT ![n] = None]
  /\ installed' = [installed EXCEPT ![n] = @ \cup {t}]
  /\ current' = [current EXCEPT ![n] = Highest({x.release.version : x \in installed'[n]})]
  /\ UNCHANGED announcement

\* install_verified: the highest version recorded becomes the current one.
Finish(n, t) ==
  /\ transfer' = [transfer EXCEPT ![n] = None]
  /\ installed' = [installed EXCEPT ![n] = @ \cup {t}]
  /\ current' = [current EXCEPT ![n] = Highest({x.release.version : x \in installed'[n]})]
  /\ announcement' = [announcement EXCEPT ![n] = None]

\* The package cannot be written: the transfer is over, its announcement stays.
InstallFails(n) ==
  /\ transfer' = [transfer EXCEPT ![n] = None]
  /\ faults < MaxFaults /\ faults' = faults + 1
  /\ UNCHANGED <<current, announcement, installed>>

\* assemble_and_verify on a full transfer.  One of the wrong size is kept, one
\* of the wrong hash is purged; both forget the announcement.
Assemble(n, t) ==
  IF RightSize(t) /\ HashMatches(t)
  THEN (Finish(n, t) /\ UNCHANGED faults) \/ InstallFails(n)
  ELSE /\ transfer' = [transfer EXCEPT ![n] = IF RightSize(t) THEN None ELSE t]
       /\ announcement' = [announcement EXCEPT ![n] = None]
       /\ UNCHANGED <<current, installed, faults>>

\* on_update_chunk: the chunk after the one received is requested until every
\* index is held.
OnChunk(c) ==
  /\ c.msg.kind = "chunk"
  /\ LET n == c.to
         m == c.msg
         t == WithChunk(transfer[n], m)
     IN  IF ~Fits(transfer[n], m)
         THEN NoAnswer(c) /\ UNCHANGED <<protocolVars, faults>>
         ELSE IF ~HoldsAll(t)
         THEN /\ transfer' = [transfer EXCEPT ![n] = t]
              /\ Answer(c, Asked(m.from, m.index + 1))
              /\ UNCHANGED <<current, announcement, installed, faults>>
         ELSE NoAnswer(c) /\ Assemble(n, t)
  /\ UNCHANGED <<offer, announced>>

-----------------------------------------------------------------------------
(* The network and restarts *)

\* A copy is lost with its connection or a full queue.
LoseMessage(c) ==
  /\ faults < MaxFaults /\ faults' = faults + 1
  /\ NoAnswer(c)
  /\ UNCHANGED <<protocolVars, offer, announced>>

\* A message arrives by two ways; nothing recognises the second copy.
Duplicate(c) ==
  /\ faults < MaxFaults /\ faults' = faults + 1
  /\ net' = net \cup {[to |-> c.to, msg |-> c.msg, again |-> TRUE]}
  /\ UNCHANGED <<protocolVars, offer, announced>>

\* Node::new: the whole protocol lives in memory, and the version is the one of
\* the configuration again.
Restart(n) ==
  /\ faults < MaxFaults /\ faults' = faults + 1
  /\ current' = [current EXCEPT ![n] = BaseVersion]
  /\ announcement' = [announcement EXCEPT ![n] = None]
  /\ transfer' = [transfer EXCEPT ![n] = None]
  /\ installed' = [installed EXCEPT ![n] = {}]
  /\ offer' = [offer EXCEPT ![n] = None]
  /\ UNCHANGED <<net, announced>>

-----------------------------------------------------------------------------
UpdateInit ==
  /\ current = [n \in Members |-> BaseVersion]
  /\ announcement = [n \in Members |-> None]
  /\ transfer = [n \in Members |-> None]
  /\ installed = [n \in Members |-> {}]
  /\ offer = [n \in Members |-> None]
  /\ net = {} /\ announced = {} /\ faults = 0

Deliver(c) == OnAnnounce(c) \/ OnManifest(c) \/ OnChunk(c) \/ OnRequest(c)

UpdateNext ==
  \/ \E n \in Members : Restart(n) \/ \E r \in Releases : Announce(n, r)
  \/ \E c \in net : Deliver(c) \/ LoseMessage(c) \/ Duplicate(c)

UpdateSpec == UpdateInit /\ [][UpdateNext]_updateVars

\* Every node goes on processing what reaches it.
UpdateFairness ==
  \A n \in Members : WF_updateVars(\E c \in net : c.to = n /\ Deliver(c))

-----------------------------------------------------------------------------
(* Properties *)

IsTransfer(t) ==
  /\ DOMAIN t = {"release", "chunks"}
  /\ t.release \in announced
  /\ \A i \in Holds(t) :
       /\ i \in 0 .. Total(t.release.apk) - 1
       /\ t.chunks[i] \in DOMAIN Size
       /\ ChunkLen(t.chunks[i], i) <= ChunkLen(t.release.apk, i)

\* Types; a transfer never holds more than the package announced, although its
\* chunks may come from another one.
UpdateTypeOK ==
  /\ current \in [Members -> Nat]
  /\ announcement \in [Members -> announced \cup {None}]
  /\ \A n \in Members : transfer[n] = None \/ IsTransfer(transfer[n])
  /\ offer \in [Members -> announced \cup {None}]
  /\ announced \subseteq Releases
  /\ faults \in 0 .. MaxFaults

\* What is installed is what a distributor signed, whole, under the version it
\* was announced with, although chunks name no release, offers change during a
\* transfer, and a new announcement replaces the one the transfer began with.
InstalledIntact ==
  \A n \in Members : \A t \in installed[n] :
    /\ t.release \in announced
    /\ t.chunks = [i \in 0 .. Total(t.release.apk) - 1 |-> t.release.apk]

\* A node installs only above its current version: late or repeated manifests,
\* announcements and chunks bring no release back once it is installed.
InstallRaisesVersion ==
  [][\A n \in Members :
       ~(installed'[n] \subseteq installed[n]) => current'[n] > current[n]]_updateVars

\* The only release announced is installed by every node it is newer for, in
\* whatever order messages arrive, as long as none is lost: each chunk brings the
\* request for the next, and no other event asks again.
UpdateEnds ==
  \A r \in Releases, n \in Members \ Distributors :
    announced = {r} ~>
      \/ announced # {r} \/ faults > 0
      \/ r.version <= BaseVersion \/ Size[r.apk] = 0
      \/ \E t \in installed[n] : t.release = r
=============================================================================
