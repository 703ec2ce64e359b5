---------------------------- MODULE DurableProofs ----------------------------
(***************************************************************************)
(* What a node keeps, for every value of the constants: the versions it    *)
(* installs (Update), and the messages, the identity and the pace of its   *)
(* publications through crashes and restarts (MessageStore).               *)
(*                                                                         *)
(* Of an update, what is only newer stays so until it is installed: an     *)
(* announcement accepted, and the transfer begun with it, are above the    *)
(* current version, and the current version is the highest installed.      *)
(***************************************************************************)
EXTENDS Update, MessageStore, FiniteSetTheorems, NaturalsInduction, TLAPS

-----------------------------------------------------------------------------
(* The invariant *)

\* What a message carries.  Only requests are without a sender.
MsgOK(m) ==
  /\ m.kind \in {"announce", "manifest", "chunk", "request"}
  /\ m.kind # "request" => m.from \in Members
  /\ m.kind \in {"announce", "manifest"} => m.release \in announced
  /\ m.kind = "chunk" => m.apk \in DOMAIN Size /\ m.index \in Nat
  /\ m.kind = "request" => m.index \in Nat \cup {ForManifest}

CopyOK(c) ==
  /\ c.to \in Members
  /\ MsgOK(c.msg)

NetOK == \A c \in net : CopyOK(c)

\* What is under way, and what is installed, with respect to the current version.
OnlyNewer(n) ==
  /\ announcement[n] # None => announcement[n].version > current[n]
  /\ transfer[n] # None =>
       /\ transfer[n].release.version > current[n]
       /\ transfer[n].chunks = [i \in Holds(transfer[n]) |-> transfer[n].chunks[i]]
  /\ \A t \in installed[n] : t.release.version <= current[n]

UpdateInv ==
  /\ UpdateTypeOK
  /\ DOMAIN transfer = Members /\ DOMAIN installed = Members
  /\ NetOK
  /\ \A n \in Members : OnlyNewer(n)
  /\ InstalledIntact

-----------------------------------------------------------------------------
(* Lemmas *)

\* Whatever the package, its number of chunks and the lengths of its chunks are
\* integers.
LEMMA Integer ==
  ASSUME NEW apk \in DOMAIN Size, NEW i \in Int
  PROVE  Total(apk) \in Int /\ ChunkLen(apk, i) \in Int
BY UpdateAssumption DEF Total, ChunkLen

\* Releases have a version and a package.
LEMMA ReleaseType ==
  ASSUME NEW r \in Releases
  PROVE  r.version \in Nat /\ r.apk \in DOMAIN Size /\ r # None
BY UpdateAssumption

\* The highest of some versions, none of which is above one of them, is that one.
LEMMA HighestIs ==
  ASSUME NEW V, NEW v \in V, v \in Nat, \A w \in V : w \in Nat /\ w <= v
  PROVE  Highest(V) = v
<1> DEFINE IsHighest(x) == x \in V /\ \A w \in V : w <= x
<1>1. IsHighest(v)
  OBVIOUS
<1>2. \A x : IsHighest(x) => x = v
  OBVIOUS
<1>3. Highest(V) = CHOOSE x : IsHighest(x)
  BY DEF Highest
<1> HIDE DEF IsHighest
<1> QED
  BY <1>1, <1>2, <1>3

\* A copy leaves and sound copies enter: the network stays sound.
LEMMA AnswersSound ==
  ASSUME NetOK, NEW c, NEW answers, Answer(c, answers),
         UNCHANGED announced, \A a \in answers : CopyOK(a)
  PROVE  NetOK'
BY DEF NetOK, Answer, CopyOK, MsgOK

\* What a node publishes and what it asks are sound copies.
LEMMA PublishedSound ==
  ASSUME NEW m, MsgOK(m), NEW a \in Published(m)
  PROVE  CopyOK(a)
BY DEF Published, CopyOK

LEMMA AskedSound ==
  ASSUME NEW to \in Members, NEW i \in Nat \cup {ForManifest}, NEW a \in Asked(to, i)
  PROVE  CopyOK(a)
BY DEF Asked, Request, CopyOK, MsgOK

-----------------------------------------------------------------------------
(* The invariant holds *)

LEMMA InitInv == UpdateInit => UpdateInv
BY UpdateAssumption
DEF UpdateInit, UpdateInv, UpdateTypeOK, NetOK, OnlyNewer, InstalledIntact

\* announce_update adds a release and its announcements.
LEMMA AnnounceInv ==
  ASSUME UpdateInv, NEW n \in Members, NEW r \in Releases, Announce(n, r)
  PROVE  UpdateInv'
<1> USE DEF UpdateInv, Announce, protocolVars
<1>1. UpdateTypeOK'
  BY DEF UpdateTypeOK, IsTransfer, Holds, Total, ChunkLen
<1>2. NetOK'
  <2>1. \A c \in net : CopyOK(c)'
    BY DEF NetOK, CopyOK, MsgOK
  <2>2. MsgOK(Announcement(n, r))'
    BY DEF MsgOK, Announcement
  <2>3. \A c \in Published(Announcement(n, r)) : CopyOK(c)'
    BY <2>2 DEF Published, CopyOK
  <2> QED
    BY <2>1, <2>3 DEF NetOK
<1>3. \A x \in Members : OnlyNewer(x)'
  BY DEF OnlyNewer, Holds
<1>4. InstalledIntact'
  BY DEF InstalledIntact, Total
<1> QED
  BY <1>1, <1>2, <1>3, <1>4

\* on_update_request changes only the network: a request for a chunk of the offer
\* is answered with that chunk.
LEMMA OnRequestInv ==
  ASSUME UpdateInv, NEW c \in net, OnRequest(c)
  PROVE  UpdateInv'
<1> USE DEF UpdateInv
<1>1. CopyOK(c) /\ c.msg.kind = "request" /\ c.to \in Members
      /\ c.msg.index \in Nat \cup {ForManifest}
  BY DEF NetOK, CopyOK, MsgOK, OnRequest
<1>2. UNCHANGED <<current, announcement, transfer, installed, offer, announced, faults>>
  BY DEF OnRequest, protocolVars
<1>3. NetOK'
  <2> DEFINE o == offer[c.to]
  <2>1. CASE o = None
    BY <1>2, <2>1, AnswersSound DEF OnRequest, NoAnswer
  <2>2. CASE o # None
    <3>1. o \in announced /\ o \in Releases /\ o.apk \in DOMAIN Size
      BY <1>1, <2>2, ReleaseType DEF UpdateTypeOK
    <3>2. MsgOK(Manifest(c.to, o))
      BY <1>1, <3>1 DEF MsgOK, Manifest
    <3>3. CASE c.msg.index = ForManifest
      <4>1. Answer(c, Published(Manifest(c.to, o)))
        BY <2>2, <3>3 DEF OnRequest
      <4> QED
        BY <1>2, <3>2, <4>1, PublishedSound, AnswersSound
    <3>4. CASE c.msg.index # ForManifest /\ HasChunk(o.apk, c.msg.index)
      <4>1. Answer(c, Published(Chunk(c.to, o.apk, c.msg.index)))
        BY <2>2, <3>4 DEF OnRequest
      <4>2. MsgOK(Chunk(c.to, o.apk, c.msg.index))
        BY <1>1, <3>1, <3>4 DEF MsgOK, Chunk
      <4> QED
        BY <1>2, <4>1, <4>2, PublishedSound, AnswersSound
    <3>5. CASE c.msg.index # ForManifest /\ ~HasChunk(o.apk, c.msg.index)
      BY <1>2, <2>2, <3>5, AnswersSound DEF OnRequest, NoAnswer
    <3> QED
      BY <3>3, <3>4, <3>5
  <2> QED
    BY <2>1, <2>2
<1>4. UpdateTypeOK'
  BY <1>2 DEF UpdateTypeOK, IsTransfer, Holds, Total, ChunkLen
<1>5. (\A n \in Members : OnlyNewer(n)') /\ InstalledIntact'
  BY <1>2 DEF OnlyNewer, Holds, InstalledIntact, Total
<1> QED
  BY <1>2, <1>3, <1>4, <1>5

\* on_update_announce remembers a release above the current version.
LEMMA OnAnnounceInv ==
  ASSUME UpdateInv, NEW c \in net, OnAnnounce(c)
  PROVE  UpdateInv'
<1> USE DEF UpdateInv
<1> DEFINE r == c.msg.release
<1>1. CopyOK(c) /\ c.to \in Members /\ c.msg.from \in Members /\ r \in announced /\ r \in Releases
  BY DEF NetOK, CopyOK, MsgOK, OnAnnounce, UpdateTypeOK
<1>2. UNCHANGED <<current, transfer, installed, offer, announced, faults>>
  BY DEF OnAnnounce
<1>3. \/ announcement' = announcement
      \/ r.version > current[c.to] /\ announcement' = [announcement EXCEPT ![c.to] = r]
  BY DEF OnAnnounce, Newer
<1>4. NetOK'
  <2>1. CASE Newer(r, c.to)
    <3>1. Answer(c, Asked(c.msg.from, ForManifest))
      BY <2>1 DEF OnAnnounce
    <3> QED
      BY <1>1, <1>2, <3>1, AskedSound, AnswersSound
  <2>2. CASE ~Newer(r, c.to)
    BY <1>2, <2>2, AnswersSound DEF OnAnnounce, NoAnswer
  <2> QED
    BY <2>1, <2>2
<1>5. UpdateTypeOK'
  BY <1>1, <1>2, <1>3 DEF UpdateTypeOK, IsTransfer, Holds, Total, ChunkLen
<1>6. \A n \in Members : OnlyNewer(n)'
  BY <1>1, <1>2, <1>3 DEF OnlyNewer, Holds, UpdateTypeOK
<1>7. InstalledIntact'
  BY <1>2 DEF InstalledIntact, Total
<1> QED
  BY <1>2, <1>4, <1>5, <1>6, <1>7

\* on_update_manifest begins the transfer of the release announced last, which is
\* above the current version, with no chunk.
LEMMA OnManifestInv ==
  ASSUME UpdateInv, NEW c \in net, OnManifest(c)
  PROVE  UpdateInv'
<1> USE DEF UpdateInv
<1> DEFINE r == announcement[c.to]
           begun == [release |-> r, chunks |-> << >>]
<1>1. CopyOK(c) /\ c.to \in Members /\ c.msg.from \in Members
  BY DEF NetOK, CopyOK, MsgOK, OnManifest
<1>2. UNCHANGED <<current, announcement, installed, offer, announced, faults>>
  BY DEF OnManifest
<1>3. CASE r # None /\ c.msg.release.apk = r.apk
  <2>1. transfer' = [transfer EXCEPT ![c.to] = begun] /\ Answer(c, Asked(c.msg.from, 0))
    BY <1>3 DEF OnManifest, Takes
  <2>2. r \in announced /\ r.version > current[c.to]
    BY <1>1, <1>3 DEF UpdateTypeOK, OnlyNewer
  <2>3. NetOK'
    BY <1>1, <1>2, <2>1, AskedSound, AnswersSound
  <2>4. Holds(begun) = {} /\ IsTransfer(begun) /\ begun.chunks = [i \in Holds(begun) |-> begun.chunks[i]]
    BY <2>2 DEF IsTransfer, Holds
  <2>5. UpdateTypeOK'
    BY <1>1, <1>2, <2>1, <2>4 DEF UpdateTypeOK, IsTransfer, Holds, Total, ChunkLen
  <2>6. \A n \in Members : OnlyNewer(n)'
    BY <1>1, <1>2, <2>1, <2>2, <2>4 DEF OnlyNewer, Holds, UpdateTypeOK
  <2>7. InstalledIntact'
    BY <1>2 DEF InstalledIntact, Total
  <2> QED
    BY <1>2, <2>1, <2>3, <2>5, <2>6, <2>7
<1>4. CASE ~(r # None /\ c.msg.release.apk = r.apk)
  <2>1. NoAnswer(c) /\ UNCHANGED transfer
    BY <1>4 DEF OnManifest, Takes
  <2>2. NetOK'
    BY <1>2, <2>1, AnswersSound DEF NoAnswer
  <2> QED
    BY <1>2, <2>1, <2>2 DEF UpdateTypeOK, IsTransfer, Holds, Total, ChunkLen, OnlyNewer, InstalledIntact
<1> QED
  BY <1>3, <1>4

\* A transfer that takes a chunk that fits is a transfer.
LEMMA WithChunkSound ==
  ASSUME UpdateInv, NEW n \in Members, NEW c \in net, c.msg.kind = "chunk",
         Fits(transfer[n], c.msg)
  PROVE  LET t == WithChunk(transfer[n], c.msg)
         IN  /\ IsTransfer(t)
             /\ t.chunks = [i \in Holds(t) |-> t.chunks[i]]
             /\ t.release.version > current[n]
<1> DEFINE before == transfer[n]
           t == WithChunk(before, c.msg)
<1>1. before # None /\ IsTransfer(before) /\ before.release.version > current[n]
  BY DEF Fits, UpdateInv, UpdateTypeOK, OnlyNewer
<1>2. c.msg.apk \in DOMAIN Size /\ c.msg.index \in Nat
  BY DEF UpdateInv, NetOK, CopyOK, MsgOK
<1>3. before.release.apk \in DOMAIN Size
  BY <1>1, ReleaseType DEF IsTransfer, UpdateInv, UpdateTypeOK
<1>4. Total(before.release.apk) \in Int
  BY <1>2, <1>3, Integer
<1>5. c.msg.index \in 0 .. Total(before.release.apk) - 1
  BY <1>2, <1>4 DEF Fits
<1>6. t.release = before.release
  BY DEF WithChunk
<1>7. t.chunks = [i \in Holds(before) \cup {c.msg.index} |->
                    IF i \in Holds(before) THEN before.chunks[i] ELSE c.msg.apk]
  BY DEF WithChunk
<1>8. Holds(t) = Holds(before) \cup {c.msg.index}
  BY <1>7 DEF Holds
<1>9. t.chunks = [i \in Holds(t) |-> t.chunks[i]]
  BY <1>7, <1>8
<1>10. IsTransfer(t)
  <2>1. DOMAIN t = {"release", "chunks"} /\ t.release \in announced
    BY <1>1, <1>6 DEF WithChunk, IsTransfer
  <2>2. ASSUME NEW i \in Holds(t)
        PROVE  /\ i \in 0 .. Total(t.release.apk) - 1
               /\ t.chunks[i] \in DOMAIN Size
               /\ ChunkLen(t.chunks[i], i) <= ChunkLen(t.release.apk, i)
    <3>1. CASE i \in Holds(before)
      <4>1. t.chunks[i] = before.chunks[i]
        BY <1>7, <1>8, <3>1
      <4> QED
        BY <1>1, <1>6, <3>1, <4>1 DEF IsTransfer
    <3>2. CASE i \notin Holds(before)
      <4>1. i = c.msg.index /\ t.chunks[i] = c.msg.apk
        BY <1>7, <1>8, <3>2
      <4> QED
        BY <1>2, <1>5, <1>6, <4>1 DEF Fits
    <3> QED
      BY <3>1, <3>2
  <2> QED
    BY <2>1, <2>2 DEF IsTransfer
<1> QED
  BY <1>1, <1>6, <1>9, <1>10 DEF IsTransfer

\* install_verified records a whole transfer and its version, which becomes the
\* current one: it is above all those installed before.
LEMMA FinishInv ==
  ASSUME UpdateInv, NEW n \in Members, NEW t, IsTransfer(t),
         t.chunks = [i \in Holds(t) |-> t.chunks[i]], t.release.version > current[n],
         HoldsAll(t), HashMatches(t), Finish(n, t), NetOK',
         UNCHANGED <<offer, announced, faults>>
  PROVE  UpdateInv' /\ current'[n] > current[n]
<1> USE DEF UpdateInv
<1> DEFINE V == {x.release.version : x \in installed'[n]}
<1>1. /\ transfer' = [transfer EXCEPT ![n] = None]
      /\ announcement' = [announcement EXCEPT ![n] = None]
      /\ installed' = [installed EXCEPT ![n] = @ \cup {t}]
      /\ current' = [current EXCEPT ![n] = Highest(V)]
  BY DEF Finish
<1>2. installed'[n] = installed[n] \cup {t}
  BY <1>1
<1>3. t.release \in announced /\ t.release.version \in Nat
  BY ReleaseType DEF IsTransfer, UpdateTypeOK
<1>4. \A x \in installed[n] : x.release.version \in Nat /\ x.release.version <= current[n]
  BY ReleaseType DEF InstalledIntact, OnlyNewer, UpdateTypeOK
<1>5. Highest(V) = t.release.version
  <2>1. t.release.version \in V
    BY <1>2
  <2>2. current[n] \in Nat
    BY DEF UpdateTypeOK
  <2>3. \A w \in V : w \in Nat /\ w <= t.release.version
    BY <1>2, <1>3, <1>4, <2>2
  <2> HIDE DEF V
  <2> QED
    BY <1>3, <2>1, <2>3, HighestIs
<1>6. current' = [current EXCEPT ![n] = t.release.version]
  BY <1>1, <1>5
<1> HIDE DEF V
<1>7. UpdateTypeOK'
  BY <1>1, <1>3, <1>6 DEF UpdateTypeOK, IsTransfer, Holds, Total, ChunkLen
<1>8. \A x \in Members : OnlyNewer(x)'
  <2> SUFFICES ASSUME NEW x \in Members PROVE OnlyNewer(x)'
    OBVIOUS
  <2>1. CASE x = n
    <3>1. announcement'[n] = None /\ transfer'[n] = None /\ current'[n] = t.release.version
      BY <1>1, <1>6 DEF UpdateTypeOK
    <3>2. \A y \in installed'[n] : y.release.version <= current'[n]
      BY <1>2, <1>3, <1>4, <3>1 DEF UpdateTypeOK
    <3> QED
      BY <2>1, <3>1, <3>2 DEF OnlyNewer
  <2>2. CASE x # n
    BY <1>1, <1>6, <2>2 DEF OnlyNewer, Holds, UpdateTypeOK
  <2> QED
    BY <2>1, <2>2
<1>9. InstalledIntact'
  <2>1. t.chunks = [i \in 0 .. Total(t.release.apk) - 1 |-> t.release.apk]
    BY DEF HoldsAll, HashMatches
  <2> QED
    BY <1>1, <1>2, <1>3, <2>1 DEF InstalledIntact, Total
<1> QED
  BY <1>1, <1>3, <1>6, <1>7, <1>8, <1>9 DEF UpdateTypeOK

\* on_update_chunk keeps the chunk, or completes the transfer, which is then
\* installed, given up, or kept.
LEMMA OnChunkInv ==
  ASSUME UpdateInv, NEW c \in net, OnChunk(c)
  PROVE  /\ UpdateInv'
         /\ \A n \in Members : installed'[n] \subseteq installed[n] \/ current'[n] > current[n]
<1> USE DEF UpdateInv
<1> DEFINE n == c.to
           m == c.msg
           t == WithChunk(transfer[n], m)
<1>1. c.to \in Members /\ c.msg.from \in Members /\ m.kind = "chunk" /\ m.index + 1 \in Nat
  BY DEF NetOK, CopyOK, MsgOK, OnChunk
<1>2. UNCHANGED <<offer, announced>>
  BY DEF OnChunk
<1>3. CASE ~Fits(transfer[n], m)
  <2>1. NoAnswer(c) /\ UNCHANGED <<protocolVars, faults>>
    BY <1>3 DEF OnChunk
  <2>2. NetOK'
    BY <1>2, <2>1, AnswersSound DEF NoAnswer
  <2> QED
    BY <1>2, <2>1, <2>2
    DEF protocolVars, UpdateTypeOK, IsTransfer, Holds, Total, ChunkLen, OnlyNewer,
        InstalledIntact
<1>4. CASE Fits(transfer[n], m)
  <2>1. /\ IsTransfer(t) /\ t.release.version > current[n]
        /\ t.chunks = [i \in Holds(t) |-> t.chunks[i]]
    BY <1>1, <1>4, WithChunkSound
  <2> HIDE DEF t
  \* The transfer is kept, with or without a request for the next chunk.
  <2>2. ASSUME transfer' = [transfer EXCEPT ![n] = t], UNCHANGED <<current, installed, faults>>,
               announcement' \in {announcement, [announcement EXCEPT ![n] = None]}, NetOK'
        PROVE  UpdateInv'
    <3>1. UpdateTypeOK'
      BY <1>1, <1>2, <2>1, <2>2 DEF UpdateTypeOK, IsTransfer, Holds, Total, ChunkLen
    <3>2. \A x \in Members : OnlyNewer(x)'
      BY <1>1, <2>1, <2>2 DEF OnlyNewer, Holds, UpdateTypeOK
    <3>3. InstalledIntact'
      BY <1>2, <2>2 DEF InstalledIntact, Total
    <3> QED
      BY <2>2, <3>1, <3>2, <3>3
  \* The transfer is over and nothing is installed.
  <2>3. ASSUME transfer' = [transfer EXCEPT ![n] = None], UNCHANGED <<current, installed>>,
               announcement' \in {announcement, [announcement EXCEPT ![n] = None]}, NetOK',
               faults' \in 0 .. MaxFaults
        PROVE  UpdateInv'
    <3>1. UpdateTypeOK'
      BY <1>1, <1>2, <2>3 DEF UpdateTypeOK, IsTransfer, Holds, Total, ChunkLen
    <3>2. \A x \in Members : OnlyNewer(x)'
      BY <1>1, <2>3 DEF OnlyNewer, Holds, UpdateTypeOK
    <3>3. InstalledIntact'
      BY <1>2, <2>3 DEF InstalledIntact, Total
    <3> QED
      BY <2>3, <3>1, <3>2, <3>3
  <2>4. CASE ~HoldsAll(t)
    <3>1. /\ transfer' = [transfer EXCEPT ![n] = t]
          /\ Answer(c, Asked(m.from, m.index + 1))
          /\ UNCHANGED <<current, announcement, installed, faults>>
      BY <1>4, <2>4 DEF OnChunk, t
    <3>2. NetOK'
      BY <1>1, <1>2, <3>1, AskedSound, AnswersSound
    <3> QED
      BY <2>2, <3>1, <3>2
  <2>5. CASE HoldsAll(t)
    <3>1. NoAnswer(c) /\ Assemble(n, t)
      BY <1>4, <2>5 DEF OnChunk, t
    <3>2. NetOK'
      BY <1>2, <3>1, AnswersSound DEF NoAnswer
    <3>3. CASE RightSize(t) /\ HashMatches(t) /\ Finish(n, t) /\ UNCHANGED faults
      <4>1. UpdateInv' /\ current'[n] > current[n]
        BY <1>1, <1>2, <2>1, <2>5, <3>2, <3>3, FinishInv
      <4>2. \A x \in Members : x # n => installed'[x] = installed[x]
        BY <3>3 DEF Finish
      <4> QED
        BY <4>1, <4>2
    <3>4. CASE InstallFails(n)
      <4>1. /\ transfer' = [transfer EXCEPT ![n] = None]
            /\ UNCHANGED <<current, announcement, installed>>
            /\ faults' \in 0 .. MaxFaults
        BY <3>4, UpdateAssumption DEF InstallFails, UpdateTypeOK
      <4> QED
        BY <2>3, <3>2, <4>1
    <3>5. CASE ~(RightSize(t) /\ HashMatches(t))
      <4>1. /\ transfer' = [transfer EXCEPT ![n] = IF RightSize(t) THEN None ELSE t]
            /\ announcement' = [announcement EXCEPT ![n] = None]
            /\ UNCHANGED <<current, installed, faults>>
        BY <3>1, <3>5 DEF Assemble
      <4>2. faults' \in 0 .. MaxFaults
        BY <4>1 DEF UpdateTypeOK
      <4> QED
        BY <2>2, <2>3, <3>2, <4>1, <4>2
    <3> QED
      BY <3>1, <3>3, <3>4, <3>5 DEF Assemble
  <2> QED
    BY <2>4, <2>5
<1> QED
  BY <1>3, <1>4

\* A copy lost or received again leaves the nodes as they are.
LEMMA NetworkInv ==
  ASSUME UpdateInv, NEW c \in net, LoseMessage(c) \/ Duplicate(c)
  PROVE  UpdateInv' /\ installed' = installed
<1> USE DEF UpdateInv
<1>1. /\ UNCHANGED <<current, announcement, transfer, installed, offer, announced>>
      /\ faults' \in 0 .. MaxFaults
  BY UpdateAssumption DEF LoseMessage, Duplicate, protocolVars, UpdateTypeOK
<1>2. NetOK'
  <2>1. CASE LoseMessage(c)
    BY <1>1, <2>1, AnswersSound DEF LoseMessage, NoAnswer
  <2>2. CASE Duplicate(c)
    <3> DEFINE copy == [to |-> c.to, msg |-> c.msg, again |-> TRUE]
    <3>1. CopyOK(copy)
      BY DEF NetOK, CopyOK
    <3>2. CopyOK(copy)' /\ \A d \in net : CopyOK(d)'
      BY <1>1, <3>1 DEF NetOK, CopyOK, MsgOK
    <3> QED
      BY <2>2, <3>2 DEF Duplicate, NetOK
  <2> QED
    BY <2>1, <2>2
<1>3. UpdateTypeOK'
  BY <1>1 DEF UpdateTypeOK, IsTransfer, Holds, Total, ChunkLen
<1>4. (\A n \in Members : OnlyNewer(n)') /\ InstalledIntact'
  BY <1>1 DEF OnlyNewer, Holds, InstalledIntact, Total
<1> QED
  BY <1>1, <1>2, <1>3, <1>4

\* A restart forgets everything of one node.
LEMMA RestartInv ==
  ASSUME UpdateInv, NEW n \in Members, Restart(n)
  PROVE  UpdateInv' /\ \A x \in Members : installed'[x] \subseteq installed[x]
<1> USE DEF UpdateInv
<1>1. faults' \in 0 .. MaxFaults /\ UNCHANGED <<net, announced>>
  BY UpdateAssumption DEF Restart, UpdateTypeOK
<1>2. UpdateTypeOK'
  BY <1>1, UpdateAssumption DEF Restart, UpdateTypeOK, IsTransfer, Holds, Total, ChunkLen
<1>3. NetOK'
  BY <1>1 DEF NetOK, CopyOK, MsgOK
<1>4. \A x \in Members : OnlyNewer(x)'
  BY DEF Restart, OnlyNewer, Holds, UpdateTypeOK
<1>5. InstalledIntact'
  BY <1>1 DEF Restart, InstalledIntact, Total
<1> QED
  BY <1>1, <1>2, <1>3, <1>4, <1>5 DEF Restart

\* What every step keeps, and the only way a step may add to what is installed.
LEMMA StepInv ==
  ASSUME UpdateInv, UpdateNext
  PROVE  /\ UpdateInv'
         /\ \A n \in Members : installed'[n] \subseteq installed[n] \/ current'[n] > current[n]
<1>1. CASE \E n \in Members : Restart(n)
  BY <1>1, RestartInv
<1>2. CASE \E n \in Members, r \in Releases : Announce(n, r)
  BY <1>2, AnnounceInv DEF Announce, protocolVars
<1>3. CASE \E c \in net : OnAnnounce(c)
  BY <1>3, OnAnnounceInv DEF OnAnnounce
<1>4. CASE \E c \in net : OnManifest(c)
  BY <1>4, OnManifestInv DEF OnManifest
<1>5. CASE \E c \in net : OnChunk(c)
  BY <1>5, OnChunkInv
<1>6. CASE \E c \in net : OnRequest(c)
  BY <1>6, OnRequestInv DEF OnRequest, protocolVars
<1>7. CASE \E c \in net : LoseMessage(c) \/ Duplicate(c)
  BY <1>7, NetworkInv
<1> QED
  BY <1>1, <1>2, <1>3, <1>4, <1>5, <1>6, <1>7 DEF UpdateNext, Deliver

LEMMA UpdateInvariant == UpdateSpec => []UpdateInv
<1>1. UpdateInv /\ [UpdateNext]_updateVars => UpdateInv'
  <2>1. CASE UNCHANGED updateVars
    BY <2>1 DEF updateVars, protocolVars, UpdateInv, UpdateTypeOK, IsTransfer, Holds, Total,
                ChunkLen, NetOK, CopyOK, MsgOK, OnlyNewer, InstalledIntact
  <2> QED
    BY <2>1, StepInv
<1> QED
  BY InitInv, <1>1, PTL DEF UpdateSpec

-----------------------------------------------------------------------------
(* The theorems *)

\* Types; a transfer never holds more than the package announced.
THEOREM UpdateTypes == UpdateSpec => []UpdateTypeOK
<1>1. UpdateInv => UpdateTypeOK
  BY DEF UpdateInv
<1> QED
  BY <1>1, UpdateInvariant, PTL

\* What install_verified writes is a whole package that was announced, under the
\* version of its announcement, whatever becomes of offers, messages and nodes.
THEOREM OnlyIntactInstalled == UpdateSpec => []InstalledIntact
<1>1. UpdateInv => InstalledIntact
  BY DEF UpdateInv
<1> QED
  BY <1>1, UpdateInvariant, PTL

\* No release comes back: a node installs only above its current version.
THEOREM InstallsAscend == UpdateSpec => InstallRaisesVersion
<1> DEFINE Ascends ==
      \A n \in Members : ~(installed'[n] \subseteq installed[n]) => current'[n] > current[n]
<1>1. UpdateInv /\ [UpdateNext]_updateVars => [Ascends]_updateVars
  BY StepInv
<1>2. InstallRaisesVersion <=> [][Ascends]_updateVars
  BY DEF InstallRaisesVersion
<1> QED
  BY <1>1, <1>2, UpdateInvariant, PTL DEF UpdateSpec

-----------------------------------------------------------------------------
(* Sums of sizes.  Used is a fold over a set: that it does not depend on the   *)
(* order of its elements is proved on smallest sets that would contradict it.  *)

\* A set of numbers has a least one.
LEMMA LeastNatural ==
  ASSUME NEW T \in SUBSET Nat, T # {}
  PROVE  \E n \in T : \A m \in T : n <= m
<1> DEFINE R == {ss \in Nat \X Nat : ss[1] < ss[2]}
<1>1. IsWellFoundedOn(R, Nat)
  BY NatLessThanWellFounded, Zenon DEF OpToRel
<1>2. PICK n \in T : \A m \in T : ~ <<m, n>> \in R
  BY <1>1, WFMin
<1>3. \A m \in T : ~ (m < n)
  BY <1>2
<1>. QED  BY <1>2, <1>3

\* A finite set of sets has one that holds no other of them.
LEMMA Smallest ==
  ASSUME NEW U, IsFiniteSet(U), NEW B \in SUBSET (SUBSET U), B # {}
  PROVE  \E s \in B : \A t \in B : t \subseteq s => t = s
<1> DEFINE N == {n \in Nat : \E s \in B : Cardinality(s) = n}
<1>1. \A s \in B : IsFiniteSet(s) /\ Cardinality(s) \in Nat
  BY FS_Subset, FS_CardinalityType
<1>2. N \in SUBSET Nat /\ N # {}
  BY <1>1
<1>3. PICK n \in N : \A k \in N : n <= k
  <2> HIDE DEF N
  <2> QED
    BY <1>2, LeastNatural
<1>4. PICK s \in B : Cardinality(s) = n
  BY <1>3
<1>5. ASSUME NEW t \in B, t \subseteq s
      PROVE  t = s
  <2>1. Cardinality(t) \in N
    BY <1>1
  <2>2. Cardinality(t) <= Cardinality(s) /\ (Cardinality(t) = Cardinality(s) => t = s)
    BY <1>1, <1>5, FS_Subset
  <2>3. Cardinality(s) <= Cardinality(t)
    BY <1>3, <1>4, <2>1
  <2>4. QED
    BY <1>1, <2>2, <2>3
<1>6. QED
  BY <1>5

Pick(s) == CHOOSE x \in s : TRUE

\* The function the fold over T computes on its subsets.
Sums(T) ==
  CHOOSE it : it = [s \in SUBSET T |-> IF s = {} THEN 0 ELSE Pick(s).size + it[s \ {Pick(s)}]]

LEMMA UsedIsSum == ASSUME NEW S PROVE Used(S) = Sums(S)[S]
BY DEF Used, MapThenSumSet, MapThenFoldSet, Sums, Pick

LEMMA Picked == ASSUME NEW s, s # {} PROVE Pick(s) \in s
BY DEF Pick

\* It is defined: on sets of at most n elements, for every n.
LEMMA SumsDefined ==
  ASSUME NEW T, IsFiniteSet(T)
  PROVE  \A s \in SUBSET T :
           Sums(T)[s] = IF s = {} THEN 0 ELSE Pick(s).size + Sums(T)[s \ {Pick(s)}]
<1> DEFINE Upto(n) == {s \in SUBSET T : Cardinality(s) <= n}
           Sum(it, s) == IF s = {} THEN 0 ELSE Pick(s).size + it[s \ {Pick(s)}]
           Solves(n, it) == it = [s \in Upto(n) |-> Sum(it, s)]
           Bad == {n \in Nat : ~ \E it : Solves(n, it)}
<1>1. \A s \in SUBSET T : IsFiniteSet(s) /\ Cardinality(s) \in Nat
  BY FS_Subset, FS_CardinalityType
<1>2. ASSUME Bad # {} PROVE FALSE
  <2>1. PICK n \in Bad : \A m \in Bad : n <= m
    <3>1. Bad \in SUBSET Nat
      OBVIOUS
    <3> HIDE DEF Bad
    <3>2. QED
      BY <1>2, <3>1, LeastNatural
  <2>2. n \in Nat /\ ~ \E it : Solves(n, it)
    OBVIOUS
  <2>3. CASE n = 0
    <3>1. \A s \in Upto(0) : s = {}
      BY <1>1, FS_EmptySet
    <3>2. PICK it : it = [s \in Upto(0) |-> 0]
      OBVIOUS
    <3>3. [s \in Upto(0) |-> Sum(it, s)] = [s \in Upto(0) |-> 0]
      BY <3>1
    <3>4. Solves(0, it)
      BY <3>2, <3>3
    <3>5. QED
      BY <2>2, <2>3, <3>4
  <2>4. CASE n # 0
    <3>1. n - 1 \in Nat /\ n - 1 \notin Bad
      <4>1. n - 1 \in Nat /\ ~ (n <= n - 1)
        BY <2>2, <2>4
      <4> HIDE DEF Bad
      <4>2. QED
        BY <2>1, <4>1
    <3>2. PICK low : Solves(n - 1, low)
      BY <3>1
    <3>3. PICK it : it = [s \in Upto(n) |-> Sum(low, s)]
      OBVIOUS
    <3>4. ASSUME NEW s \in Upto(n)
          PROVE  Sum(low, s) = Sum(it, s)
      <4>1. CASE s = {}
        BY <4>1
      <4>2. CASE s # {}
        <5>1. PICK r : r = s \ {Pick(s)}
          OBVIOUS
        <5>2. r \in SUBSET T /\ IsFiniteSet(s) /\ Cardinality(s) \in Nat /\ Cardinality(s) <= n
          BY <1>1, <5>1
        <5>3. Cardinality(r) = Cardinality(s) - 1
          BY <4>2, <5>1, <5>2, Picked, FS_RemoveElement
        <5>4. Cardinality(r) <= n - 1 /\ Cardinality(r) <= n
          BY <2>2, <5>2, <5>3
        <5>5. r \in Upto(n - 1) /\ r \in Upto(n)
          BY <5>2, <5>4
        <5>6. low[r] = Sum(low, r)
          <6> HIDE DEF Sum
          <6> QED
            BY <3>2, <5>5
        <5>7. it[r] = Sum(low, r)
          <6> HIDE DEF Sum
          <6> QED
            BY <3>3, <5>5
        <5>8. QED
          BY <4>2, <5>1, <5>6, <5>7
      <4>3. QED
        BY <4>1, <4>2
    <3>5. [s \in Upto(n) |-> Sum(low, s)] = [s \in Upto(n) |-> Sum(it, s)]
      <4> HIDE DEF Sum, Upto
      <4> QED
        BY <3>4
    <3>6. Solves(n, it)
      <4> HIDE DEF Sum, Upto
      <4> QED
        BY <3>3, <3>5
    <3>7. QED
      BY <2>2, <3>6
  <2>5. QED
    BY <2>3, <2>4
<1>3. PICK n : n = Cardinality(T)
  OBVIOUS
<1>4. n \in Nat /\ Upto(n) = SUBSET T
  BY <1>3, FS_Subset, FS_CardinalityType
<1>5. \E it : Solves(n, it)
  BY <1>2, <1>4
<1>6. \E it : it = [s \in SUBSET T |-> Sum(it, s)]
  <2> HIDE DEF Sum, Upto
  <2> QED
    BY <1>4, <1>5
<1>7. Sums(T) = CHOOSE it : it = [s \in SUBSET T |-> Sum(it, s)]
  BY DEF Sums
<1>8. Sums(T) = [s \in SUBSET T |-> Sum(Sums(T), s)]
  <2> HIDE DEF Sum
  <2> QED
    BY <1>6, <1>7
<1>9. \A s \in SUBSET T : Sums(T)[s] = Sum(Sums(T), s)
  <2>1. PICK g : g = Sums(T)
    OBVIOUS
  <2> HIDE DEF Sum
  <2>2. g = [s \in SUBSET T |-> Sum(g, s)]
    BY <1>8, <2>1
  <2>3. \A s \in SUBSET T : g[s] = Sum(g, s)
    BY <2>2
  <2>4. QED
    BY <2>1, <2>3
<1>10. QED
  BY <1>9

\* It is the same on a set, whatever the sets it is part of.
LEMMA SumsAgree ==
  ASSUME NEW T, IsFiniteSet(T), NEW s \in SUBSET T
  PROVE  Sums(T)[s] = Used(s)
<1> DEFINE B == {r \in SUBSET s : Sums(T)[r] # Sums(s)[r]}
<1>1. IsFiniteSet(s)
  BY FS_Subset
<1>2. ASSUME B # {} PROVE FALSE
  <2>1. B \in SUBSET (SUBSET s)
    OBVIOUS
  <2>2. PICK r \in B : \A t \in B : t \subseteq r => t = r
    <3> HIDE DEF B
    <3> QED
      BY <1>1, <1>2, <2>1, Smallest
  <2>3. r \in SUBSET T /\ r \in SUBSET s /\ Sums(T)[r] # Sums(s)[r]
    OBVIOUS
  <2>4. r # {}
    BY <1>1, <2>3, SumsDefined
  <2>5. r \ {Pick(r)} \notin B
    BY <2>2, <2>4, Picked
  <2>6. Sums(T)[r \ {Pick(r)}] = Sums(s)[r \ {Pick(r)}]
    BY <2>3, <2>5
  <2>7. /\ Sums(T)[r] = Pick(r).size + Sums(T)[r \ {Pick(r)}]
        /\ Sums(s)[r] = Pick(r).size + Sums(s)[r \ {Pick(r)}]
    BY <1>1, <2>3, <2>4, SumsDefined
  <2>8. QED
    BY <2>3, <2>6, <2>7
<1>3. s \notin B
  BY <1>2
<1>4. QED
  BY <1>3, UsedIsSum

\* The recurrence of the sum.
LEMMA UsedStep ==
  ASSUME NEW S, IsFiniteSet(S)
  PROVE  /\ S = {} => Used(S) = 0
         /\ S # {} => Used(S) = Pick(S).size + Used(S \ {Pick(S)})
<1>1. Used(S) = Sums(S)[S]
  BY UsedIsSum
<1>2. Sums(S)[S] = IF S = {} THEN 0 ELSE Pick(S).size + Sums(S)[S \ {Pick(S)}]
  BY SumsDefined
<1>3. Sums(S)[S \ {Pick(S)}] = Used(S \ {Pick(S)})
  BY SumsAgree
<1>4. QED
  BY <1>1, <1>2, <1>3

Sized(S) == IsFiniteSet(S) /\ \A m \in S : m.size \in Nat

LEMMA UsedNat ==
  ASSUME NEW S, Sized(S)
  PROVE  Used(S) \in Nat
<1> DEFINE B == {r \in SUBSET S : Used(r) \notin Nat}
<1>1. ASSUME B # {} PROVE FALSE
  <2>1. B \in SUBSET (SUBSET S)
    OBVIOUS
  <2>2. PICK r \in B : \A t \in B : t \subseteq r => t = r
    <3> HIDE DEF B
    <3> QED
      BY <1>1, <2>1, Smallest DEF Sized
  <2>3. r \in SUBSET S /\ IsFiniteSet(r) /\ Used(r) \notin Nat
    BY FS_Subset DEF Sized
  <2>4. r # {}
    <3>1. r = {} => Used(r) = 0
      BY <2>3, UsedStep
    <3>2. QED
      BY <2>3, <3>1
  <2>5. Pick(r) \in r /\ r \ {Pick(r)} \notin B
    BY <2>2, <2>4, Picked
  <2>6. Used(r \ {Pick(r)}) \in Nat /\ Pick(r).size \in Nat
    BY <2>3, <2>5 DEF Sized
  <2>7. Used(r) = Pick(r).size + Used(r \ {Pick(r)})
    BY <2>3, <2>4, UsedStep
  <2>8. QED
    BY <2>3, <2>6, <2>7
<1>2. QED
  BY <1>1

\* The order does not matter: any element may be the last one added.
LEMMA UsedAdds ==
  ASSUME NEW S, Sized(S), NEW y, y \notin S, y.size \in Nat
  PROVE  Used(S \cup {y}) = Used(S) + y.size
<1> DEFINE U == S \cup {y}
           B == {r \in SUBSET U : \E x \in r : Used(r) # Used(r \ {x}) + x.size}
<1>1. Sized(U) /\ IsFiniteSet(U)
  BY FS_AddElement DEF Sized
<1>2. \A r \in SUBSET U : IsFiniteSet(r) /\ Sized(r) /\ Used(r) \in Nat
  <2> TAKE r \in SUBSET U
  <2>1. IsFiniteSet(r)
    BY <1>1, FS_Subset
  <2>2. Sized(r)
    BY <1>1, <2>1 DEF Sized
  <2>3. QED
    BY <2>1, <2>2, UsedNat
<1>3. ASSUME B # {} PROVE FALSE
  <2>1. B \in SUBSET (SUBSET U)
    OBVIOUS
  <2>2. PICK r \in B : \A t \in B : t \subseteq r => t = r
    <3> HIDE DEF B
    <3> QED
      BY <1>1, <1>3, <2>1, Smallest
  <2>3. PICK x \in r : Used(r) # Used(r \ {x}) + x.size
    OBVIOUS
  <2>4. PICK p : p = Pick(r)
    OBVIOUS
  <2>5. p \in r /\ r \in SUBSET U
    BY <2>4, Picked
  <2>6. Used(r) = p.size + Used(r \ {p})
    BY <1>2, <2>4, <2>5, UsedStep
  <2>7. p.size \in Nat /\ x.size \in Nat
    BY <1>1, <2>5 DEF Sized
  <2>8. /\ Used(r \ {p}) \in Nat /\ Used(r \ {x}) \in Nat /\ Used((r \ {p}) \ {x}) \in Nat
        /\ r \ {p} \in SUBSET U /\ r \ {x} \in SUBSET U
    BY <1>2, <2>5
  <2>9. x # p
    BY <2>3, <2>6, <2>7, <2>8
  <2>10. r \ {p} \notin B /\ r \ {x} \notin B
    BY <2>2, <2>5
  <2>11. Used(r \ {p}) = Used((r \ {p}) \ {x}) + x.size
    BY <2>8, <2>9, <2>10
  <2>12. Used(r \ {x}) = Used((r \ {x}) \ {p}) + p.size
    BY <2>5, <2>8, <2>9, <2>10
  <2>13. (r \ {x}) \ {p} = (r \ {p}) \ {x}
    OBVIOUS
  <2>14. QED
    BY <2>3, <2>6, <2>7, <2>8, <2>11, <2>12, <2>13
<1>4. U \notin B
  BY <1>3
<1>5. U \ {y} = S
  OBVIOUS
<1>6. QED
  BY <1>4, <1>5

\* A part and the rest.
LEMMA UsedSplits ==
  ASSUME NEW S, Sized(S), NEW A \in SUBSET S
  PROVE  /\ Used(A) \in Nat /\ Used(S \ A) \in Nat
         /\ Used(S) = Used(A) + Used(S \ A)
<1> DEFINE B == {r \in SUBSET (S \ A) : Used(A \cup r) # Used(A) + Used(r)}
<1>1. \A r \in SUBSET S : IsFiniteSet(r) /\ Sized(r) /\ Used(r) \in Nat
  <2> TAKE r \in SUBSET S
  <2>1. IsFiniteSet(r)
    BY FS_Subset DEF Sized
  <2>2. Sized(r)
    BY <2>1 DEF Sized
  <2>3. QED
    BY <2>1, <2>2, UsedNat
<1>2. ASSUME B # {} PROVE FALSE
  <2>1. B \in SUBSET (SUBSET (S \ A)) /\ IsFiniteSet(S \ A)
    BY <1>1
  <2>2. PICK r \in B : \A t \in B : t \subseteq r => t = r
    <3> HIDE DEF B
    <3> QED
      BY <1>2, <2>1, Smallest
  <2>3. r \in SUBSET (S \ A) /\ Used(A \cup r) # Used(A) + Used(r)
    OBVIOUS
  <2>4. CASE r = {}
    <3>1. Used(r) = 0 /\ A \cup r = A /\ Used(A) \in Nat
      BY <1>1, <2>4, UsedStep
    <3>2. QED
      BY <2>3, <3>1
  <2>5. CASE r # {}
    <3>1. PICK x, q : x \in r /\ q = r \ {x}
      BY <2>5
    <3>2. q \notin B /\ q \in SUBSET (S \ A)
      BY <2>2, <2>3, <3>1
    <3>3. Used(A \cup q) = Used(A) + Used(q)
      BY <3>2
    <3>4. /\ x \notin q /\ x \notin A \cup q /\ x.size \in Nat
          /\ r = q \cup {x} /\ A \cup r = (A \cup q) \cup {x}
          /\ Sized(q) /\ Sized(A \cup q)
      BY <1>1, <2>3, <3>1, <3>2 DEF Sized
    <3>5. Used(r) = Used(q) + x.size
      BY <3>4, UsedAdds
    <3>6. Used(A \cup r) = Used(A \cup q) + x.size
      BY <3>4, UsedAdds
    <3>7. Used(A) \in Nat /\ Used(q) \in Nat
      BY <1>1, <3>2
    <3>8. QED
      BY <2>3, <3>3, <3>4, <3>5, <3>6, <3>7
  <2>6. QED
    BY <2>4, <2>5
<1>3. S \ A \notin B
  BY <1>2
<1>4. A \cup (S \ A) = S
  OBVIOUS
<1>5. QED
  BY <1>1, <1>3, <1>4

LEMMA UsedGrows ==
  ASSUME NEW S, Sized(S), NEW A \in SUBSET S
  PROVE  Used(A) <= Used(S)
<1>1. /\ Used(A) \in Nat /\ Used(S \ A) \in Nat
      /\ Used(S) = Used(A) + Used(S \ A)
  BY UsedSplits
<1>2. QED
  BY <1>1

LEMMA UsedNone == Used({}) = 0
BY UsedStep, FS_EmptySet

-----------------------------------------------------------------------------
(* The store, its database and the throttle *)

StoredMsg == [id : STRING, tier : DOMAIN Retention, size : Nat, created : Nat]
Seeds == {NoSeed} \cup 0 .. drawn - 1

Messages(S) == S \subseteq StoredMsg /\ IsFiniteSet(S)

KeptTypes ==
  /\ based => up
  /\ now \in 0 .. MaxTime /\ drawn \in 0 .. MaxIdentities
  /\ self \in Seeds /\ meta \in Seeds /\ synced.meta \in Seeds
  /\ Messages(memory) /\ Messages(rows) /\ Messages(synced.rows)

\* The messages of S that the clock has not outdated.
Live(S) == {m \in S : ~Expired(m)}

BudgetKept == Used(memory) <= Budget /\ gauge = Used(memory)

\* What a restart would bring back fits, from the database or from its last checkpoint.
LiveFits == loaded => Used(Live(rows)) <= Budget /\ Used(Live(synced.rows)) <= Budget

KeptInv == KeptTypes /\ BudgetKept /\ LiveFits /\ UnexpiredRestored

LEMMA MessagesSized ==
  ASSUME NEW S, Messages(S), NEW A \in SUBSET S
  PROVE  Sized(S) /\ Messages(A) /\ Used(S) \in Nat /\ Used(A) \in Nat /\ Used(A) <= Used(S)
<1>1. Sized(S)
  BY DEF Messages, StoredMsg, Sized
<1>2. Messages(A)
  BY FS_Subset DEF Messages
<1>3. QED
  BY <1>1, <1>2, UsedNat, UsedSplits, UsedGrows

\* What is out of date stays so.
LEMMA ExpiredStays ==
  ASSUME NEW m \in StoredMsg, now \in Nat, now' \in Nat, now <= now', Expired(m)
  PROVE  Expired(m)'
<1>1. m.created \in Nat /\ m.tier \in DOMAIN Retention
  BY DEF StoredMsg
<1>2. Retention[m.tier] \in Nat
  BY <1>1, StoreAssumption
<1>3. Age(m) >= Retention[m.tier] /\ Age(m) \in Nat /\ Age(m)' \in Nat /\ Age(m) <= Age(m)'
  BY <1>1 DEF Expired, Age
<1>4. Age(m)' >= Retention[m.tier]
  BY <1>2, <1>3
<1>5. QED
  BY <1>4 DEF Expired

LEMMA KeptStart == StoreInit => KeptInv
<1> SUFFICES ASSUME StoreInit PROVE KeptInv
  OBVIOUS
<1>1. MaxTime \in Nat /\ MaxIdentities \in Nat /\ Budget \in Nat
  BY StoreAssumption
<1>2. Messages({})
  BY FS_EmptySet DEF Messages
<1>3. KeptTypes
  BY <1>1, <1>2 DEF StoreInit, KeptTypes, Seeds
<1>4. Live({}) = {}
  BY DEF Live
<1>5. BudgetKept /\ UnexpiredRestored
  BY <1>1, UsedNone DEF StoreInit, BudgetKept, UnexpiredRestored
<1>6. LiveFits
  <2>1. rows = {} /\ synced.rows = {}
    BY DEF StoreInit
  <2>2. QED
    BY <1>1, <1>4, <2>1, UsedNone DEF LiveFits
<1>7. QED
  BY <1>3, <1>5, <1>6 DEF KeptInv

\* When rows are as they were and the clock no earlier, what fitted fits.
LEMMA LiveShrinks ==
  ASSUME KeptTypes, now' \in Nat, now <= now', NEW S, Messages(S), NEW A \in SUBSET S
  PROVE  Live(A)' \in SUBSET Live(S) /\ Used(Live(A)') <= Used(Live(S)) /\ Used(Live(A)') \in Nat
<1>1. now \in Nat
  BY StoreAssumption DEF KeptTypes
<1>2. Live(A)' \in SUBSET Live(S)
  BY <1>1, ExpiredStays DEF Live, Messages
<1>3. Messages(Live(S))
  BY MessagesSized DEF Live
<1>4. PICK b : b = Live(A)'
  OBVIOUS
<1>5. Used(b) <= Used(Live(S)) /\ Used(b) \in Nat
  BY <1>2, <1>3, <1>4, MessagesSized
<1>6. QED
  BY <1>2, <1>4, <1>5

\* A message that is kept, if it is: memory first, the database perhaps.
LEMMA RememberStep ==
  ASSUME KeptInv, NEW m \in StoredMsg, Remember(m), UNCHANGED <<process, disk, now>>
  PROVE  KeptInv'
<1>1. /\ KeptTypes /\ BudgetKept /\ LiveFits /\ UnexpiredRestored
      /\ now \in Nat /\ Budget \in Nat
  BY StoreAssumption DEF KeptInv, KeptTypes
<1>2. UNCHANGED <<up, based, loaded, self, meta, synced, drawn, now>>
  BY DEF process, disk
<1>3. \A S : Live(S)' = Live(S')
  BY <1>2 DEF Live, Expired, Age
<1>4. CASE Kept(m)
  <2>1. /\ memory' = memory \cup {m} /\ gauge' = gauge + m.size
        /\ rows' = rows \/ (based /\ rows' = rows \cup {m})
    BY <1>4 DEF Remember, Mirrored
  <2>2. m \notin memory /\ Used(memory) + m.size <= Budget /\ m.size \in Nat
    BY <1>4 DEF Kept, HasRoom, StoredMsg
  <2>3. Messages(memory) /\ Messages(rows) /\ Messages(synced.rows) /\ Sized(memory)
    BY <1>1, MessagesSized DEF KeptTypes
  <2>4. Messages(memory \cup {m}) /\ Messages(rows \cup {m})
    BY <2>3, FS_AddElement DEF Messages
  <2>5. Used(memory \cup {m}) = Used(memory) + m.size
    BY <2>2, <2>3, UsedAdds
  <2>6. BudgetKept'
    BY <1>1, <2>1, <2>2, <2>5 DEF BudgetKept
  <2>7. KeptTypes'
    BY <1>1, <1>2, <2>1, <2>3, <2>4 DEF KeptTypes, Seeds
  <2>8. UnexpiredRestored'
    BY <1>1, <1>2, <2>1 DEF UnexpiredRestored, Expired, Age
  <2>9. LiveFits'
    <3> SUFFICES ASSUME loaded PROVE Used(Live(rows)') <= Budget /\ Used(Live(synced.rows)') <= Budget
      BY <1>2 DEF LiveFits
    <3>1. Used(Live(synced.rows)') <= Budget
      <4>1. Live(synced.rows)' = Live(synced.rows)
        BY <1>2 DEF Live, Expired, Age
      <4>2. QED
        BY <1>1, <4>1 DEF LiveFits
    <3>2. CASE rows' = rows
      <4>1. Live(rows)' = Live(rows)
        BY <1>2, <3>2 DEF Live, Expired, Age
      <4>2. QED
        BY <1>1, <3>1, <4>1 DEF LiveFits
    <3>3. CASE based
      <4>1. PICK b : b = Live(rows)'
        OBVIOUS
      <4>2. b \in SUBSET (memory \cup {m})
        BY <1>2, <2>1, <2>8, <3>3, <4>1 DEF UnexpiredRestored, Live
      <4>3. Used(b) <= Used(memory \cup {m}) /\ Used(b) \in Nat /\ Used(memory \cup {m}) \in Nat
        BY <2>4, <4>2, MessagesSized
      <4>4. Used(memory \cup {m}) <= Budget
        BY <2>2, <2>5
      <4>5. QED
        BY <1>1, <3>1, <4>1, <4>3, <4>4
    <3>4. QED
      BY <2>1, <3>2, <3>3
  <2>10. QED
    BY <2>6, <2>7, <2>8, <2>9 DEF KeptInv
<1>5. CASE ~Kept(m)
  <2>1. UNCHANGED <<memory, gauge, rows>>
    BY <1>5 DEF Remember
  <2>2. QED
    BY <1>1, <1>2, <2>1 DEF KeptInv, KeptTypes, Seeds, BudgetKept, LiveFits, UnexpiredRestored, Live, Expired, Age
<1>6. QED
  BY <1>4, <1>5

\* The sweep: what memory forgets is out of date, and the gauge loses as much.
LEMMA SweepStep ==
  ASSUME KeptInv, Sweep
  PROVE  KeptInv'
<1>1. /\ KeptTypes /\ BudgetKept /\ LiveFits /\ UnexpiredRestored
      /\ now \in Nat /\ Budget \in Nat
  BY StoreAssumption DEF KeptInv, KeptTypes
<1>2. /\ UNCHANGED <<up, based, loaded, self, meta, synced, drawn, now>>
      /\ memory' = memory \ Outlived /\ gauge' = Lowered(Used(Outlived))
      /\ rows' \subseteq rows
  BY DEF Sweep, process, disk
<1>3. Messages(memory) /\ Messages(rows) /\ Messages(synced.rows)
  BY <1>1 DEF KeptTypes
<1>4. Messages(memory') /\ Messages(rows')
  BY <1>2, <1>3, FS_Subset DEF Messages
<1>5. KeptTypes'
  BY <1>1, <1>2, <1>3, <1>4 DEF KeptTypes, Seeds
<1>6. BudgetKept'
  <2>1. Outlived \in SUBSET memory /\ Sized(memory)
    BY <1>3, MessagesSized DEF Outlived
  <2>2. /\ Used(Outlived) \in Nat /\ Used(memory \ Outlived) \in Nat
        /\ Used(memory) = Used(Outlived) + Used(memory \ Outlived)
    BY <2>1, UsedSplits
  <2>3. gauge' = Used(memory \ Outlived)
    BY <1>1, <1>2, <2>2 DEF Lowered, BudgetKept
  <2>4. Used(memory \ Outlived) <= Budget
    BY <1>1, <2>2 DEF BudgetKept
  <2>5. QED
    BY <1>2, <2>3, <2>4 DEF BudgetKept
<1>7. UnexpiredRestored'
  BY <1>1, <1>2 DEF UnexpiredRestored, Outlived, Expired, Age
<1>8. LiveFits'
  <2>1. PICK r : r = rows'
    OBVIOUS
  <2>2. Used(Live(r)') <= Used(Live(rows)) /\ Used(Live(r)') \in Nat
    BY <1>1, <1>2, <1>3, <2>1, LiveShrinks
  <2>3. Used(Live(rows)) \in Nat
    BY <1>3, MessagesSized DEF Live
  <2>4. Live(rows)' = Live(r)' /\ Live(synced.rows)' = Live(synced.rows)
    BY <1>2, <2>1 DEF Live, Expired, Age
  <2>5. QED
    BY <1>1, <1>2, <2>2, <2>3, <2>4 DEF LiveFits
<1>9. QED
  BY <1>5, <1>6, <1>7, <1>8 DEF KeptInv

\* The end of the process or of the machine.
LEMMA DownStep ==
  ASSUME KeptInv, Stop \/ PowerLoss
  PROVE  KeptInv'
<1>1. KeptTypes /\ LiveFits /\ Budget \in Nat
  BY StoreAssumption DEF KeptInv
<1>2. /\ up' = FALSE /\ based' = FALSE /\ self' = NoSeed /\ memory' = {} /\ gauge' = 0
      /\ UNCHANGED <<loaded, synced, drawn, now>>
      /\ (rows' = rows /\ meta' = meta) \/ (rows' = synced.rows /\ meta' = synced.meta)
  BY DEF Stop, PowerLoss, Down, disk
<1>3. Messages({})
  BY FS_EmptySet DEF Messages
<1>4. KeptTypes'
  BY <1>1, <1>2, <1>3 DEF KeptTypes, Seeds
<1>5. BudgetKept' /\ UnexpiredRestored'
  BY <1>1, <1>2, UsedNone DEF BudgetKept, UnexpiredRestored
<1>6. LiveFits'
  BY <1>1, <1>2 DEF LiveFits, Live, Expired, Age
<1>7. QED
  BY <1>4, <1>5, <1>6 DEF KeptInv

\* A start that reads all the database brings back every message still in date: they
\* fit together, so that none is skipped.
LEMMA AllRestored ==
  ASSUME KeptTypes, Used(Live(rows)) <= Budget, NEW S \in Restored(rows)
  PROVE  S = Live(rows)
<1>1. /\ S \in SUBSET Live(rows)
      /\ \A m \in Live(rows) \ S : ~ (Used(S) + m.size <= Budget)
  BY DEF Restored, Live, HasRoom
<1>2. Messages(Live(rows)) /\ Budget \in Nat
  BY MessagesSized, StoreAssumption DEF KeptTypes, Live
<1>3. SUFFICES ASSUME NEW m \in Live(rows) \ S PROVE FALSE
  BY <1>1
<1>4. Sized(S) /\ m.size \in Nat /\ S \cup {m} \in SUBSET Live(rows)
  <2>1. Messages(S)
    BY <1>1, <1>2, MessagesSized
  <2>2. QED
    BY <1>1, <1>2, <2>1, MessagesSized DEF Messages, StoredMsg
<1>5. Used(S \cup {m}) = Used(S) + m.size
  BY <1>3, <1>4, UsedAdds
<1>6. Used(S \cup {m}) <= Used(Live(rows)) /\ Used(S \cup {m}) \in Nat /\ Used(Live(rows)) \in Nat
  BY <1>2, <1>4, MessagesSized
<1>7. Used(S) + m.size <= Budget
  BY <1>2, <1>5, <1>6
<1>8. QED
  BY <1>1, <1>3, <1>7

LEMMA StartStep ==
  ASSUME KeptInv, Start
  PROVE  KeptInv'
<1>1. KeptTypes /\ LiveFits /\ Budget \in Nat /\ MaxIdentities \in Nat
  BY StoreAssumption DEF KeptInv
<1>2. PICK seedRead \in BOOLEAN, rowsRead \in BOOLEAN :
        Identity(seedRead) /\ (StartApplication(seedRead, rowsRead) \/ StartHeadless)
  BY DEF Start
<1>3. up' = TRUE /\ based' = TRUE /\ gauge' = Used(memory') /\ UNCHANGED <<rows, synced, now>>
  BY DEF Start
<1>4. Messages(rows) /\ Messages(synced.rows) /\ Messages({}) /\ now \in 0 .. MaxTime
  BY <1>1, FS_EmptySet DEF KeptTypes, Messages
<1>5. /\ drawn' \in 0 .. MaxIdentities /\ drawn <= drawn'
      /\ self' \in 0 .. drawn' - 1
      /\ meta' \in {NoSeed} \cup 0 .. drawn' - 1
      /\ synced'.meta \in {NoSeed} \cup 0 .. drawn' - 1
  BY <1>1, <1>2, <1>3 DEF Identity, SeedKept, KeptTypes, Seeds
<1>6. loaded' => loaded /\ seedRead /\ rowsRead /\ memory' \in Restored(rows)
  BY <1>2 DEF StartApplication, StartHeadless, Loaded
<1>7. memory' \in SUBSET rows /\ Used(memory') <= Budget
  <2>1. memory' = {} \/ memory' \in Restored(rows)
    BY <1>2 DEF StartApplication, StartHeadless, Loaded
  <2>2. CASE memory' = {}
    BY <1>1, <2>2, UsedNone
  <2>3. CASE memory' \in Restored(rows)
    BY <2>3 DEF Restored
  <2>4. QED
    BY <2>1, <2>2, <2>3
<1>8. Messages(memory')
  <2>1. PICK s : s = memory'
    OBVIOUS
  <2>2. Messages(s)
    BY <1>4, <1>7, <2>1, MessagesSized
  <2>3. QED
    BY <2>1, <2>2
<1>9. KeptTypes'
  BY <1>3, <1>4, <1>5, <1>8 DEF KeptTypes, Seeds
<1>10. BudgetKept'
  BY <1>3, <1>7 DEF BudgetKept
<1>11. LiveFits'
  BY <1>1, <1>3, <1>6 DEF LiveFits, Live, Expired, Age
<1>12. UnexpiredRestored'
  <2> SUFFICES ASSUME loaded' PROVE (\A m \in rows : Expired(m) \/ m \in memory') /\ (meta' # NoSeed => self' = meta')
    BY <1>3 DEF UnexpiredRestored, Expired, Age
  <2>1. memory' = Live(rows)
    BY <1>1, <1>6, AllRestored DEF LiveFits
  <2>2. meta' # NoSeed => self' = meta'
    BY <1>2, <1>6 DEF Identity, SeedKept
  <2>3. QED
    BY <2>1, <2>2 DEF Live
<1>13. QED
  BY <1>9, <1>10, <1>11, <1>12 DEF KeptInv

LEMMA StartBareStep ==
  ASSUME KeptInv, StartBare
  PROVE  KeptInv'
<1>1. KeptTypes /\ BudgetKept /\ LiveFits /\ MaxIdentities \in Nat
  BY StoreAssumption DEF KeptInv
<1>2. /\ up' = TRUE /\ based' = FALSE /\ drawn < MaxIdentities /\ self' = drawn /\ drawn' = drawn + 1
      /\ UNCHANGED <<loaded, memory, gauge, rows, meta, synced, now>>
  BY DEF StartBare
<1>3. KeptTypes'
  BY <1>1, <1>2 DEF KeptTypes, Seeds
<1>4. QED
  BY <1>1, <1>2, <1>3 DEF KeptInv, BudgetKept, LiveFits, UnexpiredRestored, Live, Expired, Age

LEMMA CheckpointStep ==
  ASSUME KeptInv, Checkpoint
  PROVE  KeptInv'
<1>1. KeptTypes /\ BudgetKept /\ LiveFits /\ UnexpiredRestored
  BY DEF KeptInv
<1>2. /\ UNCHANGED <<up, based, loaded, self, memory, gauge, rows, meta, drawn, now>>
      /\ synced'.rows = rows /\ synced'.meta = meta
  BY DEF Checkpoint, process
<1>3. KeptTypes'
  BY <1>1, <1>2 DEF KeptTypes, Seeds
<1>4. QED
  BY <1>1, <1>2, <1>3 DEF KeptInv, BudgetKept, LiveFits, UnexpiredRestored, Live, Expired, Age

LEMMA ClockStep ==
  ASSUME KeptInv, Tick
  PROVE  KeptInv'
<1>1. /\ KeptTypes /\ BudgetKept /\ LiveFits /\ UnexpiredRestored
      /\ now \in Nat /\ MaxTime \in Nat /\ Budget \in Nat
  BY StoreAssumption DEF KeptInv, KeptTypes
<1>2. /\ UNCHANGED <<up, based, loaded, self, memory, gauge, rows, meta, synced, drawn>>
      /\ now < MaxTime /\ now' = now + 1
  BY DEF Tick, process, disk
<1>3. KeptTypes'
  BY <1>1, <1>2 DEF KeptTypes, Seeds
<1>4. Messages(rows) /\ Messages(synced.rows)
  BY <1>1 DEF KeptTypes
<1>5. UnexpiredRestored'
  <2>1. \A m \in rows : Expired(m) => Expired(m)'
    BY <1>1, <1>2, <1>4, ExpiredStays DEF Messages
  <2>2. QED
    BY <1>1, <1>2, <2>1 DEF UnexpiredRestored
<1>6. LiveFits'
  <2>1. PICK r, s : r = rows /\ s = synced.rows
    OBVIOUS
  <2>2. /\ Used(Live(r)') <= Used(Live(r)) /\ Used(Live(r)') \in Nat
        /\ Used(Live(s)') <= Used(Live(s)) /\ Used(Live(s)') \in Nat
    BY <1>1, <1>2, <1>4, <2>1, LiveShrinks
  <2>3. Live(rows)' = Live(r)' /\ Live(synced.rows)' = Live(s)'
    BY <1>2, <2>1 DEF Live
  <2>4. Used(Live(r)) \in Nat /\ Used(Live(s)) \in Nat
    BY <1>4, <2>1, MessagesSized DEF Live
  <2>5. loaded => Used(Live(r)) <= Budget /\ Used(Live(s)) <= Budget
    BY <1>1, <2>1 DEF LiveFits
  <2>6. QED
    BY <1>1, <1>2, <2>2, <2>3, <2>4, <2>5 DEF LiveFits
<1>7. QED
  BY <1>1, <1>2, <1>3, <1>5, <1>6 DEF KeptInv, BudgetKept

LEMMA DatesNatural == ASSUME now \in Nat, NEW date \in Dates PROVE date \in Nat
<1>1. PICK s \in -Fuzz .. Fuzz : date = Max({now + s, 0})
  BY DEF Dates
<1>2. Fuzz \in Nat /\ s \in Int /\ now + s \in Int
  BY StoreAssumption
<1>3. PICK x : x = now + s
  OBVIOUS
<1>4. Max({x, 0}) = IF x >= 0 THEN x ELSE 0
  <2>1. x \in Int
    BY <1>2, <1>3
  <2>2. PICK y : y = IF x >= 0 THEN x ELSE 0
    OBVIOUS
  <2>3. y \in {x, 0} /\ \A z \in {x, 0} : y >= z
    BY <2>1, <2>2
  <2>4. \A w \in {x, 0} : (\A z \in {x, 0} : w >= z) => w = y
    BY <2>1, <2>3
  <2>5. Max({x, 0}) = y
    BY <2>3, <2>4 DEF Max
  <2>6. QED
    BY <2>2, <2>5
<1>5. QED
  BY <1>1, <1>2, <1>3, <1>4

LEMMA KeptStep == KeptInv /\ [StoreNext]_storeVars => KeptInv'
<1> SUFFICES ASSUME KeptInv, [StoreNext]_storeVars PROVE KeptInv'
  OBVIOUS
<1>1. ASSUME NEW d \in Drafts, NEW date \in Dates, Publish(d, date) PROVE KeptInv'
  <2>1. PICK m : m = [id |-> d.id, tier |-> d.tier, size |-> d.size, created |-> date]
    OBVIOUS
  <2>2. date \in Nat /\ d \in [id : STRING, tier : DOMAIN Retention, size : Nat]
    BY DatesNatural, StoreAssumption DEF KeptInv, KeptTypes
  <2>3. m \in StoredMsg
    BY <2>1, <2>2 DEF StoredMsg
  <2>4. Remember(m) /\ UNCHANGED <<process, disk, now>>
    BY <1>1, <2>1 DEF Publish
  <2>5. QED
    BY <2>3, <2>4, RememberStep
<1>2. ASSUME NEW m \in Alerts, ReceiveAlert(m) PROVE KeptInv'
  <2>1. m \in [id : STRING, tier : {Critical}, size : Nat, created : Nat] /\ Critical \in DOMAIN Retention
    BY StoreAssumption
  <2>2. m \in StoredMsg
    BY <2>1 DEF StoredMsg
  <2>3. Remember(m) /\ UNCHANGED <<process, disk, now>>
    BY <1>2 DEF ReceiveAlert
  <2>4. QED
    BY <2>2, <2>3, RememberStep
<1>3. CASE PublishPost \/ SetBatterySaver \/ BecomeTrusted \/ UNCHANGED storeVars
  <2>1. UNCHANGED <<up, based, loaded, self, memory, gauge, rows, meta, synced, drawn, now>>
    BY <1>3 DEF PublishPost, SetBatterySaver, BecomeTrusted, storeVars, process, disk
  <2>2. QED
    BY <2>1 DEF KeptInv, KeptTypes, Seeds, BudgetKept, LiveFits, UnexpiredRestored, Live, Expired, Age
<1>4. QED
  BY <1>1, <1>2, <1>3, SweepStep, DownStep, StartStep, StartBareStep, CheckpointStep, ClockStep
     DEF StoreNext

\* The store never exceeds its budget, and the gauge says what it holds, through
\* publications, receptions, sweeps, crashes and restarts.
THEOREM StoreWithinBudget == StoreSpec => []StoreTypeOK
<1>1. KeptInv => StoreTypeOK
  BY StoreAssumption DEF KeptInv, KeptTypes, Seeds, BudgetKept, StoreTypeOK
<1>2. QED
  BY KeptStart, KeptStep, <1>1, PTL DEF StoreSpec

\* As long as every start reads the database, each brings back every message that is
\* still in date and the identity of the node, whatever writes and deletions failed,
\* and wherever a loss of power takes the database back to.
THEOREM RestartsLoseNothing == StoreSpec => []UnexpiredRestored
<1>1. KeptInv => UnexpiredRestored
  BY DEF KeptInv
<1>2. QED
  BY KeptStart, KeptStep, <1>1, PTL DEF StoreSpec

-----------------------------------------------------------------------------
(* The throttle *)

ThrottleInv ==
  /\ now \in Nat /\ last \in Int /\ last <= now
  /\ sent \in Seq(Nat) /\ \A i \in DOMAIN sent : sent[i] <= last
  /\ PublicationsSpaced

LEMMA NeverIsPast == Never \in Int /\ Never <= 0
<1>1. StrangerInterval * BatteryFactor \in Nat
  BY StoreAssumption
<1>2. QED
  BY <1>1 DEF Never

\* Whatever the battery and the reputation of the node, the interval is no shorter.
LEMMA IntervalAtLeast == PublishInterval \in Int /\ PublishInterval >= Interval
<1>1. /\ Interval \in Nat /\ StrangerInterval \in Nat /\ BatteryFactor \in Nat
      /\ Interval <= StrangerInterval /\ BatteryFactor >= 1
  BY StoreAssumption
<1>2. PICK a : a = IF trusted THEN Interval ELSE StrangerInterval
  OBVIOUS
<1>3. PICK f : f = IF battery THEN BatteryFactor ELSE 1
  OBVIOUS
<1>4. a \in Nat /\ f \in Nat /\ f >= 1 /\ a >= Interval
  BY <1>1, <1>2, <1>3
<1>5. a * f \in Int /\ a * f >= a
  BY <1>4
<1>6. PublishInterval = a * f
  BY <1>2, <1>3 DEF PublishInterval
<1>7. QED
  BY <1>1, <1>4, <1>5, <1>6

\* Two messages one node publishes in one life are sent at least the shorter interval
\* apart, for every interval, factor and sequence of publications and however the trust
\* in the node and its battery change between them.
THEOREM PublicationsKeepPace == StoreSpec => []PublicationsSpaced
<1>1. StoreInit => ThrottleInv
  BY NeverIsPast DEF StoreInit, ThrottleInv, PublicationsSpaced
<1>2. ThrottleInv /\ [StoreNext]_storeVars => ThrottleInv'
  <2> SUFFICES ASSUME ThrottleInv, [StoreNext]_storeVars PROVE ThrottleInv'
    OBVIOUS
  <2>1. ASSUME NEW d \in Drafts, NEW date \in Dates, Publish(d, date) PROVE ThrottleInv'
    <3>1. now - last >= PublishInterval /\ sent' = Append(sent, now) /\ last' = now /\ now' = now
      BY <2>1 DEF Publish, PublishAllowed, RecordPublish
    <3>2. /\ Interval \in Nat /\ now \in Nat /\ last \in Int /\ last <= now
          /\ sent \in Seq(Nat) /\ \A i \in DOMAIN sent : sent[i] <= last
          /\ PublicationsSpaced
      BY StoreAssumption DEF ThrottleInv
    <3>3. now >= last + Interval
      BY <3>1, <3>2, IntervalAtLeast
    <3>4. /\ sent' \in Seq(Nat) /\ Len(sent) \in Nat
          /\ DOMAIN sent = 1 .. Len(sent) /\ DOMAIN sent' = 1 .. Len(sent) + 1
          /\ sent'[Len(sent) + 1] = now
          /\ \A i \in 1 .. Len(sent) : sent'[i] = sent[i] /\ sent[i] \in Nat
      BY <3>1, <3>2
    <3>5. \A i \in DOMAIN sent' : sent'[i] <= last'
      BY <3>1, <3>2, <3>4
    <3>6. PublicationsSpaced'
      <4> SUFFICES ASSUME NEW i \in DOMAIN sent', NEW j \in 1 .. i - 1
                   PROVE  sent'[i] >= sent'[j] + Interval
        BY DEF PublicationsSpaced
      <4>1. i \in Int /\ j \in Int /\ j \in 1 .. Len(sent)
        BY <3>4
      <4>2. sent'[j] = sent[j] /\ sent[j] \in Nat /\ sent[j] <= last
        BY <3>2, <3>4, <4>1
      <4>3. CASE i \in 1 .. Len(sent)
        BY <3>2, <3>4, <4>1, <4>2, <4>3 DEF PublicationsSpaced
      <4>4. CASE i = Len(sent) + 1
        BY <3>2, <3>3, <3>4, <4>2, <4>4
      <4>5. QED
        BY <3>4, <4>3, <4>4
    <3>7. QED
      BY <3>1, <3>2, <3>4, <3>5, <3>6 DEF ThrottleInv
  <2>2. CASE PublishPost
    <3>1. last' = now /\ now' = now /\ sent' = sent
      BY <2>2 DEF PublishPost
    <3>2. QED
      BY <3>1 DEF ThrottleInv, PublicationsSpaced
  <2>3. CASE Stop \/ PowerLoss
    <3>1. last' = Never /\ now' = now /\ sent' = <<>>
      BY <2>3 DEF Stop, PowerLoss, Down
    <3>2. QED
      BY <3>1, NeverIsPast DEF ThrottleInv, PublicationsSpaced
  <2>4. CASE Tick
    <3>1. last' = last /\ now' = now + 1 /\ sent' = sent
      BY <2>4 DEF Tick, publication
    <3>2. QED
      BY <3>1 DEF ThrottleInv, PublicationsSpaced
  <2>5. CASE \/ \E m \in Alerts : ReceiveAlert(m)
             \/ SetBatterySaver \/ BecomeTrusted \/ Sweep \/ Checkpoint \/ Start \/ StartBare
             \/ UNCHANGED storeVars
    <3>1. last' = last /\ now' = now /\ sent' = sent
      BY <2>5 DEF ReceiveAlert, SetBatterySaver, BecomeTrusted, Sweep, Checkpoint, Start, StartBare, storeVars, publication
    <3>2. QED
      BY <3>1 DEF ThrottleInv, PublicationsSpaced
  <2>6. QED
    BY <2>1, <2>2, <2>3, <2>4, <2>5 DEF StoreNext
<1>3. ThrottleInv => PublicationsSpaced
  BY DEF ThrottleInv
<1>4. QED
  BY <1>1, <1>2, <1>3, PTL DEF StoreSpec
==============================================================================
