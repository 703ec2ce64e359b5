----------------------------- MODULE Publication -----------------------------
(***************************************************************************)
(* What a node may publish and what another one accepts of it: the bounds  *)
(* of the social contents (social.rs), the events made of them and of the  *)
(* chunks of an update (node/mod.rs), the caps their readers put on raw    *)
(* payloads, and the size of the packets they travel in.  Each layer has   *)
(* limits of its own: characters, bytes of a payload, bytes of a frame.    *)
(*                                                                         *)
(* A text is a record: its characters, how many bytes of JSON the longest  *)
(* of them takes, whether it is all blanks and whether all its characters  *)
(* may occur in the name of a community.  A field that may be absent is a  *)
(* set of at most one text.                                                *)
(***************************************************************************)
EXTENDS Integers, FiniteSetsExt

CONSTANTS
  Texts,          \* what users write
  MaxTuitter, MaxTitle, MaxRedit, MaxSlug, MaxId,  \* characters
  MaxMessage, MaxReason,
  Caps,           \* SOCIAL_*_MAX_BYTES by kind
  Wrapping,       \* bytes of JSON around the texts, the author and the id included
  Labels,         \* bytes of the tags
  PayloadChunk,   \* DEFAULT_CHUNK_SIZE
  PacketBuckets,  \* TrafficPadding::BUCKETS
  MaxFrame,       \* MAX_FRAME_PAYLOAD
  TopDifficulty   \* MAX_POW_DIFFICULTY

ASSUME PublicationAssumption ==
  /\ \A t \in Texts : t.chars \in Nat /\ t.width \in 1 .. 6
  /\ {MaxTuitter, MaxTitle, MaxRedit, MaxSlug, MaxId, MaxMessage, MaxReason, Wrapping,
      Labels, PayloadChunk, MaxFrame, TopDifficulty} \subseteq Nat
  /\ PacketBuckets \subseteq Nat /\ PacketBuckets # {}

\* node/mod.rs 345-350: six bytes are the most that JSON makes of a character.
ASSUME RoomAssumption ==
  /\ DOMAIN Caps = {"SocialPost", "SocialComment", "SocialVote", "SocialFollow",
                    "SocialMessage", "SocialModeration"}
  /\ \A kind \in DOMAIN Caps : Caps[kind] \in Nat
  /\ Caps["SocialPost"] >= Wrapping + 6 * MaxTuitter
  /\ Caps["SocialPost"] >= Wrapping + 6 * (MaxRedit + MaxTitle + MaxSlug)
  /\ Caps["SocialComment"] >= Wrapping + 6 * (2 * MaxId + MaxRedit)
  /\ Caps["SocialVote"] >= Wrapping + 6 * MaxId
  /\ Caps["SocialFollow"] >= Wrapping
  /\ Caps["SocialMessage"] >= Wrapping + 6 * MaxMessage
  /\ Caps["SocialModeration"] >= Wrapping + 6 * (MaxId + MaxReason)

VARIABLE
  published  \* the last event published: [kind, content, bytes, difficulty], or none

Unpublished == [kind |-> "none"]

-----------------------------------------------------------------------------
(* Bounds *)

Within(t, least, most) == t.chars \in least .. most
Says(t) == ~t.blank /\ t.chars > 0

\* parse_social_platform
Platform(name) ==
  CASE name \in {"Tuitter", "tuitter"} -> "Tuitter"
    [] name \in {"Redit", "redit"} -> "Redit"
    [] OTHER -> "unknown"

\* SocialPost::validate
PostSound(p) ==
  /\ Says(p.body)
  /\ CASE p.platform = "Tuitter" ->
            p.title = {} /\ p.slug = {} /\ p.body.chars <= MaxTuitter
       [] p.platform = "Redit" ->
            /\ \E t \in p.title : Says(t) /\ t.chars <= MaxTitle
            /\ \E s \in p.slug : Within(s, 1, MaxSlug) /\ s.slug
            /\ p.body.chars <= MaxRedit
       [] OTHER -> FALSE

\* SocialComment::validate.  The parent is only asked not to be the comment itself,
\* whose id is drawn.
CommentSound(c) ==
  /\ Within(c.post, 1, MaxId)
  /\ Says(c.body) /\ c.body.chars <= MaxRedit

\* The arms of handle_incoming_social for the other kinds.  A direction that is not
\* a number counts as 1, and 0 passes.
VoteSound(v) == Within(v.target, 1, MaxId) /\ v.direction \in -1 .. 1 /\ v.table \in {"posts", "comments"}
FollowSound(f) == f.followed
MessageSound(m) == m.recipient /\ Says(m.body) /\ m.body.chars <= MaxMessage
ModerationSound(r) == Within(r.target, 1, MaxId) /\ Says(r.reason) /\ r.reason.chars <= MaxReason

Sound(e) ==
  CASE e.kind = "SocialPost"       -> PostSound(e.content)
    [] e.kind = "SocialComment"    -> CommentSound(e.content)
    [] e.kind = "SocialVote"       -> VoteSound(e.content)
    [] e.kind = "SocialFollow"     -> FollowSound(e.content)
    [] e.kind = "SocialMessage"    -> MessageSound(e.content)
    [] e.kind = "SocialModeration" -> ModerationSound(e.content)

-----------------------------------------------------------------------------
(* Sizes *)

Bytes(t) == t.chars * t.width
Weight(S) == MapThenSumSet(Bytes, S)

Base64(n) == 4 * ((n + 2) \div 3)

\* to_wire_bytes, then pad: nothing is cut, so past the last bucket the packet is as
\* long as the event.
Encoding(e) == 155 + Labels + e.bytes
PacketSize(e) == Min({b \in PacketBuckets : b >= Encoding(e)} \cup
                  (IF Encoding(e) > Max(PacketBuckets) THEN {Encoding(e)} ELSE {}))

-----------------------------------------------------------------------------
(* Publishing *)

\* The work is done for what the node itself asks of its own key, and the event is
\* validated before it enters the gossip.
Publish(kind, content, bytes, difficulty) ==
  published' = [kind |-> kind, content |-> content, bytes |-> bytes, difficulty |-> difficulty]

\* publish_social_post, from social_publish_post, which knows the capitalised names
\* only and gives their own labels to it.
PublishPost(platform, title, body, slug, difficulty) ==
  LET post == [platform |-> Platform(platform), title |-> title, body |-> body, slug |-> slug]
  IN  /\ PostSound(post)
      /\ Publish("SocialPost", post, Wrapping + Weight({body}) + Weight(title) + Weight(slug), difficulty)

\* publish_social_comment
PublishComment(post, parent, body, difficulty) ==
  LET comment == [post |-> post, parent |-> parent, body |-> body]
  IN  /\ CommentSound(comment)
      /\ Publish("SocialComment", comment, Wrapping + Bytes(post) + Weight(parent) + Bytes(body), difficulty)

\* on_update_request: a chunk of the package offered, as text.
PublishChunk(length, difficulty) ==
  /\ length \in 1 .. PayloadChunk
  /\ Publish("UpdateChunk", length, Base64(length), difficulty)

-----------------------------------------------------------------------------
(* Receiving *)

\* Slip: four bytes for each character, escapes forgotten.
WithinCapUnescaped(e) == e.bytes <= Wrapping + 4 * (MaxRedit + MaxTitle + MaxSlug)

\* check_social_payload_size
WithinCap(e) == e.bytes <= Caps[e.kind]

\* handle_incoming_social: an event that it refuses is held against its author.
Accepts(e, required) == WithinCap(e) /\ Sound(e) /\ e.difficulty >= required

\* Votes, subscriptions, messages and reports are written elsewhere: src/ only
\* reads them, and answers them with Accepts.
WriteElsewhere(kind, content, bytes, difficulty) ==
  Publish(kind, content, Wrapping + bytes, difficulty)

PublicationInit == published = Unpublished

Optional(S) == {{}} \cup {{t} : t \in S}

PublicationNext ==
  \E difficulty \in 0 .. TopDifficulty :
    \/ \E name \in {"Tuitter", "tuitter", "Redit", "redit", "other"}, body \in Texts,
          title, slug \in Optional(Texts) : PublishPost(name, title, body, slug, difficulty)
    \/ \E post, body \in Texts, parent \in Optional(Texts) :
          PublishComment(post, parent, body, difficulty)
    \/ \E n \in {1, PayloadChunk \div 2, PayloadChunk} : PublishChunk(n, difficulty)
    \/ \E t, u \in Texts, direction \in -2 .. 2, key \in BOOLEAN, table \in {"posts", "users"} :
          \/ WriteElsewhere("SocialVote", [target |-> t, direction |-> direction, table |-> table],
                            Bytes(t), difficulty)
          \/ WriteElsewhere("SocialFollow", [followed |-> key], 0, difficulty)
          \/ WriteElsewhere("SocialMessage", [recipient |-> key, body |-> t], Bytes(t), difficulty)
          \/ WriteElsewhere("SocialModeration", [target |-> t, reason |-> u], Bytes(t) + Bytes(u), difficulty)

PublicationSpec == PublicationInit /\ [][PublicationNext]_published

-----------------------------------------------------------------------------
Own == {"SocialPost", "SocialComment"}

\* What a node lets its user publish, no other node holds against it, and a node holds
\* against nobody what is within the bounds in characters: the raw caps of the readers
\* leave room for the worst such content, whatever JSON makes of it (node/mod.rs
\* 345-350).  Provided that the reader asks no more work than the author did, and that
\* a comment names its parent within the bound on ids, which nothing checks.
PublishedAccepted ==
  published.kind \in DOMAIN Caps =>
    \A required \in 0 .. published.difficulty :
      /\ published.kind \in Own \/ Sound(published)
      /\ published.kind = "SocialComment" => \A p \in published.content.parent : p.chars <= MaxId
      => Accepts(published, required)

\* network/tcp.rs 70-72: the packet of an event is never larger than a frame.
PacketFitsFrame == published # Unpublished => PacketSize(published) <= MaxFrame
=============================================================================
