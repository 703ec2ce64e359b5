------------------------------ MODULE MCLocal ------------------------------
(* Model-checking instance of the parts of a node that no other part waits  *)
(* for: the wire form of events and what seals them, what may be published, *)
(* the pool of transactions, the rotation of a session key, the readers of  *)
(* offline content and what a node shows of it, the cache of social events  *)
(* and the paging of the feed, the language model and the transcription of  *)
(* voice.  A behaviour is about one of them, and locates one position,      *)
(* publishes one event or transcribes one recording.                        *)
EXTENDS Packet, TxPool, Offline, Shelf, Seal, Publication, IdentityRotation, Feed,
        SocialStore, Inference, Transcription

CONSTANTS pa, pb, ca, cb, cc, cx  \* posts and comments

VARIABLE part

vars == <<part, packetVars, poolVars, offlineVars, shelfVars, sealVars, published, rotationVars,
          feedVars, socialVars, inferenceVars, voiceVars>>

\* Events that end with zeros, hold zeros, have no tags or one too many.
MCWireEvents ==
  {[id |-> 1, at |-> at, kind |-> kind, tags |-> tags, content |-> content,
    sig |-> 1, pow |-> pow, ttl |-> ttl] :
     at \in {0, 1}, kind \in {0, 1}, pow \in {0, 1}, ttl \in {0, 1},
     tags \in {<<>>, <<<<>>>>, <<<<0>>, <<2, 0>>>>, <<<<>>, <<>>, <<>>>>},
     content \in {<<>>, <<0>>, <<1, 0>>}}

GoodTiles ==
  [kind |-> "sqlite", has |-> {"metadata", "tiles"}, columns |-> TRUE, name |-> <<"given">>,
   format |-> <<"jpeg">>, bounds |-> <<>>, center |-> <<>>, min |-> <<>>, max |-> <<>>,
   rows |-> {<<0, 0, 0>>, <<1, 0, 1>>, <<2, 3, 0>>, <<2, 1, 2>>, <<2, 4, 0>>, <<3, 1, 1>>, <<4, 0, 0>>}]

MCTileFiles ==
  {[GoodTiles EXCEPT !.kind = k] : k \in {"absent", "directory", "text"}}
  \cup {[GoodTiles EXCEPT !.has = h] : h \in SUBSET {"metadata", "tiles", "map", "images"}}
  \cup {[GoodTiles EXCEPT !.columns = FALSE]}
  \cup {[GoodTiles EXCEPT !.name = n] : n \in {<<>>, <<"blank">>}}
  \cup {[GoodTiles EXCEPT !.format = f] : f \in {<<>>, <<"gif", "png">>, <<"webp", "gif">>}}
  \cup {[GoodTiles EXCEPT !.bounds = <<b>>] :
          b \in {<<0, 0>>, <<-5, -5, 5, 5>>, <<5, -5, -5, 5>>, <<-200, 0, 0, 0>>}}
  \cup {[GoodTiles EXCEPT !.center = <<c>>] : c \in {<<0, 0, 2>>, <<0, 91, 2>>, <<0, 0, 256>>}}
  \cup {[GoodTiles EXCEPT !.min = lo, !.max = hi] :
          lo, hi \in {<<>>, <<0>>, <<1>>, <<2, 0>>, <<3>>, <<999>>}}
  \cup {[GoodTiles EXCEPT !.rows = r] : r \in {{}, {<<-1, 0, 0>>, <<1, 1, 0>>}}}

\* Two clusters of blobs of 1, 2 and 3 cells, the second compressed from 7; hole
\* cells separate them.  The blobs end at 206 and 212, and at 220 without a hole.
Dirent(at, url, title, cluster, begin, size, blob) ==
  [at |-> at, url |-> url, title |-> title, cluster |-> cluster, offset |-> begin,
   size |-> size, blob |-> blob]

Archive(hole, named, known) ==
  [magic |-> TRUE, major |-> 6, room |-> 40, articles |-> 3,
   clusters |-> <<[at |-> 200, blobs |-> <<1, 2>>, raw |-> <<1, 2>>, known |-> TRUE],
                  [at |-> 212 + hole, blobs |-> <<3>>, raw |-> <<7>>, known |-> known]>>,
   dirents |-> <<Dirent(100, <<1>>, <<1, 2>>, 1, 1, 1, 1),
                 Dirent(130, <<2>>, <<2>>, 1, 6, 2, 2),
                 IF named THEN Dirent(220 + hole, <<1, 2>>, <<1>>, 2, 1, 7, 1)
                 ELSE Dirent(220 + hole, <<1>>, <<1>>, 1, 6, 2, 2)>>,
   size |-> 260 + hole]

MCArchives ==
  {Archive(hole, named, known) : hole \in {0, 5}, named, known \in BOOLEAN}
  \cup {[Archive(0, TRUE, TRUE) EXCEPT !.magic = FALSE],
        [Archive(0, TRUE, TRUE) EXCEPT !.major = 7],
        [Archive(0, TRUE, TRUE) EXCEPT !.room = 20],
        [Archive(0, TRUE, TRUE) EXCEPT !.size = 220],
        [Archive(0, TRUE, TRUE) EXCEPT !.size = 230]}
  \cup {[Archive(0, TRUE, TRUE) EXCEPT !.dirents[3].at = 160, !.size = cut] :
          cut \in {201, 205, 206, 212, 213, 215, 220}}

MCQueries == {<<>>, <<1>>, <<1, 2>>, <<3>>}

MCZimFiles ==
  {[there |-> TRUE, long |-> l, major |-> v, count |-> 9] : l \in BOOLEAN, v \in {4, 5}}
  \cup {[there |-> FALSE, long |-> FALSE, major |-> 0, count |-> 0]}

MCSeedSizes == [wikipedia |-> 90, apk |-> 1, qwen |-> 6]

\* Four contents that are the same with nothing between the tags and the content.
MCDrafts ==
  {[kind |-> k, tags |-> d[1], content |-> d[2]] :
     k \in {"Alert", "SocialPost"},
     d \in {<< <<>>, <<1>> >>, << << <<1>> >>, <<>> >>,
            << << <<1>>, <<2>> >>, <<3, 4>> >>, << << <<1, 2>> >>, <<3, 4>> >>}}

MCZeros(id, nonce) == (id[2] + id[3] + Len(id[4]) + nonce) % 3

\* Each bound met and passed, in characters that JSON writes as one byte or as six.
MCTexts ==
  {[chars |-> c, width |-> w, blank |-> FALSE, slug |-> FALSE] :
     c \in {1, 128, 129, 300, 301, 500, 501, 2000, 2001, 40000, 40001}, w \in {1, 6}}
  \cup {[chars |-> c, width |-> 1, blank |-> FALSE, slug |-> TRUE] : c \in {50, 51}}
  \cup {[chars |-> c, width |-> 1, blank |-> TRUE, slug |-> TRUE] : c \in {0, 2}}

MCCaps ==
  [SocialPost |-> 524288, SocialComment |-> 524288, SocialVote |-> 4096,
   SocialFollow |-> 4096, SocialMessage |-> 16384, SocialModeration |-> 8192]

\* A thread of three under pa, and a comment of pb that answers one of pa.
MCPostOf == [c \in Comments |-> IF c = cx THEN pb ELSE pa]
MCParentOf ==
  [c \in Comments |-> CASE c = cb -> ca [] c = cc -> cb [] c = cx -> ca [] OTHER -> "none"]

\* A stop sequence in two pieces, a character in two.
MCPieces == {<<"<">>, <<">", "a">>, <<"a">>, <<"lead">>, <<"tail">>}
MCStops == {<<"<", ">">>, <<>>}

\* Sound, unsound in one respect, written in every order and cut anywhere.
Recorded ==
  [magic |-> TRUE, frames |-> << <<1, -1>>, <<300, 302>> >>, tag |-> 1, channels |-> 2,
   rate |-> 2, bits |-> 16, layout |-> <<"format", "data">>, padded |-> TRUE, cut |-> 0]

MCRecordings ==
  {[Recorded EXCEPT !.layout = l, !.padded = p, !.cut = k] :
     l \in {<<"format", "data">>, <<"list", "format", "data">>, <<"format", "list", "data">>,
            <<"data", "format">>, <<"format", "data", "list">>, <<"data", "list", "format">>},
     p \in BOOLEAN, k \in 0 .. 12}
  \cup {[Recorded EXCEPT !.layout = l] :
          l \in {<<>>, <<"format">>, <<"data">>, <<"short", "data">>, <<"format", "odd">>}}
  \cup {[Recorded EXCEPT !.frames = f, !.channels = 1] :
          f \in {<<>>, << <<-32768>> >>, << <<32767>>, <<-1>>, <<0>> >>}}
  \cup {[Recorded EXCEPT !.magic = FALSE], [Recorded EXCEPT !.tag = 3],
        [Recorded EXCEPT !.bits = 8], [Recorded EXCEPT !.rate = 3],
        [Recorded EXCEPT !.frames = << <<1, 2, 3>> >>, !.channels = 3]}

MCSamples == {<<>>, <<5>>, <<1, -1, 2>>, <<1, 2, 3, 4, 5>>}

MCPhrases == {<<>>, << <<-1, 0>> >>, << <<0, 20>>, <<20, 35>> >>}

Parts ==
  {"wire", "pool", "offline", "shelf", "position", "seal", "envelope", "publication",
   "rotation", "feed", "social", "rows", "inference", "voice"}

Init ==
  /\ part \in Parts
  /\ PacketInit /\ PoolInit /\ OfflineInit /\ ShelfInit /\ SealInit /\ PublicationInit
  /\ RotationInit /\ (part # "rotation" => clock = 0)
  /\ FeedInit /\ SocialInit /\ InferenceInit /\ VoiceInit

\* What the other parts hold stays as it is.
Only(p) ==
  /\ part = p /\ UNCHANGED part
  /\ IF p = "wire" THEN TRUE ELSE UNCHANGED packetVars
  /\ IF p = "pool" THEN TRUE ELSE UNCHANGED poolVars
  /\ IF p = "offline" THEN TRUE ELSE UNCHANGED offlineVars
  /\ IF p \in {"shelf", "position"} THEN TRUE ELSE UNCHANGED shelfVars
  /\ IF p \in {"seal", "envelope"} THEN TRUE ELSE UNCHANGED sealVars
  /\ IF p = "publication" THEN TRUE ELSE UNCHANGED published
  /\ IF p = "rotation" THEN TRUE ELSE UNCHANGED rotationVars
  /\ IF p = "feed" THEN TRUE ELSE UNCHANGED feedVars
  /\ IF p \in {"social", "rows"} THEN TRUE ELSE UNCHANGED socialVars
  /\ IF p = "inference" THEN TRUE ELSE UNCHANGED inferenceVars
  /\ IF p = "voice" THEN TRUE ELSE UNCHANGED voiceVars

Next ==
  \/ Only("wire") /\ PacketNext
  \/ Only("pool") /\ PoolNext
  \/ Only("offline") /\ OfflineNext
  \/ Only("shelf") /\ ContentNext
  \/ Only("position") /\ place = Nowhere /\ PositionNext
  \/ Only("seal") /\ EventNext
  \/ Only("envelope") /\ EnvelopeNext
  \/ Only("publication") /\ published = Unpublished /\ PublicationNext
  \/ Only("rotation") /\ RotationNext
  \/ Only("feed") /\ FeedNext
  \/ Only("social") /\ ThreadNext
  \/ Only("rows") /\ RowNext
  \/ Only("inference") /\ InferenceNext
  \/ Only("voice") /\ heard = Unheard /\ VoiceNext

Spec == Init /\ [][Next]_vars
=============================================================================
