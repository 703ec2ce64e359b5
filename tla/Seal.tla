-------------------------------- MODULE Seal --------------------------------
(***************************************************************************)
(* What an author answers for (protocol/mod.rs, crypto/mod.rs): the id of  *)
(* an event is a hash of the fields that mean something, the signature is  *)
(* over the id, the proof of work over the id and a nonce; the nonce, its  *)
(* difficulty and the ttl may change under way without breaking either.    *)
(* And what a private envelope lets its reader be sure of.                 *)
(*                                                                         *)
(* A hash is the value hashed, a signature the pair of its key and its     *)
(* text, a shared secret the set of the two keys it is drawn from.  A key  *)
(* that is not the hexadecimal form of one is "unreadable", as is such a   *)
(* signature.                                                              *)
(***************************************************************************)
EXTENDS Integers, Sequences, SequencesExt, FiniteSetsExt

CONSTANTS
  Signers,        \* public keys
  Drafts,         \* records [kind, tags, content]: what authors may write
  Zeros(_, _),    \* leading zeros of the hash of an id and a nonce
  Nonces,         \* max_iterations of compute_pow
  MaxDifficulty,  \* MAX_POW_DIFFICULTY
  MaxAlert,       \* MAX_ALERT_SIZE
  Skew,           \* MAX_CLOCK_SKEW_SECS
  Fuzz,           \* fuzzy_timestamp_secs: at most this far from the clock
  MaxClock,       \* bound on the clocks
  MaxChanges      \* bound on what changes under way

KindCode ==
  [Alert |-> 0, MutualAid |-> 1, VoiceMemo |-> 2, Transcription |-> 3, Transaction |-> 4,
   AiQuery |-> 5, AiResponse |-> 6, FileShareRequest |-> 7, Heartbeat |-> 8,
   UpdateAnnounce |-> 9, UpdateManifest |-> 10, UpdateChunk |-> 11, UpdateRequest |-> 12,
   Endorsement |-> 13, IdentityRotation |-> 14, AbuseReport |-> 15,
   SocialPost |-> 16, SocialComment |-> 17, SocialVote |-> 18, SocialFollow |-> 19,
   SocialMessage |-> 20, SocialModeration |-> 21]

ASSUME SealAssumption ==
  /\ Signers \cap {"unreadable", "ephemeral", "another"} = {}
  /\ \A d \in Drafts : d.kind \in DOMAIN KindCode
  /\ {Nonces, MaxDifficulty, MaxAlert, Skew, Fuzz, MaxClock, MaxChanges} \subseteq Nat
  /\ Fuzz <= Skew

VARIABLES
  sealed,    \* the event as its author made it, and the author's clock
  event,     \* the event as it is read
  envelope,  \* an envelope as it is read, and what it was made of
  changes    \* changes under way

sealVars == <<sealed, event, envelope, changes>>

Unmade == [id |-> <<>>]

-----------------------------------------------------------------------------
(* Making *)

\* Slip: the tags and the content are hashed one after the other, nothing between.
IdRunTogether(e) ==
  <<e.pubkey, e.at, KindCode[e.kind], FlattenSeq(e.tags) \o e.content>>

\* compute_id: an array keeps its elements apart.
Id(e) == <<e.pubkey, e.at, KindCode[e.kind], e.tags, e.content>>

Signed(key, text) == [by |-> key, text |-> text]
Unsigned == Signed("unreadable", <<>>)

\* verify_from_pubkey, on what decode_hex_32 and decode_hex_64 could read.
Verifies(key, text, sig) == key \in Signers /\ sig = Signed(key, text)

\* verify_pow
Works(e) == Zeros(e.id, e.nonce) >= e.difficulty

\* compute_pow: the first nonce that does, or failure with the nonce of new_signed.
Solutions(id, difficulty) == {n \in 0 .. Nonces - 1 : Zeros(id, n) >= difficulty}

\* fuzzy_timestamp_secs: never below zero.
FuzzyTimestamps(clock) == {Max({clock + shift, 0}) : shift \in -Fuzz .. Fuzz}

\* new_signed, with_pow_difficulty, compute_pow: an event whose work cannot be
\* done is not published.
SealEvent(a, d, clock, difficulty) ==
  \E at \in FuzzyTimestamps(clock) :
    LET e  == [pubkey |-> a, at |-> at, kind |-> d.kind,
               tags |-> d.tags, content |-> d.content]
        id == Id(e)
    IN  /\ Solutions(id, difficulty) # {}
        /\ event' = [pubkey |-> a, at |-> at, kind |-> d.kind, tags |-> d.tags,
                     content |-> d.content, id |-> id, sig |-> Signed(a, id),
                     nonce |-> Min(Solutions(id, difficulty)), difficulty |-> difficulty]
        /\ sealed' = [event |-> event', clock |-> clock]
        /\ UNCHANGED <<envelope, changes>>

-----------------------------------------------------------------------------
(* Reading *)

TooLong(e) == e.kind = "Alert" /\ Len(e.content) > MaxAlert
FromFuture(e, clock) == e.at > clock + Skew
SignatureValid(e) == Verifies(e.pubkey, e.id, e.sig)

\* validate_with_pow_min, with the difficulty the author's reputation asks for;
\* validate is the same with 1.
Validates(e, required, clock) ==
  /\ ~TooLong(e) /\ ~FromFuture(e, clock)
  /\ e.id = Id(e)
  /\ SignatureValid(e)
  /\ e.difficulty >= required /\ Works(e)

-----------------------------------------------------------------------------
(* Envelopes *)

\* EncryptedEnvelope::encrypt: the key is drawn from an ephemeral key and the
\* recipient's, and the sender's is bound to the text.
Enclose(from, to, text) ==
  LET box == [secret |-> {"ephemeral", to}, bound |-> from, text |-> text]
  IN  /\ envelope' = [sender |-> from, ephemeral |-> "ephemeral", box |-> box,
                      made |-> [from |-> from, to |-> to, text |-> text]]
      /\ UNCHANGED <<sealed, event, changes>>

\* decrypt
Opens(e, reader) == e.box.secret = {e.ephemeral, reader} /\ e.box.bound = e.sender

-----------------------------------------------------------------------------
(* Under way *)

\* What a field may become: a value another event has there, or one computed anew,
\* but no signature of a text its owner did not sign or see.
Others(field) ==
  CASE field = "pubkey"  -> Signers \cup {"unreadable"}
    [] field = "at"      -> 0 .. MaxClock + Fuzz
    [] field = "kind"    -> {d.kind : d \in Drafts}
    [] field = "tags"    -> {d.tags : d \in Drafts}
    [] field = "content" -> {d.content : d \in Drafts}
    [] field = "id"      -> {Id(event)}
    [] field = "sig"     -> {Signed(a, sealed.event.id) : a \in Signers} \cup {Unsigned}
    [] field = "nonce"   -> 0 .. Nonces - 1
    [] field = "difficulty" -> 0 .. MaxDifficulty

\* The ttl counts for nothing here.
Changes(field) ==
  /\ event # Unmade /\ changes < MaxChanges
  /\ \E v \in Others(field) \ {event[field]} : event' = [event EXCEPT ![field] = v]
  /\ changes' = changes + 1
  /\ UNCHANGED <<sealed, envelope>>

Readdressed ==
  /\ envelope # Unmade
  /\ \/ \E a \in Signers \ {envelope.sender} : envelope' = [envelope EXCEPT !.sender = a]
     \/ envelope' = [envelope EXCEPT !.ephemeral = "another"]
  /\ UNCHANGED <<sealed, event, changes>>

SealInit ==
  /\ sealed = Unmade /\ event = Unmade /\ envelope = Unmade
  /\ changes = 0

EventNext ==
  \/ /\ event = Unmade
     /\ \E a \in Signers, d \in Drafts, clock \in 0 .. MaxClock, difficulty \in 0 .. MaxDifficulty :
          SealEvent(a, d, clock, difficulty)
  \/ \E field \in (IF event = Unmade THEN {} ELSE DOMAIN event) : Changes(field)

EnvelopeNext ==
  \/ \E from, to \in Signers, text \in {d.content : d \in Drafts} : Enclose(from, to, text)
  \/ Readdressed

SealNext == EventNext \/ EnvelopeNext

SealSpec == SealInit /\ [][SealNext]_sealVars

-----------------------------------------------------------------------------
Meaning(e) == <<e.pubkey, e.at, e.kind, e.tags, e.content>>

EventSealed ==
  \A required \in 0 .. MaxDifficulty, clock \in 0 .. MaxClock :
    /\ Validates(event, required, clock) =>
         /\ Meaning(event) = Meaning(sealed.event)
         /\ Zeros(Id(sealed.event), event.nonce) >= required
    /\ /\ changes = 0 /\ ~TooLong(event)
       /\ required <= event.difficulty
       /\ sealed.clock - clock <= Skew - Fuzz
       => Validates(event, required, clock)

EnvelopeSealed ==
  \A reader \in Signers :
    Opens(envelope, reader) <=>
      /\ reader = envelope.made.to
      /\ envelope.sender = envelope.made.from /\ envelope.ephemeral = "ephemeral"

\* Whatever changed under way, an event that a reader takes for valid says what its
\* author sealed, at the time and under the kind it was sealed with, and the reader
\* had the work it asks for done.  One that nothing changed is valid for every reader
\* that asks no more work than was done and whose clock is not behind the author's by
\* more than the two tolerances leave (crypto/mod.rs 259-264).  An envelope opens for
\* the one it was written to, and only as it was written: a relay that puts another
\* sender on it makes it unreadable (crypto/mod.rs 199-201).
SealHolds ==
  /\ event # Unmade => EventSealed
  /\ envelope # Unmade => EnvelopeSealed
=============================================================================
