------------------------------- MODULE Packet -------------------------------
(***************************************************************************)
(* The wire form of an event (protocol/mod.rs): fixed fields and strings   *)
(* with their length, padded with zeros to the size of a bucket, so that   *)
(* the length on the air says little.  The reader is given the padded      *)
(* packet, and nothing tells it where the event ends but the fields.       *)
(*                                                                         *)
(* A cell stands for a byte; a field of fixed size is one cell, a length   *)
(* too.                                                                    *)
(***************************************************************************)
EXTENDS Naturals, Sequences, SequencesExt, FiniteSets

CONSTANTS
  WireEvents,  \* records [id, at, kind, tags, content, sig, pow, ttl]
  Kinds,       \* kind_code of the known kinds
  Buckets,     \* TrafficPadding::BUCKETS
  MaxTags      \* tags a reader accepts (10,000)

\* An id is a hash and a signature is not zero: no event is all zeros.
ASSUME PacketAssumption ==
  /\ Buckets \subseteq Nat /\ Buckets # {} /\ IsFiniteSet(Buckets) /\ MaxTags \in Nat
  /\ Kinds \subseteq Nat
  /\ \A e \in WireEvents :
       /\ {e.id, e.at, e.sig, e.pow, e.ttl} \subseteq Nat /\ e.kind \in Kinds
       /\ e.tags \in Seq(Seq(Nat)) /\ e.content \in Seq(Nat)
       /\ e = [id |-> e.id, at |-> e.at, kind |-> e.kind, tags |-> e.tags,
               content |-> e.content, sig |-> e.sig, pow |-> e.pow, ttl |-> e.ttl]
       /\ e.id # 0 /\ e.sig # 0

VARIABLES
  origin,  \* the event that was sent
  packet   \* its packet, as it arrives

packetVars == <<origin, packet>>

None == [id |-> 0]

-----------------------------------------------------------------------------
(* Writing *)

Lengthy(s) == <<Len(s)>> \o s

\* to_wire_bytes, before the padding.
Encoded(e) ==
  <<e.id, e.at, e.kind, Len(e.tags)>>
  \o FlattenSeq([i \in DOMAIN e.tags |-> Lengthy(e.tags[i])])
  \o Lengthy(e.content) \o <<e.sig, e.pow, e.ttl>>

\* bucket_for: the smallest bucket that holds the length, or none.
Bucket(n) == {b \in Buckets : b >= n /\ \A c \in Buckets : c >= n => b <= c}

\* pad: nothing is ever cut, a packet larger than every bucket goes as it is.
Padded(s) ==
  s \o [i \in 1 .. (IF Bucket(Len(s)) = {} THEN 0 ELSE (CHOOSE b \in Bucket(Len(s)) : TRUE) - Len(s)) |-> 0]

-----------------------------------------------------------------------------
(* Reading *)

\* unpad: every zero at the end is taken for padding.  (Slip: before the fields are
\* read.)
Unpadded(s) ==
  SubSeq(s, 1, CHOOSE n \in 0 .. Len(s) :
                 /\ n = 0 \/ s[n] # 0
                 /\ \A i \in n + 1 .. Len(s) : s[i] = 0)

\* What from_wire_bytes reads: the packet with its padding.
Readable(s) == s

\* WireReader: the next position, the fields so far, and whether all was there.
Reader == [at |-> 0, got |-> <<>>, ok |-> TRUE]
Failed(r) == [r EXCEPT !.ok = FALSE]
Onward(r) == [at |-> r.at, got |-> <<>>, ok |-> r.ok]

Take(s, r) ==
  IF r.ok /\ r.at < Len(s)
  THEN [at |-> r.at + 1, got |-> Append(r.got, s[r.at + 1]), ok |-> TRUE]
  ELSE Failed(r)

TakeString(s, r) ==
  IF r.ok /\ r.at < Len(s) /\ r.at + 1 + s[r.at + 1] <= Len(s)
  THEN [at |-> r.at + 1 + s[r.at + 1],
        got |-> Append(r.got, SubSeq(s, r.at + 2, r.at + 1 + s[r.at + 1])), ok |-> TRUE]
  ELSE Failed(r)

\* The same reading, n times over.
Times(n, Read(_, _), s, r) ==
  LET run[k \in 0 .. n] == IF k = 0 THEN r ELSE Read(s, run[k - 1])
  IN  run[n]

\* from_wire_bytes: the event, or none.
Decoded(bytes) ==
  LET s     == Readable(bytes)
      head  == Times(4, Take, s, Reader)
      count == head.got[4]
      tags  == Times(count, TakeString, s, Onward(head))
      text  == TakeString(s, Onward(tags))
      tail  == Times(3, Take, s, Onward(text))
  IN  IF \/ \A i \in DOMAIN s : s[i] = 0
         \/ ~head.ok
         \/ head.got[3] \notin Kinds
         \/ count > MaxTags
         \/ ~tail.ok
      THEN None
      ELSE [id |-> head.got[1], at |-> head.got[2], kind |-> head.got[3],
            tags |-> tags.got, content |-> text.got[1],
            sig |-> tail.got[1], pow |-> tail.got[2], ttl |-> tail.got[3]]

-----------------------------------------------------------------------------
PacketInit == origin = None /\ packet = <<>>

Emit(e) ==
  /\ origin' = e
  /\ packet' = Padded(Encoded(e))

\* A packet that arrives shorter than it was: its padding or more is missing.
Shorten ==
  /\ packet # <<>>
  /\ packet' = Front(packet)
  /\ UNCHANGED origin

PacketNext == (\E e \in WireEvents : Emit(e)) \/ Shorten

PacketSpec == PacketInit /\ [][PacketNext]_packetVars

-----------------------------------------------------------------------------
\* What is read is what was written, whatever the event ends with and however
\* much of the padding arrives; a packet that misses part of the event is refused.
\* (protocol/mod.rs 471-480, and the truncation it repaired.)
RoundTrip ==
  origin # None =>
    Decoded(packet) =
      IF Len(packet) >= Len(Encoded(origin)) /\ Len(origin.tags) <= MaxTags
      THEN origin ELSE None
=============================================================================
