---------------------------- MODULE Transcription ----------------------------
(***************************************************************************)
(* Voice to text on the device (crates/whisper-stt), as built with the     *)
(* feature whisper-cpp; the default build answers a fixed text.  An engine *)
(* is made for a model that fits in memory, loads it, and transcribes      *)
(* samples, or a recording in the WAV format, which it reads chunk by      *)
(* chunk.                                                                  *)
(*                                                                         *)
(* A recording is what was spoken, a sequence of frames with one sample    *)
(* per channel, and how it was written: the order of its chunks, whether   *)
(* chunks of odd length are padded, how many cells at its end are missing. *)
(* A chunk header and the fields of the format take one cell each, the     *)
(* rest one per byte.                                                      *)
(*                                                                         *)
(* whisper.cpp is external: it fails, or says in which hundredths of a     *)
(* second it heard a phrase; asked to detect the language, it stops there. *)
(***************************************************************************)
EXTENDS Integers, Sequences, SequencesExt, FiniteSetsExt

CONSTANTS
  Recordings,   \* records [magic, frames, tag, channels, rate, bits, layout, padded, cut]
  SampleSets,   \* samples handed over without a format
  TargetRate,   \* TARGET_SAMPLE_RATE
  MaxDuration,  \* max_duration_sec
  Needs,        \* ram_mb of the models
  FreeRam,      \* get_available_ram_mb
  Phrases       \* sequences of pairs: where whisper.cpp hears phrases

ASSUME TranscriptionAssumption ==
  /\ {TargetRate, MaxDuration, FreeRam} \subseteq Nat /\ Needs \subseteq Nat
  /\ \A r \in Recordings : r.cut \in Nat /\ r.padded \in BOOLEAN

VARIABLES
  engine,  \* whether it was made, its language is given and its model is loaded
  heard    \* the last transcription: its source and its outcome

voiceVars == <<engine, heard>>

NoEngine == [made |-> FALSE]
Unheard == [from |-> "nothing"]

-----------------------------------------------------------------------------
(* Recordings, external *)

FormatLen == 2  \* the cells of a format

Byte(v) == [is |-> "byte", value |-> v]
Header(part, size) == [is |-> "header", part |-> part, size |-> size]
Fields(r) ==
  [is |-> "fields", tag |-> r.tag, channels |-> r.channels, rate |-> r.rate,
   bits |-> r.bits]

\* A sample, low byte first.
SampleBytes(v) == <<Byte(v % 256), Byte((v % 65536) \div 256)>>
PcmBytes(frames) ==
  FlattenSeq([i \in DOMAIN FlattenSeq(frames) |-> SampleBytes(FlattenSeq(frames)[i])])

Body(r, part) ==
  CASE part = "format" -> <<Fields(r), Byte(0)>>
    [] part = "short" -> <<Fields(r)>>
    [] part = "data" -> PcmBytes(r.frames)
    [] part = "odd" -> PcmBytes(r.frames) \o <<Byte(1)>>
    [] OTHER -> <<Byte(7), Byte(8), Byte(9)>>

Pad(r, part) == IF r.padded /\ Len(Body(r, part)) % 2 = 1 THEN <<Byte(0)>> ELSE <<>>

Written(r) ==
  FlattenSeq([i \in DOMAIN r.layout |->
    <<Header(r.layout[i], Len(Body(r, r.layout[i])))>>
    \o Body(r, r.layout[i]) \o Pad(r, r.layout[i])])

Cells(r) == SubSeq(Written(r), 1, Max({0, Len(Written(r)) - r.cut}))

-----------------------------------------------------------------------------
(* parse_wav *)

\* Slip: a chunk follows the one before it at once.
Aligned(n) == n

\* Chunks are word-aligned.
WordAligned(n) == n + (n % 2)

\* The chunks, a "lost" one last where one is longer than what is left: bytes that are
\* taken for a header claim more.
LostAt(cells, p) == cells[p].is # "header" \/ cells[p].size > Len(cells) - p

Chunks(cells) ==
  LET walk[p \in 1 .. Len(cells) + 2] ==
        IF p > Len(cells) THEN <<>>
        ELSE IF LostAt(cells, p) THEN <<[part |-> "lost"]>>
        ELSE <<[part |-> cells[p].part, body |-> SubSeq(cells, p + 1, p + cells[p].size)]>>
             \o walk[p + 1 + WordAligned(cells[p].size)]
  IN  walk[1]

Named(chunks, names) == SelectSeq(chunks, LAMBDA c : c.part \in names)
Formats(cells) == Named(Chunks(cells), {"format", "short"})
Datas(cells) == Named(Chunks(cells), {"data", "odd"})

\* Of several chunks of a name the last counts.
FormatOf(cells) == Last(Formats(cells)).body[1]
Pcm(cells) == Last(Datas(cells)).body

\* parse_wav: every requirement of it, in the order of the code.
ReadableWav(r) ==
  LET cells == Cells(r)
      formats == Formats(cells)
      pcm == Pcm(cells)
  IN  /\ r.magic
      /\ Named(Chunks(cells), {"lost"}) = <<>>
      /\ \A i \in DOMAIN formats : Len(formats[i].body) >= FormatLen
      /\ formats # <<>> /\ Datas(cells) # <<>>
      /\ FormatOf(cells).tag = 1 /\ FormatOf(cells).bits = 16
      /\ FormatOf(cells).channels \in {1, 2} /\ FormatOf(cells).rate = TargetRate
      /\ pcm # <<>> /\ Len(pcm) % 2 = 0
      /\ Len(pcm) >= 2 * FormatOf(cells).channels

\* i16::from_le_bytes
SignedSample(low, high) == ((low + 256 * high + 32768) % 65536) - 32768

\* The sample of a frame, twice its value, so that a mean of two is whole.
Mixed(pcm, ch, frame) ==
  (2 * FoldLeft(+, 0, [c \in 1 .. ch |->
         LET o == 2 * (frame - 1) * ch + 2 * c IN 
           SignedSample(pcm[o - 1].value, pcm[o].value)])) \div ch

SamplesOf(r) ==
  LET pcm == Pcm(Cells(r))
      ch == FormatOf(Cells(r)).channels
  IN  [i \in 1 .. Len(pcm) \div (2 * ch) |-> Mixed(pcm, ch, i)]

-----------------------------------------------------------------------------
(* The engine *)

\* WhisperEngine::new, which refuses a model that does not fit.
NewEngine(need, language) ==
  /\ ~engine.made
  /\ need <= FreeRam
  /\ engine' = [made |-> TRUE, language |-> language, loaded |-> FALSE]
  /\ heard' = Unheard

\* load_model: an absent or unreadable file changes nothing.
LoadModel ==
  /\ engine.made
  /\ engine' = [engine EXCEPT !.loaded = TRUE]
  /\ UNCHANGED heard

\* t0 and t1 of a segment, in hundredths of a second, as start_ms and end_ms.
Millis(t) == Max({t, 0}) \div 10

\* RealWhisper::transcribe: no samples, a failure of whisper.cpp, or a segment for
\* each phrase.  Without a language it only detects one.
Whisper(samples) ==
  IF samples = <<>> THEN {[is |-> "InvalidWav"]}
  ELSE {[is |-> "Whisper"]}
       \cup {[is |-> "text", samples |-> samples, phrases |-> p,
              segments |-> [i \in DOMAIN p |-> <<Millis(p[i][1]), Millis(p[i][2])>>]] :
                p \in IF engine.language THEN Phrases ELSE {<<>>}}

\* transcribe: samples as they are, of any rate.
Transcribe(samples, rate) ==
  /\ engine.made
  /\ \E o \in IF ~engine.loaded THEN {[is |-> "NotLoaded"]}
              ELSE IF rate # TargetRate THEN {[is |-> "InvalidWav"]}
              ELSE IF Len(samples) > MaxDuration * rate THEN {[is |-> "AudioTooLong"]}
              ELSE Whisper([i \in DOMAIN samples |-> 2 * samples[i]]) :
       heard' = [from |-> "samples", outcome |-> o]
  /\ UNCHANGED engine

\* transcribe_wav: the recording is read before anything else; how long it is does not
\* matter.
TranscribeWav(r) ==
  /\ engine.made
  /\ \E o \in IF ~ReadableWav(r) THEN {[is |-> "InvalidWav"]}
              ELSE IF ~engine.loaded THEN {[is |-> "NotLoaded"]}
              ELSE Whisper(SamplesOf(r)) :
       heard' = [from |-> "recording", recording |-> r, outcome |-> o]
  /\ UNCHANGED engine

-----------------------------------------------------------------------------
VoiceInit == engine = NoEngine /\ heard = Unheard

VoiceNext ==
  \/ \E need \in Needs, language \in BOOLEAN : NewEngine(need, language)
  \/ LoadModel
  \/ \E s \in SampleSets, rate \in {TargetRate, TargetRate + 1} : Transcribe(s, rate)
  \/ \E r \in Recordings : TranscribeWav(r)

-----------------------------------------------------------------------------
(* Properties *)

\* A recording as the format wants it, of one or two channels.
SoundRecording(r) ==
  /\ r.magic /\ r.padded /\ r.cut = 0 /\ r.frames # <<>>
  /\ r.tag = 1 /\ r.channels \in {1, 2} /\ r.rate = TargetRate /\ r.bits = 16
  /\ ToSet(r.layout) \subseteq {"format", "data", "list"}
  /\ {"format", "data"} \subseteq ToSet(r.layout)

\* What is transcribed of a recording is all of what was spoken, each frame the mean of
\* its channels, however its chunks are ordered and wherever it is cut; and a recording
\* without a fault is never refused.
HeardWhole ==
  heard.from = "recording" =>
    LET spoken == heard.recording.frames IN
      /\ heard.outcome.is = "text" =>
           heard.outcome.samples =
             [i \in DOMAIN spoken |-> (2 * FoldLeft(+, 0, spoken[i])) \div Len(spoken[i])]
      /\ heard.outcome.is = "InvalidWav" => ~SoundRecording(heard.recording)

\* The times of the segments are in milliseconds, as their names and a comment say.
TimesInMilliseconds ==
  heard.from # "nothing" /\ heard.outcome.is = "text" =>
    \A i \in DOMAIN heard.outcome.segments :
      \A side \in {1, 2} :
        heard.outcome.segments[i][side] = 10 * Max({0, heard.outcome.phrases[i][side]})
=============================================================================
