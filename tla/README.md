# TLA+ development for onde-resilience

Onde is a mesh node for emergency messaging. The Rust library in `core/` keeps
a gossip of signed events, carries it over TCP links, filters what peers send by
reputation, stores messages and a cache of social events, and serves content
without a network. This directory holds TLA+ modules of that library, the TLC
configurations that check them on small instances, and proofs, checked by TLAPS,
of the properties that matter most.

Run `tlc -config X.cfg M` for a model, `tlapm M.tla` for the proofs. Paths below
are relative to the root of the repository; line numbers are those of the commit
the modules were translated from. `core/src/` is left out of the names of files
in it.

## 1. Inventory

| Component | Code | State | Operations | Modules |
|---|---|---|---|---|
| Gossip protocol | `protocol/mod.rs` | known ids, outbox, per-peer list of handed ids | insert with two evictions, peek, mark, three emissions | `Gossip`, `GossipProofs` |
| TCP, client side, and the pump | `network/tcp.rs`, `bin/node.rs` | queue of each peer, client thread, one writer per connection, batch in progress, inbound queue, stop flag | dial, read, write, re-queue, flush_outbound, process_inbound, shut down | `TcpLink`, `LinkProofs` |
| TCP, server side; health endpoint | `network/tcp.rs`, `health.rs` | connection slots, consecutive errors, bytes read so far | accept, refuse, serve, release, answer | `Server`, `SlotPool`, `ServerProofs` |
| Dispatcher and gate, anti-abuse ledger, spam guard, partition and heal | `node/mod.rs`, `reputation/` | windows, abuse records, weighed reports, last contacts, grace | receive_peer_event, report_abuse, admit, record, decay | `Admission`, `AdmissionProofs` |
| Web of Trust | `reputation/mod.rs`, `node/mod.rs` | scores, endorsements | endorse, receive, relay, promote | `WebOfTrust`, `TrustProofs` |
| Message store, SQLite mirror, identity seed, publication throttle | `storage/`, `node/mod.rs`, `bin/node.rs`, Tauri commands | memory and its gauge, table, write-ahead log, seed, last publication | publish, receive, sweep, power loss, three kinds of start | `MessageStore`, `DurableProofs` |
| Updates | `update/mod.rs`, `node/mod.rs` | version, accepted announcement, transfer, offer | announce, request, serve, assemble, install | `Update`, `DurableProofs` |
| Identity rotation | `crypto/mod.rs`, `node/mod.rs` | session key, numbers, grace key | rotate, announce, receive | `IdentityRotation`, `LocalProofs` |
| Social events and their store | `social.rs`, `social_store.rs`, `node/mod.rs`, Tauri commands | posts, comments, buffer of orphans, votes, pairs, messages | receive, promote, vote, delete, list | `SocialStore`, `Publication`, `Feed`, `LocalProofs` |
| Event format | `protocol/mod.rs`, `crypto/mod.rs` | none | encode, pad, decode, seal, validate, encrypt | `Packet`, `Seal`, `LocalProofs` |
| DTN router | `core/crates/dtn-router` | buffers, statistics | submit, encounter, tick | `DtnRouter`, `DtnProofs` |
| Transaction pool (declared a mock) | `crypto/mod.rs` | pending, committed, roots | submit, commit | `TxPool`, `LocalProofs` |
| Offline content | `core/crates/zim-parser`, `core/crates/mbtiles-parser`, `storage/mod.rs` | opened files, caches, seeds, position | open, look up, search, locate | `Offline`, `Shelf`, `LocalProofs` |
| Local AI | `core/crates/llama-bind` | context, its cells, the request | load, ask, draw | `Inference`, `LocalProofs` |
| Voice transcription | `core/crates/whisper-stt` | engine, last outcome | make, load, read a recording, transcribe | `Transcription` |
| Tauri bridge | `ui/src-tauri` | the node, if it runs | start, stop, battery switch, feed | in `MessageStore`, `Feed` |
| Metrics text, web UI, Android shell, simulation, whisper.cpp | elsewhere | | | left out |

**How they interact.** One thread owns the `Node`. Its main loop
(`bin/node.rs`) runs the pump every 200 ms: `process_inbound` takes the events
that the serving threads have queued and gives each to `receive_peer_event`;
`flush_outbound` moves events of the outbox to the queue of each peer. Client
threads, writers and serving threads touch only queues, sockets and the stop
flag. `receive_peer_event` consults the gate, then the presence book, then the
handler of the kind of event; the handler validates, may penalise the signer in
the ledger, and inserts the event in the gossip, alerts in the message store,
social events in their cache. The gossip therefore joins everything: admission
decides what enters it, the transport what leaves it. `TcpLink` and `Admission`
extend `Gossip` for that reason. The DTN router, the pool of transactions and the
readers of content are called by nobody else's state, or by nobody.

**What is hard, and the properties that answer it.**

- *Three bounded memories of the gossip forget at different rates.* An id may
  leave the outbox, leave the known set, and come back while a peer's list still
  remembers it. `TypeOK`, `OutboxKnown`, `HandedStaysMarked`, `CatchUpEnds`.
- *A batch is peeked, queued frame by frame and marked at the end*, while writers
  send, fail and re-queue; several writers, live and dead, pop one queue; links
  must come back and stop must end every thread. `GossipSpec` (refinement),
  `MarkedIsSomewhere`, `AtMostOneCopy`, `Delivery`, `StopEnds`.
- *Slots are counted before the bound is tested* and given back on four paths,
  while frames and requests arrive in pieces. `PoolSpec` (refinement),
  `FramesWhole`, `ReplyFitsRequest`, `ServingEnds`.
- *Admission outlives deduplication*: events come back after being forgotten,
  before, during and after a grace, and reports come late and out of order.
  `FloodBounded`, `ReportWeighsOnce`.
- *Endorsements reach each node in another order*, some too early to count, and
  each copy of a refused one takes a place in the window of its signer.
  `TrustGrounded`, `ExcessAlonePunished`, `NoiseUnpunished`, `Spreads`.
- *Memory and database expire by different rules*, reads and writes fail
  silently, a power loss undoes deletions. `StoreTypeOK`, `UnexpiredRestored`,
  `PublicationsSpaced`.
- *Chunks of an update name no release*, offers change during a transfer,
  messages come late or twice. `InstalledIntact`, `InstallRaisesVersion`,
  `UpdateEnds`.
- *Comments come before what they answer*; every SQL statement commits alone; a
  page is a number of rows to skip; a vote names a table. `StoreConsistent`,
  `OrderIndependent`, `ScoreTracksVotes`, `PagesComplete`.
- *Broadcasts are copied at each encounter* and counted outside the lock.
  `NeverReturns`, `FloodEnds`, `CopiesAccounted`.
- *Layers have limits of their own*: characters, bytes of JSON, bytes of a frame,
  buckets of padding. `PublishedAccepted`, `PacketFitsFrame`, `RoundTrip`.
- *Rotation announcements come late, twice, or from a former life of the owner.*
  `NewestHeld`. *Events change under way.* `SealHolds`. *Offsets and halvings.*
  `LookupExact`, `CellsNest`, `NoncesIncrease`. *Chunks of a recording in any order,
  cells of a context that nothing frees.* `HeardWhole`, `RequestFits`.

`PROJECT.json` lists each hazard at its line, those that no property covers
with the reason.

## 2. Modules and how they correspond to the code

Every action is one call of the code with all it changes; where the code gives up
a lock or commits a statement, the action ends and others may step. Some modules
hold operators called *slips* (commented so): the mistakes against which the
properties were tried. No specification uses them.

### Gossip

`known`, `pending`, `delivered` are the fields `known_events`,
`pending_broadcasts`, `delivered` of `GossipProtocol`. An event is its id: ids
are content hashes, and validation comes before every action, so a refused event
changes nothing. `handed` is history: what a peer was handed since the event
entered the outbox.

| Action | Code |
|---|---|
| `Insert` | `insert_new`: duplicate test, eviction of the oldest outbox entry, `expire_old_known` in the arbitrary order of the hash set, outbox spared |
| `GetPendingForPeer` | `get_pending_for_peer` and its wire variant: the whole unmarked outbox |
| `TakeHealBatch` | `Node::take_heal_batch`: one bounded batch |
| `FlushBatch` | `flush_outbound`, as one step: a prefix of the batch is accepted and marked |

`MCExchange` adds a counter of insertions so that publications stop, and puts `Gossip`,
`Update` and `DtnRouter`, which do not wait for each other, side by side: a behaviour is
about one of them (`part`).

### TcpLink

Extends `Gossip`: it is the detailed specification of `FlushBatch`. The pump
becomes `FlushBegin`, one `FlushFrame` per frame, `FlushEnd`; between any two of
them every other thread may step. Each peer has a client thread (`Connect`,
`ReaderEnds`, `ClientEnds`), a writer for each connection it ever made
(`WriterPop`, `WriterSend`, `WriterFail`, `WriterEnds`) and a receiving half
(`Receive`, `ProcessInbound`). The network cuts connections (`Cut`) and loses
what was in flight on a socket we shut (`WireLost`). `try_clone` or the start of
the writer's thread may fail, which the code only logs (`WriterStarts`).
`dropped` and `vanished` are history: frames evicted from a full outbound
queue; frames lost with a connection or evicted from the inbound queue.

A frame is its event; a refusal of `enqueue_outbound` is that of a frame too
large (`Oversized`). The errors of `to_wire_bytes` and `encode_frame` that the
pump's own events cannot meet are left out, and so is `add_peer` on a running
transport.

### Server and SlotPool

`SlotPool` is the promise of a bounded server: `Take`, `GiveBack`, and `TurnAway`
only while every slot is held. `Server` is the two accept loops, of the transport
and of the health endpoint (`kind`), which have the same shape: `CheckStop`,
`Accept` (the count goes up before it is compared), `Refuse`, `Spawn`,
`SpawnFails`, `NothingToAccept`, `AcceptError` with its cap. A serving thread of
the transport polls frames (`StartPoll`, `ReadHeader`, `ReadBody`,
`PollTimesOut`, which keeps what was read, `PollEnds`); one of the health
endpoint reads a request head (`ReadRequest`, `RequestDead`) and answers
(`Route`). A read returns any part of what has arrived. `Pool` is the mapping:
the held slots are the clients being served, with the one the loop is deciding
on. `arrived`, `Connect`, `Send` and `ClientEnds` are the clients, external.

### Admission

`receive_peer_event` for alerts and social events (both "content", whose errors
the dispatcher classifies alike) and abuse reports. One action is one call, from
the gate to the insertion in the gossip, which is `Insert` of `Gossip`:
`ReceiveOverBudget`, `ReceiveContent`, `ReceiveReport`; `ReportAbuse` is our own
report, which enters the gossip only, and weighs here when a peer echoes it; and
`Tick` for time. Helpers carry the names of what they model: `Admits`
(`admit_peer_event`), `AfterAdmission` (`admit_with_budget` and its eviction),
`NotesTraffic` (`note_peer_traffic`), `Recorded` (`AbuseRecord::record`),
`LevelOf` (`decayed_abuse`), `RequiredPow`, `Remembered`. Levels are integers in
hundredths where the code has `f64`. The trust of an author is a constant
(`BasePow`); how it comes about is `WebOfTrust`. Time is monotonic.

### WebOfTrust

`score` and `endorsers` of each node's `ReputationSystem`, `penalties` its levels of
abuse in tenths, `counted` the admissions of each signer in its window, `outbox`
and `sent` the gossip, without its bounds. `Endorse` applies and publishes;
`EndorseUnpublished` is the publication that fails after the application.

`Hand` gives the next event of a link to `receive_peer_event` (`Receive`). The gate
comes first: the node's own events and those its gossip knows are not counted
(`Uncounted`); of the others, an ignored signer is dropped, one whose window is full
is penalised for its rate (`GateRejects`), and the rest take a place
(`GateAdmits`). Then `Handle`: the reasons of `Refusal` in their order, `Integrate`
with its promotion, `Relay` of what was integrated, by the work asked now
(`RequiredPow`). A refused endorsement never becomes known, so that each of its
copies passes the gate again and counts; `noise` is history, the number of those
copies. `ReceiveMalformed`, `Report` and `Restart` give the other penalties and the
loss of memory. Time is left to `Admission`: a window slides, or is forgotten with
its signer, at any moment (`Lapse`), the gate uses the ordinary budget or that of a
grace (`Budgets`), and levels do not decay.

### MessageStore

`memory` and `gauge` are the messages of `TieredMessageStore` and the metric of their
bytes, `rows` and `meta` the tables of `persistence.rs`, `synced` these as of the last
checkpoint of the write-ahead log, `self` the identity. `Publish` is `publish_alert` and
`publish_mutual_aid` under the throttle, with a date up to `Fuzz` off the clock
(`Dates`); `sent` is history, the true moments of publication in this life.
`PublishPost` is what shares the throttle, `ReceiveAlert` a reception, each with a write
that may fail. The interval depends on `battery` (`SetBatterySaver`) and on `trusted`,
whether the node trusts its own key at the moment of the publication: endorsements make
it trusted while it runs (`BecomeTrusted`), nothing takes that back before its end, and
the reputation the application keeps for all its nodes may give it at the start. `Sweep`
is `sweep_message_store`, whose deletions stop at the first error. A process ends by
`Stop` or `PowerLoss`, which also loses what follows the last checkpoint, and begins by
`StartApplication` (`node_start` of the bridge, which reads the rows), `StartHeadless`
(`bin/node.rs`, which does not) or `StartBare` (no base). A seed that cannot be read
counts as absent and another takes its place. Only tests call the sweep: it is an action
because the node offers it. The clock is monotonic.

### Update

`current`, `announcement`, `transfer`, `installed` and `offer` are
`current_version`, `pending_announcement`, `pending`, `installed` and
`update_offer` of each node. The actions on messages are the four handlers of
`handle_incoming_update`, each with the messages it publishes:

| Action | Code |
|---|---|
| `Announce` | `announce_update`: the new offer and its announcement to everybody |
| `OnAnnounce` | a newer release is remembered, its manifest requested |
| `OnManifest` | `handle_manifest` (`Takes`) against the announcement accepted last; any transfer begins again |
| `OnChunk` | `handle_chunk` (`Fits`, `WithChunk`), then the next request, or `assemble_and_verify` (`Assemble`) and `install_verified` (`Finish`, `InstallFails`) |
| `OnRequest` | the node named answers from what it offers now |
| `Restart` | `Node::new`: version of the configuration, nothing in memory |

`net` is a set of copies, delivered in any order; `LoseMessage` and
`Duplicate` are bounded with restarts and failed installations by `MaxFaults`. Signatures are
left out (blobs come from distributors), and packages are names with a size, so
`HashMatches` compares packages. `record_install` and `reject_pending` have no
caller in the node. `receive_peer_event` neither handles nor relays update
events; only the integration tests drive these handlers, and the module says what
they promise to a dispatcher that would call them.

### IdentityRotation

The owner's `clock`, `life` (a restart begins another), `rotations`,
`lastRotation`, and for each peer the key it `held`, the `grace` key and
`lastCount`. `RotateSilently` and `Announce` are the two callers of
`maybe_rotate`; `Receive` is `handle_incoming_rotation` for any announcement ever
made, so late, repeated or lost ones are all there; the clock may step back
(`ClockMoves`).

### SocialStore, Publication, Feed

`SocialStore` is the cache behind `handle_incoming_social`. The node's lock makes
a handler atomic for others, but every statement commits on its own: `job` is the
handler between two of them (`Unbuffer`, `Cap`, `Promote`, `Score`), and `Abandon`
the statement that fails or the crash. A vote names a table of its own (`Tables`),
"posts" by default, while its row is keyed by voter and target: with the wrong table
the row is written and no score moves. `astray` is history: what was due to the
score of a row and went to another table. A comment of the code says that a voter
weighs once (social_store.rs 525-527); after a vote that named the wrong table, the
opposite vote with the right one moves the score by two, and `ScoreTracksVotes` says by
how much such votes part the score from the sum. `Feed` is `list_posts` behind its command:
a reader goes on from an offset while posts arrive, arrive again and go.
`Publication` is what a node may publish (`PublishPost`, `PublishComment`,
`PublishChunk`) and what a reader accepts, text being its number of characters
and what JSON makes of them.

### Packet, Seal

`Packet` is the wire form: fields with their lengths in cells, padding by zeros
to a bucket, and the reader that is told neither. It avoids `unpad`, whose comment says
that `unpad(pad(x)) == x` for every `x` (crypto/mod.rs 514): of an event that ends with
the zero of its `ttl` it takes that zero too. The slip `Unpadded`, which reads through
`unpad`, breaks `RoundTrip`; in the code only tests call it. `Seal` is the id, signature,
work and fuzzed date of an event, changes of its fields under way, and the order
of the refusals of `validate`; and the encrypted envelope. A hash is the value
hashed.

### DtnRouter

`encounter`, `store` and `tick` of the crate, each with the task that updates the
statistics afterwards (`Report`), so that copies between two locks are in no
buffer. Handed copies are stored or lost by the application, external.

### Inference, Transcription

Both are the builds with the foreign library, which the default build replaces by
fixed texts. `Inference`: the model recommended for a memory (`QwenForRam`), the
context (`NewContext`, `Load`), and a request: what admits it (`Asked`: `Fits`,
then `Room` in the library), a token drawn and fed back (`Draw`), the one that
completes a stop sequence (`DrawLast`), the end (`Conclude`, `DrawFails`). Which
token is drawn is open. `Transcription`: the WAV reader (`Chunks`, `ReadableWav`,
`SamplesOf`) on recordings written in any order, padded or not, cut anywhere; the
engine (`NewEngine`, `LoadModel`); `Transcribe` and `TranscribeWav`, whose segments
are what whisper.cpp hears (`Phrases`) with its times converted (`Millis`).

### TxPool, Offline, Shelf, and MCLocal

`TxPool`: nonces modulo the width of the type. `Offline`: what a tile file or an
archive must have to be opened, and the lookups. The walk through a cluster (`Walks`)
ends where the file does: cut inside a blob it fails, cut at a border of blobs
(`Borders`) it serves the blobs before. `Shelf`: what the node shows,
the cell of a position, the seeds. With `Packet`, `Seal`, `Publication`,
`IdentityRotation`, `SocialStore`, `Feed`, `Inference` and `Transcription` these wait
for no other part; `MCLocal` puts them
side by side, a behaviour being about one of them (`part`), so that one run
checks them all.

## 3. Runs

| Run | Instance | What it shows |
|---|---|---|
| `exchange` | one of three parts at a time, fairness; 437k states. Gossip: 4 events, 2 peers, known 3, outbox 2, list 3, 7 insertions. Updates: 1 distributor, 1 receiver, 2 releases of 2 chunks, the last of one shorter, 2 faults. Router: 3 nodes, 3 messages, buffers of 2 | the bounds hold, nothing is handed twice during a stay, catch-up ends; only whole announced packages are installed, in ascending versions, and a release announced alone is installed when nothing fails; copies are accounted for, never return, and all die |
| `link` | 4 events, one oversized, 1 peer, 2 connections, queues of 1, writers that may not start, fairness; 210k states | no frame unaccounted or doubled, the pump implements `GossipSpec`, events reach the peer or are accounted for, stop ends every thread |
| `server` | 2 clients, 1 slot, both servers, 2 accept errors, fairness; 358k states | the pool is `SlotPool`, frames and requests are whole whatever the pieces, every client is served or turned away, serving ends |
| `admission` | content fully worked, or unsound and without work, a report, our report and its echo, each received again and again; clock to 4; 4.5M states | a report weighs once; an author stays within its budget before, during and after a grace |
| `trust` | 3 nodes in a ring with a chord, 4 keys, 2 founders, windows of 1, a restart, fairness; 118k states | trust rests on founders alone; a founder's endorsement spreads while nobody is penalised |
| `trust_copies` | a ring with another chord, 1 founder, windows of 1 or 2, a report, malformed payloads, a restart; 1.5M states | who is neither reported nor malformed is penalised only for more than a window takes |
| `store` | 2 messages, 2 tiers, budget 3, 2 identities, dates off by 1, intervals of 2 and 3, battery factor 2, clock to 4; 7.1M states | budget and gauge kept, every unexpired row and the seed restored, publications spaced as trust and battery change between them |
| `local` | one of fourteen parts at a time; 1.93M states | the properties of `Packet`, `TxPool`, `Offline`, `Shelf`, `Seal`, `Publication`, `IdentityRotation`, `SocialStore` (the cache does not depend on the order of arrival, scores follow votes, rows stay consistent through failures), `Feed`, `Inference` and `Transcription` |

Four runs show a statement of a comment that the code does not fulfil:

| Run | Statement | What happens |
|---|---|---|
| `admission_heal` | node/mod.rs 1478-1483: heal traffic is not penalised | stamps of the grace fill the ordinary window when the grace ends |
| `oversize` | network/tcp.rs 70-72: a padded wire never exceeds MAX_FRAME_PAYLOAD | a post of 40,000 characters, or a full chunk of an update, does, and ends every batch of the pump at its place |
| `voice` | whisper-stt/src/real.rs 141, lib.rs 40-41: `start_ms`, `end_ms` are milliseconds | hundredths of a second are divided by ten instead of multiplied |
| `trust_noise` | node/mod.rs 1505-1509: endorsements refused as noise penalise nobody | each copy takes a place in its signer's window; past the budget (1 in the run, 12 in the code) the signer is penalised for its rate |

**Bounds.** In `exchange` the outbox of the gossip has two places, so that the order of
eviction matters, the per-peer list exactly `2 * MaxPending - 1`, the smallest for which
`HandedStaysMarked` holds (with one less TLC finds an event handed twice), and there are
more events than are remembered, so that ids leave every memory and return; two releases
let the offer change during a transfer and a late manifest follow an installation, and two
faults let a failure meet a lost or repeated copy; three nodes let a broadcast return by
another, buffers of two drop, and one message is dead when it is sent. In `link` two
connections are the least for which an old writer competes with a new one, queues of one
frame make every eviction happen with batches of two, and one peer suffices because peers
share only the outbox, which `exchange` exercises with two. In `server` one slot makes the
second client refused, and headers of two bytes, two frames, an empty frame, one too long
and two empty lines make every split of a header, a body and a line end. In `admission` an
outbox of 1 and a known set of 2 let each event be forgotten and received again, two
tracked reports are fewer than there are, and every author fits in the guard's table,
which `FloodBounded` assumes. A silence of 2 and a grace of 1 let a grace open at 2 at the
earliest and be over at 3, where a window of 1 still counts its stamps; the clock goes to
4, where they are out of it. In `trust` two of the code's three endorsements promote
(`Required`), and they reach the newcomer in either order, one of them directly or
relayed, so that an endorsement of the newcomer's comes too early or in time at each
node. In `trust_copies` and `trust_noise` one promotes, and the newcomer's endorsement
reaches the second node from itself and relayed by the founder, refused or not, before and
after a restart; windows (`Budgets`) of one and two fill. In `store` the sizes compete for
the budget, so that a publication may be refused by the store, a message is dated ahead of
the clock by the skew allowed, the clock passes every retention, and the interval is 2, 3
for a stranger, and twice that on battery. In `local` a chain of three comments and a reply
across posts come in every order, the buffer is smaller than the comments there are, and
votes that name another table take at most one from a score (`MaxAstray`); archives are
whole or cut inside a blob, or at borders of blobs; the limits of the texts are the
code's; the wire has buckets that events just fill and pass, nonces two bits, zooms to 3
with rows on both sides of the middle, rotations two lives, two numbers and a late peer,
the feed three posts of which pages show one or two; a context has five cells, which a
prompt of two and three drawn tokens just fill, and is asked twice; recordings are cut
at every cell of their end. Runs set `CHECK_DEADLOCK FALSE` because the counters and
clocks that bound them, or a stopped node, end their behaviours.

**Fairness.** `FairLinkSpec` assumes weak fairness of each pump, client thread
and writer: the main loop calls the pump every 200 ms, and the threads are loops
with bounded waits. It assumes it of `Receive` and of the peer's
`ProcessInbound`: a peer that keeps a connection open reads it and runs its own
pump. Nothing is assumed of cuts, write failures or `Stop`; the last connection
of the bound stays up, which stands for a link that ends by holding. `MCExchange`
assumes weak fairness of `TakeHealBatch`, on which the transport loops until it
is empty. `FairSpec` of `Server` assumes it of the accept thread and of each
serving thread, whose reads end by their timeout, and nothing of clients.
`FairSpec` of `WebOfTrust` assumes that each link goes on handing events over;
`DtnFairness` that clocks tick, tasks end and the application deals with
what it is handed, nothing of encounters. `UpdateFairness` assumes that each node
goes on processing what reaches it, in any order; losses are faults, after which
`UpdateEnds` claims nothing, because the code has no retry.

## 4. Proofs

The proofs are for every value of the constants, under named assumptions that TLC
evaluates on each run. `BoundsAssumption` gives the relations between the bounds of the
gossip (`MaxKnown >= MaxPending`, `MaxDelivered >= 2 * MaxPending - 1`, batches not
empty) that the code's values 10000, 1000, 2000, 32 and 64 satisfy. `LinkAssumption`
asks a capacity of at least one: with zero `enqueue_outbound` would never return.
`SealAssumption` asks that the fuzz of dates is at most the skew that readers allow,
`StoreAssumption` the same of what a node publishes, that the interval of strangers is
at least the ordinary one and that the battery factor is not zero, `ServerAssumption`
that bounds are not zero. `RoomAssumption` asks that the cap on the bytes of each social
kind leaves room for its texts at their longest, at six bytes a character, and for what
JSON wraps around them (node/mod.rs 345-350). `ArchiveAssumption` is about the producer
of an archive: its parts do not overlap, and an article names a blob that is there; that
the file is whole, or that the index knows all its parts, is not assumed.
`PacketAssumption` asks that the id and the signature of an event are not zero. The
others only type constants, keep names apart from the words that stand for their
absence, and make finite the sets over which something is counted: authors, events,
keys, clients, comments, voters, posts, nodes. Hashes are operators left open;
`SealsHold` has the hypothesis `Leading`, that the leading zeros of a hash are a number.

**GossipProofs.**

- `TypeCorrect`: `GossipSpec => []TypeOK`, the caps of the lists included.
- `KnownSetBounded`, `OutboxAlwaysKnown`: `KnownBounded` and `OutboxKnown`, by
  the invariant `OutboxInv`, their conjunction with `TypeOK`. They need each
  other: there are always enough ids to evict because the outbox is a set of at
  most `MaxPending` distinct known ids, and the outbox stays known because the
  eviction spares it.
- `HandedNeverRepeated`: `HandedStaysMarked`. It is not inductive. `HandedInv`
  adds that a handed event occurs once in the peer's list, and counts the
  *foreign* entries after it, those of events that have left the outbox since:
  at most `MaxPending - j` for the j-th event of the outbox. With at most
  `MaxPending - 1` entries of other handed events, `2 * MaxPending - 1` places
  are enough, and the list never drops it.

**LinkProofs.**

- `QueuesBounded`: `LinkTypeOK`. The inbound queue keeps its capacity; the
  outbound queue exceeds it by at most the number of writers that have failed,
  each having put back one frame. `UnmadeIdle` (a connection not made has no
  writer) is needed: a writer that starts must not take away from that number.
- `MarkedNeverDisappears`: `MarkedIsSomewhere`, strengthened with
  `AcceptedIsSomewhere`, the same of frames accepted in the batch that is about
  to be marked.
- `PumpImplementsGossip`: `LinkSpec => GossipSpec`. The refinement maps the
  variables of `Gossip` to themselves; the steps of the pump stutter until
  `FlushEnd`, which is a `FlushBatch`. `FlushInv` says why: what has been
  accepted so far is a prefix of the batch that would still be selected now.
- `LinkHandsOnce`: by that refinement, what was proved of `Gossip` holds of the
  transport.

The invariant is `LinkInv`, the conjunction of all of these; its proof has one
step per action.

- `NeverTwice`: `AtMostOneCopy`. A frame can be in a queue, in the hands of one of
  the writers of a peer, in flight on one of its connections, received, processed,
  or counted as lost: its *spots*. `OnceInv` says that an event not yet marked, nor
  accepted in the batch in progress, is in no spot, that any other is in at most one,
  and that no queue holds an event twice. A failed writer puts its frame back at the
  head of a queue that another writer is popping; the frame moves from one spot to
  another. `HandedStaysMarked` is used: what is accepted was not accepted before.
  The hypothesis, inside the property, is that the node forgets no id
  (`Cardinality(Events) <= MaxKnown`): a forgotten event may rightly be sent again.

**AdmissionProofs.**

- `AuthorsStayInBudget`: `FloodBounded`. The guard keeps only the stamps of the last
  window and drops them as it goes, while the property counts what has entered.
  `FloodInv` ties the two by `Paced`: every entry still in the window has its own
  stamp (`Stamped`), and an ordinary entry came when the one a budget before it had
  left the window (`Spread`). From that, no window holds more than a budget of
  them. The property assumes that the guard has room for every
  author; past that the code forgets stamps (a hazard listed in `PROJECT.json`).
- `ReportsWeighOnce`: `ReportWeighsOnce`, by `ReportsInv`: the weight given to a report is
  one exactly when its key is remembered, as long as all keys fit.
- `AdmissionImplementsGossip`: `AdmissionSpec => GossipSpec`. A reception is an `Insert` or
  leaves the gossip alone. `CapsBehindGate` takes `OutboxKnown` over.

**TrustProofs.** `TrustRestsOnFounders`: `TrustGrounded`, the trusted keys as the least set
that holds the founders and that the endorsements close. `TrustInv` adds that whoever
endorsed a key is trusted (`EndorsersTrusted`): trust does not fall within a life, and an
endorsement is integrated only from a trusted key. It gives both directions: a
promotion adds a key the set had to contain, and no support waits unseen.
`OnlyExcessPunished`: `ExcessAlonePunished`, by `ExcessInv`: the admissions in a
window are no more than the endorsements of that signer that are known to the node or
were refused there in this life, and a penalty other than those of a report or a
malformed payload was given when that number was above a budget. An endorsement known
passes uncounted, one that is not adds to that number whatever becomes of it, and
nothing takes from it before a restart, which forgets the penalties too. `TrustTypes`
types all, with what is in the outboxes and on the links (`Traffic`).

**ServerProofs.**

- `CountImplementsPool`: `Spec => PoolSpec`. `PoolInv`: the count is the number of
  connections that hold a slot, and one more between the increment of `Accept` and
  the decrement of `Refuse`. So `active >= Slots` really means that every slot is
  held, although serving threads decrement at any moment.
- `AnswersFit`: `ReplyFitsRequest`. `ReplyInv`: the buffer of a connection not yet answered
  is what `SkipEmptyLines` leaves of everything read. It is kept because dropping
  the empty lines of a piece, then those of what it begins, drops those of the
  whole (`SkipAgain`); the answer fits because nothing more is dropped once a line has
  begun (`SkipFirst`) and the first end of line stays where it is (`FirstEndStays`).
  `EmptyLines` counts a set; `EmptyLinesCounted` shows that it is the number of empty
  lines there are, by the least line that is not empty.
- `FramesArriveWhole`: `FramesWhole`. `FrameInv` says where in its stream a connection is:
  it has handed over the first `n` frames, and holds the next `h` bytes of a header and
  `b` bytes of a body, those that follow in the stream (`At`); a length is believed only
  between its bounds, so a full header is that of the next frame. `StreamPlaced` gives
  the place of every byte of every frame in a stream of any length: `FlattenSeq` is
  defined by a recurrence, which `JoinsDefined` and `FramesPlaced` solve by the least
  number at which it would fail. A connection that is over keeps only the reason it was
  counted for (`Justified`). Declared lengths are natural numbers, as the four bytes of
  a header always are.

**DtnProofs.** `PathsNeverReturn`: `NeverReturns`, by `PathInv`: whoever carried a broadcast
is marked as served in every copy of it, but for the node that holds it and has met
nobody since (`Held`), and that one too in a copy handed over (`HandedOver`); so the
next node is none of them. `BuffersBounded`: every buffer keeps `max_buffer`, for any
number of messages; with a bound of zero the code still keeps one message, because it
evicts before it pushes. `CopiesAllAccounted`: `CopiesAccounted`. Buffers are sets in the
model and lists in the code, so a copy stored, marked or aged into one that is already
there would be lost from the count. `ApartInv` says it never happens: when the path
of one copy of a broadcast begins that of another, the node the longer path goes on to
is marked as served in the shorter one, so a node that is not marked is given a path
nobody has. The rest is sums: of a function over a finite set, any element last
(`SumAdds`), and of a sequence of which tasks may remove any element (`SeqSumRemove`),
because tasks report in whatever order they take the second lock.

**DurableProofs.**

- `UpdateTypes`, `OnlyIntactInstalled` and `InstallsAscend` prove `UpdateTypeOK`,
  `InstalledIntact` and `InstallRaisesVersion` for any number of nodes, distributors,
  releases and faults. The invariant is `UpdateInv`: `OnlyNewer` says that the
  announcement remembered, and the transfer begun with it, are above the current
  version, and nothing installed is; so the release installed is the highest, which is
  why `install_verified`, that takes the maximum of what is recorded, moves the version
  up. `NetOK` types what is in flight: a chunk is of some package, not of the one
  being received.
- `StoreWithinBudget`: `StoreTypeOK`. The sizes are summed by a fold over a set; the
  lemmas on it (`Sums`) are proved from a smallest set that would break them, since the
  library's induction theorems are out of the provers' reach. `RestartsLoseNothing`:
  `UnexpiredRestored`. Both need `LiveFits`: what is still in date in the tables, and in
  the tables as of the last checkpoint, fits in the budget as long as every start has
  read the database. It is why the rows read at a start are all admitted, in whatever
  order they come.
- `PublicationsKeepPace`: `PublicationsSpaced`, by `ThrottleInv`: no publication is after
  the last one remembered, nor that after the clock. It is about the moments of
  publication, not the dates in the messages, which are fuzzed, and it assumes nothing
  of trust or battery: the interval of the moment is never below the shorter one.

**LocalProofs.**

- `PaceKept` proves `RotationTypeOK`: no more rotations in a life than its span has
  intervals, and every announcement is numbered by its rotation. `NewestAlwaysHeld`
  proves `NewestHeld` for any number of peers, lives and rotations. That number and life
  determine the key is what makes two announcements of one life comparable; the last
  number of a peer must be that of something it received.
- `StoreAlwaysConsistent`: `StoreConsistent`, by `StoreInv`, which includes what the handler
  between two statements still has to do.
- `OrderNeverShows`: `OrderIndependent`, the cache as a function of the set of events
  received. `OrderInv` says: what is stored or buffered was received (`SeenRight`), none
  was lost (`NoneLost`), stored comments have their whole thread (`StoredRooted`), and no
  buffered one could be promoted unless the handler in progress is about to do it
  (`Settled`).
- `ScoresTrackVotes`: `ScoreTracksVotes`, by `ScoreInv`: the score and what the handler
  still owes it are the votes cast, less what votes naming another table took. The sum
  of the votes is two cardinalities (`Net`).
- `PagesMissFew`: `PagesComplete`, by `FeedInv`: the posts that stayed and were passed over
  are no more than the posts whose place was lost meanwhile.
- `NoncesAlwaysIncrease`: `NoncesIncrease`, by `PoolOrdered`: each sender's nonces increase
  through what is committed and what waits.
- `SealsHold`: `SealHolds`, by `SealInv`: whatever has been changed, the signature read is one
  made of this event or none, so that what verifies has the sealed id; and ids tell
  meanings apart (`IdMeans`), kinds by their codes.
- `FirstRequestFits`: `RequestFits`, by `RequestInv`: tokens are drawn only within the
  budget that was found to have room.
- `PacketsRoundTrip`: `RoundTrip`, by `PacketInv`: what has arrived begins with the encoded
  event, or is a beginning of it (`Begins`). The reader is followed field by field: what
  `Times` collects from a sequence that begins with the fields are the fields, however many
  there are, and a reader that has failed reads no more.
- `AlwaysAccepted`: `PublishedAccepted`, which is inductive: each publication is sound for a
  reader, and its bytes are within the cap of its kind.
- `LookupsExact`: `LookupExact`, by `OfflineInv`, which adds that an open tile reader holds
  what its file says. Offsets rise from blob to blob (`OffsetsRise`), so that an offset finds
  one blob; where nothing is missing a cluster reaches to its end (`TightExtent`), and where the
  file ends at a border of its blobs to there (`CutExtent`), so that the walk locates
  the blobs before it (`BorderWalk`); the
  titles of a search grow until as many are found as were asked (`TitlesFound`).

Loops over data of any length (`Times`, `BlobOffset`, `Matches`) are recursive functions
in the model. `StepByStep` gives them their values for every length: it takes from the
naturals the least number at which the function would fail to be there, which needs
no induction theorem.

**Only model-checked.** `CatchUpEnds`, `Delivery`, `StopEnds`, `UpdateEnds`,
`ServingEnds`, `Spreads` and `FloodEnds` are liveness under fairness, out of the
prover's reach. `CellsNest` is halving at every zoom against division by powers of two:
the provers know nothing of `2 ^ (n + 1)` but that it is an integer, and the folds that
make a geohash are recursion through the library. `HeardWhole` walks the chunks of a
recording with `SelectSeq` and folds, which no prover unfolds. Both would need the
model written around the prover, further from the code than it is.

## 5. Plan

The order is that of importance for the system.

1. *Done*: all the modules of section 2, with the refinements of `Gossip` by
   `TcpLink` and by `Admission` and of `SlotPool` by `Server`, and the eight proof
   modules.
2. Proofs next: `CellsNest` for every precision, with halvings in place of powers.
3. `Admission` with trust as a variable, composed with `WebOfTrust`: an
   endorsement may change what work an author owes between two receptions.
4. Several nodes that run `Gossip` and restart with empty memories, for the
   spread of an event and the end of its relay.
5. Abstract specifications worth stating: a link as a set of events in transit,
   implemented by `TcpLink`; a rate limiter as a set of admitted events,
   implemented by the gate of `Admission`; a durable set, implemented by
   `MessageStore`.

## 6. Not modelled

- *Cryptography and JSON themselves*: hashes, signatures and shared secrets are
  injective operators, JSON the size of what it writes.
- *Floating point*: levels of abuse are hundredths; a sum of penalties that
  misses a threshold by rounding is not seen.
- *A clock that steps back*, except in `IdentityRotation`.
- *`add_peer` on a running transport*, `queue_capacity` of zero, which makes
  `enqueue_outbound` loop for ever.
- *Reads without control* of the social cache, `upsert_user` and
  `resolve_report`, which change one column of one row.
- *`llm-inference`, `ai/`*: simulated answers without state. *The foreign libraries*
  of the language model and of the voice: any token, any phrase. *Metrics*: counters, save the
  gauge of the store. *Network addressing*: a pure function of a key.
- *Web interface, Android shell*: glue around the commands. *Simulation* is a
  Python model, not the program; *whisper.cpp* is third-party.
