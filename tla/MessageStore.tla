---------------------------- MODULE MessageStore ----------------------------
(***************************************************************************)
(* What a node publishes and keeps: its identity, the throttle of its      *)
(* publications, its tiered message store (storage/mod.rs) and the SQLite  *)
(* mirror of both (storage/persistence.rs), through crashes, power losses  *)
(* and restarts.  Messages have two copies with two rules of expiry:       *)
(* memory forgets a message when its age reaches the retention of its      *)
(* tier, the database when the age exceeds it, and any write to the        *)
(* database may fail without being tried again.  Ids are content hashes,   *)
(* so a message is its record; identities are numbered as they are drawn.  *)
(***************************************************************************)
EXTENDS Integers, Sequences, FiniteSetsExt

CONSTANTS
  Alerts,         \* alerts of other nodes: records [id, tier, size, created]
  Drafts,         \* what this node may publish: records [id, tier, size]
  Critical,       \* the tier that sharding never excludes
  Retention,      \* retention_secs of each tier, in the order of the purge
  PlaceLen,       \* length of config.my_geohash
  PrefixLen,      \* shard_prefix_len of the storage policy
  Budget,         \* max_bytes of the storage policy
  MaxSkew,        \* MAX_CLOCK_SKEW_SECS: how far in the future a date may be
  Fuzz,           \* how far fuzzy_timestamp_secs dates an event from the moment
  Interval,       \* PUBLISH_INTERVAL_TRUSTED_SECS
  StrangerInterval,   \* PUBLISH_INTERVAL_UNTRUSTED_SECS
  BatteryFactor,  \* PUBLISH_BATTERY_MULTIPLIER
  NoSeed,         \* no seed in the database
  MaxIdentities,  \* bound on the identities a node goes through
  MaxTime         \* bound on the clock

ASSUME StoreAssumption ==
  /\ Retention \in Seq(Nat) /\ Critical \in DOMAIN Retention
  /\ Alerts \subseteq [id : STRING, tier : {Critical}, size : Nat, created : Nat]
  /\ Drafts \subseteq [id : STRING, tier : DOMAIN Retention, size : Nat]
  /\ {PlaceLen, PrefixLen, Budget, MaxSkew, Fuzz, Interval, MaxIdentities, MaxTime} \subseteq Nat
  /\ {StrangerInterval, BatteryFactor} \subseteq Nat
  /\ Interval <= StrangerInterval /\ BatteryFactor > 0 /\ Fuzz <= MaxSkew
  /\ NoSeed \notin Nat

VARIABLES
  up,        \* a node is running
  based,     \* its database is open
  loaded,    \* every node so far has read all of the database when it started
  self,      \* the identity it signs with
  trusted,   \* its own reputation reaches the threshold of trust
  battery,   \* battery_saver
  last,      \* last_publish_at
  sent,      \* history: the moments it published alerts and requests at
  memory,    \* messages: the store in memory
  gauge,     \* storage_raw_bytes of the metrics
  rows,      \* the table of messages
  meta,      \* the seed in the table of metadata
  synced,    \* both tables as of the last checkpoint of the write-ahead log
  drawn,     \* identities generated so far
  now        \* the clock

process == <<up, based, loaded, self, trusted>>
publication == <<battery, last, sent>>
disk == <<meta, synced, drawn>>
storeVars == <<process, publication, memory, gauge, rows, disk, now>>

-----------------------------------------------------------------------------
Used(S) == MapThenSumSet(LAMBDA m : m.size, S)

\* Slip: the size of the new message is left out.
HasRoomAlready(S, m) == Used(S) <= Budget

\* The budget is checked on raw sizes.
HasRoom(S, m) == Used(S) + m.size <= Budget

\* should_store_locally: every caller passes the place of the node itself, so
\* what it shares with the message is all of it.
Local(m) == m.tier = Critical \/ PrefixLen \in 1 .. PlaceLen

\* A message the store does not refuse.
Kept(m) == m \notin memory /\ HasRoom(memory, m) /\ Local(m)

\* now.saturating_sub(created_at)
Age(m) == IF now > m.created THEN now - m.created ELSE 0

\* What memory and the restart call expired.
Expired(m) == Age(m) >= Retention[m.tier]

\* What the database deletes for a tier: created_at < now - retention.
Deletable(m) == m.created + Retention[m.tier] < now

\* load_persisted_messages: unexpired rows, in the order the table returns them,
\* each skipped if it does not fit; so any set to which nothing can be added.
Restored(table) ==
  LET wanted == {m \in table : ~Expired(m)}
  IN  {S \in SUBSET wanted : Used(S) <= Budget /\ \A m \in wanted \ S : ~HasRoom(S, m)}

\* record_storage_removed: the gauge saturates at zero.
Lowered(bytes) == IF gauge > bytes THEN gauge - bytes ELSE 0

-----------------------------------------------------------------------------
(* Publication and reception *)

\* publish_interval_secs, from the reputation of the node and the battery.
PublishInterval ==
  (IF trusted THEN Interval ELSE StrangerInterval) * (IF battery THEN BatteryFactor ELSE 1)

\* last_publish_at starts at zero, an age before the first reading of the clock.
Never == 0 - StrangerInterval * BatteryFactor

PublishAllowed == now - last >= PublishInterval

\* Slip: a publication the store refuses is not recorded.
RecordPublishKept(m) == last' = IF Kept(m) THEN now ELSE last

\* record_publish, whatever became of the copy to keep.
RecordPublish(m) == last' = now

\* The table after an INSERT OR REPLACE, which may fail.
Mirrored(m) == {rows} \cup (IF based THEN {rows \cup {m}} ELSE {})

\* store, then persist_message: memory, then the database unless the write
\* fails, which is only logged.
Remember(m) ==
  IF Kept(m)
    THEN /\ memory' = memory \cup {m} /\ gauge' = gauge + m.size
         /\ rows' \in Mirrored(m)
    ELSE UNCHANGED <<memory, gauge, rows>>

\* fuzzy_timestamp_secs: the date an event is given.
Dates == {Max({now + s, 0}) : s \in -Fuzz .. Fuzz}

\* publish_alert, publish_mutual_aid: refused under the throttle; else signed,
\* validated (the date is within MaxSkew) and gossiped before the copy to keep.
Publish(d, date) ==
  /\ up /\ PublishAllowed
  /\ sent' = Append(sent, now)
  /\ LET m == [id |-> d.id, tier |-> d.tier, size |-> d.size, created |-> date]
     IN  RecordPublish(m) /\ Remember(m)
  /\ UNCHANGED <<process, battery, disk, now>>

\* publish_social_post records its date without asking the throttle.
PublishPost ==
  /\ up /\ last' = now
  /\ UNCHANGED <<process, battery, sent, memory, gauge, rows, disk, now>>

\* handle_incoming_alert.
ReceiveAlert(m) ==
  /\ up /\ m.created <= now + MaxSkew
  /\ Remember(m)
  /\ UNCHANGED <<process, publication, disk, now>>

\* set_battery_saver
SetBatterySaver ==
  /\ up /\ battery' = ~battery
  /\ UNCHANGED <<process, last, sent, memory, gauge, rows, disk, now>>

\* Endorsements received for its own key make the node trust it, and nothing takes
\* that back while it runs: publish_interval_secs reads the score at each publication.
BecomeTrusted ==
  /\ up /\ ~trusted /\ trusted' = TRUE
  /\ UNCHANGED <<up, based, loaded, self, publication, memory, gauge, rows, disk, now>>

-----------------------------------------------------------------------------
(* Sweep, end and restart *)

\* Slip: memory forgets messages one unit before their retention ends.
OutlivedEager == {m \in memory : Age(m) + 1 >= Retention[m.tier]}

Outlived == {m \in memory : Expired(m)}

\* sweep_message_store: memory, then one DELETE per tier, up to the first error.
Sweep ==
  /\ up
  /\ memory' = memory \ Outlived /\ gauge' = Lowered(Used(Outlived))
  /\ \E done \in 0 .. Len(Retention) :
       rows' = {m \in rows : ~(based /\ m.tier <= done /\ Deletable(m))}
  /\ UNCHANGED <<process, publication, disk, now>>

\* The process is gone, and what it held in memory.
Down ==
  /\ up' = FALSE /\ based' = FALSE /\ self' = NoSeed /\ trusted' = FALSE
  /\ battery' = FALSE /\ last' = Never /\ sent' = <<>> /\ memory' = {} /\ gauge' = 0

\* The process ends, or node_stop drops the node; what it has written survives.
Stop ==
  /\ up /\ Down
  /\ UNCHANGED <<loaded, rows, disk, now>>

\* The machine ends: with synchronous=NORMAL, the database may go back to the
\* last checkpoint.
PowerLoss ==
  /\ Down
  /\ rows' = synced.rows /\ meta' = synced.meta
  /\ UNCHANGED <<loaded, synced, drawn, now>>

\* SQLite moves the write-ahead log into the database.
Checkpoint ==
  /\ up /\ synced' = [rows |-> rows, meta |-> meta]
  /\ UNCHANGED <<process, publication, memory, gauge, rows, meta, drawn, now>>

\* set_meta, which may fail.
SeedKept(seed) == {meta, seed}

\* Node::new: the persisted seed, or a fresh one that is then written, unless the
\* write fails.  A seed that cannot be read or decoded counts as absent, so that
\* the fresh one takes its place.
Identity(seedRead) ==
  IF seedRead /\ meta # NoSeed
    THEN self' = meta /\ UNCHANGED <<meta, drawn>>
    ELSE /\ drawn < MaxIdentities /\ self' = drawn /\ drawn' = drawn + 1
         /\ meta' \in SeedKept(drawn)

\* load_all fails as a whole, and the application goes on without.
Loaded(rowsRead) == IF rowsRead THEN Restored(rows) ELSE {{}}

\* node_start of the application loads the messages if it can, and replaces the
\* reputation of the node by the shared one, where its own key is a stranger unless
\* the nodes before it published enough.
StartApplication(seedRead, rowsRead) ==
  /\ loaded' = (loaded /\ seedRead /\ rowsRead)
  /\ memory' \in Loaded(rowsRead)
  /\ trusted' \in BOOLEAN

\* The headless binary loads no message, and trusts itself.
StartHeadless ==
  /\ loaded' = FALSE /\ memory' = {} /\ trusted' = TRUE

Start ==
  /\ ~up /\ up' = TRUE /\ based' = TRUE
  /\ \E seedRead, rowsRead \in BOOLEAN :
       /\ Identity(seedRead)
       /\ StartApplication(seedRead, rowsRead) \/ StartHeadless
  /\ gauge' = Used(memory')
  /\ UNCHANGED <<publication, rows, synced, now>>

\* The database cannot be opened: the node runs in memory only, under an identity
\* of its own.
StartBare ==
  /\ ~up /\ up' = TRUE /\ based' = FALSE
  /\ drawn < MaxIdentities /\ self' = drawn /\ drawn' = drawn + 1
  /\ trusted' \in BOOLEAN
  /\ UNCHANGED <<loaded, publication, memory, gauge, rows, meta, synced, now>>

Tick ==
  /\ now < MaxTime /\ now' = now + 1
  /\ UNCHANGED <<process, publication, memory, gauge, rows, disk>>

StoreInit ==
  /\ up = FALSE /\ based = FALSE /\ loaded = TRUE /\ self = NoSeed /\ trusted = FALSE
  /\ battery = FALSE /\ last = Never /\ sent = <<>> /\ memory = {} /\ gauge = 0
  /\ rows = {} /\ meta = NoSeed /\ synced = [rows |-> {}, meta |-> NoSeed] /\ drawn = 0
  /\ now = 0

StoreNext ==
  \/ \E d \in Drafts, date \in Dates : Publish(d, date)
  \/ PublishPost
  \/ \E m \in Alerts : ReceiveAlert(m)
  \/ SetBatterySaver \/ BecomeTrusted
  \/ Sweep \/ Stop \/ PowerLoss \/ Checkpoint \/ Start \/ StartBare \/ Tick

StoreSpec == StoreInit /\ [][StoreNext]_storeVars

-----------------------------------------------------------------------------
(* Properties *)

\* The store in memory keeps within the budget of its policy, and the gauge the
\* health endpoint reports is what it holds, through publications, receptions,
\* sweeps and restorations.  (metrics.rs, storage/mod.rs 605-713)
StoreTypeOK ==
  /\ Used(memory) <= Budget /\ gauge = Used(memory)
  /\ self \in {NoSeed} \cup 0 .. MaxIdentities - 1 /\ now \in 0 .. MaxTime

\* As long as every start reads the database, a node holds every unexpired message
\* of it and signs with the seed it keeps: the restart brings all of them back,
\* however many rows failed deletions left behind, and no sweep forgets one before
\* the database counts it as expired.  One start that skips them, as the headless
\* binary does, and the rows outgrow the budget.  (node/mod.rs 931-933: the
\* persisted messages are restored after a crash, at start-up; the expired ones are
\* ignored, the others reloaded.)
UnexpiredRestored ==
  based /\ loaded =>
    /\ \A m \in rows : Expired(m) \/ m \in memory
    /\ meta # NoSeed => self = meta

\* Two messages a node publishes in one life, kept or refused by its store, are sent
\* at least the shorter interval apart, whatever becomes of its battery and of its
\* reputation between them.  (The dates they carry say less: each is off by Fuzz.)
\* (node/mod.rs 694-848, the throttle of publish_alert and publish_mutual_aid)
PublicationsSpaced ==
  \A i \in DOMAIN sent : \A j \in 1 .. i - 1 : sent[i] >= sent[j] + Interval
=============================================================================
