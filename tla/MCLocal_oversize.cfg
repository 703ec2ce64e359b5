\* The constants of MCLocal.cfg: an event may be too large for a frame.
CONSTANTS
  WireEvents <- MCWireEvents
  Kinds = {0, 1}
  Buckets = {12, 16}
  MaxTags = 2
  Senders = {me, s}
  Me = me
  NonceCap = 4
  MaxPool = 5
  TileFiles <- MCTileFiles
  Archives <- MCArchives
  Queries <- MCQueries
  ZoomCap = 3
  Widest = 4
  Prefix = 4
  Bits = 5
  Precisions = {1, 2}
  ZimFiles <- MCZimFiles
  DemoZoom = 3
  DemoEdge = 2
  SeedSizes <- MCSeedSizes
  SeedBudget = 8
  Signers = {a, b}
  Drafts <- MCDrafts
  Zeros <- MCZeros
  Nonces = 2
  MaxDifficulty = 2
  MaxAlert = 1
  Skew = 2
  Fuzz = 1
  MaxClock = 3
  MaxChanges = 2
  Texts <- MCTexts
  MaxTuitter = 500
  MaxTitle = 300
  MaxRedit = 40000
  MaxSlug = 50
  MaxId = 128
  MaxMessage = 2000
  MaxReason = 500
  Caps <- MCCaps
  Wrapping = 400
  Labels = 100
  PayloadChunk = 16384
  PacketBuckets = {256, 1024, 4096, 16384}
  MaxFrame = 16384
  TopDifficulty = 1
  Peers = {p1, p2}
  Trusting = {p1}
  Interval = 2
  MaxTime = 4
  MaxLife = 1
  NoKey = NoKey
  FeedPosts = {f1, f2, f3}
  PageCap = 2
  Limits = {1, 3}
  MaxSecond = 2
  MaxRewrites = 4
  pa = pa
  pb = pb
  ca = ca
  cb = cb
  cc = cc
  cx = cx
  Posts = {pa, pb}
  Comments = {ca, cb, cc, cx}
  PostOf <- MCPostOf
  ParentOf <- MCParentOf
  Voters = {v1}
  Rated = {ca}
  Links = {l1}
  Mail = {m1}
  MaxOrphans = 3
  Window = 3
  MaxCuts = 1
  MaxCopies = 1
  MaxAstray = 1
  Pieces <- MCPieces
  Stops <- MCStops
  ContextSize = 5
  Budgets = {0, 3}
  Prompts = {1, 2, 3, 6}
  Memories = {325, 1024, 2047, 5120}
  MaxAsks = 2
  Recordings <- MCRecordings
  SampleSets <- MCSamples
  TargetRate = 2
  MaxDuration = 2
  Needs = {256, 5120}
  FreeRam = 4096
  Phrases <- MCPhrases
SPECIFICATION Spec
INVARIANT PacketFitsFrame
CHECK_DEADLOCK FALSE
