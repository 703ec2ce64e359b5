------------------------------- MODULE Offline -------------------------------
(***************************************************************************)
(* The readers of the content kept on a device for when there is no        *)
(* network: map tiles (crates/mbtiles-parser) and encyclopedia archives    *)
(* (crates/zim-parser).  Both open a file somebody else produced, refuse   *)
(* what they cannot use, and then answer requests for a tile or an         *)
(* article.                                                                *)
(*                                                                         *)
(* A tile file is its facts: its kind, the tables it has, its metadata and *)
(* its rows; of each metadata key, the values of its rows in order, a text *)
(* that is no number being a number out of range.  An archive is the       *)
(* offsets of its parts; an article names a cluster, the offset of a blob  *)
(* in it and the size of the blob once decompressed.                       *)
(***************************************************************************)
EXTENDS Integers, Sequences, SequencesExt, FiniteSets, FiniteSetsExt

CONSTANTS
  TileFiles,  \* records [kind, has, columns, name, format, bounds, center, min, max, rows]
  Archives,   \* records [magic, major, room, articles, clusters, dirents, size]
  Queries,    \* the prefixes of titles that are searched
  ZoomCap,    \* MAX_SUPPORTED_ZOOM
  Widest,     \* the widest zoom and coordinate a caller asks for
  Prefix      \* cells of a size field (4)

ASSUME OfflineAssumption ==
  /\ {ZoomCap, Widest, Prefix} \subseteq Nat \ {0}
  /\ \A f \in TileFiles : f.rows \subseteq Int \X Int \X Int /\ IsFiniteSet(f.rows)
  /\ TileFiles \cap Archives = {}

VARIABLES
  file,    \* the file that was opened
  reader,  \* the reader it gave, or why it was refused
  answer   \* the last request and its answer

offlineVars == <<file, reader, answer>>

Unset == -1
Nothing == [ask |-> "nothing"]

-----------------------------------------------------------------------------
(* Map tiles *)

\* TileFormat::parse
Format(raw) ==
  CASE raw \in {"jpg", "jpeg"} -> "jpg"
    [] raw \in {"png", "pbf", "webp"} -> raw
    [] OTHER -> "none"

Longitudes == -180 .. 180
Latitudes == -90 .. 90

\* Bounds::parse: west, south, east, north.
BoundsSound(b) ==
  /\ Len(b) = 4
  /\ {b[1], b[3]} \subseteq Longitudes /\ {b[2], b[4]} \subseteq Latitudes
  /\ b[1] <= b[3] /\ b[2] <= b[4]

\* Center::parse: longitude, latitude, zoom.
CenterSound(c) == Len(c) = 3 /\ c[1] \in Longitudes /\ c[2] \in Latitudes /\ c[3] \in 0 .. 255

\* load_metadata: of the rows of a key the first counts; name and format must be there.
FirstIs(rows, Sound(_)) == rows # <<>> => Sound(rows[1])

MetadataSound(f) ==
  /\ f.name # <<>> /\ f.name[1] # "blank"
  /\ f.format # <<>> /\ Format(f.format[1]) # "none"
  /\ FirstIs(f.bounds, BoundsSound) /\ FirstIs(f.center, CenterSound)
  /\ \A ends \in {f.min, f.max} : FirstIs(ends, LAMBDA z : z \in 0 .. 255)
  /\ f.min # <<>> /\ f.max # <<>> => f.min[1] <= f.max[1]

\* open: the first requirement that fails, in the code's order.
TileRefusal(f) ==
  CASE f.kind = "absent" -> "FileNotFound"
    [] f.kind \in {"directory", "text"} -> "NotSqlite"
    [] "metadata" \notin f.has -> "MissingTable"
    [] "tiles" \notin f.has /\ {"map", "images"} \subseteq f.has -> "InvalidSchema"
    [] "tiles" \notin f.has -> "MissingTable"
    [] ~f.columns -> "InvalidSchema"
    [] ~MetadataSound(f) -> "InvalidMetadata"
    [] OTHER -> "none"

Zooms(f) == {r[1] : r \in f.rows}

\* The ends of the zoom range: declared, or those of the rows; a negative zoom of a
\* row is no u8 and leaves the end unset.
LowZoom(f) == IF f.min # <<>> THEN f.min[1] ELSE IF Zooms(f) = {} THEN Unset ELSE Min(Zooms(f))
HighZoom(f) == IF f.max # <<>> THEN f.max[1] ELSE IF Zooms(f) = {} THEN Unset ELSE Max(Zooms(f))

\* Slip: rows counted from the south, as they are stored.
Unflipped(y, zoom) == y

\* xyz_row_to_tms: rows counted from the north, turned around.
Flipped(y, zoom) == 2 ^ zoom - 1 - y

\* get_tile_xyz, ensure_tile_coords, get_tile_tms: the first check that fails answers.
TileAnswer(r, z, x, y) ==
  IF z > ZoomCap THEN "ZoomOutOfRange"
  ELSE IF y >= 2 ^ z THEN "CoordinatesOutOfBounds"
  ELSE IF \/ r.low # Unset /\ z < r.low
          \/ r.high # Unset /\ z > r.high THEN "ZoomOutOfRange"
  ELSE IF x >= 2 ^ z THEN "CoordinatesOutOfBounds"
  ELSE IF <<z, x, Flipped(y, z)>> \in r.rows THEN r.format
  ELSE "empty"

OpenTiles(f) ==
  /\ file' = f
  /\ reader' = IF TileRefusal(f) # "none" THEN [refused |-> TileRefusal(f)]
               ELSE [refused |-> "none", low |-> LowZoom(f), high |-> HighZoom(f),
                     format |-> Format(f.format[1]), rows |-> f.rows]
  /\ answer' = Nothing

GetTile(z, x, y) ==
  /\ file \in TileFiles /\ reader.refused = "none"
  /\ answer' = [ask |-> "tile", at |-> <<z, x, y>>, is |-> TileAnswer(reader, z, x, y)]
  /\ UNCHANGED <<file, reader>>

-----------------------------------------------------------------------------
(* Archives *)

\* Where a dirent ends: two terminated texts, a namespace, four numbers.  One whose
\* text has no terminator runs past the end of the file.
DirentEnd(d) == d.at + Len(d.url) + Len(d.title) + 3 + Prefix \div 2 + 3 * Prefix

\* Dirent::parse
DirentRefusal(a, d) ==
  CASE d.at >= a.size -> "OutOfBounds"
    [] d.at < a.size /\ DirentEnd(d) > a.size -> "TruncatedHeader"
    [] OTHER -> "none"

\* ZimHeader::parse, then load_index up to the first dirent that is refused.
ArchiveRefusal(a) ==
  CASE ~a.magic -> "InvalidMagic"
    [] a.major > 6 -> "BadVersion"
    [] 3 * a.articles * Prefix > a.room -> "OutOfBounds"
    [] OTHER ->
         LET bad == {i \in DOMAIN a.dirents : DirentRefusal(a, a.dirents[i]) # "none"}
         IN  IF bad = {} THEN "none" ELSE DirentRefusal(a, a.dirents[Min(bad)])

\* Where the blobs of a cluster begin in it, after the code of its compression: each after
\* the size and the cells of the one before.
BlobOffset(c, k) ==
  LET begin[j \in 1 .. k] == IF j = 1 THEN 1 ELSE begin[j - 1] + Prefix + c.blobs[j - 1]
  IN  begin[k]
ClusterSize(c) == BlobOffset(c, Len(c.blobs) + 1)

\* The producer of an archive laid its parts one after the other, and its articles name the
\* blobs they are made of; the version, the header and the codes may be wrong, and the file
\* may be cut off anywhere.
Article(a, d) ==
  LET c == a.clusters[d.cluster]
  IN  /\ d.cluster \in DOMAIN a.clusters /\ d.blob \in DOMAIN c.blobs
      /\ d.offset = BlobOffset(c, d.blob) /\ d.size = c.raw[d.blob]

Disjoint(a, c) ==
  \A o \in {a.clusters[k].at : k \in DOMAIN a.clusters} \cup {a.dirents[i].at : i \in DOMAIN a.dirents} :
    o > c.at => o >= c.at + ClusterSize(c)

ASSUME ArchiveAssumption ==
  \A a \in Archives :
    /\ a.size \in Nat /\ DOMAIN a.dirents = 1 .. Len(a.dirents) /\ Len(a.dirents) \in Nat
    /\ \A i \in DOMAIN a.dirents : a.dirents[i].at \in Nat /\ Article(a, a.dirents[i])
    /\ \A k \in DOMAIN a.clusters :
         /\ a.clusters[k].at \in Nat /\ a.clusters[k].blobs \in Seq(Nat)
         /\ Disjoint(a, a.clusters[k])

\* decode_content: a cluster reaches to the next part that the index knows of, a
\* cluster some article names or a dirent, or to the end of the file.
KnownParts(a) ==
  {a.clusters[a.dirents[i].cluster].at : i \in DOMAIN a.dirents}
  \cup {a.dirents[i].at : i \in DOMAIN a.dirents}
Extent(a, c) == Min({o \in KnownParts(a) : o > c.at} \cup {a.size}) - c.at

Borders(c) == {BlobOffset(c, k) : k \in 1 .. Len(c.blobs) + 1}

\* parse_cluster walks the blobs to the end of the extent, and gives those it located:
\* all before the end where that is a border, none where a blob is cut; what lies
\* beyond the last blob is read as more blobs, which succeeds or not.
Walks(a, c) ==
  LET located == {k \in DOMAIN c.blobs : BlobOffset(c, k + 1) <= Extent(a, c)}
  IN  IF ~c.known THEN {{}}
      ELSE IF Extent(a, c) \in Borders(c) THEN {located}
      ELSE IF Extent(a, c) < ClusterSize(c) THEN {{}}
      ELSE {located, {}}

BlobsAt(c, offset) == {k \in DOMAIN c.blobs : BlobOffset(c, k) = offset}

\* decompress: an error unless it yields exactly the size the article gives.
Decompresses(c, k, d) == c.raw[k] = d.size

\* The blob located at the offset of the article, if it decompresses; empty otherwise.
Content(c, d, located) == {k \in BlobsAt(c, d.offset) \cap located : Decompresses(c, k, d)}

OpenArchive(a) ==
  /\ file' = a
  /\ reader' = [refused |-> ArchiveRefusal(a)]
  /\ answer' = Nothing

Usable(f) == f \in Archives /\ reader.refused = "none"
Urls(a) == {a.dirents[i].url : i \in DOMAIN a.dirents}

\* get_article, build_article: the first dirent of that URL.
GetArticle(url) ==
  /\ Usable(file) /\ url \in Urls(file)
  /\ LET i == SelectInSeq(file.dirents, LAMBDA e : e.url = url)
         d == file.dirents[i]
         c == file.clusters[d.cluster]
     IN \E located \in Walks(file, c) :
          answer' = [ask |-> "article", at |-> i, is |-> Content(c, d, located)]
  /\ UNCHANGED <<file, reader>>

\* search: as many of the titles that begin with the query as asked, in file order,
\* as they all score the same.
Matches(query, max) ==
  LET dirents == file.dirents
      found[i \in 0 .. Len(dirents)] ==
        IF i = 0 THEN <<>>
        ELSE IF IsPrefix(query, dirents[i].title) /\ Len(found[i - 1]) < max
               THEN Append(found[i - 1], i) ELSE found[i - 1]
  IN  found[Len(dirents)]

Search(query, max) ==
  /\ Usable(file)
  /\ answer' = [ask |-> "search", at |-> <<query, max>>, is |-> Matches(query, max)]
  /\ UNCHANGED <<file, reader>>

-----------------------------------------------------------------------------
OfflineInit == file = Nothing /\ reader = [refused |-> "nothing"] /\ answer = Nothing

OfflineNext ==
  \/ \E f \in TileFiles : OpenTiles(f)
  \/ \E a \in Archives : OpenArchive(a)
  \/ \E z, x, y \in 0 .. Widest : GetTile(z, x, y)
  \/ \E url \in UNION {Urls(a) : a \in Archives} : GetArticle(url)
  \/ \E query \in Queries, max \in 0 .. 2 : Search(query, max)

OfflineSpec == OfflineInit /\ [][OfflineNext]_offlineVars

-----------------------------------------------------------------------------
\* An archive that is whole, without a hole after a cluster, and all of whose clusters
\* are named.
Tight(a) ==
  \A k \in DOMAIN a.clusters :
    /\ \E i \in DOMAIN a.dirents : a.dirents[i].cluster = k
    /\ a.clusters[k].at + ClusterSize(a.clusters[k]) \in
         {a.clusters[j].at : j \in DOMAIN a.clusters}
         \cup {a.dirents[i].at : i \in DOMAIN a.dirents} \cup {a.size}
    /\ a.clusters[k].at + ClusterSize(a.clusters[k]) <= a.size
    /\ a.clusters[k].known

\* The file ends between two blobs of the cluster of an article, after its own.
CutAfter(a, d) ==
  LET c == a.clusters[d.cluster]
  IN  /\ c.known
      /\ \E k \in d.blob + 1 .. Len(c.blobs) + 1 : a.size = c.at + BlobOffset(c, k)

Declared(rows) == IF rows = <<>> THEN Unset ELSE rows[1]

\* The rows of a file that lie on the grid of their zoom, within the zooms the file
\* declares, or all of them where it declares none.
Servable(f) ==
  {r \in f.rows : /\ r[1] \in 0 .. ZoomCap /\ r[2] < 2 ^ r[1] /\ r[3] \in 0 .. 2 ^ r[1] - 1
                  /\ Declared(f.min) = Unset \/ r[1] >= Declared(f.min)
                  /\ Declared(f.max) = Unset \/ r[1] <= Declared(f.max)}

\* The distance of a row to the south edge is that of its request to the north edge.
Mirrors(at, r) == at[1] = r[1] /\ at[2] = r[2] /\ at[3] + r[3] + 1 = 2 ^ r[1]

\* Whatever the producer of the file left out, a request finds exactly what the
\* file holds there: a tile iff a servable row mirrors it, and an article's own blob
\* or nothing, its own blob wherever the index knows of all parts of the file, or
\* the file is cut after it at a border of blobs of its cluster.  A search misses a
\* title that matches only if it returns as many as were asked.
LookupExact ==
  /\ answer.ask = "tile" =>
       (answer.is \in {"jpg", "png", "pbf", "webp"} <=> \E r \in Servable(file) : Mirrors(answer.at, r))
  /\ answer.ask = "article" =>
       LET d   == file.dirents[answer.at]
           own == {k \in DOMAIN file.clusters[d.cluster].blobs : k = d.blob}
       IN  /\ answer.is \in {{}, own}
           /\ Tight(file) \/ CutAfter(file, d) => answer.is = own
  /\ answer.ask = "search" =>
       \A i \in DOMAIN file.dirents \ Range(answer.is) :
         IsPrefix(answer.at[1], file.dirents[i].title) => Len(answer.is) = answer.at[2]
=============================================================================
