-------------------------------- MODULE Shelf --------------------------------
(***************************************************************************)
(* What a node can show without the network (storage/mod.rs): articles and *)
(* map tiles, built in for demonstrations or in a file; the files it       *)
(* offers to others; and the cell of the world it is in, whose name        *)
(* (geohash) decides which messages it keeps and which tile it draws.      *)
(*                                                                         *)
(* A position is a pair of integers in 0 .. Span, south or west edge       *)
(* first, for the degrees of latitude and longitude; a geohash character   *)
(* is its place in the alphabet.                                           *)
(***************************************************************************)
EXTENDS Integers, Sequences, SequencesExt, FiniteSetsExt

CONSTANTS
  Bits,        \* the halvings of each axis that Span allows
  Precisions,  \* lengths of the geohashes asked for
  ZimFiles,    \* records [there, long, major, count]: archives somebody loads
  DemoZoom,    \* the last zoom of the built-in tiles (5)
  DemoEdge,    \* the built-in tiles of a zoom are these many a side at most (4)
  SeedSizes,   \* function: built-in seed -> size in bytes
  SeedBudget   \* total_storage_bytes

ASSUME ShelfAssumption ==
  /\ {Bits, DemoZoom, DemoEdge, SeedBudget} \subseteq Nat
  /\ \A p \in Precisions : p \in Nat /\ 5 * p <= 2 * Bits

VARIABLES
  articles,  \* article_cache: "demo" or "none"
  total,     \* total_articles
  archive,   \* archive_path is set
  tiles,     \* tile_cache: the keys of the built-in tiles
  database,  \* db_path is set
  seeds,     \* CIDs offered
  place      \* the last position located, with what was computed of it

shelfVars == <<articles, total, archive, tiles, database, seeds, place>>
zim == <<articles, total, archive>>
maps == <<tiles, database>>

Span == 2 ^ Bits

-----------------------------------------------------------------------------
(* Content *)

\* load_archive, parse_zim_header.  The articles of a demonstration stay.
LoadArchive(f) ==
  /\ IF f.there /\ f.long /\ f.major >= 5
       THEN total' = f.count /\ archive' = TRUE
       ELSE UNCHANGED <<total, archive>>
  /\ UNCHANGED <<articles, maps, seeds, place>>

DemoArticles == 6

\* ZimReader::load_demo
LoadArticleDemo ==
  /\ articles' = "demo" /\ total' = DemoArticles /\ archive' = FALSE
  /\ UNCHANGED <<maps, seeds, place>>

\* MBTilesRenderer::load: the tiles of a demonstration go.
LoadMap(there) ==
  /\ IF there THEN tiles' = {} /\ database' = TRUE ELSE UNCHANGED maps
  /\ UNCHANGED <<zim, seeds, place>>

DemoTiles ==
  UNION {LET side == 0 .. Min({2 ^ z, DemoEdge}) - 1 IN {z} \X side \X side : z \in 0 .. DemoZoom}

\* MBTilesRenderer::load_demo: the database stays open, if there is one.
LoadMapDemo ==
  /\ tiles' = tiles \cup DemoTiles
  /\ UNCHANGED <<database, zim, seeds, place>>

UsedStorage(S) == MapThenSumSet(LAMBDA s : SeedSizes[s], S)

\* register_demo_seeds: the built-in seeds in order, each if it still fits, one
\* already there being counted twice for that.
RegisterSeeds(order) ==
  /\ seeds' = FoldLeft(LAMBDA S, s : IF UsedStorage(S) + SeedSizes[s] <= SeedBudget
                                       THEN S \cup {s} ELSE S, seeds, order)
  /\ UNCHANGED <<zim, maps, place>>

-----------------------------------------------------------------------------
(* Position *)

Halved(range, upper) ==
  LET mid == (range[1] + range[2]) \div 2
  IN  IF upper THEN <<mid, range[2]>> ELSE <<range[1], mid>>

Upper(range, x) == 2 * x >= range[1] + range[2]

\* Slip: the first bit is the latitude's.
LatitudeFirst(i) == i % 2 = 0

\* is_lon: bits alternate, beginning with the longitude.
LongitudeTurn(i) == i % 2 = 1

\* One bit of position_to_geohash.
Refined(cell, i, lat, lon) ==
  IF LongitudeTurn(i)
    THEN [cell EXCEPT !.lon = Halved(@, Upper(@, lon)),
                      !.code = Append(@, IF Upper(cell.lon, lon) THEN 1 ELSE 0)]
    ELSE [cell EXCEPT !.lat = Halved(@, Upper(@, lat)),
                      !.code = Append(@, IF Upper(cell.lat, lat) THEN 1 ELSE 0)]

\* position_to_geohash: five bits to a character.
Geohash(lat, lon, precision) ==
  LET world == [lat |-> <<0, Span>>, lon |-> <<0, Span>>, code |-> <<>>]
      code  == FoldLeft(LAMBDA cell, i : Refined(cell, i, lat, lon), world,
                        [i \in 1 .. 5 * precision |-> i]).code
  IN  [c \in 1 .. precision |->
         FoldLeft(LAMBDA n, i : 2 * n + code[5 * (c - 1) + i], 0, <<1, 2, 3, 4, 5>>)]

\* lat_lon_to_tile, its column.
TileColumn(lon, zoom) == (lon * 2 ^ zoom) \div Span

\* get_radar_position, and the column of the tile under it.
Locate(lat, lon, precision, zoom) ==
  /\ place' = [lat |-> lat, lon |-> lon, hash |-> Geohash(lat, lon, precision),
               zoom |-> zoom, column |-> TileColumn(lon, zoom)]
  /\ UNCHANGED <<zim, maps, seeds>>

-----------------------------------------------------------------------------
Nowhere == [lat |-> 0, lon |-> 0, hash |-> <<>>, zoom |-> 0, column |-> 0]

ShelfInit ==
  /\ articles = "none" /\ total = 0 /\ archive = FALSE
  /\ tiles = {} /\ database = FALSE /\ seeds = {}
  /\ place = Nowhere

ContentNext ==
  \/ \E f \in ZimFiles : LoadArchive(f)
  \/ LoadArticleDemo \/ LoadMapDemo \/ \E there \in BOOLEAN : LoadMap(there)
  \/ RegisterSeeds(SetToSeq(DOMAIN SeedSizes))

PositionNext ==
  \E lat, lon \in 0 .. Span, p \in Precisions, zoom \in 0 .. Bits : Locate(lat, lon, p, zoom)

-----------------------------------------------------------------------------
\* The rectangle a geohash stands for, by its definition: n bits in all, of which the
\* longitude has the extra one.  The far edges belong to the last cells.
CellOf(x, bits) == Min({(x * 2 ^ bits) \div Span, 2 ^ bits - 1})
Cell(lat, lon, n) == <<CellOf(lat, n \div 2), CellOf(lon, n - n \div 2)>>

\* Two nodes have the first k characters in common exactly when they share the cell
\* of 5k bits, so the neighbourhoods of all radii nest (storage/mod.rs 580-592, 713-735);
\* and the cell of the longitude is the column of the tile, everywhere but on the
\* antimeridian, whose column lies outside of the map.
CellsNest ==
  LET p == Len(place.hash)
  IN  /\ \A lat, lon \in {Span \div 2 - 1, Span \div 2, Span, place.lat, place.lon} :
           LET other == Geohash(lat, lon, p) IN
             \A k \in 1 .. p :
               SubSeq(other, 1, k) = SubSeq(place.hash, 1, k)
                 <=> Cell(lat, lon, 5 * k) = Cell(place.lat, place.lon, 5 * k)
      /\ place.column = CellOf(place.lon, place.zoom) + IF place.lon = Span THEN 1 ELSE 0
=============================================================================
