---------------------------- MODULE TileGeometry ----------------------------
(***************************************************************************)
(* The positions of tiles along one axis, three times: iterate_tiles cuts  *)
(* a CCD into tiles, level by level; TileInfo names the CCDs of a tile,    *)
(* from their boxes; and _iterate_pos of transfer_tiles lists the tiles to *)
(* be packed, from a box as well.  The other axis is the same.             *)
(*                                                                         *)
(* A pixel is the set of the pixel rows of the CCD that it is the mean of. *)
(* Edges of boxes are in half pixels; the focal plane is at rows >= 0.     *)
(***************************************************************************)
EXTENDS Integers, Sequences

CONSTANTS
    TileSize,
    MaxLevel,
    TilePack,
    MaxEdge,      \* bound: the lower edge of a box, in half pixels
    MaxExtent     \* bound: from the first to the last row

ASSUME GeometryAssumption ==
    /\ TileSize \in Nat \ {0} /\ MaxLevel \in Nat /\ TilePack \in Nat
    /\ MaxEdge \in Nat /\ MaxExtent \in Nat

VARIABLES
    box,          \* the lower edge and the extent (maxy - miny) of the CCD
    level,
    y1, y2,       \* of iterate_tiles
    data,         \* rows of the pool, from y1
    savedTiles,   \* what iterate_tiles has saved
    z1, z2,       \* y1 and y2 of _iterate_pos
    sent          \* the packs of what it yields

geometryVars == <<box, level, y1, y2, data, savedTiles, z1, z2, sent>>

Boxes == [low : 0..MaxEdge, extent : 1..MaxExtent]
NoBox == [low |-> 0, extent |-> 0]

Floor(halves) == halves \div 2
Rows(b) == Floor(b.low) .. Floor(b.low) + b.extent

\* TileInfo: closed boxes that intersect.
Named(l, i) ==
    LET size == 2 * TileSize * 2^l
        high == box.low + 2 * box.extent
    IN  i * size <= high /\ (i + 1) * size >= box.low

NamedTiles == {p \in (0..MaxLevel) \X (0..MaxEdge + MaxExtent) : Named(p[1], p[2])}

TileRows(first, end) == (first \div TileSize) .. ((end - 1) \div TileSize)

\* safe_slice
Slice(from, i) ==
    [k \in 0..(TileSize - 1) |->
        LET y == i * TileSize + k
        IN  IF y >= from /\ y < from + Len(data) THEN data[y - from + 1] ELSE {}]

\* shrink_image
\* Mutant: the last row of an odd number of rows is dropped.
ShrinkUnpadded(d, top, bottom) ==
    LET padded == (IF top = 1 THEN <<{}>> ELSE <<>>) \o d
    IN  [k \in 1..(Len(padded) \div 2) |-> padded[2 * k - 1] \union padded[2 * k]]

Shrink(d, top, bottom) ==
    LET padded == (IF top = 1 THEN <<{}>> ELSE <<>>) \o d \o (IF bottom = 1 THEN <<{}>> ELSE <<>>)
    IN  [k \in 1..(Len(padded) \div 2) |-> padded[2 * k - 1] \union padded[2 * k]]

\* PackedTilePos: from_unpacked, unpackeds and index.
Packed(i) == i \div 2^TilePack
Index(i, j) == (i % 2^TilePack) * 2^TilePack + (j % 2^TilePack)
UnpackedPos(pi, pj, n) ==
    <<pi * 2^TilePack + (n \div 2^TilePack), pj * 2^TilePack + (n % 2^TilePack)>>

GeometryInit ==
    /\ box = NoBox
    /\ level = 0 /\ y1 = 0 /\ y2 = 0 /\ data = <<>> /\ savedTiles = <<>>
    /\ z1 = 0 /\ z2 = 0 /\ sent = {}

\* assemble_raw_amps gives the pool int(maxy - miny) + 1 rows.
Assemble(b) ==
    /\ box = NoBox /\ box' = b
    /\ y1' = Floor(b.low) /\ y2' = Floor(b.low) + b.extent + 1
    /\ data' = [k \in 1..(b.extent + 1) |-> {Floor(b.low) + k - 1}]
    /\ z1' = Floor(b.low) /\ z2' = Floor(b.low) + b.extent
    /\ UNCHANGED <<level, savedTiles, sent>>

Cut ==
    LET here == {level} \X TileRows(y1, y2) IN
    /\ box # NoBox /\ level <= MaxLevel
    /\ savedTiles' = [p \in DOMAIN savedTiles \union here |->
                         IF p \in here THEN Slice(y1, p[2]) ELSE savedTiles[p]]
    /\ sent' = sent \union ({level} \X {Packed(i) : i \in TileRows(z1, z2)})
    /\ data' = IF level = MaxLevel THEN <<>> ELSE Shrink(data, y1 % 2, y2 % 2)
    /\ y1' = y1 \div 2 /\ y2' = (y2 + 1) \div 2
    /\ z1' = z1 \div 2 /\ z2' = (z2 + 1) \div 2
    /\ level' = level + 1
    /\ UNCHANGED box

GeometryNext == Cut \/ \E b \in Boxes : Assemble(b)

GeometrySpec == GeometryInit /\ [][GeometryNext]_geometryVars

-----------------------------------------------------------------------------
GeometryTypeOK ==
    /\ box \in Boxes \union {NoBox} /\ level \in 0..(MaxLevel + 1)
    /\ {y1, y2, z1, z2} \subseteq Nat
    /\ level <= MaxLevel => Len(data) = y2 - y1

\* A pixel of a tile of level l is the mean of 2^l rows, those at its place: the padding of
\* each level brings the rows to the place where the tile's position says they are.
TileIsMean ==
    \A p \in DOMAIN savedTiles : \A k \in 0..(TileSize - 1) :
        savedTiles[p][k] = {y \in Rows(box) : y \div 2^p[1] = p[2] * TileSize + k}

\* TileInfo names a CCD at the positions where it has a tile: nothing is left out of the
\* merged tile, and no file is looked for that was never written.  (A lower edge on the
\* edge of a tile is named in the tile before as well: the table of CCDs has none.)
NamedHasTile ==
    level > MaxLevel /\ box.low % (2 * TileSize) # 0 => DOMAIN savedTiles = NamedTiles

\* Every tile is in a pack that is sent, at the index where readers look for it.
\* (_iterate_pos counts one row less than there is: a CCD whose last row is the first of a
\* tile may miss a pack.  The table has none.)
TileIsSent ==
    level > MaxLevel /\ (Floor(box.low) + box.extent) % TileSize # 0 =>
        \A p, q \in DOMAIN savedTiles :
            /\ <<p[1], Packed(p[2])>> \in sent
            /\ UnpackedPos(Packed(p[2]), Packed(q[2]), Index(p[2], q[2])) = <<p[2], q[2]>>

\* What the module promises: its types, TileIsMean, NamedHasTile and TileIsSent.
GeometryInv == GeometryTypeOK /\ TileIsMean /\ NamedHasTile /\ TileIsSent
=============================================================================
