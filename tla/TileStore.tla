----------------------------- MODULE TileStore -----------------------------
(***************************************************************************)
(* The tiles of one quicklook, from the files that the generators wrote    *)
(* while they processed the CCDs to what a viewer is shown: the RPC        *)
(* functions that merge them, store them and remove them, and the          *)
(* frontend's handlers, which read from the generators or from the object  *)
(* storage by the stage they were told.                                    *)
(*                                                                         *)
(* An image is the number of times each CCD was added to it.  TileGeometry *)
(* justifies that the CCDs a generator wrote tiles of at a position are    *)
(* those that TileInfo names.                                              *)
(***************************************************************************)
EXTENDS Naturals, FiniteSets

CONSTANTS
    Generators, Ccds, Positions, Packs,
    CcdsAt,        \* TileInfo: the CCDs at a position
    PackOf,        \* the packed tile of a position
    MaxFaults,     \* bound: crashes, failed calls and rewritten files
    MaxZombies,    \* bound: tiles written by processing that nobody waits for
    MaxRequests    \* bound: requests of the viewer

\* A viewer asks for the tile of a position or for the header of a CCD, by another route.
ASSUME TileAssumption ==
    /\ CcdsAt \in [Positions -> SUBSET Ccds] /\ PackOf \in [Positions -> Packs]
    /\ Positions \intersect Ccds = {}

VARIABLES
    owner,         \* ccd_generator_map
    primary,       \* the primary generator of a position with CCDs
    packer,        \* the generator that stores a packed tile
    step,          \* what the coordinator does
    todo,          \* items left of the function that runs on a generator
    up,            \* generators that are up
    metadata, config,  \* generators that saved the job and the distribution config
    tiles,         \* files of single-FITS tiles of each generator
    torn,          \* files that are being written again
    merged,        \* images of merged tiles, on their primary generators
    packs,         \* images in the packed tiles of the object storage
    headers,       \* FITS headers in the object storage
    seen,          \* the stage the frontend knows
    cached,        \* packed tiles in the frontend's lru_cache
    request, answer,
    faults, zombies, requests

planVars == <<owner, primary, packer>>
fileVars == <<metadata, config, tiles, merged>>
storageVars == <<packs, headers>>
viewerVars == <<seen, cached, request, answer, requests>>
boundVars == <<faults, zombies>>
vars == <<planVars, step, todo, up, fileVars, torn, storageVars, viewerVars, boundVars>>

Steps == <<"metadata", "config", "merge", "clear", "upload", "headers", "ready", "cleanup",
           "over", "deleted">>
After(s) == Steps[1 + CHOOSE i \in DOMAIN Steps : Steps[i] = s]

\* job.status.stage; without an entry for the visit there is none.
\* Mutant: the stage is changed after the single-FITS tiles were cleared (the order the
\* TODO in _transfer_tiles would like to have).
StageLate(s) ==
    CASE s \in {"metadata", "config"} -> "generate"
      [] s \in {"merge", "clear"} -> "merge"
      [] s \in {"upload", "headers"} -> "upload"
      [] s = "ready" -> "ready"
      [] OTHER -> "none"

Stage(s) ==
    CASE s \in {"metadata", "config"} -> "generate"
      [] s = "merge" -> "merge"
      [] s \in {"clear", "upload", "headers"} -> "upload"
      [] s = "ready" -> "ready"
      [] OTHER -> "none"

\* f, with v at x.
Put(f, x, v) == [y \in DOMAIN f \union {x} |-> IF y = x THEN v ELSE f[y]]

Blank == [c \in Ccds |-> 0]
\* What a tile at position p shows when nothing is missing.
Whole(p) == [c \in Ccds |-> IF c \in CcdsAt[p] THEN 1 ELSE 0]
Sum(a, b) == [c \in Ccds |-> a[c] + b[c]]

Owners(p) == {owner[c] : c \in CcdsAt[p]}

\* Mutant: the CCDs of the files that are there.
MyCcdsByFile(g, p) == {c \in Ccds : <<c, p>> \in tiles[g]}

MyCcds(g, p) == {c \in CcdsAt[p] : owner[c] = g}

\* load_local_merged, which raises when it cannot read a file.
Local(g, p) == [c \in Ccds |-> IF c \in MyCcds(g, p) THEN 1 ELSE 0]
Readable(g, p) ==
    /\ up[g] /\ g \in config
    /\ \A c \in MyCcds(g, p) : <<c, p>> \in tiles[g] /\ <<g, c, p>> \notin torn

\* The generator's routes need the metadata of the job.
ServesTile(g, p) == g \in metadata /\ Readable(g, p)
ServesMerged(p) == up[primary[p]] /\ primary[p] \in metadata /\ p \in DOMAIN merged

Init ==
    /\ owner \in [Ccds -> Generators]
    /\ primary \in {f \in [Positions -> Generators] :
                       \A p \in Positions : CcdsAt[p] # {} => f[p] \in Owners(p)}
    /\ \A p \in Positions : CcdsAt[p] = {} => primary[p] = owner[CHOOSE c \in Ccds : TRUE]
    /\ packer \in [Packs -> {owner[c] : c \in Ccds}]
    /\ step = "metadata"
    /\ todo = [g \in Generators |-> IF \E c \in Ccds : owner[c] = g THEN {"all"} ELSE {}]
    /\ up = [g \in Generators |-> TRUE]
    /\ metadata = {} /\ config = {}
    /\ \E losers \in SUBSET Generators :
           tiles = [g \in Generators |->
               {t \in Ccds \X Positions :
                   t[1] \in CcdsAt[t[2]] /\ (owner[t[1]] = g \/ g \in losers)}]
    /\ torn = {} /\ merged = <<>> /\ packs = <<>> /\ headers = {}
    /\ seen = "generate" /\ cached = <<>>
    /\ request = {} /\ answer = {}
    /\ faults = 0 /\ zombies = 0 /\ requests = 0

-----------------------------------------------------------------------------
(* The coordinator calls a function on every generator of the job, and     *)
(* goes on when all calls have ended; that one failed is only logged.      *)

JobGenerators == {owner[c] : c \in Ccds}

Items(s, g) ==
    CASE s \in {"metadata", "config", "clear"} /\ g \in JobGenerators -> {"all"}
      [] s = "merge" -> {p \in Positions : CcdsAt[p] # {} /\ primary[p] = g}
      [] s = "upload" -> {q \in Packs : packer[q] = g}
      [] s = "headers" -> {c \in Ccds : owner[c] = g}
      [] s = "cleanup" -> {"all"}
      [] OTHER -> {}

Advance ==
    /\ step \notin {"over", "deleted"}
    /\ \A g \in Generators : todo[g] = {}
    /\ step' = After(step)
    /\ todo' = [g \in Generators |-> Items(After(step), g)]
    /\ UNCHANGED <<planVars, up, fileVars, torn, storageVars, viewerVars, boundVars>>

Runs(g, s, item) == step = s /\ up[g] /\ item \in todo[g]
Did(g, item) == todo' = [todo EXCEPT ![g] = @ \ {item}]
Raise(g) == todo' = [todo EXCEPT ![g] = {}]

SaveMetadata(g) ==
    /\ Runs(g, "metadata", "all") /\ Did(g, "all")
    /\ metadata' = metadata \union {g}
    /\ UNCHANGED <<planVars, step, up, config, tiles, merged, torn, storageVars, viewerVars,
                   boundVars>>

\* _save_ccd_distribution_config_rpc with remove_non_owned_tiles.
SaveConfig(g) ==
    /\ Runs(g, "config", "all") /\ Did(g, "all")
    /\ config' = config \union {g}
    /\ tiles' = [tiles EXCEPT ![g] = {t \in @ : owner[t[1]] = g}]
    /\ UNCHANGED <<planVars, step, up, metadata, merged, torn, storageVars, viewerVars,
                   boundVars>>

\* _process_tile of merge_single_fits_tiles.
MergeTile(g, p) ==
    /\ Runs(g, "merge", p)
    /\ IF Readable(g, p) /\ \A h \in Owners(p) \ {g} : ServesTile(h, p)
       THEN Did(g, p) /\ merged' = Put(merged, p,
                [c \in Ccds |-> Cardinality({h \in Owners(p) \union {g} : c \in MyCcds(h, p)})])
       ELSE Raise(g) /\ UNCHANGED merged
    /\ UNCHANGED <<planVars, step, up, metadata, config, tiles, torn, storageVars, viewerVars,
                   boundVars>>

ClearTiles(g) ==
    /\ Runs(g, "clear", "all") /\ Did(g, "all")
    /\ tiles' = [tiles EXCEPT ![g] = {}]
    /\ UNCHANGED <<planVars, step, up, metadata, config, merged, torn, storageVars, viewerVars,
                   boundVars>>

Unpacked(q) == {p \in Positions : PackOf[p] = q}

\* _process_packed_tile of transfer_tiles.
PutPack(g, q) ==
    /\ Runs(g, "upload", q)
    /\ LET needed == {p \in Unpacked(q) : CcdsAt[p] # {}} IN
       IF \A p \in needed :
              IF primary[p] = g THEN p \in DOMAIN merged ELSE ServesMerged(p)
       THEN Did(g, q) /\ packs' = Put(packs, q, [p \in Unpacked(q) |->
                                       IF p \in needed THEN merged[p] ELSE Blank])
       ELSE Raise(g) /\ UNCHANGED packs
    /\ UNCHANGED <<planVars, step, up, fileVars, torn, headers, viewerVars, boundVars>>

PutHeader(g, c) ==
    /\ Runs(g, "headers", c) /\ Did(g, c)
    /\ headers' = headers \union {c}
    /\ UNCHANGED <<planVars, step, up, fileVars, torn, packs, viewerVars, boundVars>>

\* _cleanup_rpc removes the directory of the job.
ClearAll(g) ==
    /\ Runs(g, "cleanup", "all") /\ Did(g, "all")
    /\ metadata' = metadata \ {g} /\ config' = config \ {g}
    /\ tiles' = [tiles EXCEPT ![g] = {}]
    /\ merged' = [p \in {x \in DOMAIN merged : primary[x] # g} |-> merged[p]]
    /\ UNCHANGED <<planVars, step, up, torn, storageVars, viewerVars, boundVars>>

\* Later the housekeeping, in another process, deletes the quicklook.
Delete ==
    /\ step = "over" /\ step' = "deleted"
    /\ packs' = <<>> /\ headers' = {}
    /\ UNCHANGED <<planVars, todo, up, fileVars, torn, viewerVars, boundVars>>

-----------------------------------------------------------------------------
(* Faults.                                                                 *)

Fault == faults < MaxFaults /\ faults' = faults + 1

CallFails(g) ==
    /\ todo[g] # {} /\ Fault /\ Raise(g)
    /\ UNCHANGED <<planVars, step, up, fileVars, torn, storageVars, viewerVars, zombies>>

Crash(g) ==
    /\ up[g] /\ Fault
    /\ up' = [up EXCEPT ![g] = FALSE]
    /\ Raise(g)
    /\ UNCHANGED <<planVars, step, fileVars, torn, storageVars, viewerVars, zombies>>

\* The processing of a session that is over, or of a CCD that was completed elsewhere
\* first, writes tiles: of a CCD that another one owns, or once more.
ZombieWrites(g, c, p) ==
    /\ up[g] /\ c \in CcdsAt[p] /\ <<c, p>> \notin tiles[g]
    /\ zombies < MaxZombies /\ zombies' = zombies + 1
    /\ tiles' = [tiles EXCEPT ![g] = @ \union {<<c, p>>}]
    /\ UNCHANGED <<planVars, step, todo, up, metadata, config, merged, torn, storageVars,
                   viewerVars, faults>>

Rewrite(g, c, p) ==
    /\ up[g] /\ <<c, p>> \in tiles[g] /\ torn = {} /\ Fault
    /\ torn' = {<<g, c, p>>}
    /\ UNCHANGED <<planVars, step, todo, up, fileVars, storageVars, viewerVars, zombies>>

Rewritten ==
    /\ torn # {} /\ torn' = {}
    /\ UNCHANGED <<planVars, step, todo, up, fileVars, storageVars, viewerVars, boundVars>>

-----------------------------------------------------------------------------
(* The frontend.                                                           *)

\* The relay tells the newest stage; until it tells anything there is none.
Relay ==
    /\ seen # Stage(step) /\ seen' = Stage(step)
    /\ UNCHANGED <<planVars, step, todo, up, fileVars, torn, storageVars, cached, request,
                   answer, requests, boundVars>>

RestartFrontend ==
    /\ seen # "none" /\ request = {} /\ Fault
    /\ seen' = "none" /\ cached' = <<>>
    /\ UNCHANGED <<planVars, step, todo, up, fileVars, torn, storageVars, request, answer,
                   requests, zombies>>

\* get_tile and get_fits_header look at the stage once.
Ask(want) ==
    /\ request = {} /\ requests < MaxRequests /\ requests' = requests + 1
    /\ request' = {[want |-> want, via |-> seen, image |-> Blank,
                    left |-> IF want \in Positions THEN Owners(want) ELSE {}]}
    /\ answer' = {}
    /\ UNCHANGED <<planVars, step, todo, up, fileVars, torn, storageVars, seen, cached, boundVars>>

\* fresh: what the frontend knew was true from the beginning to the end.
Answer(r, ok, image) ==
    /\ answer' = {[want |-> r.want, via |-> r.via, ok |-> ok, image |-> image,
                   fresh |-> r.via = Stage(step)]}
    /\ request' = {}

\* _gather_single_fits_tiles: one GET.
Gather(g) == \E r \in request :
    /\ r.via = "merge" /\ g \in r.left
    /\ IF ServesTile(g, r.want)
       THEN /\ request' = {[r EXCEPT !.left = @ \ {g}, !.image = Sum(@, Local(g, r.want))]}
            /\ UNCHANGED answer
       ELSE Answer(r, FALSE, Blank)
    /\ UNCHANGED <<planVars, step, todo, up, fileVars, torn, storageVars, seen, cached, requests,
                   boundVars>>

Gathered == \E r \in request :
    /\ r.via = "merge" /\ r.want \in Positions /\ r.left = {}
    /\ Answer(r, TRUE, r.image)
    /\ UNCHANGED <<planVars, step, todo, up, fileVars, torn, storageVars, seen, cached, requests,
                   boundVars>>

\* _fetch_merged_tile
FetchMerged == \E r \in request :
    /\ r.via = "upload" /\ r.want \in Positions
    /\ IF CcdsAt[r.want] = {} THEN Answer(r, TRUE, Blank)
       ELSE IF ServesMerged(r.want) THEN Answer(r, TRUE, merged[r.want])
       ELSE Answer(r, FALSE, Blank)
    /\ UNCHANGED <<planVars, step, todo, up, fileVars, torn, storageVars, seen, cached, requests,
                   boundVars>>

\* _get_tile_from_object_storage, through get_packed_tile_array_sync.
GetStored == \E r \in request :
    /\ r.via \in {"ready", "none"} /\ r.want \in Positions
    /\ LET q == PackOf[r.want] IN
       IF q \in DOMAIN cached \union DOMAIN packs
       THEN /\ cached' = IF q \in DOMAIN cached THEN cached ELSE Put(cached, q, packs[q])
            /\ Answer(r, TRUE, cached'[q][r.want])
       ELSE Answer(r, FALSE, Blank) /\ UNCHANGED cached
    /\ UNCHANGED <<planVars, step, todo, up, fileVars, torn, storageVars, seen, requests,
                   boundVars>>

\* get_fits_header: from the owner, or from the object storage and the data source.
GetHeader == \E r \in request :
    /\ r.want \in Ccds /\ r.via # "generate"
    /\ LET g == owner[r.want] IN
       Answer(r, r.via \in {"ready", "none"} \/ (up[g] /\ g \in metadata), Blank)
    /\ UNCHANGED <<planVars, step, todo, up, fileVars, torn, storageVars, seen, cached, requests,
                   boundVars>>

\* Any other stage is a 404.
NotFound == \E r \in request :
    /\ r.via = "generate"
    /\ Answer(r, FALSE, Blank)
    /\ UNCHANGED <<planVars, step, todo, up, fileVars, torn, storageVars, seen, cached, requests,
                   boundVars>>

Work(g) ==
    \/ SaveMetadata(g) \/ SaveConfig(g) \/ ClearTiles(g) \/ ClearAll(g)
    \/ \E p \in Positions : MergeTile(g, p)
    \/ \E q \in Packs : PutPack(g, q)
    \/ \E c \in Ccds : PutHeader(g, c)

Faults(g) ==
    \/ CallFails(g) \/ Crash(g)
    \/ \E c \in Ccds, p \in Positions : ZombieWrites(g, c, p) \/ Rewrite(g, c, p)

Reply == Gathered \/ FetchMerged \/ GetStored \/ GetHeader \/ NotFound

Next ==
    \/ Advance \/ Delete \/ Rewritten
    \/ \E g \in Generators : Work(g) \/ Faults(g) \/ Gather(g)
    \/ Relay \/ RestartFrontend \/ Reply
    \/ \E want \in Positions \union Ccds : Ask(want)

Spec == Init /\ [][Next]_vars

-----------------------------------------------------------------------------
Images == [Ccds -> Nat]

TypeOK ==
    /\ owner \in [Ccds -> Generators] /\ primary \in [Positions -> Generators]
    /\ packer \in [Packs -> Generators]
    /\ \E i \in DOMAIN Steps : step = Steps[i]
    /\ \A g \in Generators :
           /\ todo[g] \subseteq Positions \union Packs \union Ccds \union {"all"}
           /\ up[g] \in BOOLEAN
           /\ \A t \in tiles[g] : t[1] \in CcdsAt[t[2]]
    /\ metadata \subseteq Generators /\ config \subseteq Generators
    /\ \A p \in DOMAIN merged : CcdsAt[p] # {} /\ merged[p] \in Images
    /\ DOMAIN packs \subseteq Packs /\ DOMAIN cached \subseteq Packs /\ headers \subseteq Ccds
    /\ Cardinality(request) + Cardinality(answer) <= 1

\* A tile the frontend answers with, which browsers then keep for a day, shows every CCD
\* at its position exactly once, whatever crashed, was cleared or was written late while it
\* was put together, and however old the stage is that it was read by.
ServedIsWhole == \A a \in answer : a.ok /\ a.want \in Positions => a.image = Whole(a.want)

\* So does every tile that is stored: a packed tile is stored whole or not at all.
StoredIsWhole == \A q \in DOMAIN packs : \A p \in Unpacked(q) : packs[q][p] = Whole(p)

\* Unless something failed, a quicklook that is ready is stored: each packed tile has found
\* the one generator that stores it, and each CCD the one that stores its header.
ReadyIsStored ==
    step \in {"ready", "cleanup", "over"} /\ faults = 0 =>
        DOMAIN packs = Packs /\ headers = Ccds

\* The state has its types; what is answered and what is stored is whole, and what is
\* ready is stored.
StoreInv == TypeOK /\ ServedIsWhole /\ StoredIsWhole /\ ReadyIsStored

\* Unless something failed, a frontend that knows the stage has a tile and a header for
\* every position and CCD from the stage merge_tiles on, as the comment on queueing for
\* that stage promises: what the stage says is true of the files before it is announced.
ShownThroughout ==
    \A a \in answer :
        a.fresh /\ a.via # "generate" /\ faults = 0 /\ step # "deleted" => a.ok
=============================================================================
