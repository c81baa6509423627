-------------------------- MODULE TileStoreProofs --------------------------
(***************************************************************************)
(* Proofs about TileStore for every set of generators, CCDs, positions and *)
(* packs, however the CCDs lie at the positions, and any number of faults, *)
(* of tiles written late and of requests.                                  *)
(*                                                                         *)
(* The invariant has two halves.  StorageInv is about the generators and   *)
(* the object storage: every image there is whole, and when nothing failed *)
(* each step finds what the steps before it were to leave.  ViewerInv is   *)
(* about the frontend: what it has gathered of a tile is whole but for the *)
(* generators that are left, and what it answered was there.               *)
(*                                                                         *)
(* Then about TileGeometry, for tiles and packs of any size, any number of *)
(* levels and every place of a CCD on an axis.                             *)
(***************************************************************************)
EXTENDS TileStore, TileGeometry, FiniteSetTheorems, FunctionTheorems, SequenceTheorems,
        TLAPS

-----------------------------------------------------------------------------
(* The inductive invariant.                                                *)

\* The plan, the work and the files have their types; what is left to do at a step is
\* part of what the step began with.
StorageTyped ==
    /\ owner \in [Ccds -> Generators] /\ primary \in [Positions -> Generators]
    /\ packer \in [Packs -> JobGenerators]
    /\ \A p \in Positions : CcdsAt[p] # {} => primary[p] \in Owners(p)
    /\ \E i \in DOMAIN Steps : step = Steps[i]
    /\ DOMAIN todo = Generators
    /\ \A g \in Generators : todo[g] \subseteq Items(step, g)
    /\ up \in [Generators -> BOOLEAN]
    /\ metadata \subseteq Generators /\ config \subseteq Generators
    /\ tiles \in [Generators -> SUBSET (Ccds \X Positions)]
    /\ \A g \in Generators : \A t \in tiles[g] : t[1] \in CcdsAt[t[2]]
    /\ DOMAIN packs \subseteq Packs /\ headers \subseteq Ccds
    /\ faults \in Nat

\* Every image on a generator or in the object storage is whole.
ImagesWhole ==
    /\ \A p \in DOMAIN merged : p \in Positions /\ CcdsAt[p] # {} /\ merged[p] = Whole(p)
    /\ StoredIsWhole

InJob == step \notin {"cleanup", "over", "deleted"}

\* Without a fault, what a step was to leave is there from then on, or still to be
\* done at that step.
NothingMissing ==
    /\ torn = {} /\ \A g \in Generators : up[g]
    /\ InJob => \A g \in JobGenerators :
          g \in metadata \/ (step = "metadata" /\ "all" \in todo[g])
    /\ InJob => \A g \in JobGenerators :
          g \in config \/ step = "metadata" \/ (step = "config" /\ "all" \in todo[g])
    /\ step \in {"metadata", "config", "merge"} =>
          \A p \in Positions : \A c \in CcdsAt[p] : <<c, p>> \in tiles[owner[c]]
    /\ InJob => \A p \in Positions : CcdsAt[p] # {} =>
          \/ p \in DOMAIN merged
          \/ step \in {"metadata", "config"}
          \/ step = "merge" /\ p \in todo[primary[p]]
    /\ step # "deleted" => \A q \in Packs :
          \/ q \in DOMAIN packs
          \/ step \in {"metadata", "config", "merge", "clear"}
          \/ step = "upload" /\ q \in todo[packer[q]]
    /\ step # "deleted" => \A c \in Ccds :
          \/ c \in headers
          \/ step \in {"metadata", "config", "merge", "clear", "upload"}
          \/ step = "headers" /\ c \in todo[owner[c]]

StorageInv == StorageTyped /\ ImagesWhole /\ (faults = 0 => NothingMissing)

Stages == {"generate", "merge", "upload", "ready", "none"}
Requests == [want : Positions \union Ccds, via : Stages, image : Images,
             left : SUBSET Generators]

\* There is at most one request, or the last answer.
ViewerTyped ==
    /\ seen \in Stages
    /\ request \subseteq Requests
    /\ request = {} \/ \E r \in request : request = {r} /\ answer = {}
    /\ answer = {} \/ \E a \in answer : answer = {a}
    /\ DOMAIN cached \subseteq Packs

\* What a request has gathered is whole but for the generators that are left.
GatheredSoFar(r) ==
    [c \in Ccds |-> IF c \in CcdsAt[r.want] /\ owner[c] \notin r.left THEN 1 ELSE 0]

RequestsWhole ==
    /\ \A q \in DOMAIN cached : \A p \in Unpacked(q) : cached[q][p] = Whole(p)
    /\ \A r \in request : IF r.want \in Positions
                          THEN r.left \subseteq Owners(r.want) /\ r.image = GatheredSoFar(r)
                          ELSE r.left = {}

ViewerInv == ViewerTyped /\ RequestsWhole /\ ServedIsWhole /\ ShownThroughout

IInv == StorageInv /\ ViewerInv

-----------------------------------------------------------------------------
(* What the operators of the model give.                                   *)

\* The steps follow each other in the order of the sequence.
LEMMA Order ==
    /\ After("metadata") = "config" /\ After("config") = "merge"
    /\ After("merge") = "clear" /\ After("clear") = "upload"
    /\ After("upload") = "headers" /\ After("headers") = "ready"
    /\ After("ready") = "cleanup" /\ After("cleanup") = "over"
<1>1. ASSUME NEW i \in 1..9 PROVE After(Steps[i]) = Steps[i + 1]
  <2> DEFINE k == CHOOSE j \in DOMAIN Steps : Steps[j] = Steps[i]
  <2>1. i \in DOMAIN Steps
    BY DEF Steps
  <2>2. k \in DOMAIN Steps /\ Steps[k] = Steps[i]
    BY <2>1
  <2>3. \A j \in DOMAIN Steps : Steps[j] = Steps[i] => j = i
    BY DEF Steps
  <2>4. k = i
    BY <2>2, <2>3
  <2>5. After(Steps[i]) = Steps[1 + k]
    BY Zenon DEF After
  <2>6. After(Steps[i]) = Steps[1 + i]
    BY <2>4, <2>5, Zenon
  <2>7. 1 + i = i + 1
    OBVIOUS
  <2> QED
    BY <2>6, <2>7, Zenon
<1>2. /\ Steps[1] = "metadata" /\ Steps[2] = "config" /\ Steps[3] = "merge"
      /\ Steps[4] = "clear" /\ Steps[5] = "upload" /\ Steps[6] = "headers"
      /\ Steps[7] = "ready" /\ Steps[8] = "cleanup" /\ Steps[9] = "over"
  BY DEF Steps
<1>3. /\ After(Steps[1]) = Steps[2] /\ After(Steps[2]) = Steps[3]
      /\ After(Steps[3]) = Steps[4] /\ After(Steps[4]) = Steps[5]
      /\ After(Steps[5]) = Steps[6] /\ After(Steps[6]) = Steps[7]
      /\ After(Steps[7]) = Steps[8] /\ After(Steps[8]) = Steps[9]
  <2>1. \A i \in 1..8 : i \in 1..9 /\ After(Steps[i]) = Steps[i + 1]
    BY <1>1
  <2> QED
    BY <2>1
<1> QED
  BY <1>2, <1>3, Zenon

\* The steps there are.
StepNames == {"metadata", "config", "merge", "clear", "upload", "headers", "ready", "cleanup",
              "over", "deleted"}

LEMMA StepType == \A s : (\E i \in DOMAIN Steps : s = Steps[i]) <=> s \in StepNames
BY DEF Steps, StepNames

\* What else was there stays there.
LEMMA PutFacts ==
    ASSUME NEW f, NEW x, NEW v
    PROVE  /\ DOMAIN Put(f, x, v) = DOMAIN f \union {x}
           /\ \A y \in DOMAIN f : y # x => Put(f, x, v)[y] = f[y]
           /\ Put(f, x, v)[x] = v
BY DEF Put

\* Every CCD at a position is added by its owner, and by nobody else.
LEMMA MergedIsWhole ==
    ASSUME StorageTyped, NEW p \in Positions, NEW g
    PROVE  [c \in Ccds |-> Cardinality({h \in Owners(p) \union {g} : c \in MyCcds(h, p)})]
               = Whole(p)
<1>1. ASSUME NEW c \in Ccds
      PROVE  Cardinality({h \in Owners(p) \union {g} : c \in MyCcds(h, p)})
                 = IF c \in CcdsAt[p] THEN 1 ELSE 0
  <2>1. CASE c \in CcdsAt[p]
    <3>1. {h \in Owners(p) \union {g} : c \in MyCcds(h, p)} = {owner[c]}
      BY <2>1 DEF MyCcds, Owners
    <3> QED
      BY <2>1, <3>1, FS_Singleton
  <2>2. CASE c \notin CcdsAt[p]
    <3>1. {h \in Owners(p) \union {g} : c \in MyCcds(h, p)} = {}
      BY <2>2 DEF MyCcds
    <3> QED
      BY <2>2, <3>1, FS_EmptySet
  <2> QED
    BY <2>1, <2>2
<1> QED
  BY <1>1 DEF Whole

-----------------------------------------------------------------------------
(* The steps of the coordinator and of the generators.                     *)

\* The first step has everything before it.
LEMMA InitStorage == Init => StorageInv
<1> SUFFICES ASSUME Init PROVE StorageInv
  OBVIOUS
<1>1. step = "metadata" /\ step \in StepNames
  BY DEF Init, StepNames
<1>2. \A g \in Generators : todo[g] = Items(step, g)
  BY <1>1 DEF Init, Items, JobGenerators
<1>3. PICK losers \in SUBSET Generators :
          tiles = [g \in Generators |->
               {t \in Ccds \X Positions :
                   t[1] \in CcdsAt[t[2]] /\ (owner[t[1]] = g \/ g \in losers)}]
  BY DEF Init
<1>4. StorageTyped
  <2>1. /\ tiles \in [Generators -> SUBSET (Ccds \X Positions)]
        /\ \A g \in Generators : \A t \in tiles[g] : t[1] \in CcdsAt[t[2]]
    BY <1>3
  <2>2. /\ owner \in [Ccds -> Generators] /\ primary \in [Positions -> Generators]
        /\ packer \in [Packs -> JobGenerators]
        /\ \A p \in Positions : CcdsAt[p] # {} => primary[p] \in Owners(p)
    BY DEF Init, JobGenerators
  <2>3. /\ DOMAIN todo = Generators /\ up \in [Generators -> BOOLEAN]
        /\ metadata \subseteq Generators /\ config \subseteq Generators
        /\ DOMAIN packs \subseteq Packs /\ headers \subseteq Ccds /\ faults \in Nat
    BY DEF Init
  <2> QED
    BY <1>1, <1>2, <2>1, <2>2, <2>3, StepType DEF StorageTyped
<1>5. ImagesWhole
  BY DEF Init, ImagesWhole, StoredIsWhole
<1>6. NothingMissing
  <2>1. \A p \in Positions : \A c \in CcdsAt[p] : <<c, p>> \in tiles[owner[c]]
    BY <1>3, <1>4, TileAssumption DEF StorageTyped
  <2>2. \A g \in JobGenerators : "all" \in todo[g]
    BY <1>1, <1>2, <1>4 DEF Items, JobGenerators, StorageTyped
  <2>3. torn = {} /\ \A g \in Generators : up[g]
    BY DEF Init
  <2> QED
    BY <1>1, <2>1, <2>2, <2>3 DEF NothingMissing
<1> QED
  BY <1>4, <1>5, <1>6 DEF StorageInv

\* A step that is over leaves nothing to do, so that what it was to leave is there.
LEMMA AdvanceStorage == ASSUME StorageInv, Advance PROVE StorageInv'
<1> USE DEF StorageInv
<1>1. /\ step \in StepNames /\ step # "over" /\ step # "deleted"
      /\ \A g \in Generators : todo[g] = {}
      /\ step' = After(step)
      /\ todo' = [g \in Generators |-> Items(After(step), g)]
      /\ UNCHANGED <<owner, primary, packer, up, metadata, config, tiles, merged, torn,
                     packs, headers, faults>>
  BY StepType
     DEF Advance, StorageTyped, planVars, fileVars, storageVars, boundVars
<1>2. step' \in StepNames
  BY <1>1, Order, Zenon DEF StepNames
<1>3. \A g \in Generators : todo'[g] = Items(step, g)'
  BY <1>1 DEF Items, JobGenerators, Unpacked
<1>4. StorageTyped'
  BY <1>1, <1>2, <1>3, StepType DEF StorageTyped, JobGenerators, Owners
<1>5. ImagesWhole'
  BY <1>1 DEF ImagesWhole, StoredIsWhole
<1>6. ASSUME faults' = 0 PROVE NothingMissing'
  <2>1. NothingMissing
    BY <1>1, <1>6
  <2>2. JobGenerators \subseteq Generators /\ JobGenerators' = JobGenerators
    BY <1>1 DEF JobGenerators, StorageTyped
  <2>3. /\ \A p \in Positions : primary[p] \in Generators
        /\ \A q \in Packs : packer[q] \in Generators
        /\ \A c \in Ccds : owner[c] \in Generators
    BY <2>2 DEF StorageTyped
  <2>4. \A g \in JobGenerators : "all" \in Items("metadata", g) /\ "all" \in Items("config", g)
    BY DEF Items
  <2>5. /\ \A p \in Positions : CcdsAt[p] # {} => p \in Items("merge", primary[p])
        /\ \A q \in Packs : q \in Items("upload", packer[q])
        /\ \A c \in Ccds : c \in Items("headers", owner[c])
    BY DEF Items
  <2>6. \A g \in Generators : todo'[g] = Items(After(step), g)
    BY <1>1
  <2>7. CASE step = "metadata"
    BY <1>1, <2>1, <2>2, <2>3, <2>4, <2>5, <2>6, <2>7, Order DEF NothingMissing, InJob
  <2>8. CASE step = "config"
    BY <1>1, <2>1, <2>2, <2>3, <2>4, <2>5, <2>6, <2>8, Order DEF NothingMissing, InJob
  <2>9. CASE step = "merge"
    BY <1>1, <2>1, <2>2, <2>3, <2>4, <2>5, <2>6, <2>9, Order DEF NothingMissing, InJob
  <2>10. CASE step = "clear"
    BY <1>1, <2>1, <2>2, <2>3, <2>4, <2>5, <2>6, <2>10, Order DEF NothingMissing, InJob
  <2>11. CASE step = "upload"
    BY <1>1, <2>1, <2>2, <2>3, <2>4, <2>5, <2>6, <2>11, Order DEF NothingMissing, InJob
  <2>12. CASE step \in {"headers", "ready", "cleanup"}
    BY <1>1, <2>1, <2>2, <2>3, <2>4, <2>5, <2>6, <2>12, Order DEF NothingMissing, InJob
  <2> QED
    BY <1>1, <2>7, <2>8, <2>9, <2>10, <2>11, <2>12 DEF StepNames
<1> QED
  BY <1>4, <1>5, <1>6

\* Nobody asks for what was deleted.
LEMMA DeleteStorage == ASSUME StorageInv, Delete PROVE StorageInv'
<1> USE DEF StorageInv, Delete, planVars, fileVars, boundVars
<1>1. step = "over" /\ step' = "deleted" /\ step' \in StepNames
  BY DEF StepNames
<1>2. \A g \in Generators : todo'[g] = {}
  BY <1>1 DEF StorageTyped, Items
<1>3. StorageTyped'
  BY <1>1, <1>2, StepType DEF StorageTyped, JobGenerators, Owners
<1>4. ImagesWhole'
  BY DEF ImagesWhole, StoredIsWhole
<1>5. ASSUME faults' = 0 PROVE NothingMissing'
  BY <1>1, <1>5 DEF NothingMissing, InJob
<1> QED
  BY <1>3, <1>4, <1>5

\* A file that is whole again is not torn.
LEMMA RewrittenStorage == ASSUME StorageInv, Rewritten PROVE StorageInv'
<1> USE DEF StorageInv, Rewritten, planVars, fileVars, storageVars, boundVars
<1>1. StorageTyped'
  BY DEF StorageTyped, JobGenerators, Owners, Items
<1>2. ImagesWhole'
  BY DEF ImagesWhole, StoredIsWhole
<1>3. ASSUME faults' = 0 PROVE NothingMissing'
  BY <1>3 DEF NothingMissing, InJob, JobGenerators
<1> QED
  BY <1>1, <1>2, <1>3

\* What a call has done is no longer to be done; the other generators' work is as it was.
LEMMA DidFacts ==
    ASSUME StorageTyped, NEW g \in Generators, NEW item,
           Did(g, item) \/ Raise(g), UNCHANGED <<step, planVars>>
    PROVE  /\ DOMAIN todo' = Generators
           /\ \A h \in Generators :
                 todo'[h] \subseteq todo[h] /\ todo'[h] \subseteq Items(step, h)'
           /\ Did(g, item) => \A h \in Generators : \A x :
                 x \in todo[h] => x \in todo'[h] \/ (h = g /\ x = item)
<1>1. \A h \in Generators : Items(step, h)' = Items(step, h)
  BY DEF Items, planVars, JobGenerators
<1> QED
  BY <1>1 DEF Did, Raise, StorageTyped

\* While the plan and the step stay, the work may only become less, and the rest is to
\* keep its types.
LEMMA TypedKept ==
    ASSUME StorageTyped, UNCHANGED <<owner, primary, packer, step>>,
           DOMAIN todo' = Generators,
           \A g \in Generators : todo'[g] \subseteq Items(step, g)',
           up' \in [Generators -> BOOLEAN],
           metadata' \subseteq Generators, config' \subseteq Generators,
           tiles' \in [Generators -> SUBSET (Ccds \X Positions)],
           \A g \in Generators : \A t \in tiles'[g] : t[1] \in CcdsAt[t[2]],
           DOMAIN packs' \subseteq Packs, headers' \subseteq Ccds, faults' \in Nat
    PROVE  StorageTyped'
<1>1. JobGenerators' = JobGenerators /\ \A p \in Positions : Owners(p)' = Owners(p)
  BY DEF JobGenerators, Owners
<1>2. /\ owner' \in [Ccds -> Generators] /\ primary' \in [Positions -> Generators]
      /\ packer' \in [Packs -> JobGenerators']
      /\ \A p \in Positions : CcdsAt[p] # {} => primary'[p] \in Owners(p)'
  BY <1>1 DEF StorageTyped
<1>3. (\E i \in DOMAIN Steps : step = Steps[i])'
  BY DEF StorageTyped
<1> QED
  BY <1>2, <1>3 DEF StorageTyped

\* A generator that saved the metadata has it.
LEMMA SaveMetadataStorage ==
    ASSUME StorageInv, NEW g \in Generators, SaveMetadata(g) PROVE StorageInv'
<1> USE DEF StorageInv
<1>1. /\ step = "metadata" /\ Did(g, "all") /\ metadata' = metadata \union {g}
      /\ UNCHANGED <<owner, primary, packer, step, up, config, tiles, merged, torn, packs,
                     headers, faults>>
  BY DEF SaveMetadata, Runs, planVars, storageVars, boundVars
<1>2. /\ DOMAIN todo' = Generators
      /\ \A h \in Generators : todo'[h] \subseteq Items(step, h)'
      /\ \A h \in Generators : \A x : x \in todo[h] => x \in todo'[h] \/ (h = g /\ x = "all")
  BY <1>1, DidFacts DEF planVars
<1>3. StorageTyped'
  BY <1>1, <1>2, TypedKept DEF StorageTyped
<1>4. ImagesWhole'
  BY <1>1 DEF ImagesWhole, StoredIsWhole
<1>5. ASSUME faults' = 0 PROVE NothingMissing'
  BY <1>1, <1>2, <1>5 DEF NothingMissing, InJob, JobGenerators, StorageTyped
<1> QED
  BY <1>3, <1>4, <1>5

\* remove_non_owned_tiles leaves the tiles of the owner.
LEMMA SaveConfigStorage ==
    ASSUME StorageInv, NEW g \in Generators, SaveConfig(g) PROVE StorageInv'
<1> USE DEF StorageInv
<1>1. /\ step = "config" /\ Did(g, "all") /\ config' = config \union {g}
      /\ tiles' = [tiles EXCEPT ![g] = {t \in @ : owner[t[1]] = g}]
      /\ UNCHANGED <<owner, primary, packer, step, up, metadata, merged, torn, packs,
                     headers, faults>>
  BY DEF SaveConfig, Runs, planVars, storageVars, boundVars
<1>2. /\ DOMAIN todo' = Generators
      /\ \A h \in Generators : todo'[h] \subseteq Items(step, h)'
      /\ \A h \in Generators : \A x : x \in todo[h] => x \in todo'[h] \/ (h = g /\ x = "all")
  BY <1>1, DidFacts DEF planVars
<1>3. /\ tiles' \in [Generators -> SUBSET (Ccds \X Positions)]
      /\ \A h \in Generators : tiles'[h] \subseteq tiles[h]
      /\ \A h \in Generators, c \in Ccds, p \in Positions :
            owner[c] = h /\ <<c, p>> \in tiles[h] => <<c, p>> \in tiles'[h]
  BY <1>1 DEF StorageTyped
<1>4. StorageTyped'
  BY <1>1, <1>2, <1>3, TypedKept DEF StorageTyped
<1>5. ImagesWhole'
  BY <1>1 DEF ImagesWhole, StoredIsWhole
<1>6. ASSUME faults' = 0 PROVE NothingMissing'
  <2>1. NothingMissing
    BY <1>1, <1>6
  <2>2. \A p \in Positions : \A c \in CcdsAt[p] : <<c, p>> \in tiles'[owner[c]]
    BY <1>1, <1>3, <2>1, TileAssumption DEF NothingMissing, StorageTyped
  <2> QED
    BY <1>1, <1>2, <2>1, <2>2 DEF NothingMissing, InJob, JobGenerators, StorageTyped
<1> QED
  BY <1>4, <1>5, <1>6

\* Without a fault, everybody can read its tiles while they are merged.
LEMMA Readies ==
    ASSUME StorageInv, faults = 0, step = "merge", NEW g \in Generators, NEW p \in Positions,
           CcdsAt[p] # {}, g \in Owners(p)
    PROVE  ServesTile(g, p)
<1>1. NothingMissing /\ g \in JobGenerators
  BY TileAssumption DEF StorageInv, Owners, JobGenerators
<1>2. g \in metadata /\ g \in config /\ up[g] /\ torn = {}
  BY <1>1 DEF NothingMissing, InJob
<1>3. \A c \in MyCcds(g, p) : <<c, p>> \in tiles[g]
  BY <1>1 DEF NothingMissing, MyCcds
<1> QED
  BY <1>2, <1>3 DEF ServesTile, Readable

\* A merged tile is whole, or it is not written.
LEMMA MergeTileStorage ==
    ASSUME StorageInv, NEW g \in Generators, NEW p \in Positions, MergeTile(g, p)
    PROVE  StorageInv'
<1> USE DEF StorageInv
<1>1. /\ step = "merge" /\ p \in todo[g]
      /\ Did(g, p) \/ Raise(g)
      /\ UNCHANGED <<owner, primary, packer, step, up, metadata, config, tiles, torn, packs,
                     headers, faults>>
  BY DEF MergeTile, Runs, planVars, storageVars, boundVars
<1>2. /\ CcdsAt[p] # {} /\ primary[p] = g
      /\ DOMAIN todo' = Generators
      /\ \A h \in Generators : todo'[h] \subseteq Items(step, h)'
  <2>1. p \in Items("merge", g)
    BY <1>1 DEF StorageTyped
  <2> QED
    BY <1>1, <2>1, DidFacts DEF planVars, Items
<1>3. \/ merged' = merged
      \/ merged' = Put(merged, p, Whole(p))
  BY MergedIsWhole DEF MergeTile
<1>4. StorageTyped'
  BY <1>1, <1>2, TypedKept DEF StorageTyped
<1>5. ImagesWhole'
  <2>1. \A x \in DOMAIN merged' :
           x \in Positions /\ CcdsAt[x] # {} /\ merged'[x] = Whole(x)
    <3>1. CASE merged' = Put(merged, p, Whole(p))
      <4>1. /\ DOMAIN merged' = DOMAIN merged \union {p}
            /\ \A y \in DOMAIN merged : y # p => merged'[y] = merged[y]
            /\ merged'[p] = Whole(p)
        BY <3>1 DEF Put
      <4> QED
        BY <1>2, <4>1 DEF ImagesWhole
    <3> QED
      BY <1>3, <3>1 DEF ImagesWhole
  <2> QED
    BY <1>1, <2>1 DEF ImagesWhole, StoredIsWhole, Whole
<1>6. ASSUME faults' = 0 PROVE NothingMissing'
  <2>1. NothingMissing
    BY <1>1, <1>6
  <2>2. Readable(g, p) /\ \A h \in Owners(p) \ {g} : ServesTile(h, p)
    <3>1. g \in Owners(p) /\ Owners(p) \subseteq Generators
      BY <1>2, TileAssumption DEF StorageTyped, Owners
    <3>2. \A h \in Owners(p) : ServesTile(h, p)
      BY <1>1, <1>2, <1>6, <3>1, Readies
    <3> QED
      BY <3>1, <3>2 DEF ServesTile
  <2>3. Did(g, p) /\ p \in DOMAIN merged' /\ DOMAIN merged \subseteq DOMAIN merged'
    <3>1. Did(g, p) /\ \E v : merged' = Put(merged, p, v)
      BY <2>2, Zenon DEF MergeTile
    <3>2. PICK v : merged' = Put(merged, p, v)
      BY <3>1
    <3>3. DOMAIN merged' = DOMAIN merged \union {p}
      BY <3>2, PutFacts
    <3> QED
      BY <3>1, <3>3
  <2>4. \A h \in Generators : \A x : x \in todo[h] => x \in todo'[h] \/ (h = g /\ x = p)
    BY <1>1, <2>3, DidFacts DEF planVars
  <2>5. \A x \in Positions : primary[x] \in Generators
    BY DEF StorageTyped
  <2> QED
    BY <1>1, <2>1, <2>3, <2>4, <2>5 DEF NothingMissing, InJob, JobGenerators
<1> QED
  BY <1>4, <1>5, <1>6

\* The tiles are no longer needed once they are merged.
LEMMA ClearTilesStorage ==
    ASSUME StorageInv, NEW g \in Generators, ClearTiles(g) PROVE StorageInv'
<1> USE DEF StorageInv
<1>1. /\ step = "clear" /\ Did(g, "all") /\ tiles' = [tiles EXCEPT ![g] = {}]
      /\ UNCHANGED <<owner, primary, packer, step, up, metadata, config, merged, torn, packs,
                     headers, faults>>
  BY DEF ClearTiles, Runs, planVars, storageVars, boundVars
<1>2. /\ DOMAIN todo' = Generators
      /\ \A h \in Generators : todo'[h] \subseteq Items(step, h)'
  BY <1>1, DidFacts DEF planVars
<1>3. /\ tiles' \in [Generators -> SUBSET (Ccds \X Positions)]
      /\ \A h \in Generators : tiles'[h] \subseteq tiles[h]
  BY <1>1 DEF StorageTyped
<1>4. StorageTyped'
  BY <1>1, <1>2, <1>3, TypedKept DEF StorageTyped
<1>5. ImagesWhole'
  BY <1>1 DEF ImagesWhole, StoredIsWhole
<1>6. ASSUME faults' = 0 PROVE NothingMissing'
  BY <1>1, <1>6 DEF NothingMissing, InJob, JobGenerators
<1> QED
  BY <1>4, <1>5, <1>6

\* A packed tile is whole, or it is not stored.
LEMMA PutPackStorage ==
    ASSUME StorageInv, NEW g \in Generators, NEW q \in Packs, PutPack(g, q)
    PROVE  StorageInv'
<1> DEFINE needed == {p \in Unpacked(q) : CcdsAt[p] # {}}
           image == [p \in Unpacked(q) |-> IF p \in needed THEN merged[p] ELSE Blank]
           there == \A p \in needed : IF primary[p] = g THEN p \in DOMAIN merged
                                                       ELSE ServesMerged(p)
<1> USE DEF StorageInv
<1>1. /\ step = "upload" /\ q \in todo[g]
      /\ Did(g, q) \/ Raise(g)
      /\ UNCHANGED <<owner, primary, packer, step, up, metadata, config, tiles, merged, torn,
                     headers, faults>>
  BY DEF PutPack, Runs, planVars, fileVars, boundVars
<1>2. \/ there /\ Did(g, q) /\ packs' = Put(packs, q, image)
      \/ ~there /\ packs' = packs
  BY Zenon DEF PutPack
<1>3. /\ packer[q] = g
      /\ DOMAIN todo' = Generators
      /\ \A h \in Generators : todo'[h] \subseteq Items(step, h)'
  <2>1. q \in Items("upload", g)
    BY <1>1 DEF StorageTyped
  <2> QED
    BY <1>1, <2>1, DidFacts DEF planVars, Items
<1>4. ASSUME there, NEW p \in Unpacked(q) PROVE image[p] = Whole(p)
  <2>1. CASE p \in needed
    <3>1. p \in DOMAIN merged /\ image[p] = merged[p]
      BY <1>4, <2>1 DEF ServesMerged
    <3> QED
      BY <3>1 DEF ImagesWhole
  <2>2. CASE p \notin needed
    <3>1. image[p] = Blank /\ CcdsAt[p] = {}
      BY <1>4, <2>2
    <3> QED
      BY <3>1 DEF Blank, Whole
  <2> QED
    BY <2>1, <2>2
<1>5. /\ DOMAIN packs' \subseteq DOMAIN packs \union {q}
      /\ DOMAIN packs \subseteq DOMAIN packs'
      /\ \A x \in DOMAIN packs : packs'[x] = packs[x] \/ (x = q /\ there /\ packs'[x] = image)
      /\ there => Did(g, q) /\ q \in DOMAIN packs'
      /\ q \in DOMAIN packs' /\ q \notin DOMAIN packs => there /\ packs'[q] = image
  <2> HIDE DEF there, image
  <2> QED
    BY <1>2 DEF Put
<1>6. StorageTyped'
  BY <1>1, <1>3, <1>5, TypedKept DEF StorageTyped
<1>7. ImagesWhole'
  <2>1. ASSUME NEW x \in DOMAIN packs', NEW p \in Unpacked(x)
        PROVE  packs'[x][p] = Whole(p)
    <3>1. CASE x \in DOMAIN packs /\ packs'[x] = packs[x]
      BY <2>1, <3>1 DEF ImagesWhole, StoredIsWhole
    <3>2. CASE x \notin DOMAIN packs \/ packs'[x] # packs[x]
      <4>1. x = q /\ there /\ packs'[q] = image
        <5> HIDE DEF there, image
        <5> QED
          BY <1>5, <3>2
      <4> QED
        BY <1>4, <2>1, <4>1
    <3> QED
      BY <3>1, <3>2
  <2> QED
    BY <1>1, <2>1 DEF ImagesWhole, StoredIsWhole, Whole, Unpacked
<1>8. ASSUME faults' = 0 PROVE NothingMissing'
  <2>1. NothingMissing
    BY <1>1, <1>8
  <2>2. there
    <3>1. ASSUME NEW p \in needed PROVE p \in DOMAIN merged /\ ServesMerged(p)
      <4>1. p \in Positions /\ CcdsAt[p] # {}
        BY DEF Unpacked
      <4>2. primary[p] \in JobGenerators /\ primary[p] \in Generators
        BY <4>1, TileAssumption DEF StorageTyped, Owners, JobGenerators
      <4> QED
        BY <1>1, <2>1, <4>1, <4>2 DEF NothingMissing, InJob, ServesMerged
    <3> QED
      BY <3>1
  <2>3. Did(g, q) /\ q \in DOMAIN packs'
    BY <1>5, <2>2
  <2>4. \A h \in Generators : \A x : x \in todo[h] => x \in todo'[h] \/ (h = g /\ x = q)
    BY <1>1, <2>3, DidFacts DEF planVars
  <2>5. \A x \in Packs : packer[x] \in Generators
    BY DEF StorageTyped, JobGenerators
  <2> HIDE DEF there, image, needed
  <2> QED
    BY <1>1, <1>5, <2>1, <2>3, <2>4, <2>5 DEF NothingMissing, InJob, JobGenerators
<1> QED
  BY <1>6, <1>7, <1>8

\* The header of a CCD is stored by its owner.
LEMMA PutHeaderStorage ==
    ASSUME StorageInv, NEW g \in Generators, NEW c \in Ccds, PutHeader(g, c)
    PROVE  StorageInv'
<1> USE DEF StorageInv
<1>1. /\ step = "headers" /\ Did(g, c) /\ headers' = headers \union {c}
      /\ UNCHANGED <<owner, primary, packer, step, up, metadata, config, tiles, merged, torn,
                     packs, faults>>
  BY DEF PutHeader, Runs, planVars, fileVars, boundVars
<1>2. /\ DOMAIN todo' = Generators
      /\ \A h \in Generators : todo'[h] \subseteq Items(step, h)'
      /\ \A h \in Generators : \A x : x \in todo[h] => x \in todo'[h] \/ (h = g /\ x = c)
  BY <1>1, DidFacts DEF planVars
<1>3. StorageTyped'
  BY <1>1, <1>2, TypedKept DEF StorageTyped
<1>4. ImagesWhole'
  BY <1>1 DEF ImagesWhole, StoredIsWhole
<1>5. ASSUME faults' = 0 PROVE NothingMissing'
  <2>1. \A d \in Ccds : owner[d] \in Generators
    BY DEF StorageTyped
  <2> QED
    BY <1>1, <1>2, <1>5, <2>1 DEF NothingMissing, InJob, JobGenerators
<1> QED
  BY <1>3, <1>4, <1>5

\* The directory of the job goes only when everything is stored.
LEMMA ClearAllStorage ==
    ASSUME StorageInv, NEW g \in Generators, ClearAll(g) PROVE StorageInv'
<1> USE DEF StorageInv
<1>1. /\ step = "cleanup" /\ Did(g, "all") /\ tiles' = [tiles EXCEPT ![g] = {}]
      /\ metadata' \subseteq metadata /\ config' \subseteq config
      /\ DOMAIN merged' \subseteq DOMAIN merged
      /\ \A p \in DOMAIN merged' : merged'[p] = merged[p]
      /\ UNCHANGED <<owner, primary, packer, step, up, torn, packs, headers, faults>>
  BY DEF ClearAll, Runs, planVars, storageVars, boundVars
<1>2. /\ DOMAIN todo' = Generators
      /\ \A h \in Generators : todo'[h] \subseteq Items(step, h)'
  BY <1>1, DidFacts DEF planVars
<1>3. /\ tiles' \in [Generators -> SUBSET (Ccds \X Positions)]
      /\ \A h \in Generators : tiles'[h] \subseteq tiles[h]
  BY <1>1 DEF StorageTyped
<1>4. StorageTyped'
  BY <1>1, <1>2, <1>3, TypedKept DEF StorageTyped
<1>5. ImagesWhole'
  BY <1>1 DEF ImagesWhole, StoredIsWhole
<1>6. ASSUME faults' = 0 PROVE NothingMissing'
  BY <1>1, <1>6 DEF NothingMissing, InJob
<1> QED
  BY <1>4, <1>5, <1>6
\* After a fault nothing is promised to be there; what is there is still whole.
LEMMA FaultFacts == ASSUME StorageTyped, Fault PROVE faults' \in Nat /\ faults' # 0
BY DEF StorageTyped, Fault

\* A call that fails leaves the rest of its work undone.
LEMMA CallFailsStorage ==
    ASSUME StorageInv, NEW g \in Generators, CallFails(g) PROVE StorageInv'
<1> USE DEF StorageInv
<1>1. /\ Raise(g) /\ faults' \in Nat /\ faults' # 0
      /\ UNCHANGED <<owner, primary, packer, step, up, metadata, config, tiles, merged, packs,
                     headers>>
  BY FaultFacts DEF CallFails, planVars, fileVars, storageVars
<1>2. /\ DOMAIN todo' = Generators
      /\ \A h \in Generators : todo'[h] \subseteq Items(step, h)'
  BY <1>1, DidFacts DEF planVars
<1>3. StorageTyped'
  BY <1>1, <1>2, TypedKept DEF StorageTyped
<1>4. ImagesWhole'
  BY <1>1 DEF ImagesWhole, StoredIsWhole
<1> QED
  BY <1>1, <1>3, <1>4

\* So does a crash.
LEMMA CrashStorage ==
    ASSUME StorageInv, NEW g \in Generators, Crash(g) PROVE StorageInv'
<1> USE DEF StorageInv
<1>1. /\ Raise(g) /\ faults' \in Nat /\ faults' # 0 /\ up' = [up EXCEPT ![g] = FALSE]
      /\ UNCHANGED <<owner, primary, packer, step, metadata, config, tiles, merged, packs,
                     headers>>
  BY FaultFacts DEF Crash, planVars, fileVars, storageVars
<1>2. /\ DOMAIN todo' = Generators
      /\ \A h \in Generators : todo'[h] \subseteq Items(step, h)'
  BY <1>1, DidFacts DEF planVars
<1>3. up' \in [Generators -> BOOLEAN]
  BY <1>1 DEF StorageTyped
<1>4. StorageTyped'
  BY <1>1, <1>2, <1>3, TypedKept DEF StorageTyped
<1>5. ImagesWhole'
  BY <1>1 DEF ImagesWhole, StoredIsWhole
<1> QED
  BY <1>1, <1>4, <1>5

\* While nobody works, what is to be done keeps its types.
LEMMA TodoKept ==
    ASSUME StorageTyped, UNCHANGED <<planVars, step, todo>>
    PROVE  DOMAIN todo' = Generators /\ \A h \in Generators : todo'[h] \subseteq Items(step, h)'
<1>1. \A h \in Generators : Items(step, h)' = Items(step, h)
  BY DEF Items, planVars, JobGenerators
<1> QED
  BY <1>1 DEF StorageTyped

\* A tile that is written late takes the place of none.
LEMMA ZombieWritesStorage ==
    ASSUME StorageInv, NEW g \in Generators, NEW c \in Ccds, NEW p \in Positions,
           ZombieWrites(g, c, p)
    PROVE  StorageInv'
<1> USE DEF StorageInv
<1>1. /\ c \in CcdsAt[p] /\ tiles' = [tiles EXCEPT ![g] = @ \union {<<c, p>>}]
      /\ UNCHANGED <<owner, primary, packer, step, todo, up, metadata, config, merged, torn,
                     packs, headers, faults>>
  BY DEF ZombieWrites, planVars, storageVars
<1>2. /\ DOMAIN todo' = Generators
      /\ \A h \in Generators : todo'[h] \subseteq Items(step, h)'
  BY <1>1, TodoKept DEF planVars
<1>3. /\ tiles' \in [Generators -> SUBSET (Ccds \X Positions)]
      /\ \A h \in Generators : tiles[h] \subseteq tiles'[h]
      /\ \A h \in Generators : \A t \in tiles'[h] : t \in tiles[h] \/ t = <<c, p>>
  BY <1>1 DEF StorageTyped
<1>4. \A h \in Generators : \A t \in tiles'[h] : t[1] \in CcdsAt[t[2]]
  BY <1>1, <1>3 DEF StorageTyped
<1>5. StorageTyped'
  BY <1>1, <1>2, <1>3, <1>4, TypedKept DEF StorageTyped
<1>6. ImagesWhole'
  BY <1>1 DEF ImagesWhole, StoredIsWhole
<1>7. ASSUME faults' = 0 PROVE NothingMissing'
  <2>1. \A x \in Positions : \A d \in CcdsAt[x] : owner[d] \in Generators
    BY TileAssumption DEF StorageTyped
  <2> QED
    BY <1>1, <1>3, <1>7, <2>1 DEF NothingMissing, InJob, JobGenerators
<1> QED
  BY <1>5, <1>6, <1>7

\* The steps that leave the generators and the object storage as they are.
LEMMA StorageKept ==
    ASSUME StorageInv,
           UNCHANGED <<planVars, step, todo, up, fileVars, storageVars>>,
           UNCHANGED <<torn, faults>> \/ Fault
    PROVE  StorageInv'
<1> USE DEF StorageInv
<1>1. /\ UNCHANGED <<owner, primary, packer, step, todo, up, metadata, config, tiles, merged,
                     packs, headers>>
      /\ faults' \in Nat
  BY FaultFacts DEF planVars, fileVars, storageVars, StorageTyped
<1>2. StorageTyped'
  BY <1>1, TodoKept, TypedKept DEF StorageTyped
<1>3. ImagesWhole'
  BY <1>1 DEF ImagesWhole, StoredIsWhole
<1>4. ASSUME faults' = 0 PROVE NothingMissing'
  <2>1. UNCHANGED <<torn, faults>>
    BY <1>4, FaultFacts
  <2> QED
    BY <1>1, <1>4, <2>1 DEF NothingMissing, InJob, JobGenerators
<1> QED
  BY <1>2, <1>3, <1>4

\* Every step of the coordinator, of the generators, and every fault there.
StorageStep ==
    \/ Advance \/ Delete \/ Rewritten
    \/ \E g \in Generators : Work(g) \/ Faults(g)

LEMMA StorageStepStorage == ASSUME StorageInv, StorageStep PROVE StorageInv'
<1>1. CASE Advance \/ Delete \/ Rewritten
  BY <1>1, AdvanceStorage, DeleteStorage, RewrittenStorage
<1>2. ASSUME NEW g \in Generators, Work(g) PROVE StorageInv'
  BY <1>2, SaveMetadataStorage, SaveConfigStorage, MergeTileStorage, ClearTilesStorage,
     PutPackStorage, PutHeaderStorage, ClearAllStorage DEF Work
<1>3. ASSUME NEW g \in Generators, Faults(g) PROVE StorageInv'
  <2>1. ASSUME NEW c \in Ccds, NEW p \in Positions, Rewrite(g, c, p) PROVE StorageInv'
    BY <2>1, StorageKept DEF Rewrite
  <2> QED
    BY <1>3, <2>1, CallFailsStorage, CrashStorage, ZombieWritesStorage DEF Faults
<1> QED
  BY <1>1, <1>2, <1>3 DEF StorageStep

-----------------------------------------------------------------------------
(* The steps of the frontend.                                              *)

\* At first nobody asked.
LEMMA InitViewer == Init => ViewerInv
BY DEF Init, ViewerInv, ViewerTyped, Stages, RequestsWhole, ServedIsWhole, ShownThroughout

\* An answer stays as good as it was, whatever the generators do: what was answered without
\* a fault was answered, and after one nothing is promised.
LEMMA ViewerKept ==
    ASSUME ViewerInv, UNCHANGED <<owner, seen, cached, request, answer>>,
           faults' = 0 => faults = 0, step = "deleted" => step' = "deleted"
    PROVE  ViewerInv'
<1> USE DEF ViewerInv
<1>1. ViewerTyped' /\ ServedIsWhole'
  BY DEF ViewerTyped, ServedIsWhole, Whole
<1>2. RequestsWhole'
  BY DEF RequestsWhole, GatheredSoFar, Owners, Unpacked, Whole
<1>3. ShownThroughout'
  BY DEF ShownThroughout
<1> QED
  BY <1>1, <1>2, <1>3

\* So it is after every step of the generators and of the coordinator.
LEMMA StorageStepViewer == ASSUME StorageInv, ViewerInv, StorageStep PROVE ViewerInv'
<1> DEFINE Quiet == /\ UNCHANGED <<owner, seen, cached, request, answer>>
                    /\ faults' = 0 => faults = 0
                    /\ step = "deleted" => step' = "deleted"
<1>1. StorageTyped
  BY DEF StorageInv
<1>2. ASSUME Advance \/ Delete \/ Rewritten PROVE Quiet
  BY <1>2 DEF Advance, Delete, Rewritten, planVars, viewerVars, boundVars
<1>3. ASSUME NEW g \in Generators, Work(g) PROVE Quiet
  BY <1>3 DEF Work, SaveMetadata, SaveConfig, ClearTiles, ClearAll, MergeTile, PutPack,
              PutHeader, planVars, viewerVars, boundVars
<1>4. ASSUME NEW g \in Generators, Faults(g) PROVE Quiet
  <2>1. UNCHANGED <<owner, seen, cached, request, answer, step>>
    BY <1>4 DEF Faults, CallFails, Crash, ZombieWrites, Rewrite, planVars, viewerVars
  <2>2. faults' = faults \/ Fault
    BY <1>4 DEF Faults, CallFails, Crash, ZombieWrites, Rewrite
  <2> QED
    BY <1>1, <2>1, <2>2, FaultFacts
<1>5. Quiet
  <2> HIDE DEF Quiet
  <2> QED
    BY <1>2, <1>3, <1>4 DEF StorageStep
<1> QED
  BY <1>5, ViewerKept

\* What makes an answer a good one.
LEMMA AnswerViewer ==
    ASSUME ViewerInv, UNCHANGED <<planVars, step, seen, faults>>,
           NEW r \in request, NEW ok \in BOOLEAN, NEW image, Answer(r, ok, image),
           ok /\ r.want \in Positions => image = Whole(r.want),
           r.via = Stage(step) /\ r.via # "generate" /\ faults = 0 /\ step # "deleted" => ok,
           DOMAIN cached' \subseteq Packs,
           \A q \in DOMAIN cached' : \A p \in Unpacked(q) : cached'[q][p] = Whole(p)
    PROVE  ViewerInv'
<1> DEFINE a == [want |-> r.want, via |-> r.via, ok |-> ok, image |-> image,
                 fresh |-> r.via = Stage(step)]
<1>1. request' = {} /\ answer' = {a}
  BY DEF Answer
<1>2. ViewerTyped'
  BY <1>1 DEF ViewerInv, ViewerTyped
<1>3. RequestsWhole'
  BY <1>1 DEF RequestsWhole, Unpacked, Whole
<1>4. /\ a.want = r.want /\ a.via = r.via /\ a.ok = ok /\ a.image = image
      /\ a.fresh <=> r.via = Stage(step)
  OBVIOUS
<1>5. ServedIsWhole' /\ ShownThroughout'
  <2> HIDE DEF a
  <2> QED
    BY <1>1, <1>4 DEF ServedIsWhole, ShownThroughout, Whole
<1> QED
  BY <1>2, <1>3, <1>5 DEF ViewerInv

\* The request there is.
LEMMA TheRequest ==
    ASSUME ViewerInv, NEW r \in request
    PROVE  /\ request = {r} /\ answer = {} /\ r \in Requests
           /\ r.want \in Positions \/ r.want \in Ccds
           /\ r.left \subseteq Generators
           /\ r.want \in Positions =>
                 r.left \subseteq Owners(r.want) /\ r.image = GatheredSoFar(r)
           /\ r.want \notin Positions => r.left = {}
BY DEF ViewerInv, ViewerTyped, RequestsWhole, Requests

\* What the stage that the frontend knows says of the step.
LEMMA StageSays ==
    ASSUME StorageTyped
    PROVE  /\ Stage(step) = "merge" => step = "merge"
           /\ Stage(step) = "upload" => step \in {"clear", "upload", "headers"}
           /\ Stage(step) \in {"ready", "none"} =>
                 step \in {"ready", "cleanup", "over", "deleted"}
           /\ Stage(step) \in Stages
<1>1. step \in StepNames
  BY StepType DEF StorageTyped
<1> QED
  BY <1>1 DEF Stage, StepNames, Stages

\* The newest stage is one of the stages.
LEMMA RelayViewer == ASSUME StorageInv, ViewerInv, Relay PROVE ViewerInv'
<1>1. /\ seen' \in Stages
      /\ UNCHANGED <<owner, cached, request, answer, faults, step>>
  BY StageSays DEF Relay, StorageInv, planVars, boundVars
<1>2. ViewerTyped' /\ ServedIsWhole'
  BY <1>1 DEF ViewerInv, ViewerTyped, ServedIsWhole, Whole
<1>3. RequestsWhole' /\ ShownThroughout'
  BY <1>1 DEF ViewerInv, RequestsWhole, GatheredSoFar, Owners, Unpacked, Whole,
              ShownThroughout
<1> QED
  BY <1>2, <1>3 DEF ViewerInv

\* A frontend that starts again knows nothing.
LEMMA RestartFrontendViewer ==
    ASSUME StorageInv, ViewerInv, RestartFrontend PROVE ViewerInv'
<1>1. /\ seen' \in Stages /\ cached' = <<>> /\ request = {}
      /\ UNCHANGED <<request, answer>> /\ faults' # 0
  BY FaultFacts DEF RestartFrontend, StorageInv, Stages
<1>2. ViewerTyped' /\ ServedIsWhole'
  BY <1>1 DEF ViewerInv, ViewerTyped, ServedIsWhole, Whole
<1>3. RequestsWhole' /\ ShownThroughout'
  BY <1>1 DEF RequestsWhole, ShownThroughout
<1> QED
  BY <1>2, <1>3 DEF ViewerInv

\* A request begins with nothing gathered and every owner left.
LEMMA AskViewer ==
    ASSUME StorageInv, ViewerInv, NEW want \in Positions \union Ccds, Ask(want)
    PROVE  ViewerInv'
<1> PICK r : r = [want |-> want, via |-> seen, image |-> Blank,
                  left |-> IF want \in Positions THEN Owners(want) ELSE {}]
  OBVIOUS
<1>1. /\ request' = {r} /\ answer' = {}
      /\ UNCHANGED <<owner, cached, seen>>
  BY DEF Ask, planVars
<1>2. ASSUME want \in Positions PROVE Owners(want) \subseteq Generators
  BY <1>2, TileAssumption DEF Owners, StorageInv, StorageTyped
<1>3. r \in Requests
  BY <1>2 DEF Requests, Images, Blank, ViewerInv, ViewerTyped
<1>4. ViewerTyped'
  BY <1>1, <1>3 DEF ViewerInv, ViewerTyped
<1>5. want \in Positions => Blank = GatheredSoFar(r)
  BY DEF Blank, GatheredSoFar, Owners
<1>6. RequestsWhole'
  <2>1. /\ r.want = want /\ r.image = Blank
        /\ r.left = IF want \in Positions THEN Owners(want) ELSE {}
    OBVIOUS
  <2>2. /\ GatheredSoFar(r)' = GatheredSoFar(r)
        /\ Owners(want)' = Owners(want)
    BY <1>1 DEF GatheredSoFar, Owners
  <2>3. \A x \in request' : x = r
    BY <1>1
  <2>4. IF r.want \in Positions
        THEN r.left \subseteq Owners(r.want)' /\ r.image = GatheredSoFar(r)'
        ELSE r.left = {}
    BY <1>5, <2>1, <2>2
  <2> QED
    BY <1>1, <2>3, <2>4 DEF ViewerInv, RequestsWhole, Unpacked, Whole
<1>7. ServedIsWhole' /\ ShownThroughout'
  BY <1>1 DEF ServedIsWhole, ShownThroughout
<1> QED
  BY <1>4, <1>6, <1>7 DEF ViewerInv

\* Each generator adds its CCDs, once, or the tile is not found.
LEMMA GatherViewer ==
    ASSUME StorageInv, ViewerInv, NEW g \in Generators, Gather(g) PROVE ViewerInv'
<1>1. PICK r \in request :
          /\ r.via = "merge" /\ g \in r.left
          /\ IF ServesTile(g, r.want)
             THEN /\ request' = {[r EXCEPT !.left = @ \ {g},
                                           !.image = Sum(@, Local(g, r.want))]}
                  /\ UNCHANGED answer
             ELSE Answer(r, FALSE, Blank)
  BY DEF Gather
<1>2. UNCHANGED <<planVars, step, seen, cached, faults>>
  BY DEF Gather, boundVars
<1>3. /\ request = {r} /\ answer = {} /\ r \in Requests
      /\ r.want \in Positions /\ r.left \subseteq Owners(r.want)
      /\ r.left \subseteq Generators /\ r.image = GatheredSoFar(r)
  BY <1>1, TheRequest
<1>4. CASE ~ServesTile(g, r.want)
  <2>1. r.via = Stage(step) /\ faults = 0 => ServesTile(g, r.want)
    <3>1. g \in Owners(r.want) /\ CcdsAt[r.want] # {}
      BY <1>1, <1>3 DEF Owners
    <3> QED
      BY <1>1, <1>3, <3>1, Readies, StageSays DEF StorageInv
  <2>2. Answer(r, FALSE, Blank)
    BY <1>1, <1>4
  <2>3. /\ DOMAIN cached' \subseteq Packs
        /\ \A q \in DOMAIN cached' : \A p \in Unpacked(q) : cached'[q][p] = Whole(p)
    BY <1>2 DEF ViewerInv, ViewerTyped, RequestsWhole
  <2> QED
    BY <1>2, <1>4, <2>1, <2>2, <2>3, AnswerViewer
<1>5. CASE ServesTile(g, r.want)
  <2> PICK s : s = [r EXCEPT !.left = @ \ {g}, !.image = Sum(@, Local(g, r.want))]
    OBVIOUS
  <2>1. request' = {s} /\ answer' = {}
    BY <1>1, <1>3, <1>5
  <2>2. /\ s.want = r.want /\ s.via = r.via /\ s.left = r.left \ {g}
        /\ s.image = Sum(r.image, Local(g, r.want))
        /\ s = [want |-> s.want, via |-> s.via, image |-> s.image, left |-> s.left]
    BY <1>3 DEF Requests
  <2>3. s.image = GatheredSoFar(s)
    <3>1. ASSUME NEW c \in Ccds
          PROVE  r.image[c] + Local(g, r.want)[c]
                     = IF c \in CcdsAt[r.want] /\ owner[c] \notin r.left \ {g} THEN 1 ELSE 0
      <4>1. r.image[c] = IF c \in CcdsAt[r.want] /\ owner[c] \notin r.left THEN 1 ELSE 0
        BY <1>3 DEF GatheredSoFar
      <4>2. Local(g, r.want)[c] = IF c \in CcdsAt[r.want] /\ owner[c] = g THEN 1 ELSE 0
        BY DEF Local, MyCcds
      <4> QED
        BY <1>1, <4>1, <4>2
    <3> QED
      BY <2>2, <3>1 DEF GatheredSoFar, Sum
  <2>4. s \in Requests
    <3>1. GatheredSoFar(s) \in Images
      BY DEF GatheredSoFar, Images
    <3> QED
      BY <1>3, <2>2, <2>3, <3>1 DEF Requests
  <2>5. ViewerTyped'
    BY <1>2, <2>1, <2>4 DEF ViewerInv, ViewerTyped
  <2>6. RequestsWhole'
    <3>1. GatheredSoFar(s)' = GatheredSoFar(s) /\ Owners(r.want)' = Owners(r.want)
      BY <1>2 DEF GatheredSoFar, Owners, planVars
    <3>2. /\ s.left \subseteq Owners(s.want)' /\ s.image = GatheredSoFar(s)'
          /\ s.want \in Positions
      BY <1>3, <2>2, <2>3, <3>1
    <3> QED
      BY <1>2, <2>1, <3>2 DEF ViewerInv, RequestsWhole, Unpacked, Whole
  <2>7. ServedIsWhole' /\ ShownThroughout'
    BY <2>1 DEF ServedIsWhole, ShownThroughout
  <2> QED
    BY <2>5, <2>6, <2>7 DEF ViewerInv
<1> QED
  BY <1>4, <1>5

\* A tile that everybody added to is whole.
LEMMA GatheredViewer == ASSUME StorageInv, ViewerInv, Gathered PROVE ViewerInv'
<1>1. PICK r \in request :
          r.via = "merge" /\ r.want \in Positions /\ r.left = {} /\ Answer(r, TRUE, r.image)
  BY DEF Gathered
<1>2. UNCHANGED <<planVars, step, seen, cached, faults>>
  BY DEF Gathered, boundVars
<1>3. r.image = Whole(r.want)
  BY <1>1, TheRequest DEF GatheredSoFar, Whole
<1>4. /\ DOMAIN cached' \subseteq Packs
      /\ \A q \in DOMAIN cached' : \A p \in Unpacked(q) : cached'[q][p] = Whole(p)
  BY <1>2 DEF ViewerInv, ViewerTyped, RequestsWhole
<1> QED
  BY <1>1, <1>2, <1>3, <1>4, AnswerViewer

\* A merged tile is on its primary generator while the stage says so.
LEMMA FetchMergedViewer == ASSUME StorageInv, ViewerInv, FetchMerged PROVE ViewerInv'
<1>1. PICK r \in request :
          /\ r.via = "upload" /\ r.want \in Positions
          /\ IF CcdsAt[r.want] = {} THEN Answer(r, TRUE, Blank)
             ELSE IF ServesMerged(r.want) THEN Answer(r, TRUE, merged[r.want])
             ELSE Answer(r, FALSE, Blank)
  BY DEF FetchMerged
<1>2. UNCHANGED <<planVars, step, seen, cached, faults>>
  BY DEF FetchMerged, boundVars
<1>3. /\ DOMAIN cached' \subseteq Packs
      /\ \A q \in DOMAIN cached' : \A p \in Unpacked(q) : cached'[q][p] = Whole(p)
  BY <1>2 DEF ViewerInv, ViewerTyped, RequestsWhole
<1>4. CASE CcdsAt[r.want] = {}
  <2>1. Answer(r, TRUE, Blank) /\ Blank = Whole(r.want)
    BY <1>1, <1>4 DEF Blank, Whole
  <2> QED
    BY <1>2, <1>3, <2>1, AnswerViewer
<1>5. CASE CcdsAt[r.want] # {} /\ ServesMerged(r.want)
  <2>1. Answer(r, TRUE, merged[r.want]) /\ merged[r.want] = Whole(r.want)
    BY <1>1, <1>5 DEF ServesMerged, StorageInv, ImagesWhole
  <2> QED
    BY <1>2, <1>3, <2>1, AnswerViewer
<1>6. CASE CcdsAt[r.want] # {} /\ ~ServesMerged(r.want)
  <2>1. Answer(r, FALSE, Blank)
    BY <1>1, <1>6
  <2>2. r.via = Stage(step) /\ faults = 0 => ServesMerged(r.want)
    <3>1. primary[r.want] \in JobGenerators /\ primary[r.want] \in Generators
      BY <1>1, <1>6, TileAssumption
         DEF StorageInv, StorageTyped, Owners, JobGenerators
    <3>2. ASSUME r.via = Stage(step), faults = 0
          PROVE  NothingMissing /\ step \in {"clear", "upload", "headers"}
      BY <1>1, <3>2, StageSays DEF StorageInv
    <3> QED
      BY <1>1, <1>6, <3>1, <3>2 DEF NothingMissing, InJob, ServesMerged
  <2> QED
    BY <1>2, <1>3, <1>6, <2>1, <2>2, AnswerViewer
<1> QED
  BY <1>4, <1>5, <1>6

\* A packed tile that is cached or stored is whole.
LEMMA GetStoredViewer == ASSUME StorageInv, ViewerInv, GetStored PROVE ViewerInv'
<1>1. PICK r \in request :
          /\ r.via \in {"ready", "none"} /\ r.want \in Positions
          /\ LET q == PackOf[r.want] IN
             IF q \in DOMAIN cached \union DOMAIN packs
             THEN /\ cached' = IF q \in DOMAIN cached THEN cached ELSE Put(cached, q, packs[q])
                  /\ Answer(r, TRUE, cached'[q][r.want])
             ELSE Answer(r, FALSE, Blank) /\ UNCHANGED cached
  BY DEF GetStored
<1> DEFINE q == PackOf[r.want]
<1>2. UNCHANGED <<planVars, step, seen, faults>>
  BY DEF GetStored, boundVars
<1>3. q \in Packs /\ r.want \in Unpacked(q)
  BY <1>1, TileAssumption DEF Unpacked
<1>4. /\ DOMAIN cached \subseteq Packs
      /\ \A x \in DOMAIN cached : \A p \in Unpacked(x) : cached[x][p] = Whole(p)
  BY DEF ViewerInv, ViewerTyped, RequestsWhole
<1>5. CASE q \in DOMAIN cached \union DOMAIN packs
  <2>1. /\ cached' = IF q \in DOMAIN cached THEN cached ELSE Put(cached, q, packs[q])
        /\ Answer(r, TRUE, cached'[q][r.want])
    BY <1>1, <1>5
  <2>2. /\ DOMAIN cached' = DOMAIN cached \union {q}
        /\ \A x \in DOMAIN cached : cached'[x] = cached[x]
        /\ q \notin DOMAIN cached => q \in DOMAIN packs /\ cached'[q] = packs[q]
    BY <1>5, <2>1 DEF Put
  <2>3. \A x \in DOMAIN cached' : \A p \in Unpacked(x) : cached'[x][p] = Whole(p)
    BY <1>4, <2>2 DEF StorageInv, ImagesWhole, StoredIsWhole
  <2>4. DOMAIN cached' \subseteq Packs /\ cached'[q][r.want] = Whole(r.want)
    BY <1>3, <1>4, <2>2, <2>3
  <2> QED
    BY <1>2, <2>1, <2>3, <2>4, AnswerViewer
<1>6. CASE q \notin DOMAIN cached \union DOMAIN packs
  <2>1. Answer(r, FALSE, Blank) /\ UNCHANGED cached
    BY <1>1, <1>6
  <2>2. ~(r.via = Stage(step) /\ faults = 0 /\ step # "deleted")
    <3>1. ASSUME r.via = Stage(step), faults = 0, step # "deleted"
          PROVE  NothingMissing /\ step \in {"ready", "cleanup", "over"}
      BY <1>1, <3>1, StageSays DEF StorageInv
    <3> QED
      BY <1>3, <1>6, <3>1 DEF NothingMissing
  <2> QED
    BY <1>2, <1>4, <2>1, <2>2, AnswerViewer
<1> QED
  BY <1>5, <1>6

\* A header is read from its owner, or from the object storage and the data source.
LEMMA GetHeaderViewer == ASSUME StorageInv, ViewerInv, GetHeader PROVE ViewerInv'
<1>1. PICK r \in request :
          /\ r.want \in Ccds /\ r.via # "generate"
          /\ Answer(r, r.via \in {"ready", "none"}
                          \/ (up[owner[r.want]] /\ owner[r.want] \in metadata), Blank)
  BY DEF GetHeader
<1> DEFINE ok == \/ r.via \in {"ready", "none"}
                 \/ up[owner[r.want]] /\ owner[r.want] \in metadata
<1>2. UNCHANGED <<planVars, step, seen, cached, faults>>
  BY DEF GetHeader, boundVars
<1>3. /\ DOMAIN cached' \subseteq Packs
      /\ \A q \in DOMAIN cached' : \A p \in Unpacked(q) : cached'[q][p] = Whole(p)
  BY <1>2 DEF ViewerInv, ViewerTyped, RequestsWhole
<1>4. r.want \notin Positions
  BY <1>1, TileAssumption
<1>5. r.via = Stage(step) /\ faults = 0 => ok
  <2>1. owner[r.want] \in JobGenerators /\ owner[r.want] \in Generators
    BY <1>1 DEF StorageInv, StorageTyped, JobGenerators
  <2>2. ASSUME r.via = Stage(step), faults = 0, r.via \notin {"ready", "none"}
        PROVE  NothingMissing /\ InJob /\ step # "metadata"
    <3>1. r.via \in {"merge", "upload"}
      BY <1>1, <2>2, StageSays DEF StorageInv, Stages
    <3> QED
      BY <2>2, <3>1, StageSays DEF StorageInv, InJob
  <2> QED
    BY <2>1, <2>2 DEF NothingMissing
<1>6. ok \in BOOLEAN
  BY <1>1 DEF StorageInv, StorageTyped
<1>7. Answer(r, ok, Blank)
  BY <1>1
<1> HIDE DEF ok
<1> QED
  BY <1>2, <1>3, <1>4, <1>5, <1>6, <1>7, AnswerViewer

\* While the tiles are generated there is nothing to show.
LEMMA NotFoundViewer == ASSUME StorageInv, ViewerInv, NotFound PROVE ViewerInv'
<1>1. PICK r \in request : r.via = "generate" /\ Answer(r, FALSE, Blank)
  BY DEF NotFound
<1>2. UNCHANGED <<planVars, step, seen, cached, faults>>
  BY DEF NotFound, boundVars
<1>3. /\ DOMAIN cached' \subseteq Packs
      /\ \A q \in DOMAIN cached' : \A p \in Unpacked(q) : cached'[q][p] = Whole(p)
  BY <1>2 DEF ViewerInv, ViewerTyped, RequestsWhole
<1> QED
  BY <1>1, <1>2, <1>3, AnswerViewer

-----------------------------------------------------------------------------
(* The theorems.                                                           *)

\* The frontend changes nothing on the generators and in the object storage.
LEMMA ViewerStepStorage ==
    ASSUME StorageInv,
           Relay \/ RestartFrontend \/ Reply \/ (\E g \in Generators : Gather(g))
               \/ (\E want \in Positions \union Ccds : Ask(want))
    PROVE  StorageInv'
<1>1. /\ UNCHANGED <<planVars, step, todo, up, fileVars, storageVars>>
      /\ UNCHANGED <<torn, faults>> \/ Fault
  BY DEF Relay, RestartFrontend, Reply, Gather, Gathered, FetchMerged, GetStored, GetHeader,
         NotFound, Ask, boundVars
<1> QED
  BY <1>1, StorageKept

\* A step that changes nothing.
LEMMA Stutters == ASSUME IInv, UNCHANGED vars PROVE IInv'
<1>1. UNCHANGED <<planVars, step, todo, up, fileVars, storageVars, torn, faults>>
  BY DEF vars, boundVars
<1>2. UNCHANGED <<owner, seen, cached, request, answer, faults, step>>
  BY DEF vars, boundVars, planVars, viewerVars
<1> QED
  BY <1>1, <1>2, StorageKept, ViewerKept DEF IInv

\* Every step keeps both halves.
LEMMA StepKeepsIInv == IInv /\ [Next]_vars => IInv'
<1> SUFFICES ASSUME IInv, [Next]_vars PROVE IInv'
  OBVIOUS
<1> USE DEF IInv
<1>1. CASE UNCHANGED vars
  BY <1>1, Stutters
<1>2. CASE StorageStep
  BY <1>2, StorageStepStorage, StorageStepViewer
<1>3. CASE Relay \/ RestartFrontend \/ Reply
  BY <1>3, ViewerStepStorage, RelayViewer, RestartFrontendViewer, GatheredViewer,
     FetchMergedViewer, GetStoredViewer, GetHeaderViewer, NotFoundViewer DEF Reply
<1>4. CASE \E g \in Generators : Gather(g)
  BY <1>4, ViewerStepStorage, GatherViewer
<1>5. CASE \E want \in Positions \union Ccds : Ask(want)
  BY <1>5, ViewerStepStorage, AskViewer
<1> QED
  BY <1>1, <1>2, <1>3, <1>4, <1>5 DEF Next, StorageStep

\* The two halves hold in every state: of the files and the object storage, and of the
\* frontend.
THEOREM InductiveInvariant == Spec => []IInv
<1>1. Init => IInv
  BY InitStorage, InitViewer DEF IInv
<1> QED
  BY <1>1, StepKeepsIInv, PTL DEF Spec

\* The types follow from the invariant.
LEMMA TypesFollow == IInv => TypeOK
<1> SUFFICES ASSUME IInv PROVE TypeOK
  OBVIOUS
<1> USE DEF IInv, StorageInv, ViewerInv
<1>1. \A g \in Generators : todo[g] \subseteq Positions \union Packs \union Ccds \union {"all"}
  BY DEF StorageTyped, Items
<1>2. \A p \in DOMAIN merged : CcdsAt[p] # {} /\ merged[p] \in Images
  BY DEF ImagesWhole, Whole, Images
<1>3. Cardinality(request) + Cardinality(answer) <= 1
  <2>1. CASE request = {} /\ answer = {}
    BY <2>1, FS_EmptySet
  <2>2. CASE request = {} /\ \E a \in answer : answer = {a}
    BY <2>2, FS_EmptySet, FS_Singleton
  <2>3. CASE answer = {} /\ \E r \in request : request = {r}
    <3>1. PICK r : request = {r}
      BY <2>3
    <3>2. Cardinality(request) = 1 /\ Cardinality(answer) = 0
      BY <2>3, <3>1, FS_EmptySet, FS_Singleton
    <3> QED
      BY <3>2
  <2> QED
    BY <2>1, <2>2, <2>3 DEF ViewerTyped
<1>4. JobGenerators \subseteq Generators
  BY DEF JobGenerators, StorageTyped
<1>5. /\ owner \in [Ccds -> Generators] /\ primary \in [Positions -> Generators]
      /\ packer \in [Packs -> Generators]
      /\ \E i \in DOMAIN Steps : step = Steps[i]
      /\ \A g \in Generators : up[g] \in BOOLEAN /\ \A t \in tiles[g] : t[1] \in CcdsAt[t[2]]
      /\ metadata \subseteq Generators /\ config \subseteq Generators
      /\ DOMAIN packs \subseteq Packs /\ DOMAIN cached \subseteq Packs /\ headers \subseteq Ccds
  BY <1>4 DEF StorageTyped, ViewerTyped
<1> QED
  BY <1>1, <1>2, <1>3, <1>5 DEF TypeOK

\* Without a fault, what the upload and the headers' step were to store is there when they
\* are over.
LEMMA ReadyFollows == IInv => ReadyIsStored
<1> SUFFICES ASSUME IInv, step \in {"ready", "cleanup", "over"}, faults = 0
             PROVE  DOMAIN packs = Packs /\ headers = Ccds
  BY DEF ReadyIsStored
<1>1. NothingMissing /\ DOMAIN packs \subseteq Packs /\ headers \subseteq Ccds
  BY DEF IInv, StorageInv, StorageTyped
<1> QED
  BY <1>1 DEF NothingMissing

\* Whatever crashes, fails, is cleared or is written late, every tile that the frontend
\* answers with (get_tile) and every packed tile that the generators store (transfer_tiles)
\* shows each of its CCDs exactly once; and a quicklook that became ready without a fault
\* is stored with all its tiles and headers.
THEOREM TilesAreWhole == Spec => []StoreInv
<1>1. IInv => StoreInv
  BY TypesFollow, ReadyFollows DEF StoreInv, IInv, StorageInv, ImagesWhole, ViewerInv
<1> QED
  BY <1>1, InductiveInvariant, PTL

\* Without a fault, a frontend that knows the stage finds a tile for every position and a
\* header for every CCD, from the stage merge_tiles until the quicklook is deleted.
THEOREM TilesAreShown == Spec => []ShownThroughout
<1>1. IInv => ShownThroughout
  BY DEF IInv, ViewerInv
<1> QED
  BY <1>1, InductiveInvariant, PTL

-----------------------------------------------------------------------------
(* The places of tiles (TileGeometry).  Powers of two first.                *)

\* 2^n is the number of the sets of n things.
LEMMA PowersOfTwo ==
    ASSUME NEW n \in Nat
    PROVE  2^n \in Nat \ {0} /\ 2^(n + 1) = 2 * 2^n
<1> DEFINE small == SUBSET (1 .. n)  large == {A \union {n + 1} : A \in small}
<1>1. /\ IsFiniteSet(1 .. n) /\ Cardinality(1 .. n) = n
      /\ IsFiniteSet(1 .. n + 1) /\ Cardinality(1 .. n + 1) = n + 1
  <2>1. \A m \in Nat : IsFiniteSet(1 .. m) /\ Cardinality(1 .. m) = m
    <3> TAKE m \in Nat
    <3> QED
      BY FS_Interval, SMT
  <2> QED
    BY <2>1
<1>2. /\ IsFiniteSet(small) /\ Cardinality(small) = 2^n
      /\ Cardinality(SUBSET (1 .. n + 1)) = 2^(n + 1)
  BY <1>1, FS_SUBSET
<1>3. SUBSET (1 .. n + 1) = small \union large
  <2>1. 1 .. n + 1 = (1 .. n) \union {n + 1}
    OBVIOUS
  <2>2. ASSUME NEW A \in SUBSET (1 .. n + 1) PROVE A \in small \union large
    <3>1. CASE n + 1 \in A
      <4> A \ {n + 1} \in small /\ A = (A \ {n + 1}) \union {n + 1}
        BY <2>1, <3>1
      <4> QED
        OBVIOUS
    <3>2. CASE n + 1 \notin A
      BY <2>1, <3>2
    <3> QED
      BY <3>1, <3>2
  <2>3. ASSUME NEW A \in small \union large PROVE A \in SUBSET (1 .. n + 1)
    BY <2>1
  <2> QED
    BY <2>2, <2>3
<1>4. small \intersect large = {}
  <2>1. n + 1 \notin 1 .. n
    OBVIOUS
  <2> QED
    BY <2>1
<1>5. IsFiniteSet(large) /\ Cardinality(large) = Cardinality(small)
  <2> DEFINE with == [A \in small |-> A \union {n + 1}]
  <2>1. with \in Bijection(small, large)
    <3>1. n + 1 \notin 1 .. n
      OBVIOUS
    <3>2. with \in [small -> large] /\ \A B \in large : \E A \in small : with[A] = B
      OBVIOUS
    <3>3. ASSUME NEW A \in small, NEW B \in small, with[A] = with[B] PROVE A = B
      <4>1. A \union {n + 1} = B \union {n + 1} /\ n + 1 \notin A /\ n + 1 \notin B
        BY <3>1, <3>3
      <4> QED
        BY <4>1
    <3> QED
      BY <3>2, <3>3 DEF Bijection, Injection, Surjection, IsInjective
  <2> HIDE DEF with, small, large
  <2>2. IsFiniteSet(small) /\ ExistsBijection(small, large)
    BY <1>2, <2>1 DEF ExistsBijection
  <2> QED
    BY <2>2, FS_Bijection
<1>6. Cardinality(small \union large) = Cardinality(small) + Cardinality(large)
  <2> HIDE DEF small, large
  <2>1. Cardinality({}) = 0
    BY FS_EmptySet
  <2>2. /\ Cardinality(small) \in Nat
        /\ Cardinality(small \union large)
             = Cardinality(small) + Cardinality(large) - Cardinality(small \intersect large)
    BY <1>2, <1>5, FS_Union, FS_CardinalityType
  <2> QED
    BY <1>4, <1>5, <2>1, <2>2
<1>7. 2^n \in Nat /\ 2^n # 0
  <2>1. {} \in small
    OBVIOUS
  <2> HIDE DEF small, large
  <2>2. Cardinality(small) \in Nat /\ (Cardinality(small) = 0 <=> small = {})
    BY <1>2, FS_CardinalityType, FS_EmptySet
  <2> QED
    BY <1>2, <2>1, <2>2
<1> HIDE DEF small, large
<1>8. 2^(n + 1) = Cardinality(small \union large)
  BY <1>2, <1>3, Zenon
<1>9. Cardinality(small) = 2^n /\ Cardinality(large) = 2^n
  BY <1>2, <1>5, Zenon
<1> QED
  BY <1>6, <1>7, <1>8, <1>9

LEMMA NoPower == 2^0 = 1
<1>1. Cardinality(SUBSET {}) = 2^Cardinality({}) /\ Cardinality({}) = 0
  BY FS_SUBSET, FS_EmptySet
<1>2. SUBSET {} = {{}}
  OBVIOUS
<1>3. Cardinality({{}}) = 1
  BY FS_Singleton
<1> QED
  BY <1>1, <1>2, <1>3

-----------------------------------------------------------------------------
(* Division.                                                               *)

LEMMA Monotone ==
    ASSUME NEW a \in Int, NEW b \in Int, NEW d \in Nat, a <= b
    PROVE  d * a <= d * b
OBVIOUS

LEMMA Quotient ==
    ASSUME NEW a \in Nat, NEW d \in Nat \ {0}
    PROVE  /\ a \div d \in Nat /\ a % d \in 0 .. d - 1
           /\ a = d * (a \div d) + (a % d)
OBVIOUS

\* The quotient is the largest number whose product does not exceed the dividend.
LEMMA QuotientIsLargest ==
    ASSUME NEW a \in Nat, NEW d \in Nat \ {0}, NEW i \in Int
    PROVE  i <= a \div d <=> d * i <= a
<1> DEFINE q == a \div d
<1>1. q \in Nat /\ d * q <= a /\ a < d * q + d
  BY Quotient
<1> HIDE DEF q
<1>2. CASE i <= q
  <2>1. d * i <= d * q
    BY <1>1, <1>2, Monotone
  <2>2. d * i \in Int /\ d * q \in Int
    BY <1>1
  <2> QED
    BY <1>1, <1>2, <2>1, <2>2 DEF q
<1>3. CASE q + 1 <= i
  <2>1. d * (q + 1) <= d * i /\ d * (q + 1) = d * q + d
    BY <1>1, <1>3, Monotone
  <2>2. d * i \in Int /\ d * q \in Int
    BY <1>1
  <2>3. ~(d * i <= a) /\ ~(i <= q)
    BY <1>1, <1>3, <2>1, <2>2
  <2> QED
    BY <2>3 DEF q
<1>4. i <= q \/ q + 1 <= i
  BY <1>1
<1> QED
  BY <1>2, <1>3, <1>4

\* What the quotient is, from its multiple and the rest.
LEMMA QuotientOf ==
    ASSUME NEW d \in Nat \ {0}, NEW q \in Nat, NEW r \in 0 .. d - 1
    PROVE  d * q + r \in Nat /\ (d * q + r) \div d = q /\ (d * q + r) % d = r
<1>1. d * q \in Nat /\ d * (q + 1) = d * q + d
  OBVIOUS
<1> DEFINE a == d * q + r
<1>2. a \in Nat /\ d * q <= a /\ ~(d * (q + 1) <= a)
  BY <1>1
<1>3. q <= a \div d /\ ~(q + 1 <= a \div d)
  <2> HIDE DEF a
  <2> QED
    BY <1>2, QuotientIsLargest
<1>4. a \div d \in Nat /\ a = d * (a \div d) + (a % d) /\ a % d \in 0 .. d - 1
  <2> HIDE DEF a
  <2> QED
    BY <1>2, Quotient
<1>5. a \div d = q
  <2> HIDE DEF a
  <2> QED
    BY <1>3, <1>4
<1>6. a % d = r
  <2>1. a = d * q + (a % d) /\ a % d \in Int
    <3> HIDE DEF a
    <3> QED
      BY <1>4, <1>5
  <2> QED
    BY <1>1, <2>1
<1> QED
  BY <1>2, <1>5, <1>6

LEMMA QuotientOfQuotient ==
    ASSUME NEW a \in Nat, NEW d \in Nat \ {0}, NEW e \in Nat \ {0}
    PROVE  e * d \in Nat \ {0} /\ (a \div d) \div e = a \div (e * d)
<1>1. e * d \in Nat \ {0} /\ a \div d \in Nat
  BY Quotient
<1>2. (a \div d) \div e \in Nat /\ a \div (e * d) \in Nat
  BY <1>1, Quotient
<1>3. ASSUME NEW i \in Nat PROVE i <= (a \div d) \div e <=> i <= a \div (e * d)
  <2>1. i <= (a \div d) \div e <=> e * i <= a \div d
    BY <1>1, QuotientIsLargest
  <2>2. e * i <= a \div d <=> d * (e * i) <= a
    BY QuotientIsLargest
  <2>3. i <= a \div (e * d) <=> (e * d) * i <= a
    BY <1>1, QuotientIsLargest
  <2>4. d * (e * i) = (e * d) * i
    OBVIOUS
  <2> QED
    BY <2>1, <2>2, <2>3, <2>4
<1>4. \A m, n \in Nat : (\A i \in Nat : i <= m <=> i <= n) => m = n
  OBVIOUS
<1> QED
  BY <1>1, <1>2, <1>3, <1>4

LEMMA QuotientIsMonotone ==
    ASSUME NEW a \in Nat, NEW b \in Nat, NEW d \in Nat \ {0}, a <= b
    PROVE  a \div d <= b \div d
<1>1. a \div d \in Nat /\ d * (a \div d) <= a /\ d * (a \div d) \in Int
  BY Quotient
<1>2. d * (a \div d) <= b
  BY <1>1
<1> QED
  BY <1>1, <1>2, QuotientIsLargest
-----------------------------------------------------------------------------
(* The rows of a CCD and the levels of its tiles.                          *)

FirstRow(b) == Floor(b.low)
LastRow(b) == Floor(b.low) + b.extent

\* What a pixel can be the mean of.
RowSets == SUBSET Nat

\* The rows of which row m of level l is the mean.
RowsAt(b, l, m) == {y \in Rows(b) : y \div 2^l = m}

\* The positions of the levels below n at which rows from first to last are.
TilesBelow(n, first, last) ==
    {p \in (0 .. n - 1) \X Nat :
        p[2] \in (first \div 2^p[1]) \div TileSize .. (last \div 2^p[1]) \div TileSize}

LEMMA SequenceOfFunction ==
    ASSUME NEW S, NEW n \in Nat, NEW f \in [1 .. n -> S]
    PROVE  f \in Seq(S) /\ Len(f) = n
<1>1. f \in Seq(S)
  BY SeqDef
<1>2. Len(f) \in Nat /\ 1 .. Len(f) = 1 .. n
  BY <1>1, LenProperties
<1>3. \A i, j \in Nat : 1 .. i = 1 .. j => i = j
  <2> SUFFICES ASSUME NEW i \in Nat, NEW j \in Nat, i < j PROVE 1 .. i # 1 .. j
    OBVIOUS
  <2>1. j \in 1 .. j /\ j \notin 1 .. i
    OBVIOUS
  <2> QED
    BY <2>1
<1> QED
  BY <1>1, <1>2, <1>3

LEMMA BoxRows ==
    ASSUME NEW b \in Boxes
    PROVE  /\ FirstRow(b) \in Nat /\ LastRow(b) \in Nat /\ LastRow(b) - 1 \in Nat
           /\ FirstRow(b) <= LastRow(b) - 1 /\ b # NoBox /\ Rows(b) = FirstRow(b) .. LastRow(b)
           /\ b.low \in Nat /\ b.extent \in Nat /\ b.low <= MaxEdge /\ b.extent <= MaxExtent
<1>1. /\ b.low \in Nat /\ b.low <= MaxEdge
      /\ b.extent \in Nat \ {0} /\ b.extent <= MaxExtent
  BY GeometryAssumption DEF Boxes
<1>2. Floor(b.low) \in Nat
  BY <1>1 DEF Floor
<1>3. b # NoBox
  BY <1>1 DEF NoBox
<1> QED
  BY <1>1, <1>2, <1>3 DEF FirstRow, LastRow, Rows

LEMMA NoRowsOutside ==
    ASSUME NEW b \in Boxes, NEW l \in Nat, NEW m \in Int, RowsAt(b, l, m) # {}
    PROVE  m \in FirstRow(b) \div 2^l .. LastRow(b) \div 2^l
<1>1. PICK y \in Rows(b) : y \div 2^l = m
  BY DEF RowsAt
<1>2. y \in Nat /\ FirstRow(b) <= y /\ y <= LastRow(b)
  BY <1>1, BoxRows
<1>3. 2^l \in Nat \ {0}
  BY PowersOfTwo
<1>4. FirstRow(b) \div 2^l <= y \div 2^l /\ y \div 2^l <= LastRow(b) \div 2^l
  BY <1>2, <1>3, BoxRows, QuotientIsMonotone
<1>5. FirstRow(b) \div 2^l \in Nat /\ LastRow(b) \div 2^l \in Nat
  BY <1>3, BoxRows, Quotient
<1> QED
  BY <1>1, <1>4, <1>5

\* Half of a row of one level is a row of the next.
LEMMA NextLevel ==
    ASSUME NEW y \in Nat, NEW l \in Nat
    PROVE  y \div 2^l \in Nat /\ y \div 2^(l + 1) = (y \div 2^l) \div 2
<1>1. 2^l \in Nat \ {0} /\ 2^(l + 1) = 2 * 2^l
  BY PowersOfTwo
<1>2. (y \div 2^l) \div 2 = y \div (2 * 2^l)
  BY <1>1, QuotientOfQuotient
<1> QED
  BY <1>1, <1>2, Quotient

LEMMA TwoRowsInOne ==
    ASSUME NEW b \in Boxes, NEW l \in Nat, NEW m \in Int
    PROVE  RowsAt(b, l, 2 * m) \union RowsAt(b, l, 2 * m + 1) = RowsAt(b, l + 1, m)
<1>1. ASSUME NEW y \in Rows(b)
      PROVE  y \div 2^(l + 1) = m <=> y \div 2^l = 2 * m \/ y \div 2^l = 2 * m + 1
  <2>1. y \in Nat
    BY BoxRows
  <2> DEFINE h == y \div 2^l
  <2>2. h \in Nat /\ y \div 2^(l + 1) = h \div 2
    BY <2>1, NextLevel
  <2>3. h \div 2 = m <=> h = 2 * m \/ h = 2 * m + 1
    <3> HIDE DEF h
    <3> QED
      BY <2>2
  <2> QED
    BY <2>2, <2>3
<1> QED
  BY <1>1 DEF RowsAt

\* The sequence s has at its places from m + 1 on what is in t.
HasFrom(s, m, t) ==
    \A i \in m + 1 .. m + Len(t) : s[i] = t[i - m]

\* The sequence s is made of three: the second begins after m, the third after n.
IsJoined(s, above, m, d, n, below) ==
    /\ s \in Seq(RowSets) /\ Len(s) = n + Len(below)
    /\ HasFrom(s, 0, above) /\ HasFrom(s, m, d) /\ HasFrom(s, n, below)

LEMMA JoinedSequences ==
    ASSUME NEW s \in Seq(RowSets), NEW t \in Seq(RowSets)
    PROVE  /\ s \o t \in Seq(RowSets) /\ Len(s \o t) = Len(s) + Len(t)
           /\ HasFrom(s \o t, 0, s) /\ HasFrom(s \o t, Len(s), t)
<1>1. /\ s \o t \in Seq(RowSets) /\ Len(s \o t) = Len(s) + Len(t)
      /\ \A i \in 1 .. Len(s) + Len(t) :
            (s \o t)[i] = IF i <= Len(s) THEN s[i] ELSE t[i - Len(s)]
  BY ConcatProperties
<1> DEFINE u == s \o t  m == Len(s)  n == Len(t)
<1>2. m \in Nat /\ n \in Nat
  BY LenProperties
<1> HIDE DEF u, m, n
<1>3. \A i \in 1 .. m + n : u[i] = IF i <= m THEN s[i] ELSE t[i - m]
  BY <1>1 DEF u, m, n
<1>4. \A i \in 0 + 1 .. 0 + m : u[i] = s[i - 0]
  BY <1>2, <1>3
<1>5. \A i \in m + 1 .. m + n : u[i] = t[i - m]
  BY <1>2, <1>3
<1> QED
  BY <1>1, <1>4, <1>5 DEF u, m, n, HasFrom

LEMMA ThreeJoined ==
    ASSUME NEW above \in Seq(RowSets), NEW d \in Seq(RowSets), NEW below \in Seq(RowSets)
    PROVE  IsJoined(above \o d \o below, above, Len(above), d, Len(above) + Len(d), below)
<1> DEFINE upper == above \o d  m == Len(above)  n == Len(d)
<1>1. /\ upper \in Seq(RowSets) /\ Len(upper) = m + n
      /\ HasFrom(upper, 0, above) /\ HasFrom(upper, m, d)
  BY JoinedSequences
<1>2. m \in Nat /\ n \in Nat /\ Len(below) \in Nat
  BY LenProperties
<1> HIDE DEF upper
<1> DEFINE u == upper \o below
<1>3. /\ u \in Seq(RowSets) /\ Len(u) = Len(upper) + Len(below)
      /\ HasFrom(u, 0, upper) /\ HasFrom(u, Len(upper), below)
  BY <1>1, JoinedSequences
<1> HIDE DEF u, m, n
<1>4. \A i \in 1 .. m + n : u[i] = upper[i]
  BY <1>1, <1>2, <1>3 DEF HasFrom
<1>5. HasFrom(u, 0, above)
  <2>1. \A i \in 0 + 1 .. 0 + m : upper[i] = above[i - 0]
    BY <1>1 DEF HasFrom, m
  <2>2. \A i \in 0 + 1 .. 0 + m : i \in 1 .. m + n
    BY <1>2
  <2> QED
    BY <1>4, <2>1, <2>2 DEF HasFrom, m
<1>6. HasFrom(u, m, d)
  <2>1. \A i \in m + 1 .. m + n : upper[i] = d[i - m]
    BY <1>1 DEF HasFrom, n
  <2>2. \A i \in m + 1 .. m + n : i \in 1 .. m + n
    BY <1>2
  <2> QED
    BY <1>4, <2>1, <2>2 DEF HasFrom, n
<1>7. IsJoined(u, above, m, d, m + n, below)
  BY <1>1, <1>3, <1>5, <1>6 DEF IsJoined
<1> QED
  BY <1>7 DEF u, upper, m, n

LEMMA PairedPlaces ==
    ASSUME NEW start \in Nat, NEW end \in Nat, NEW k \in 1 .. end - start
    PROVE  /\ 2 * k - 1 \in 1 .. 2 * (end - start) /\ 2 * k \in 1 .. 2 * (end - start)
           /\ 2 * start + (2 * k - 1) - 1 = 2 * (start + k - 1)
           /\ 2 * start + 2 * k - 1 = 2 * (start + k - 1) + 1
           /\ 2 * (start + k - 1) \in Int /\ 2 * (start + k - 1) + 1 \in Int
OBVIOUS

LEMMA Parity ==
    ASSUME NEW x \in Nat, NEW y \in Nat, x <= y
    PROVE  /\ x % 2 \in {0, 1} /\ y % 2 \in {0, 1} /\ x \div 2 \in Nat /\ (y + 1) \div 2 \in Nat
           /\ x = 2 * (x \div 2) + (x % 2) /\ y = 2 * ((y + 1) \div 2) - (y % 2)
           /\ x \div 2 <= (y + 1) \div 2
OBVIOUS

\* The sequence d has what the function f has from the place from to before to.
Holds(d, f, from, to) ==
    /\ d \in Seq(RowSets) /\ Len(d) = to - from
    /\ \A k \in 1 .. to - from : d[k] = f[from + k - 1]

Paired(f) == [m \in Int |-> f[2 * m] \union f[2 * m + 1]]

\* The padding of shrink_image puts every row at the half of its place.
LEMMA ShrinkHalves ==
    ASSUME NEW from \in Nat, NEW to \in Nat, from <= to,
           NEW f \in [Int -> RowSets], f[from - 1] = {}, f[to] = {},
           NEW d, Holds(d, f, from, to)
    PROVE  Holds(Shrink(d, from % 2, to % 2), Paired(f), from \div 2, (to + 1) \div 2)
<1> DEFINE top == from % 2  bottom == to % 2
           start == from \div 2  end == (to + 1) \div 2
           above == IF top = 1 THEN << {} >> ELSE << >>
           below == IF bottom = 1 THEN << {} >> ELSE << >>
           padded == above \o d \o below
           next == [k \in 1 .. (Len(padded) \div 2) |-> padded[2 * k - 1] \union padded[2 * k]]
           n == to - from
<1>0. /\ top \in {0, 1} /\ bottom \in {0, 1} /\ start \in Nat /\ end \in Nat
      /\ from = 2 * start + top /\ to = 2 * end - bottom /\ start <= end
  BY Parity
<1>1. /\ above \in Seq(RowSets) /\ Len(above) = top /\ (top = 1 => above[1] = {})
      /\ below \in Seq(RowSets) /\ Len(below) = bottom /\ (bottom = 1 => below[1] = {})
  <2>1. /\ << {} >> \in Seq(RowSets) /\ Len(<< {} >>) = 1 /\ << {} >>[1] = {}
        /\ << >> \in Seq(RowSets) /\ Len(<< >>) = 0
    BY DEF RowSets
  <2> QED
    BY <1>0, <2>1
<1>2. Shrink(d, top, bottom) = next
  BY DEF Shrink
<1> HIDE DEF top, bottom, start, end
<1>3. /\ n \in Nat /\ top + n + bottom = 2 * (end - start) /\ end - start \in Nat
      /\ top \in Nat /\ bottom \in Nat /\ Len(d) = n /\ d \in Seq(RowSets)
  BY <1>0 DEF Holds
<1> HIDE DEF above, below, n
<1>4. /\ padded \in Seq(RowSets) /\ Len(padded) = top + n + bottom
      /\ \A j \in 1 .. top : padded[j] = above[j]
      /\ \A j \in top + 1 .. top + n : padded[j] = d[j - top]
      /\ \A j \in top + n + 1 .. top + n + bottom : padded[j] = below[j - (top + n)]
  <2>1. IsJoined(padded, above, Len(above), d, Len(above) + Len(d), below)
    BY <1>1, <1>3, ThreeJoined
  <2> HIDE DEF padded
  <2>2. IsJoined(padded, above, top, d, top + n, below)
    BY <1>1, <1>3, <2>1
  <2>3. \A j \in 1 .. top : padded[j] = above[j]
    BY <1>1, <1>3, <2>2 DEF IsJoined, HasFrom
  <2>4. \A j \in top + 1 .. top + n : padded[j] = d[j - top]
    BY <1>1, <1>3, <2>2 DEF IsJoined, HasFrom
  <2>5. \A j \in top + n + 1 .. top + n + bottom : padded[j] = below[j - (top + n)]
    BY <1>1, <1>3, <2>2 DEF IsJoined, HasFrom
  <2> QED
    BY <1>1, <2>2, <2>3, <2>4, <2>5 DEF IsJoined
<1> HIDE DEF padded
<1>5. ASSUME NEW j \in 1 .. top + n + bottom PROVE padded[j] = f[2 * start + j - 1]
  <2>1. CASE j <= top
    <3>1. top = 1 /\ j = 1 /\ j \in 1 .. top /\ 2 * start + j - 1 = from - 1
      BY <1>0, <1>3, <2>1
    <3> QED
      BY <1>1, <1>4, <3>1
  <2>2. CASE j > top /\ j <= top + n
    <3>1. /\ j - top \in 1 .. n /\ from + (j - top) - 1 = 2 * start + j - 1
          /\ j \in top + 1 .. top + n
      BY <1>0, <1>3, <2>2
    <3>2. padded[j] = d[j - top]
      BY <1>4, <3>1
    <3>3. d[j - top] = f[from + (j - top) - 1]
      BY <3>1 DEF n, Holds
    <3> QED
      BY <3>1, <3>2, <3>3
  <2>3. CASE j > top + n
    <3>1. /\ bottom = 1 /\ j - (top + n) = 1 /\ j \in top + n + 1 .. top + n + bottom
          /\ 2 * start + j - 1 = to
      BY <1>0, <1>3, <2>3 DEF n
    <3>2. padded[j] = below[1] /\ below[1] = {}
      BY <1>1, <1>4, <3>1
    <3> QED
      BY <3>1, <3>2
  <2> QED
    BY <1>3, <2>1, <2>2, <2>3
<1>6. Len(padded) \div 2 = end - start
  <2>1. \A m \in Nat : (2 * m) \div 2 = m
    OBVIOUS
  <2> QED
    BY <1>3, <1>4, <2>1
<1>7. ASSUME NEW k \in 1 .. end - start
      PROVE  /\ padded[2 * k - 1] = f[2 * (start + k - 1)]
             /\ padded[2 * k] = f[2 * (start + k - 1) + 1]
             /\ f[2 * (start + k - 1)] \union f[2 * (start + k - 1) + 1] \in RowSets
  <2>1. /\ 2 * k - 1 \in 1 .. top + n + bottom /\ 2 * k \in 1 .. top + n + bottom
        /\ 2 * start + (2 * k - 1) - 1 = 2 * (start + k - 1)
        /\ 2 * start + 2 * k - 1 = 2 * (start + k - 1) + 1
        /\ 2 * (start + k - 1) \in Int /\ 2 * (start + k - 1) + 1 \in Int
    BY <1>0, <1>3, PairedPlaces
  <2>2. /\ \A i \in Int : f[i] \in RowSets
        /\ \A x, y \in RowSets : x \union y \in RowSets
    BY DEF RowSets
  <2>3. /\ padded[2 * k - 1] = f[2 * start + (2 * k - 1) - 1]
        /\ padded[2 * k] = f[2 * start + 2 * k - 1]
    BY <1>5, <2>1
  <2> QED
    BY <2>1, <2>2, <2>3
<1>8. /\ next \in [1 .. end - start -> RowSets]
      /\ \A k \in 1 .. end - start :
            next[k] = f[2 * (start + k - 1)] \union f[2 * (start + k - 1) + 1]
  BY <1>6, <1>7
<1> HIDE DEF next
<1>9. next \in Seq(RowSets) /\ Len(next) = end - start
  BY <1>3, <1>8, SequenceOfFunction
<1>10. \A k \in 1 .. end - start : next[k] = Paired(f)[start + k - 1]
  <2> TAKE k \in 1 .. end - start
  <2>1. start + k - 1 \in Int
    BY <1>0
  <2>2. Paired(f)[start + k - 1] = f[2 * (start + k - 1)] \union f[2 * (start + k - 1) + 1]
    BY <2>1 DEF Paired
  <2> QED
    BY <1>8, <2>2
<1>11. Holds(next, Paired(f), start, end)
  BY <1>9, <1>10 DEF Holds
<1> QED
  BY <1>2, <1>11 DEF top, bottom, start, end

\* The row at each place of level l.
RowsOf(b, l) == [m \in Int |-> RowsAt(b, l, m)]

LEMMA RowsOfNext ==
    ASSUME NEW b \in Boxes, NEW l \in Nat
    PROVE  RowsOf(b, l) \in [Int -> RowSets] /\ Paired(RowsOf(b, l)) = RowsOf(b, l + 1)
<1>1. RowsOf(b, l) \in [Int -> RowSets]
  BY BoxRows DEF RowsOf, RowsAt, RowSets
<1>2. ASSUME NEW m \in Int
      PROVE  RowsOf(b, l)[2 * m] \union RowsOf(b, l)[2 * m + 1] = RowsAt(b, l + 1, m)
  <2>1. /\ RowsOf(b, l)[2 * m] = RowsAt(b, l, 2 * m)
        /\ RowsOf(b, l)[2 * m + 1] = RowsAt(b, l, 2 * m + 1)
    BY DEF RowsOf
  <2> QED
    BY <2>1, TwoRowsInOne
<1> QED
  BY <1>1, <1>2 DEF Paired, RowsOf

\* shrink_image makes of the rows of a level, wherever they begin and end, those of the
\* next level.
LEMMA ShrinkIsNextLevel ==
    ASSUME NEW b \in Boxes, NEW l \in Nat, NEW from \in Nat, NEW to \in Nat,
           from = FirstRow(b) \div 2^l, to = LastRow(b) \div 2^l + 1,
           NEW d, Holds(d, RowsOf(b, l), from, to)
    PROVE  Holds(Shrink(d, from % 2, to % 2), RowsOf(b, l + 1), from \div 2, (to + 1) \div 2)
<1>1. /\ from <= to
      /\ from .. to - 1 = FirstRow(b) \div 2^l .. LastRow(b) \div 2^l
  <2>1. FirstRow(b) \div 2^l <= LastRow(b) \div 2^l /\ LastRow(b) \div 2^l \in Nat
    <3>1. 2^l \in Nat \ {0} /\ FirstRow(b) \in Nat /\ LastRow(b) \in Nat /\ FirstRow(b) <= LastRow(b)
      BY PowersOfTwo, BoxRows
    <3> QED
      BY <3>1, QuotientIsMonotone, Quotient
  <2> QED
    BY <2>1
<1>2. RowsAt(b, l, from - 1) = {} /\ RowsAt(b, l, to) = {}
  <2>1. /\ from - 1 \notin from .. to - 1 /\ to \notin from .. to - 1
        /\ from - 1 \in Int /\ to \in Int
    OBVIOUS
  <2> QED
    BY <1>1, <2>1, NoRowsOutside
<1>3. RowsOf(b, l)[from - 1] = {} /\ RowsOf(b, l)[to] = {}
  BY <1>2 DEF RowsOf
<1>4. Holds(Shrink(d, from % 2, to % 2), Paired(RowsOf(b, l)), from \div 2, (to + 1) \div 2)
  BY <1>1, <1>3, RowsOfNext, ShrinkHalves
<1> QED
  BY <1>4, RowsOfNext

\* A tile of a level is cut out of its rows, padded where there are none.
LEMMA SliceIsRows ==
    ASSUME NEW b \in Boxes, NEW l \in Nat, NEW from \in Nat, NEW to \in Nat,
           from = FirstRow(b) \div 2^l, to = LastRow(b) \div 2^l + 1,
           Holds(data, RowsOf(b, l), from, to), NEW i \in Nat, NEW k \in 0 .. TileSize - 1
    PROVE  Slice(from, i)[k] = RowsAt(b, l, i * TileSize + k)
<1> DEFINE y == i * TileSize + k
<1>1. y \in Int
  BY GeometryAssumption
<1> HIDE DEF y
<1>2. Len(data) = to - from /\ \A m \in 1 .. to - from : data[m] = RowsOf(b, l)[from + m - 1]
  BY DEF Holds
<1>3. Slice(from, i)[k] = IF y >= from /\ y < from + (to - from) THEN data[y - from + 1] ELSE {}
  BY <1>2 DEF Slice, y
<1>4. CASE y >= from /\ y < to
  <2>1. y - from + 1 \in 1 .. to - from /\ from + (y - from + 1) - 1 = y
    BY <1>1, <1>4
  <2>2. data[y - from + 1] = RowsOf(b, l)[y]
    BY <1>2, <2>1
  <2>3. RowsOf(b, l)[y] = RowsAt(b, l, y) /\ y >= from /\ y < from + (to - from)
    BY <1>1, <1>4 DEF RowsOf
  <2> QED
    BY <1>3, <2>2, <2>3 DEF y
<1>5. CASE ~(y >= from /\ y < to)
  <2>1. ~(y >= from /\ y < from + (to - from))
    BY <1>1, <1>5
  <2>2. to - 1 = LastRow(b) \div 2^l
    <3>1. LastRow(b) \div 2^l \in Nat
      BY PowersOfTwo, BoxRows, Quotient
    <3> QED
      BY <3>1
  <2>3. y \notin from .. to - 1
    BY <1>1, <1>5
  <2>4. RowsAt(b, l, y) = {}
    BY <1>1, <2>2, <2>3, NoRowsOutside
  <2> QED
    BY <1>3, <2>1, <2>4 DEF y
<1> QED
  BY <1>4, <1>5

-----------------------------------------------------------------------------
(* The positions of the tiles.                                             *)

LEMMA TilesOfNextLevel ==
    ASSUME NEW n \in Nat, NEW first \in Nat, NEW last \in Nat
    PROVE  TilesBelow(n + 1, first, last)
             = TilesBelow(n, first, last)
                 \union ({n} \X ((first \div 2^n) \div TileSize .. (last \div 2^n) \div TileSize))
<1>1. 0 .. (n + 1) - 1 = (0 .. n - 1) \union {n}
  OBVIOUS
<1>2. (first \div 2^n) \div TileSize \in Nat
  BY PowersOfTwo, Quotient, GeometryAssumption
<1>3. \A i, j, h \in Int : i \in Nat /\ h \in i .. j => h \in Nat
  OBVIOUS
<1>4. \A i \in (first \div 2^n) \div TileSize .. (last \div 2^n) \div TileSize : i \in Nat
  BY <1>2
<1> QED
  BY <1>1, <1>4 DEF TilesBelow

\* The size of a tile of level l, in rows.
SizeAt(l) == TileSize * 2^l

LEMMA SizeIsPositive ==
    ASSUME NEW l \in Nat
    PROVE  /\ 2^l \in Nat \ {0} /\ SizeAt(l) \in Nat \ {0}
           /\ \A a \in Nat : (a \div 2^l) \div TileSize = a \div SizeAt(l)
<1>1. 2^l \in Nat \ {0}
  BY PowersOfTwo
<1>2. TileSize \in Nat \ {0}
  BY GeometryAssumption
<1>3. SizeAt(l) \in Nat \ {0}
  BY <1>1, <1>2 DEF SizeAt
<1>4. ASSUME NEW a \in Nat PROVE (a \div 2^l) \div TileSize = a \div SizeAt(l)
  BY <1>1, <1>2, QuotientOfQuotient DEF SizeAt
<1> QED
  BY <1>1, <1>3, <1>4

\* A row that is not the first of a tile of level 0 is not the first of a tile.
LEMMA NotTheFirstOfATile ==
    ASSUME NEW a \in Nat, NEW d \in Nat \ {0}, a % d # 0, NEW e \in Nat \ {0}, NEW i \in Nat
    PROVE  a # (d * e) * i
<1> SUFFICES ASSUME a = (d * e) * i PROVE FALSE
  OBVIOUS
<1>1. e * i \in Nat /\ (d * e) * i = d * (e * i) + 0
  OBVIOUS
<1>2. (d * (e * i) + 0) % d = 0
  BY <1>1, QuotientOf
<1> QED
  BY <1>1, <1>2

\* Without the last row the CCD has the same tiles if that is not the first of a tile.
LEMMA LastRowIsInATile ==
    ASSUME NEW a \in Nat, a - 1 \in Nat, a % TileSize # 0, NEW l \in Nat
    PROVE  (a - 1) \div SizeAt(l) = a \div SizeAt(l)
<1> DEFINE s == SizeAt(l)  q == a \div s
<1>1. s \in Nat \ {0} /\ 2^l \in Nat \ {0} /\ TileSize \in Nat \ {0} /\ s = TileSize * 2^l
  BY SizeIsPositive, GeometryAssumption DEF SizeAt
<1> HIDE DEF s
<1>2. q \in Nat /\ s * q <= a /\ s * q \in Nat
  <2>1. q \in Nat /\ a % s \in 0 .. s - 1 /\ a = s * q + (a % s)
    BY <1>1, Quotient
  <2> HIDE DEF q
  <2>2. s * q \in Nat
    BY <1>1, <2>1
  <2> QED
    BY <1>1, <2>1, <2>2
<1>3. a # s * q
  <2> HIDE DEF q
  <2> QED
    BY <1>1, <1>2, NotTheFirstOfATile
<1>4. s * q <= a - 1
  BY <1>2, <1>3
<1>5. q <= (a - 1) \div s /\ (a - 1) \div s <= q
  <2>1. (a - 1) \div s <= a \div s
    BY <1>1, QuotientIsMonotone
  <2> QED
    BY <1>1, <1>2, <1>4, <2>1, QuotientIsLargest
<1>6. (a - 1) \div s \in Nat
  BY <1>1, Quotient
<1> QED
  BY <1>2, <1>5, <1>6 DEF s

\* The tile of a position, in half pixels, meets the box of a CCD if the position is one
\* of those where its rows are.
LEMMA NamedIsCut ==
    ASSUME NEW b \in Boxes, b.low % (2 * TileSize) # 0, NEW l \in Nat, NEW i \in Nat
    PROVE  LET size == 2 * TileSize * 2^l
           IN  i * size <= b.low + 2 * b.extent /\ (i + 1) * size >= b.low
                 <=> i \in FirstRow(b) \div SizeAt(l) .. LastRow(b) \div SizeAt(l)
<1> DEFINE s == SizeAt(l)  size == 2 * TileSize * 2^l  f == FirstRow(b)  t == LastRow(b)
           m == s * i  n == s * (i + 1)  r == b.low % 2
<1>1. /\ s \in Nat \ {0} /\ 2^l \in Nat \ {0} /\ TileSize \in Nat \ {0}
      /\ s = TileSize * 2^l /\ size = 2 * s
  <2>1. /\ s \in Nat \ {0} /\ 2^l \in Nat \ {0} /\ TileSize \in Nat \ {0} /\ s = TileSize * 2^l
    BY SizeIsPositive, GeometryAssumption DEF SizeAt
  <2>2. \A x, y \in Nat : 2 * x * y = 2 * (x * y)
    OBVIOUS
  <2> QED
    BY <2>1, <2>2
<1>2. /\ f \in Nat /\ t \in Nat /\ b.low \in Nat /\ b.extent \in Nat /\ f <= t
      /\ b.low = 2 * f + r /\ r \in {0, 1} /\ t = f + b.extent
  BY BoxRows DEF FirstRow, LastRow, Floor
<1>3. i * size = 2 * m /\ (i + 1) * size = 2 * n /\ m \in Nat /\ n \in Nat
  <2> HIDE DEF s, size
  <2> QED
    BY <1>1
<1>4. b.low # 2 * n
  <2>1. (2 * TileSize) * 2^l * (i + 1) = 2 * n
    <3>1. \A x, y, z \in Nat : (2 * x) * y * z = 2 * ((x * y) * z)
      OBVIOUS
    <3> HIDE DEF s, size
    <3> QED
      BY <1>1, <3>1
  <2>2. 2 * TileSize \in Nat \ {0} /\ i + 1 \in Nat
    BY <1>1
  <2>3. b.low # ((2 * TileSize) * 2^l) * (i + 1)
    BY <1>1, <1>2, <2>2, NotTheFirstOfATile
  <2> QED
    BY <2>1, <2>3
<1>5. i <= t \div s <=> m <= t
  <2> HIDE DEF s, t
  <2>1. i \in Int
    OBVIOUS
  <2>2. i <= t \div s <=> s * i <= t
    BY <1>1, <1>2, <2>1, QuotientIsLargest
  <2> QED
    BY <2>2
<1>6. i + 1 <= f \div s <=> n <= f
  <2> HIDE DEF s, f
  <2>1. i + 1 \in Int
    OBVIOUS
  <2> QED
    BY <1>1, <1>2, <2>1, QuotientIsLargest
<1>7. t \div s \in Nat /\ f \div s \in Nat
  <2> HIDE DEF s, f, t
  <2> QED
    BY <1>1, <1>2, Quotient
<1> HIDE DEF s, size, f, t, m, n, r
<1>8. 2 * m <= b.low + 2 * b.extent <=> m <= t
  BY <1>2, <1>3
<1>9. 2 * n >= b.low <=> ~(n <= f)
  BY <1>2, <1>3, <1>4
<1>10. i \in f \div s .. t \div s <=> i <= t \div s /\ ~(i + 1 <= f \div s)
  BY <1>7
<1> QED
  BY <1>3, <1>5, <1>6, <1>8, <1>9, <1>10 DEF s, size, f, t

LEMMA NamedTilesAreCut ==
    ASSUME box \in Boxes, box.low % (2 * TileSize) # 0
    PROVE  NamedTiles = TilesBelow(MaxLevel + 1, FirstRow(box), LastRow(box))
<1> DEFINE f == FirstRow(box)  t == LastRow(box)
<1>1. /\ f \in Nat /\ t \in Nat /\ MaxEdge + MaxExtent \in Nat /\ t <= MaxEdge + MaxExtent
      /\ (MaxLevel + 1) - 1 = MaxLevel
  <2>1. Floor(box.low) <= box.low
    BY BoxRows DEF Floor
  <2> QED
    BY <2>1, BoxRows, GeometryAssumption DEF LastRow, FirstRow
<1> HIDE DEF f, t
<1>2. ASSUME NEW l \in 0 .. MaxLevel, NEW i \in Nat
      PROVE  Named(l, i) <=> i \in (f \div 2^l) \div TileSize .. (t \div 2^l) \div TileSize
  <2>1. l \in Nat
    BY GeometryAssumption
  <2>2. Named(l, i) <=> i \in f \div SizeAt(l) .. t \div SizeAt(l)
    BY <2>1, NamedIsCut DEF Named, f, t
  <2> QED
    BY <1>1, <2>1, <2>2, SizeIsPositive
<1>3. ASSUME NEW l \in 0 .. MaxLevel,
             NEW i \in (f \div 2^l) \div TileSize .. (t \div 2^l) \div TileSize
      PROVE  i \in 0 .. MaxEdge + MaxExtent
  <2>1. l \in Nat
    BY GeometryAssumption
  <2>2. /\ i \in f \div SizeAt(l) .. t \div SizeAt(l) /\ SizeAt(l) \in Nat \ {0}
    BY <1>1, <2>1, SizeIsPositive
  <2>3. f \div SizeAt(l) \in Nat /\ t \div SizeAt(l) \in Nat
    BY <1>1, <2>2, Quotient
  <2>4. i \in Nat /\ i <= t \div SizeAt(l)
    BY <2>2, <2>3
  <2>5. SizeAt(l) * i <= t
    BY <1>1, <2>2, <2>4, QuotientIsLargest
  <2>6. i <= SizeAt(l) * i /\ SizeAt(l) * i \in Nat
    BY <2>2, <2>4
  <2> QED
    BY <1>1, <2>4, <2>5, <2>6
<1>4. ASSUME NEW p \in (0 .. MaxLevel) \X Nat
      PROVE  p \in NamedTiles <=> p \in TilesBelow(MaxLevel + 1, f, t)
  <2>1. p[1] \in 0 .. MaxLevel /\ p[2] \in Nat /\ p = << p[1], p[2] >>
    OBVIOUS
  <2>2. p \in NamedTiles <=> p[2] \in 0 .. MaxEdge + MaxExtent /\ Named(p[1], p[2])
    BY <2>1 DEF NamedTiles
  <2>3. p \in TilesBelow(MaxLevel + 1, f, t)
          <=> p[2] \in (f \div 2^p[1]) \div TileSize .. (t \div 2^p[1]) \div TileSize
    BY <1>1, <2>1 DEF TilesBelow
  <2> QED
    BY <1>2, <1>3, <2>1, <2>2, <2>3
<1>5. /\ NamedTiles \subseteq (0 .. MaxLevel) \X Nat
      /\ TilesBelow(MaxLevel + 1, f, t) \subseteq (0 .. MaxLevel) \X Nat
  BY <1>1 DEF NamedTiles, TilesBelow
<1> QED
  BY <1>4, <1>5 DEF f, t

\* The index of a position in its pack says where it is there.
LEMMA UnpackedIsPosition ==
    ASSUME NEW i \in Nat, NEW j \in Nat
    PROVE  UnpackedPos(Packed(i), Packed(j), Index(i, j)) = << i, j >>
<1> DEFINE w == 2^TilePack  x == i % w  y == j % w
<1>1. w \in Nat \ {0}
  BY PowersOfTwo, GeometryAssumption
<1> HIDE DEF w
<1>2. /\ x \in 0 .. w - 1 /\ i = w * (i \div w) + x /\ i \div w \in Nat
      /\ y \in 0 .. w - 1 /\ j = w * (j \div w) + y /\ j \div w \in Nat
  BY <1>1, Quotient
<1> HIDE DEF x, y
<1>3. (w * x + y) \div w = x /\ (w * x + y) % w = y
  <2>1. x \in Nat
    BY <1>1, <1>2
  <2> QED
    BY <1>1, <1>2, <2>1, QuotientOf
<1>4. \A m, n \in Int : m * n = n * m
  OBVIOUS
<1>5. /\ x * w = w * x /\ (i \div w) * w = w * (i \div w) /\ (j \div w) * w = w * (j \div w)
  BY <1>1, <1>2, <1>4
<1>6. UnpackedPos(Packed(i), Packed(j), Index(i, j))
        = << (i \div w) * w + ((x * w + y) \div w), (j \div w) * w + ((x * w + y) % w) >>
  BY DEF UnpackedPos, Packed, Index, w, x, y
<1> QED
  BY <1>2, <1>3, <1>5, <1>6
-----------------------------------------------------------------------------
(* The inductive invariant of the positions of tiles.                      *)

\* What iterate_tiles and _iterate_pos have at a level are the rows of the box there, and
\* what is left to cut are those rows; behind them are the tiles of the levels before.
GeometryIInv ==
    /\ box \in Boxes \union {NoBox} /\ level \in 0 .. MaxLevel + 1
    /\ box = NoBox =>
          /\ level = 0 /\ y1 = 0 /\ y2 = 0 /\ z1 = 0 /\ z2 = 0
          /\ data = << >> /\ savedTiles = << >>
    /\ box # NoBox =>
          /\ y1 = FirstRow(box) \div 2^level /\ y2 = LastRow(box) \div 2^level + 1
          /\ z1 = y1 /\ z2 = (LastRow(box) - 1) \div 2^level + 1
          /\ level <= MaxLevel => Holds(data, RowsOf(box, level), y1, y2)
          /\ DOMAIN savedTiles = TilesBelow(level, FirstRow(box), LastRow(box))
          /\ \A p \in TilesBelow(level, FirstRow(box), LastRow(box) - 1) :
                << p[1], Packed(p[2]) >> \in sent
          /\ \A p \in DOMAIN savedTiles : \A k \in 0 .. TileSize - 1 :
                savedTiles[p][k] = RowsAt(box, p[1], p[2] * TileSize + k)

LEMMA GeometryStarts == GeometryInit => GeometryIInv
<1> SUFFICES ASSUME GeometryInit PROVE GeometryIInv
  OBVIOUS
<1>1. 0 \in 0 .. MaxLevel + 1
  BY GeometryAssumption
<1> QED
  BY <1>1 DEF GeometryInit, GeometryIInv

LEMMA RowOfLevelZero ==
    ASSUME NEW b \in Boxes, NEW m \in Int
    PROVE  RowsAt(b, 0, m) = Rows(b) \intersect {m}
<1>1. \A y \in Rows(b) : y \in Nat /\ y \div 1 = y
  BY BoxRows
<1> QED
  BY <1>1, NoPower DEF RowsAt

LEMMA AssembledIsWhole ==
    ASSUME GeometryIInv, NEW b \in Boxes, Assemble(b)
    PROVE  GeometryIInv'
<1> DEFINE f == FirstRow(b)  t == LastRow(b)
<1>1. /\ f \in Nat /\ t \in Nat /\ t - 1 \in Nat /\ f <= t /\ b # NoBox
      /\ Rows(b) = f .. t /\ t = f + b.extent /\ b.extent \in Nat /\ f = Floor(b.low)
  BY BoxRows DEF FirstRow, LastRow
<1>2. /\ level = 0 /\ savedTiles = << >> /\ box' = b /\ level' = 0 /\ savedTiles' = << >>
      /\ y1' = f /\ y2' = t + 1 /\ z1' = f /\ z2' = t
      /\ data' = [k \in 1 .. (b.extent + 1) |-> {Floor(b.low) + k - 1}]
  BY <1>1 DEF Assemble, GeometryIInv
<1> HIDE DEF f, t
<1>3. /\ f \div 2^0 = f /\ t \div 2^0 = t /\ (t - 1) \div 2^0 = t - 1
  BY <1>1, NoPower
<1>4. Holds(data', RowsOf(b, 0), f, t + 1)
  <2>1. (t + 1) - f = b.extent + 1 /\ b.extent + 1 \in Nat
    BY <1>1
  <2>2. data' = [k \in 1 .. (t + 1) - f |-> {f + k - 1}]
    BY <1>1, <1>2, <2>1
  <2>3. ASSUME NEW k \in 1 .. (t + 1) - f
        PROVE  /\ {f + k - 1} \in RowSets /\ data'[k] = {f + k - 1}
               /\ RowsOf(b, 0)[f + k - 1] = {f + k - 1}
    <3> DEFINE m == f + k - 1
    <3>0. f \in Nat /\ t \in Nat
      BY <1>1
    <3>1. m \in Nat /\ m \in f .. t
      BY ONLY <3>0, k \in 1 .. (t + 1) - f
    <3>2. data'[k] = {m}
      BY <2>2
    <3> HIDE DEF m
    <3>3. RowsAt(b, 0, m) = Rows(b) \intersect {m}
      BY <3>1, RowOfLevelZero
    <3>4. RowsAt(b, 0, m) = {m}
      BY <1>1, <3>1, <3>3
    <3>5. {m} \in RowSets
      BY <3>1 DEF RowSets
    <3>6. RowsOf(b, 0)[m] = {m}
      BY <3>1, <3>4 DEF RowsOf
    <3> QED
      BY <3>2, <3>5, <3>6 DEF m
  <2>4. data' \in [1 .. (t + 1) - f -> RowSets]
    BY <2>2, <2>3
  <2>5. data' \in Seq(RowSets) /\ Len(data') = (t + 1) - f
    BY <2>1, <2>4, SequenceOfFunction
  <2> QED
    BY <2>3, <2>5 DEF Holds
<1>5. TilesBelow(0, f, t) = {} /\ TilesBelow(0, f, t - 1) = {} /\ DOMAIN << >> = {}
  <2>1. 0 .. 0 - 1 = {}
    OBVIOUS
  <2> QED
    BY <2>1 DEF TilesBelow
<1>6. box' \in Boxes \union {NoBox} /\ level' \in 0 .. MaxLevel + 1
  BY <1>2, GeometryAssumption
<1>7. /\ y1' = f \div 2^(level') /\ y2' = t \div 2^(level') + 1
      /\ z1' = y1' /\ z2' = (t - 1) \div 2^(level') + 1
  BY <1>1, <1>2, <1>3
<1>8. DOMAIN savedTiles' = {}
  BY <1>2, <1>5
<1> QED
  BY <1>1, <1>2, <1>4, <1>5, <1>6, <1>7, <1>8 DEF GeometryIInv, f, t

LEMMA CutIsWhole ==
    ASSUME GeometryIInv, Cut
    PROVE  GeometryIInv'
<1> DEFINE f == FirstRow(box)  t == LastRow(box)  w == 2^level
<1>1. /\ box \in Boxes /\ box # NoBox /\ level \in Nat /\ level <= MaxLevel
      /\ box' = box /\ level' = level + 1 /\ level' \in 0 .. MaxLevel + 1
  BY GeometryAssumption DEF Cut, GeometryIInv
<1>2. /\ f \in Nat /\ t \in Nat /\ t - 1 \in Nat /\ f <= t
  BY <1>1, BoxRows
<1>3. /\ y1 = f \div w /\ y2 = t \div w + 1 /\ z1 = y1 /\ z2 = (t - 1) \div w + 1
      /\ Holds(data, RowsOf(box, level), y1, y2)
      /\ DOMAIN savedTiles = TilesBelow(level, f, t)
  BY <1>1 DEF GeometryIInv
<1>4. w \in Nat \ {0}
  BY <1>1, PowersOfTwo
<1>5. f \div w \in Nat /\ t \div w \in Nat /\ (t - 1) \div w \in Nat
  <2> HIDE DEF f, t, w
  <2> QED
    BY <1>2, <1>4, Quotient
<1>6. /\ f \div 2^(level + 1) = (f \div w) \div 2 /\ t \div 2^(level + 1) = (t \div w) \div 2
      /\ (t - 1) \div 2^(level + 1) = ((t - 1) \div w) \div 2
  <2> HIDE DEF f, t
  <2> QED
    BY <1>1, <1>2, NextLevel
<1>7. /\ y1' = y1 \div 2 /\ y2' = (y2 + 1) \div 2 /\ z1' = z1 \div 2 /\ z2' = (z2 + 1) \div 2
      /\ level = MaxLevel => data' = << >>
      /\ level # MaxLevel => data' = Shrink(data, y1 % 2, y2 % 2)
  BY DEF Cut
<1>8. /\ y1' = f \div 2^(level + 1) /\ y2' = t \div 2^(level + 1) + 1
      /\ z1' = y1' /\ z2' = (t - 1) \div 2^(level + 1) + 1
  <2> HIDE DEF f, t, w
  <2>1. \A x \in Nat : ((x + 1) + 1) \div 2 = x \div 2 + 1
    OBVIOUS
  <2> QED
    BY <1>3, <1>5, <1>6, <1>7, <2>1
<1>9. level + 1 <= MaxLevel => Holds(data', RowsOf(box, level + 1), y1', y2')
  <2> SUFFICES ASSUME level + 1 <= MaxLevel
               PROVE  Holds(data', RowsOf(box, level + 1), y1', y2')
    OBVIOUS
  <2>1. level # MaxLevel
    BY <1>1, GeometryAssumption
  <2>2. y1 \in Nat /\ y2 \in Nat
    BY <1>3, <1>5
  <2>3. Holds(Shrink(data, y1 % 2, y2 % 2), RowsOf(box, level + 1), y1 \div 2, (y2 + 1) \div 2)
    BY <1>1, <1>3, <2>2, ShrinkIsNextLevel
  <2> QED
    BY <1>7, <2>1, <2>3
<1> DEFINE here == {level} \X ((f \div w) \div TileSize .. (t \div w) \div TileSize)
           there == {level} \X ((f \div w) \div TileSize .. ((t - 1) \div w) \div TileSize)
<1>10. /\ TilesBelow(level + 1, f, t) = TilesBelow(level, f, t) \union here
       /\ TilesBelow(level + 1, f, t - 1) = TilesBelow(level, f, t - 1) \union there
  <2> HIDE DEF f, t
  <2> QED
    BY <1>1, <1>2, TilesOfNextLevel
<1>11. {level} \X TileRows(y1, y2) = here /\ {level} \X TileRows(z1, z2) = there
  <2> HIDE DEF f, t, w
  <2>1. (t \div w + 1) - 1 = t \div w /\ ((t - 1) \div w + 1) - 1 = (t - 1) \div w
    BY <1>5
  <2> QED
    BY <1>3, <2>1 DEF TileRows
<1>12. /\ savedTiles' = [p \in DOMAIN savedTiles \union here |->
                            IF p \in here THEN Slice(y1, p[2]) ELSE savedTiles[p]]
       /\ sent' = sent \union ({level} \X {Packed(i) : i \in TileRows(z1, z2)})
  <2> HIDE DEF here
  <2> QED
    BY <1>11 DEF Cut
<1> HIDE DEF f, t, w
<1>13. DOMAIN savedTiles' = TilesBelow(level + 1, f, t)
  <2> HIDE DEF here
  <2> QED
    BY <1>3, <1>10, <1>12
<1>14. \A p \in TilesBelow(level + 1, f, t - 1) : << p[1], Packed(p[2]) >> \in sent'
  <2>1. \A p \in TilesBelow(level, f, t - 1) : << p[1], Packed(p[2]) >> \in sent
    BY <1>1 DEF GeometryIInv, f, t
  <2>2. ASSUME NEW p \in there PROVE << p[1], Packed(p[2]) >> \in sent'
    <3>1. p \in {level} \X TileRows(z1, z2)
      BY <1>11
    <3> HIDE DEF there
    <3>2. p[1] = level /\ p[2] \in TileRows(z1, z2)
      BY <3>1
    <3> QED
      BY <1>12, <3>2
  <2> HIDE DEF there
  <2> QED
    BY <1>10, <1>12, <2>1, <2>2
<1>15. ASSUME NEW p \in TilesBelow(level + 1, f, t), NEW k \in 0 .. TileSize - 1
       PROVE  savedTiles'[p][k] = RowsAt(box, p[1], p[2] * TileSize + k)
  <2>1. CASE p \in here
    <3>1. p[1] = level /\ p[2] \in Nat
      <4>1. (f \div w) \div TileSize \in Nat
        BY <1>5, Quotient, GeometryAssumption
      <4> QED
        BY <2>1, <4>1
    <3>2. savedTiles'[p] = Slice(y1, p[2])
      <4> HIDE DEF here
      <4> QED
        BY <1>12, <2>1
    <3>3. y1 \in Nat /\ y2 \in Nat
      BY <1>3, <1>5
    <3>4. Slice(y1, p[2])[k] = RowsAt(box, level, p[2] * TileSize + k)
      BY <1>1, <1>3, <3>1, <3>3, SliceIsRows DEF f, t, w
    <3> QED
      BY <3>1, <3>2, <3>4
  <2>2. CASE p \notin here
    <3> HIDE DEF here
    <3>1. p \in DOMAIN savedTiles /\ savedTiles'[p] = savedTiles[p]
      BY <1>3, <1>10, <1>12, <2>2
    <3> QED
      BY <1>1, <3>1 DEF GeometryIInv
  <2> QED
    BY <2>1, <2>2
<1>16. FirstRow(box') = f /\ LastRow(box') = t
  BY <1>1 DEF f, t
<1> QED
  BY <1>1, <1>8, <1>9, <1>13, <1>14, <1>15, <1>16 DEF GeometryIInv

LEMMA GeometryInvHolds ==
    ASSUME GeometryIInv
    PROVE  GeometryInv
<1>1. CASE box = NoBox
  <2>1. /\ level = 0 /\ y1 = 0 /\ y2 = 0 /\ z1 = 0 /\ z2 = 0 /\ data = << >>
        /\ savedTiles = << >> /\ box \in Boxes \union {NoBox} /\ level \in 0 .. MaxLevel + 1
    BY <1>1 DEF GeometryIInv
  <2>2. ~(level > MaxLevel)
    BY <2>1, GeometryAssumption
  <2>3. GeometryTypeOK
    BY <2>1 DEF GeometryTypeOK
  <2>4. TileIsMean
    BY <2>1 DEF TileIsMean
  <2> QED
    BY <2>2, <2>3, <2>4 DEF GeometryInv, NamedHasTile, TileIsSent
<1>2. CASE box # NoBox
  <2> DEFINE f == FirstRow(box)  t == LastRow(box)
  <2>1. /\ box \in Boxes /\ level \in 0 .. MaxLevel + 1 /\ level \in Nat
        /\ y1 = f \div 2^level /\ y2 = t \div 2^level + 1
        /\ z1 = y1 /\ z2 = (t - 1) \div 2^level + 1
        /\ level <= MaxLevel => Holds(data, RowsOf(box, level), y1, y2)
        /\ DOMAIN savedTiles = TilesBelow(level, f, t)
    BY <1>2, GeometryAssumption DEF GeometryIInv
  <2>2. /\ f \in Nat /\ t \in Nat /\ t - 1 \in Nat /\ t = Floor(box.low) + box.extent
    BY <2>1, BoxRows DEF LastRow
  <2> HIDE DEF f, t
  <2>3. GeometryTypeOK
    <3>1. 2^level \in Nat \ {0}
      BY <2>1, PowersOfTwo
    <3>2. f \div 2^level \in Nat /\ t \div 2^level \in Nat /\ (t - 1) \div 2^level \in Nat
      BY <2>2, <3>1, Quotient
    <3>3. {y1, y2, z1, z2} \subseteq Nat
      BY <2>1, <3>2
    <3> QED
      BY <2>1, <3>3 DEF GeometryTypeOK, Holds
  <2>4. TileIsMean
    BY <1>2 DEF GeometryIInv, TileIsMean, RowsAt
  <2>5. NamedHasTile
    <3> SUFFICES ASSUME level > MaxLevel, box.low % (2 * TileSize) # 0
                 PROVE  DOMAIN savedTiles = NamedTiles
      BY DEF NamedHasTile
    <3>1. level = MaxLevel + 1
      BY <2>1, GeometryAssumption
    <3> QED
      BY <2>1, <3>1, NamedTilesAreCut DEF f, t
  <2>6. TileIsSent
    <3> SUFFICES ASSUME level > MaxLevel, (Floor(box.low) + box.extent) % TileSize # 0,
                        NEW p \in DOMAIN savedTiles, NEW q \in DOMAIN savedTiles
                 PROVE  /\ << p[1], Packed(p[2]) >> \in sent
                        /\ UnpackedPos(Packed(p[2]), Packed(q[2]), Index(p[2], q[2]))
                             = << p[2], q[2] >>
      BY DEF TileIsSent
    <3>1. /\ p[1] \in 0 .. level - 1 /\ p[2] \in Nat /\ q[2] \in Nat
          /\ p \in (0 .. level - 1) \X Nat
          /\ p[2] \in (f \div 2^p[1]) \div TileSize .. (t \div 2^p[1]) \div TileSize
      BY <2>1 DEF TilesBelow
    <3>2. p[1] \in Nat
      BY <2>1, <3>1
    <3>3. ((t - 1) \div 2^p[1]) \div TileSize = (t \div 2^p[1]) \div TileSize
      <4>1. (t - 1) \div SizeAt(p[1]) = t \div SizeAt(p[1])
        BY <2>2, <3>2, LastRowIsInATile
      <4> QED
        BY <2>2, <3>2, <4>1, SizeIsPositive
    <3>4. p \in TilesBelow(level, f, t - 1)
      BY <3>1, <3>3 DEF TilesBelow
    <3>5. << p[1], Packed(p[2]) >> \in sent
      BY <1>2, <3>4 DEF GeometryIInv, f, t
    <3> QED
      BY <3>1, <3>5, UnpackedIsPosition
  <2> QED
    BY <2>3, <2>4, <2>5, <2>6 DEF GeometryInv
<1> QED
  BY <1>1, <1>2

\* For tiles and packs of any size, any number of levels and every place of a CCD: each
\* pixel of a tile is the mean of the rows at its place, TileInfo names the CCD where it
\* has a tile, and every tile is in a pack that is sent, at its index there
\* (iterate_tiles, shrink_image, TileInfo, PackedTilePos).
THEOREM TilesAreInTheirPlaces == GeometrySpec => []GeometryInv
<1>1. GeometryIInv /\ [GeometryNext]_geometryVars => GeometryIInv'
  <2> SUFFICES ASSUME GeometryIInv, [GeometryNext]_geometryVars PROVE GeometryIInv'
    OBVIOUS
  <2>1. CASE Cut
    BY <2>1, CutIsWhole
  <2>2. ASSUME NEW b \in Boxes, Assemble(b) PROVE GeometryIInv'
    BY <2>2, AssembledIsWhole
  <2>3. CASE UNCHANGED geometryVars
    BY <2>3 DEF geometryVars, GeometryIInv
  <2> QED
    BY <2>1, <2>2, <2>3 DEF GeometryNext
<1> QED
  BY <1>1, GeometryStarts, GeometryInvHolds, PTL DEF GeometrySpec
=============================================================================
