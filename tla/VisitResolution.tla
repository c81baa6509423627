-------------------------- MODULE VisitResolution --------------------------
(***************************************************************************)
(* From a dataset UUID to a visit, and from a visit to its datasets        *)
(* (ButlerDataSource.resolve_visit, list_ccds, get_data, get_metadata).    *)
(*                                                                         *)
(* A process that resolved a UUID remembers the run of the visit; every    *)
(* process of the coordinator, of the generators and of the frontend has a *)
(* memory of its own, and only the frontend resolves UUIDs: the others get *)
(* the names of visits.  The registry of the Butler is external.           *)
(***************************************************************************)
EXTENDS Naturals, Sequences, FiniteSets, SequencesExt

CONSTANTS
    Resolvers,    \* processes that resolve UUIDs
    NameReaders,  \* processes that do not
    ButlerVisits, ButlerRuns, Detectors,
    Differences,  \* the visits whose quicklook is of difference images
    MemoryCapacity, \* of the lru_cache and of _resolved_visit_runs
    MaxDatasets   \* bound

ASSUME ResolutionAssumption == MemoryCapacity \in Nat

VARIABLES
    datasets,     \* in the repository
    resolved,     \* the lru_cache of UUIDs of each process, the oldest first
    remembered,   \* _resolved_visit_runs of each process, the oldest first
    opened,       \* the visits whose UUIDs a process has resolved so far
    listed,       \* what the coordinator listed last: pairs of a visit name and a CCD
    answered      \* the last one

memory == <<resolved, remembered, opened>>
resolutionVars == <<datasets, memory, listed, answered>>

Processes == Resolvers \union NameReaders
Datasets == [visit : ButlerVisits, run : ButlerRuns, detector : Detectors]   \* a UUID each
RunNames == [visit : ButlerVisits, run : ButlerRuns]                         \* VisitName
NameOf(d) == [visit |-> d.visit, run |-> d.run]
NoAnswer == [ok |-> FALSE]

ResolutionInit ==
    /\ datasets = {}
    /\ resolved = [p \in Processes |-> <<>>]
    /\ remembered = [p \in Processes |-> <<>>]
    /\ opened = [p \in Processes |-> {}]
    /\ listed = {}
    /\ answered = NoAnswer

Ingest(d) ==
    /\ d \notin datasets /\ Cardinality(datasets) < MaxDatasets
    /\ datasets' = datasets \union {d}
    /\ answered' = NoAnswer
    /\ UNCHANGED <<memory, listed>>

-----------------------------------------------------------------------------
(* The memory of a process.                                                *)

\* A cache with one entry more loses the oldest one when it is full.
NoMore(s) == IF Len(s) <= MemoryCapacity THEN s ELSE Tail(s)
\* lru_cache: what is used becomes the newest entry.
Use(s, d) ==
    IF \E i \in DOMAIN s : s[i] = d
    THEN Append(RemoveAt(s, CHOOSE i \in DOMAIN s : s[i] = d), d)
    ELSE NoMore(Append(s, d))

RememberAlways(s, n) == Append(IF Len(s) >= MemoryCapacity THEN Tail(s) ELSE s, n)
\* _remember_resolved_visit_run: first in, first out.
Remember(s, n) == IF n \in Range(s) THEN s ELSE NoMore(Append(s, n))

\* _resolve_visit_cache; a hit does not touch the run that is remembered.
Resolve(p, d) ==
    /\ d \in datasets
    /\ resolved' = [resolved EXCEPT ![p] = Use(@, d)]
    /\ remembered' = [remembered EXCEPT ![p] =
           IF d \in Range(resolved[p]) THEN @ ELSE Remember(@, NameOf(d))]
    /\ opened' = [opened EXCEPT ![p] = @ \union {NameOf(d)}]
    /\ answered' = NoAnswer
    /\ UNCHANGED <<datasets, listed>>

-----------------------------------------------------------------------------
(* The datasets of a visit.                                                *)

\* _query_collections: the collection of the name is not used for difference images.
QueryCollections(p, n) ==
    IF n \in Range(remembered[p]) \/ n.visit \notin Differences THEN {n.run} ELSE ButlerRuns

QueryDatasets(p, n) ==
    {d \in datasets : d.visit = n.visit /\ d.run \in QueryCollections(p, n)}

\* Only the runs of what is given are told apart, not what it is.
Answer(p, n, refs, ok) ==
    answered' = [process |-> p, name |-> n, ok |-> ok, runs |-> {d.run : d \in refs}]

\* create_quicklook() of the coordinator takes the CCDs of a job from it.
ListCcds(p, n) ==
    LET refs == QueryDatasets(p, n)
    IN  /\ Answer(p, n, refs, TRUE)
        /\ listed' = IF p \in NameReaders THEN {<<n, d.detector>> : d \in refs} ELSE listed
        /\ UNCHANGED <<datasets, memory>>

\* _refs_by_visit raises when any detector of the visit is there twice.
GetData(p, n, c) ==
    LET refs == QueryDatasets(p, n)
        mine == {d \in refs : d.detector = c}
        once == \A d, e \in refs : d.detector = e.detector => d = e
    IN  /\ Answer(p, n, mine, once /\ mine # {})
        /\ UNCHANGED <<datasets, memory, listed>>

GetMetadata(p, n, c) ==
    LET mine == {d \in QueryDatasets(p, n) : d.detector = c}
    IN  /\ Answer(p, n, mine, Cardinality(mine) = 1)
        /\ UNCHANGED <<datasets, memory, listed>>

\* get_visit_representative_uuid: any of them.
RepresentativeUuid(p, n) ==
    /\ \/ \E d \in QueryDatasets(p, n) : Answer(p, n, {d}, TRUE)
       \/ QueryDatasets(p, n) = {} /\ Answer(p, n, {}, FALSE)
    /\ UNCHANGED <<datasets, memory, listed>>

\* Questions change nothing that a later answer depends on: one question is asked between
\* two changes.
Question(p, n) ==
    /\ answered = NoAnswer
    /\ \/ ListCcds(p, n) \/ RepresentativeUuid(p, n)
       \/ \E c \in Detectors : GetData(p, n, c) \/ GetMetadata(p, n, c)

ResolutionNext ==
    \/ \E d \in Datasets : Ingest(d)
    \/ \E p \in Resolvers, d \in Datasets : Resolve(p, d)
    \/ \E p \in Processes, n \in RunNames : Question(p, n)

ResolutionSpec == ResolutionInit /\ [][ResolutionNext]_resolutionVars

-----------------------------------------------------------------------------
(* Properties.                                                             *)

\* The state has its types, and no memory is larger than its capacity.
ResolutionTypeOK ==
    /\ datasets \subseteq Datasets
    /\ resolved \in [Processes -> Seq(Datasets)]
    /\ remembered \in [Processes -> Seq(RunNames)]
    /\ opened \in [Processes -> SUBSET RunNames]
    /\ listed \subseteq RunNames \X Detectors
    /\ \A p \in Processes :
          Len(resolved[p]) <= MemoryCapacity /\ Len(remembered[p]) <= MemoryCapacity

\* Nobody is given datasets of another run than the visit's: for difference images only in
\* the process that resolved a UUID of the visit, and until it has resolved more visits
\* than its memory holds (_query_collections, _resolved_visit_runs).
ServedIsOfRun ==
    answered.ok =>
        LET safe == \/ answered.name.visit \notin Differences
                    \/ /\ answered.name \in opened[answered.process]
                       /\ Cardinality(opened[answered.process]) <= MemoryCapacity
        IN  safe => answered.runs \subseteq {answered.name.run}

\* A CCD that the coordinator listed can be read by a generator later, whatever was ingested
\* meanwhile, unless the quicklook is of difference images: there a second run with the
\* visit makes every read raise (_refs_by_visit).
ListedIsRead ==
    \A p \in NameReaders : \A l \in listed :
        l[1].visit \notin Differences =>
            LET refs == QueryDatasets(p, l[1])
            IN  /\ \E d \in refs : d.detector = l[2]
                /\ \A d, e \in refs : d.detector = e.detector => d = e

\* What the module promises: its types, ServedIsOfRun and ListedIsRead.
ResolutionInv == ResolutionTypeOK /\ ServedIsOfRun /\ ListedIsRead
=============================================================================
