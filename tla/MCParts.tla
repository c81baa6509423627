------------------------------ MODULE MCParts ------------------------------
(* Parts of the system that do not act on each other's state, model-checked in  *)
(* one run: a behaviour is a behaviour of one part, which its initial state     *)
(* chooses and no step changes.  The parts that are proved about                *)
(* (CcdSessionProofs, ServicesProofs, TileStoreProofs) have their own variables *)
(* and the invariants of their modules.  The part that is not, VisitNames, uses *)
(* v1 and v2; NamesInv says of its states what the properties of its module say. *)
EXTENDS CcdSession, CcdPipeline, CcdProgress, Housekeeping, JobVotes, CacheVersions,
        BrokerTokens, DeployBroker, VisitResolution, DownloadTimeout, TileGeometry, QueryOptions,
        DirtyWorktree, VisitQueries

VARIABLES part, v1, v2

-----------------------------------------------------------------------------
\* Two runs and three exposures, two of them in the last night of a year; the texts
\* a viewer asks for have each precedence of "and", "or" and the parentheses.
Is(f, o, v) == [kind |-> "predicate", field |-> f, op |-> o, value |-> v]
Said(k) == [kind |-> k, field |-> "none", op |-> "none", value |-> 0]
EitherOr == <<Is("exposure", "<", 2), Said("or"),
              Is("exposure", ">=", 2), Said("and"), Is("day_obs", "=", 20260101)>>
QueryTexts ==
    { <<>>, EitherOr,
      <<Said("("), Is("exposure", "<", 2), Said("or"), Is("exposure", ">=", 3), Said(")"),
        Said("and"), Is("day_obs", ">", 20251231)>> }

Collected == <<"r1", "r2">>
Nights == <<20251231, 20251231, 20260101>>

Paged(q) ==
    /\ q.order = "exposure" /\ q.collection \in {AllCollections, "r1"}
    /\ q.type = "difference_image" => q.collection = "r1" /\ q.where = <<>>
    /\ q.reverse = q.postgres /\ q.where \in {<<>>, EitherOr}

\* A thread in each of two processes.
BrokerProcess(t) == IF t = "t2" THEN "p2" ELSE "p1"

\* A file, and another one two directories deep.
PathsAbove == [p \in 1..4 |-> IF p = 4 THEN {2, 3} ELSE IF p = 3 THEN {2} ELSE {}]
FirstCommit == [p \in 1..4 |-> IF p \in {1, 4} THEN p ELSE 0]

Names == INSTANCE VisitNames WITH
        text <- v1, pairs <- v2,
        Keys <- {1, 2}, Values <- {3, 4}, MaxLength <- 5, MaxPairs <- 2

-----------------------------------------------------------------------------
\* Where the broker is while another part is looked at.
DeployRests ==
    /\ commit = [r \in Requests |-> branch] /\ bundled = [r \in Requests |-> FALSE]
    /\ runs[1].state = "success"

PartsInit ==
    /\ Init /\ PipelineInit /\ ProgressInit /\ UsageInit /\ VotesInit /\ VersionsInit
    /\ TokensInit /\ DeployInit /\ ResolutionInit /\ DownloadsInit /\ GeometryInit /\ OptionsInit
    /\ WorktreeInit /\ QueriesInit
    /\ \/ part \in {"session", "pipeline", "progress", "usage", "votes", "versions",
                     "tokens", "deploy", "resolution", "downloads", "geometry", "options",
                     "worktree", "queries"}
          /\ v1 = 0 /\ v2 = 0
       \/ part = "names" /\ Names!Init
    /\ part # "deploy" => DeployRests

\* What a part does not touch: the others of those with variables of their own.
OthersRest(p) ==
    /\ p # "session" => UNCHANGED vars
    /\ p # "pipeline" => UNCHANGED pipeVars
    /\ p # "progress" => UNCHANGED progressVars
    /\ p # "usage" => UNCHANGED usageVars
    /\ p # "votes" => UNCHANGED votesVars
    /\ p # "versions" => UNCHANGED versionsVars
    /\ p # "tokens" => UNCHANGED tokensVars
    /\ p # "deploy" => UNCHANGED deployVars
    /\ p # "resolution" => UNCHANGED resolutionVars
    /\ p # "downloads" => UNCHANGED downloadsVars
    /\ p # "geometry" => UNCHANGED geometryVars
    /\ p # "options" => UNCHANGED optionsVars
    /\ p # "worktree" => UNCHANGED worktreeVars
    /\ p # "queries" => UNCHANGED queriesVars

PartsNext ==
    /\ part' = part /\ OthersRest(part)
    /\ \/ /\ UNCHANGED <<v1, v2>>
          /\ \/ part = "session" /\ Next
             \/ part = "pipeline" /\ PipelineNext
             \/ part = "progress" /\ ProgressNext
             \/ part = "usage" /\ UsageNext
             \/ part = "votes" /\ VotesNext
             \/ part = "versions" /\ VersionsNext
             \/ part = "tokens" /\ TokensNext
             \/ part = "deploy" /\ DeployNext
             \/ part = "resolution" /\ ResolutionNext
             \/ part = "downloads" /\ DownloadsNext
             \/ part = "geometry" /\ GeometryNext
             \/ part = "options" /\ OptionsNext
             \/ part = "worktree" /\ WorktreeNext
             \/ part = "queries" /\ QueriesNext
       \/ part = "names" /\ Names!Next

partsVars == <<vars, pipeVars, progressVars, usageVars, votesVars, versionsVars, tokensVars,
               deployVars, resolutionVars, downloadsVars, geometryVars, optionsVars, worktreeVars,
               queriesVars, part, v1, v2>>

PartsSpec == PartsInit /\ [][PartsNext]_partsVars

-----------------------------------------------------------------------------
(* Properties: those of the modules, each with its comment there, and of        *)
(* VisitNames:                                                                  *)

\* The name made from a cache key has the same cache key, so that housekeeping
\* deletes the objects of the row (delete_one_quicklook). Any collection and
\* dimensions can be read back from the name the data source makes of them. The
\* backend and the TypeScript of the viewer build, accept, read and show the same
\* names.
NamesInv ==
    part = "names" =>
        /\ Names!TypeOK
        /\ Names!RowFindsItsObjects
        /\ Names!NameIsUnambiguous
        /\ Names!FrontendAgrees
=============================================================================
