---------------------------- MODULE QueryOptions ----------------------------
(***************************************************************************)
(* The options of the query form (get_query_builder_options): whether a    *)
(* collection and a dataset type are there, and suggestions of both.  Each *)
(* thread of the coordinator keeps its answers in lru_caches for good,     *)
(* while collections and dataset types are registered and the registry     *)
(* fails now and then.                                                     *)
(*                                                                         *)
(* Names are numbers in the order the database sorts them, and a list of   *)
(* suggestions, which is in that order, is the set of them.  The caches    *)
(* are not filled up (128 and 256 entries).  A search matches every name   *)
(* or, when it is a name, only that one.                                   *)
(***************************************************************************)
EXTENDS Naturals, FiniteSets

CONSTANTS
    Threads,
    Collections, FirstCollections,   \* names, and those that are there from the start
    Types, FirstTypes,
    Supported,         \* dataset types with a dimension to quicklook
    SuggestionLimit,   \* _QUERY_BUILDER_SUGGESTION_LIMIT
    MaxQuestions,      \* bound
    MaxOutages         \* bound

NoName == 0         \* in the request

ASSUME OptionsAssumption ==
    /\ IsFiniteSet(Collections) /\ FirstCollections \subseteq Collections
    /\ IsFiniteSet(Types) /\ FirstTypes \subseteq Types
    /\ (Collections \union Types) \subseteq Nat \ {NoName}
    /\ SuggestionLimit \in Nat \ {0}

VARIABLES
    collections, types,     \* in the registry
    postgres,               \* the class of the datasource: "unmade", "yes" or "no"
    doing, selection,       \* of each thread
    loop,                   \* of _filter_query_builder_dataset_types
    caches,                 \* of each thread
    options,                \* what each thread answers
    questions, outages

registered == <<collections, types>>
work == <<doing, selection, loop, caches, options>>
optionsVars == <<registered, postgres, work, questions, outages>>

NoLoop == [offset |-> 0, found |-> {}, seen |-> {}, from |-> {}]
NoOptions == [exact |-> FALSE, collections |-> {}, types |-> {}, cut |-> FALSE]
Nothing == [collection |-> [c \in Collections |-> "?"], type |-> [n \in Types |-> "?"],
            supports |-> [n \in Types |-> "?"],
            collections |-> [s \in Collections \union {NoName} |-> {}],
            types |-> [s \in Types \union {NoName} |-> {}]]       \* of at most one result

Matching(S, search) == IF search = NoName THEN S ELSE S \intersect {search}
\* How many names are sorted before x, and the first n of the names.
Before(S, x) == Cardinality({y \in S : y < x})
Leading(S, n) == {x \in S : Before(S, x) < n}
\* _limit_query_builder_suggestions
Limited(S, from) == [values |-> Leading(S, SuggestionLimit),
                     truncated |-> Cardinality(S) > SuggestionLimit, from |-> from]

OptionsInit ==
    /\ collections = FirstCollections /\ types = FirstTypes
    /\ postgres = "unmade"
    /\ doing = [t \in Threads |-> "idle"]
    /\ selection = [t \in Threads |-> <<NoName, NoName>>]
    /\ loop = [t \in Threads |-> NoLoop]
    /\ caches = [t \in Threads |-> Nothing]
    /\ options = [t \in Threads |-> NoOptions]
    /\ questions = 0 /\ outages = 0

\* make_butler_datasource, once in a process; a repository whose registry cannot be
\* looked into is taken for one without Postgres.
MakeDatasource ==
    /\ postgres = "unmade"
    /\ postgres' \in {"yes", "no"}
    /\ UNCHANGED <<registered, work, questions, outages>>

RegisterCollection(c) ==
    /\ c \notin collections
    /\ collections' = collections \union {c}
    /\ UNCHANGED <<types, postgres, work, questions, outages>>

RegisterType(n) ==
    /\ n \notin types
    /\ types' = types \union {n}
    /\ UNCHANGED <<collections, postgres, work, questions, outages>>

GoTo(t, l) == doing' = [doing EXCEPT ![t] = l]
Learn(t, field, value) == caches' = [caches EXCEPT ![t][field] = value]
YesNo(b) == IF b THEN "yes" ELSE "no"

\* A name is text that the user types: the path of the exact selection needs both names.
AskOptions(t, c, n) ==
    /\ doing[t] = "idle" /\ postgres # "unmade" /\ questions < MaxQuestions
    /\ questions' = questions + 1
    /\ selection' = [selection EXCEPT ![t] = <<c, n>>]
    /\ options' = [options EXCEPT ![t] = NoOptions]
    /\ GoTo(t, IF c # NoName /\ n # NoName THEN "collection" ELSE "collections")
    /\ UNCHANGED <<registered, postgres, loop, caches, outages>>

\* _run_query_builder_fallback, around the caches: the default is returned and not kept.
Fallback(t) ==
    /\ outages < MaxOutages /\ outages' = outages + 1
    /\ UNCHANGED caches

\* _collection_exists_for_repository, in the exact path or for the examples.
CollectionExists(t) ==
    LET c == selection[t][1]
        Then(yes) == GoTo(t, IF doing[t] = "again" THEN "types"
                             ELSE IF yes THEN "type" ELSE "collections")
    IN  /\ doing[t] \in {"collection", "again"} /\ c # NoName
        /\ \/ /\ caches[t].collection[c] # "?"
              /\ Then(caches[t].collection[c] = "yes")
              /\ UNCHANGED <<caches, outages>>
           \/ /\ caches[t].collection[c] = "?"
              /\ Learn(t, "collection",
                       [caches[t].collection EXCEPT ![c] = YesNo(c \in collections)])
              /\ Then(c \in collections)
              /\ UNCHANGED outages
           \/ caches[t].collection[c] = "?" /\ Fallback(t) /\ Then(FALSE)
        /\ UNCHANGED <<registered, postgres, selection, loop, options, questions>>

\* The question is not asked without the name of a collection.
NoCollection(t) ==
    /\ doing[t] = "again" /\ selection[t][1] = NoName
    /\ GoTo(t, "types")
    /\ UNCHANGED <<registered, postgres, selection, loop, caches, options, questions>>
    /\ UNCHANGED outages

Exact(t, n) == [NoOptions EXCEPT !.exact = TRUE, !.collections = {selection[t][1]},
                                   !.types = {n}]

\* What _dataset_type_exists_for_repository says, and what the caches hold after it.  On
\* Postgres the compatibility check has a fallback of its own inside the cached function.
TypeAnswers(t, n, fails) ==
    LET there == n \in types /\ n \in Supported
        inner == caches[t].supports[n]
        Keeps(v, s) == [caches[t] EXCEPT !.type[n] = v, !.supports[n] = s]
    IN  IF caches[t].type[n] # "?" THEN {caches[t]}
        ELSE IF postgres = "no"
          THEN {IF fails THEN caches[t] ELSE Keeps(YesNo(there), inner)}
        ELSE IF inner = "?"
          THEN {IF fails THEN Keeps("no", "?") ELSE Keeps(YesNo(there), YesNo(there))}
        ELSE {IF fails THEN caches[t] ELSE Keeps(YesNo(inner = "yes" /\ n \in types), inner)}

TypeExists(t) ==
    LET n == selection[t][2]
    IN  /\ doing[t] = "type"
        /\ \E fails \in BOOLEAN : \E after \in TypeAnswers(t, n, fails) :
               /\ IF fails THEN outages < MaxOutages /\ outages' = outages + 1
                  ELSE UNCHANGED outages
               /\ caches' = [caches EXCEPT ![t] = after]
               /\ IF after.type[n] = "yes"
                    THEN GoTo(t, "idle") /\ options' = [options EXCEPT ![t] = Exact(t, n)]
                    ELSE GoTo(t, "collections") /\ UNCHANGED options
        /\ UNCHANGED <<registered, postgres, selection, loop, questions>>

-----------------------------------------------------------------------------
(* Suggestions.                                                            *)

\* _query_collections_for_repository_result
SuggestCollections(t) ==
    LET c == selection[t][1]
        kept == caches[t].collections[c]
        found == Limited(Matching(collections, c), collections)
        Shows(result) == options' = [options EXCEPT ![t].collections = result.values]
    IN  /\ doing[t] = "collections"
        /\ \/ kept # {} /\ Shows(CHOOSE r \in kept : TRUE) /\ UNCHANGED <<caches, outages>>
           \/ /\ kept = {} /\ Shows(found)
              /\ caches' = [caches EXCEPT ![t].collections[c] = {found}]
              /\ UNCHANGED outages
           \/ kept = {} /\ Fallback(t) /\ UNCHANGED options
        /\ GoTo(t, "again")
        /\ UNCHANGED <<registered, postgres, selection, loop, questions>>

AnswerTypes(t, result) ==
    /\ options' = [options EXCEPT ![t].types = result.values, ![t].cut = result.truncated]
    /\ GoTo(t, "idle")

KeepTypes(t, result) == caches' = [caches EXCEPT ![t].types[selection[t][2]] = {result}]

\* _query_dataset_types_for_repository_result: the Butler gives all names at once,
\* Postgres in batches.
SuggestTypes(t) ==
    LET n == selection[t][2]
        kept == caches[t].types[n]
        found == Limited(Matching(types, n) \intersect Supported, types)
    IN  /\ doing[t] = "types"
        /\ \/ /\ kept # {} /\ AnswerTypes(t, CHOOSE r \in kept : TRUE)
              /\ UNCHANGED <<loop, caches, outages>>
           \/ /\ kept = {} /\ postgres = "no"
              /\ KeepTypes(t, found) /\ AnswerTypes(t, found)
              /\ UNCHANGED <<loop, outages>>
           \/ /\ kept = {} /\ postgres = "yes"
              /\ loop' = [loop EXCEPT ![t].from = types]
              /\ GoTo(t, "batches")
              /\ UNCHANGED <<caches, options, outages>>
           \/ /\ kept = {} /\ Fallback(t) /\ GoTo(t, "idle")
              /\ UNCHANGED <<loop, options>>
        /\ UNCHANGED <<registered, postgres, selection, questions>>

BatchSize == SuggestionLimit + 1

LastBatchEarly(names, found) ==
    Cardinality(names) < BatchSize \/ Cardinality(found) >= SuggestionLimit
LastBatch(names, found) ==
    Cardinality(names) < BatchSize \/ Cardinality(found) > SuggestionLimit

\* A batch of names by LIMIT and OFFSET; those that are new and supported are added, up
\* to one more than are suggested.
Batch(t) ==
    LET all == Matching(types, selection[t][2])
        names == {n \in all : /\ loop[t].offset <= Before(all, n)
                              /\ Before(all, n) < loop[t].offset + BatchSize}
        good == (names \ loop[t].seen) \intersect Supported
        Found(n) == loop[t].found \union Leading(good, n - Cardinality(loop[t].found))
        found == Found(SuggestionLimit + 1)
        result == [values |-> Found(SuggestionLimit),
                   truncated |-> Cardinality(found) > SuggestionLimit,
                   from |-> loop[t].from]
    IN  /\ doing[t] = "batches"
        /\ IF LastBatch(names, found)
             THEN /\ KeepTypes(t, result)
                  /\ AnswerTypes(t, result)
                  /\ loop' = [loop EXCEPT ![t] = NoLoop]
             ELSE /\ loop' = [loop EXCEPT ![t] =
                                [offset |-> @.offset + Cardinality(names), found |-> found,
                                 seen |-> @.seen \union names, from |-> @.from]]
                  /\ UNCHANGED <<doing, caches, options>>
        /\ UNCHANGED <<registered, postgres, selection, questions, outages>>

BatchFails(t) ==
    /\ doing[t] = "batches"
    /\ Fallback(t)
    /\ GoTo(t, "idle")
    /\ loop' = [loop EXCEPT ![t] = NoLoop]
    /\ UNCHANGED <<registered, postgres, selection, options, questions>>

FormStep(t) ==
    \/ \E c \in Collections \union {NoName}, n \in Types \union {NoName} :
           AskOptions(t, c, n)
    \/ CollectionExists(t) \/ NoCollection(t) \/ TypeExists(t)
    \/ SuggestCollections(t) \/ SuggestTypes(t) \/ Batch(t) \/ BatchFails(t)

OptionsNext ==
    \/ MakeDatasource
    \/ \E c \in Collections : RegisterCollection(c)
    \/ \E n \in Types : RegisterType(n)
    \/ \E t \in Threads : FormStep(t)

OptionsSpec == OptionsInit /\ [][OptionsNext]_optionsVars

-----------------------------------------------------------------------------
(* Properties.                                                             *)

\* The state has its types: no list is longer than the limit, a loop stays in the names
\* there are, and what a cache says of a name was said of one that may be registered.
OptionsTypeOK ==
    /\ collections \subseteq Collections /\ types \subseteq Types
    /\ \A t \in Threads :
          /\ Cardinality(options[t].collections) <= SuggestionLimit
          /\ Cardinality(options[t].types) <= SuggestionLimit
          /\ loop[t].offset <= Cardinality(types)
          /\ Cardinality(loop[t].found) <= SuggestionLimit
          /\ doing[t] = "batches" \/ loop[t] = NoLoop

\* A fallback after a failure of the registry is not kept: no thread goes on saying that a
\* collection is not there which was there from the start (_run_query_builder_fallback is
\* outside of the cache).
FaultIsNotKept ==
    \A t \in Threads : \A c \in FirstCollections : caches[t].collection[c] # "no"

\* The form shows a selection as exact only if the collection and the dataset type are both
\* there and the type can be quicklooked.
ExactIsThere ==
    \A t \in Threads : options[t].exact =>
        /\ options[t].collections \subseteq collections /\ options[t].collections # {}
        /\ options[t].types \subseteq types \intersect Supported /\ options[t].types # {}

\* The suggested dataset types are the first ones: one that was there when the batches were
\* begun (_filter_query_builder_dataset_types) is in the list, or the list is full, says
\* that it is cut, and ends before it; whatever was registered between the batches.
SuggestionsAreFirst ==
    \A t \in Threads : \A s \in DOMAIN caches[t].types : \A result \in caches[t].types[s] :
        \A n \in Matching(result.from, s) \intersect Supported :
            \/ n \in result.values
            \/ /\ result.truncated /\ Cardinality(result.values) = SuggestionLimit
               /\ \A m \in result.values : m < n

OptionsInv == OptionsTypeOK /\ FaultIsNotKept /\ ExactIsThere /\ SuggestionsAreFirst
=============================================================================
