---------------------------- MODULE VisitQueries ----------------------------
(***************************************************************************)
(* The list of visits: ButlerDataSource.query_visits and the day counts.   *)
(* A viewer pages through the list of one collection, or of all the        *)
(* configured ones, while exposures are ingested.                          *)
(*                                                                         *)
(* The registry of the Butler is external.  A where text is a sequence of  *)
(* words, a word being a predicate, "and", "or" or a parenthesis.          *)
(***************************************************************************)
EXTENDS Integers, Sequences, FiniteSets, Functions

CONSTANTS
    SortedRuns,   \* the RUN collections, in the order of their names
    Scopes,       \* the collections of the configured scopes, in their order
    DayObs,       \* day_obs of each exposure; the exposures are numbered in time
    Texts,        \* well-formed where texts
    PageSize,
    Opened(_),    \* bound: the queries whose pages the viewer asks for
    MaxLists      \* bound: lists that the viewer opens

AllCollections == "all"   \* of a query that names no collection

Words ==
    [kind : {"predicate", "and", "or", "(", ")"}, field : {"none", "day_obs", "exposure"},
     op : {"none", ">=", "<", "=", ">"}, value : Nat]

ASSUME QueriesAssumption ==
    /\ SortedRuns \in Seq(Range(SortedRuns)) /\ AllCollections \notin Range(SortedRuns)
    /\ \A j, k \in DOMAIN SortedRuns : SortedRuns[j] = SortedRuns[k] => j = k
    /\ Scopes \in Seq(Range(SortedRuns))
    /\ DayObs \in Seq(Nat) /\ \A i \in DOMAIN DayObs : DayObs[i] % 100 # 0
    /\ Texts \subseteq Seq(Words)
    /\ PageSize \in Nat \ {0} /\ MaxLists \in Nat

VARIABLES
    held,         \* the exposures of each run
    queried,      \* how many lists were opened
    pager         \* the list the viewer pages through

queriesVars == <<held, queried, pager>>

RunCollections == Range(SortedRuns)
Ids == DOMAIN DayObs
Entries == [run : RunCollections, id : Ids]
NoList == [open |-> FALSE]

Word(k) == [kind |-> k, field |-> "none", op |-> "none", value |-> 0]
Predicate(f, o, v) == [kind |-> "predicate", field |-> f, op |-> o, value |-> v]
Field(i, f) == IF f = "day_obs" THEN DayObs[i] ELSE i

Satisfies(i, p) ==
    LET v == Field(i, p.field)
    IN  CASE p.op = ">=" -> v >= p.value
          [] p.op = "<" -> v < p.value
          [] p.op = "=" -> v = p.value
          [] p.op = ">" -> v > p.value

-----------------------------------------------------------------------------
(* How the Butler reads a text: "and" binds tighter, parentheses group.    *)

\* A stretch of a text is the pair of its first place and its last.
Stretches(text) == (1 .. Len(text) + 1) \X (0 .. Len(text))

Depth(text, a, k) ==
    Cardinality({j \in a .. k : text[j].kind = "("}) - Cardinality({j \in a .. k : text[j].kind = ")"})

\* The words of a kind that are in no parentheses of a stretch.
Tops(text, s, kind) == {j \in s[1] .. s[2] : text[j].kind = kind /\ Depth(text, s[1], j) = 0}

\* The exposures that each stretch of a text finds, from one place to another.
ButlerReads(text) ==
    LET finds[s \in Stretches(text)] ==
            LET ors == Tops(text, s, "or")
                ands == Tops(text, s, "and")
            IN  IF s[2] < s[1] THEN {}
                ELSE IF ors # {} THEN LET k == CHOOSE j \in ors : TRUE
                                      IN  finds[<<s[1], k - 1>>] \union finds[<<k + 1, s[2]>>]
                ELSE IF ands # {} THEN LET k == CHOOSE j \in ands : TRUE
                                       IN  finds[<<s[1], k - 1>>] \intersect finds[<<k + 1, s[2]>>]
                ELSE IF text[s[1]].kind = "(" THEN finds[<<s[1] + 1, s[2] - 1>>]
                ELSE {i \in Ids : Satisfies(i, text[s[1]])}
    IN  finds

ButlerHolds(text, i) == text = <<>> \/ i \in ButlerReads(text)[<<1, Len(text)>>]

-----------------------------------------------------------------------------
(* How the SQL of a Postgres registry reads it: split(' or '), then        *)
(* split(' and '); whatever is then not one predicate is unsupported.      *)

Split(text, s, kind) ==
    LET cuts == {s[1] - 1, s[2] + 1} \union {j \in s[1] .. s[2] : text[j].kind = kind}
    IN  {<<c[1] + 1, c[2] - 1>> :
             c \in {d \in cuts \X cuts : d[1] < d[2] /\ \A e \in cuts : e <= d[1] \/ e >= d[2]}}

\* "<=" is split at "<", and its value "=5" is no literal.
SqlPredicate(text, s) ==
    /\ s[1] = s[2]
    /\ text[s[1]].kind = "predicate"
    /\ text[s[1]].op \in {">=", "<", "="}
    /\ text[s[1]].field \in {"day_obs", "exposure"}

SqlSupports(text) ==
    \/ text = <<>>
    \/ \A or_part \in Split(text, <<1, Len(text)>>, "or") :
           \A part \in Split(text, or_part, "and") : SqlPredicate(text, part)

SqlHolds(text, i) ==
    \/ text = <<>>
    \/ \E or_part \in Split(text, <<1, Len(text)>>, "or") :
           \A part \in Split(text, or_part, "and") : Satisfies(i, text[part[1]])

-----------------------------------------------------------------------------
(* The list of one scope.                                                  *)

\* _query_collections: difference images are looked for in every collection.
CollectionsOf(c, type) ==
    IF c = AllCollections \/ type = "difference_image" THEN RunCollections ELSE {c}

Ellipsis(c, type) == c = AllCollections \/ type = "difference_image"

Held(colls) == UNION {held[r] : r \in colls}

\* The default is '-exposure'; another field starts in ascending order.
Descending(q) == IF q.order = "exposure" THEN ~q.reverse ELSE q.reverse

\* The list of a set in an order, a set of pairs.
InOrder(S, order) ==
    [k \in 1 .. Cardinality(S) |->
        CHOOSE x \in S : Cardinality({y \in S : <<y, x>> \in order}) = k - 1]

Precedes(x, y, reversed) == IF reversed THEN y < x ELSE x < y

\* tie: how the database orders the records whose field is the same.
IdOrder(q, tie) ==
    {p \in Ids \X Ids :
        LET v == Field(p[1], q.order)
            w == Field(p[2], q.order)
        IN  Precedes(v, w, Descending(q)) \/ (v = w /\ Precedes(p[1], p[2], tie))}

\* All the pages of a viewer, and the counts, are read with the same ties.
SameTie == FALSE

PageOf(s, offset, limit) ==
    SubSeq(s, offset + 1, IF offset + limit < Len(s) THEN offset + limit ELSE Len(s))

LatestDay(S) ==
    CHOOSE d \in {DayObs[i] : i \in S} : \A i \in S : DayObs[i] <= d

\* _build_latest_day_where; without records there is no condition.
WhereText(q, c) ==
    LET there == Held(CollectionsOf(c, q.type))
    IN  IF ~q.latest THEN q.where
        ELSE IF there = {} THEN <<>>
        ELSE <<Predicate("day_obs", "=", LatestDay(there))>>

ButlerFinds(q, c) ==
    {i \in Held(CollectionsOf(c, q.type)) : ButlerHolds(WhereText(q, c), i)}

SqlFinds(q, c) ==
    {i \in Ids : /\ \E r \in CollectionsOf(c, q.type) : i \in held[r]
                 /\ SqlHolds(WhereText(q, c), i)}

UsesSql(q, c) == q.postgres /\ ~Ellipsis(c, q.type) /\ SqlSupports(WhereText(q, c))

ScopeFinds(q, c) == IF UsesSql(q, c) THEN SqlFinds(q, c) ELSE ButlerFinds(q, c)

\* _visit_entry_from_record, with the run of any dataset of an exposure (limit=1).
EntryOf(q, c, i, tie) ==
    LET runs == {k \in DOMAIN SortedRuns : i \in held[SortedRuns[k]]}
        first == CHOOSE k \in runs : \A m \in runs : IF tie THEN m <= k ELSE k <= m
    IN  [run |-> IF Ellipsis(c, q.type) THEN SortedRuns[first] ELSE c, id |-> i]

ScopeVisits(q, c, offset, limit, tie) ==
    LET records == PageOf(InOrder(ScopeFinds(q, c), IdOrder(q, tie)), offset, limit)
    IN  [k \in DOMAIN records |-> EntryOf(q, c, records[k], tie)]

-----------------------------------------------------------------------------
(* The list across the scopes.                                             *)

RunNumber(r) == CHOOSE k \in DOMAIN SortedRuns : SortedRuns[k] = r

\* sort_visit_entries: by the field, then by display_id, both reversed.
EntryOrder(q) ==
    {p \in Entries \X Entries :
        LET v == Field(p[1].id, q.order)
            w == Field(p[2].id, q.order)
            m == RunNumber(p[1].run)
            n == RunNumber(p[2].run)
        IN  \/ Precedes(v, w, Descending(q))
            \/ v = w /\ Precedes(m, n, Descending(q))
            \/ v = w /\ m = n /\ Precedes(p[1].id, p[2].id, Descending(q))}

PerScopeLimitAlone(offset, limit) == limit
PerScopeLimit(offset, limit) == offset + limit

\* What the scope of a page at an offset is asked for.
BeginningOf(q, scope, offset, limit, tie) ==
    Range(ScopeVisits(q, scope, 0, PerScopeLimit(offset, limit), tie))

Merged(q, found, offset, limit) == PageOf(InOrder(found, EntryOrder(q)), offset, limit)

AcrossScopes(q, offset, limit, tie) ==
    Merged(q, UNION {BeginningOf(q, c, offset, limit, tie) : c \in Range(Scopes)}, offset, limit)

\* query_visits_sync
Across(q) == q.collection = AllCollections /\ Scopes # <<>>

QueryVisits(q, offset, limit, tie) ==
    IF Across(q) THEN AcrossScopes(q, offset, limit, tie)
    ELSE ScopeVisits(q, q.collection, offset, limit, tie)

-----------------------------------------------------------------------------
(* Day counts of a calendar month.                                         *)

MonthRange(year, month) ==
    <<year * 10000 + month * 100 + 1,
      IF month = 12 THEN (year + 1) * 10000 + 101 ELSE year * 10000 + (month + 1) * 100 + 1>>

PerDay(S) == [d \in {DayObs[i] : i \in S} |-> Cardinality({i \in S : DayObs[i] = d})]

\* The table of tags is read for one collection, a difference image's too.
SqlDayCounts(c, year, month) ==
    LET range == MonthRange(year, month)
    IN  PerDay({i \in held[c] : DayObs[i] >= range[1] /\ DayObs[i] < range[2]})

\* _query_data_ids: an exposure has one data id, in however many runs it is.
DataIds(c, type, where) == {i \in Held(CollectionsOf(c, type)) : ButlerHolds(where, i)}

ButlerDayCounts(c, type, year, month) ==
    LET range == MonthRange(year, month)
    IN  PerDay(DataIds(c, type, <<Predicate("day_obs", ">=", range[1]), Word("and"),
                                  Predicate("day_obs", "<", range[2])>>))

DayCounts(c, type, postgres, year, month) ==
    IF postgres /\ c # AllCollections THEN SqlDayCounts(c, year, month)
    ELSE ButlerDayCounts(c, type, year, month)

-----------------------------------------------------------------------------
(* The scopes of an exposure: those of the exposure dimension that have it. *)

ExposureExists(c, i) ==
    \E j \in Held(CollectionsOf(c, "raw")) : ButlerHolds(<<Predicate("exposure", "=", i)>>, j)

ExposureDataTypes(i) == {c \in Range(Scopes) : ExposureExists(c, i)}

-----------------------------------------------------------------------------
(* The viewer and the ingestion.                                           *)

Queries ==
    [collection : RunCollections \union {AllCollections}, type : {"raw", "difference_image"},
     where : Texts, latest : BOOLEAN, order : {"exposure", "day_obs"},
     reverse : BOOLEAN, postgres : BOOLEAN]

\* What the list has without pages.
WholeList(q) == Range(QueryVisits(q, 0, Cardinality(Entries), SameTie))

TextsOf(q) == [c \in Range(Scopes) \union {q.collection} |-> WhereText(q, c)]

QueriesInit ==
    /\ held = [r \in RunCollections |-> {}]
    /\ queried = 0
    /\ pager = NoList

\* Exposures arrive late and in any order.
IngestExposure(r, i) ==
    /\ i \notin held[r]
    /\ held' = [held EXCEPT ![r] = @ \union {i}]
    /\ UNCHANGED <<queried, pager>>

\* asked: how many scopes the request for the next page has asked, and found what
\* they answered.
OpenList ==
    /\ queried < MaxLists /\ ~pager.open
    /\ \E q \in {q \in Queries : Opened(q)} :
        /\ q.latest => q.where = <<>>
        /\ pager' = [open |-> TRUE, q |-> q, offset |-> 0, asked |-> 0, found |-> {},
                     seen |-> {}, wanted |-> WholeList(q), texts |-> TextsOf(q)]
    /\ queried' = queried + 1
    /\ UNCHANGED held

\* One scope after the other is asked, while exposures arrive.
AskScope ==
    /\ pager.open /\ Across(pager.q) /\ pager.asked < Len(Scopes)
    /\ LET beginning == BeginningOf(pager.q, Scopes[pager.asked + 1], pager.offset, PageSize, SameTie)
       IN  pager' = [pager EXCEPT !.asked = @ + 1, !.found = @ \union beginning]
    /\ UNCHANGED <<held, queried>>

\* Each page is a request of its own; a short page is the last one.
NextPage ==
    /\ pager.open /\ (Across(pager.q) => pager.asked = Len(Scopes))
    /\ LET page == IF Across(pager.q) THEN Merged(pager.q, pager.found, pager.offset, PageSize)
                   ELSE ScopeVisits(pager.q, pager.q.collection, pager.offset, PageSize, SameTie)
           read == [pager EXCEPT !.seen = @ \union Range(page), !.asked = 0, !.found = {}]
       IN  pager' = IF Len(page) < PageSize THEN [read EXCEPT !.open = FALSE]
                    ELSE [read EXCEPT !.offset = @ + PageSize]
    /\ UNCHANGED <<held, queried>>

QueriesNext ==
    \/ \E r \in RunCollections, i \in Ids : IngestExposure(r, i)
    \/ OpenList
    \/ AskScope
    \/ NextPage

QueriesSpec == QueriesInit /\ [][QueriesNext]_queriesVars

-----------------------------------------------------------------------------
(* Properties.                                                             *)

Unique(q) == q.order = "exposure"

\* The state has its types, and nobody is sent on to pages behind the end of the list.
QueriesTypeOK ==
    /\ held \in [RunCollections -> SUBSET Ids]
    /\ queried \in 0 .. MaxLists
    /\ pager # NoList => /\ (pager.seen \union pager.found) \subseteq Entries
                         /\ pager.asked \in 0 .. Len(Scopes)
                         /\ pager.offset <= Cardinality(Entries)

\* A page that was put together from the beginnings of the lists of several scopes
\* (_query_visits_across_scopes) is a slice of the list of everything, if the field that
\* orders the list is unique in a collection.
PageIsSlice ==
    \A q \in Queries : \A offset \in 0 .. 2 * PageSize : \A tie \in BOOLEAN :
        (Unique(q) /\ Across(q) /\ q.type = "raw" /\ (q.latest => q.where = <<>>))
        => QueryVisits(q, offset, PageSize, tie)
             = PageOf(QueryVisits(q, 0, Cardinality(Entries), tie), offset, PageSize)

\* The SQL of a Postgres registry (_resolve_sql_where_clause) finds what the Butler finds:
\* a text it cannot read as the Butler does is left to the Butler.
SqlIsButler ==
    \A q \in Queries : \A c \in RunCollections : UsesSql(q, c) => SqlFinds(q, c) = ButlerFinds(q, c)

\* Who pages to the end has seen every visit that was there when the list was opened,
\* whatever was ingested meanwhile, also between the scopes of one page; unless the list is
\* that of the latest day and a new day began, which is another list. (A list of all
\* collections names any run of an exposure.)
NoneIsMissed ==
    LET q == pager.q IN
    (pager # NoList /\ ~pager.open /\ Unique(q) /\ (q.type = "raw" \/ ~Across(q))) =>
        \/ q.latest /\ TextsOf(q) # pager.texts
        \/ \A e \in pager.wanted : \E f \in pager.seen :
               f.id = e.id /\ (f.run = e.run \/ (~Across(q) /\ Ellipsis(q.collection, q.type)))

\* What a list of one collection has under a where text.
Listed(c, type, text, postgres) ==
    LET q == [collection |-> c, type |-> type, where |-> text, latest |-> FALSE,
              order |-> "exposure", reverse |-> FALSE, postgres |-> postgres]
    IN  ScopeVisits(q, c, 0, Cardinality(Ids), SameTie)

\* The calendar (query_visit_day_counts) counts for every day of a month, the last ones
\* of a year too, what the list of that day has, with SQL or without. The SQL counts the
\* difference images of one collection, and the list has those of all: not promised.
CountsAreListed ==
    \A c \in RunCollections : \A type \in {"raw", "difference_image"} : \A postgres \in BOOLEAN :
      (type = "raw" \/ ~postgres) => \A i \in Held(CollectionsOf(c, type)) :
        LET day == DayObs[i]
            counts == DayCounts(c, type, postgres, day \div 10000, (day \div 100) % 100)
        IN  /\ day \in DOMAIN counts
            /\ counts[day] = Len(Listed(c, type, <<Predicate("day_obs", "=", day)>>, postgres))

\* A scope is named for an exposure (get_exposure_data_types) exactly if its list has the
\* exposure, whichever way the list is read.
ScopesAreListed ==
    \A c \in Range(Scopes) : \A i \in Ids : \A postgres \in BOOLEAN :
        c \in ExposureDataTypes(i)
          <=> Listed(c, "raw", <<Predicate("exposure", "=", i)>>, postgres) # <<>>

\* What the module promises. All but the first two speak of the registry alone: they are
\* looked at in each state that it can be in, before a list is opened.
QueriesInv ==
    /\ QueriesTypeOK /\ NoneIsMissed
    /\ (queried = 0 /\ \E r \in RunCollections : held[r] # {}) =>
         PageIsSlice /\ SqlIsButler /\ CountsAreListed /\ ScopesAreListed
=============================================================================
