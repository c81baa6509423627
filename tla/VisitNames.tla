----------------------------- MODULE VisitNames -----------------------------
(***************************************************************************)
(* The names of quicklooks: types.py of the backend and quicklookId.ts of  *)
(* the frontend.  A name is repository:collection:dataset_type:dimensions; *)
(* in a URL the collection is escaped, because it may hold a "/", and in   *)
(* the cache key (the primary key of the quicklooks table, and the prefix  *)
(* of the objects) it is not.  The repository and the dataset type are     *)
(* copied by every conversion and left out.                                *)
(*                                                                         *)
(* A behaviour spells the collection and the dimensions of one name, as a  *)
(* link or a user may, canonical or not.                                   *)
(***************************************************************************)
EXTENDS Naturals, Sequences, SequencesExt

CONSTANTS
    Keys, Values,    \* of dimensions; keys are ordered
    MaxLength,       \* bound: characters of a collection
    MaxPairs         \* bound: dimensions of a name

\* The characters that a conversion tells apart, and one that stands for the rest.
Chars == {"a", "!", "-", "/"}
Invalid == [error |-> TRUE]

VARIABLES
    text,     \* the collection in the URL
    pairs     \* the dimensions in the URL: <<key, value>>

vars == <<text, pairs>>

Init == text = <<>> /\ pairs = <<>>

Type(c) ==
    /\ Len(text) < MaxLength
    /\ text' = Append(text, c) /\ UNCHANGED pairs

Add(k, v) ==
    /\ Len(pairs) < MaxPairs
    /\ pairs' = Append(pairs, <<k, v>>) /\ UNCHANGED text

Next ==
    \/ \E c \in Chars : Type(c)
    \/ \E k \in Keys, v \in Values : Add(k, v)

Spec == Init /\ [][Next]_vars

-----------------------------------------------------------------------------
(* types.py *)

\* str.replace
Replace(s, c, new) ==
    FlattenSeq([i \in DOMAIN s |-> IF s[i] = c THEN new ELSE <<s[i]>>])

escape(s) == Replace(Replace(s, "!", <<"!", "!">>), "/", <<"!", "-">>)

\* The loop of unescape_visit_path_part, one character at a time: after a "!"
\* the next character decides.
unescape(s) ==
    LET Read(r, c) ==
            IF r.after
            THEN CASE c = "!" -> [r EXCEPT !.out = Append(@, "!"), !.after = FALSE]
                   [] c = "-" -> [r EXCEPT !.out = Append(@, "/"), !.after = FALSE]
                   [] OTHER -> [r EXCEPT !.bad = TRUE, !.after = FALSE]
            ELSE IF c = "!" THEN [r EXCEPT !.after = TRUE]
            ELSE [r EXCEPT !.out = Append(@, c)]
        end == FoldLeft(Read, [out |-> <<>>, after |-> FALSE, bad |-> FALSE], s)
    IN [error |-> end.bad \/ end.after, value |-> end.out]

\* parse_visit_dimensions: a repeated key takes the last value; "" is an error.
Dimensions(ps) ==
    [k \in {ps[i][1] : i \in DOMAIN ps} |->
        ps[CHOOSE i \in DOMAIN ps :
              ps[i][1] = k /\ \A j \in DOMAIN ps : j > i => ps[j][1] # k][2]]

\* format_visit_dimensions
Format(d) ==
    LET ks == SetToSortSeq(DOMAIN d, <) IN [i \in DOMAIN ks |-> <<ks[i], d[ks[i]]>>]

\* VisitName._parse
Parse(t, ps) ==
    IF unescape(t).error \/ ps = <<>> THEN Invalid
    ELSE [error |-> FALSE, collection |-> unescape(t).value, dimensions |-> Dimensions(ps)]

\* VisitName.cache_key of an accepted name.
CacheKey(t, ps) ==
    LET p == Parse(t, ps) IN <<p.collection, Format(p.dimensions)>>

\* Mutant: the key is used as the name.
FromCacheKeyPlain(key) == key

\* VisitName.from_cache_key: the name whose cache key it is.
FromCacheKey(key) == <<escape(key[1]), key[2]>>

\* VisitName.from_parts
FromParts(collection, d) == <<escape(collection), Format(d)>>

-----------------------------------------------------------------------------
(* quicklookId.ts *)

\* escapeVisitPathPart
tsEscape(s) == Replace(Replace(s, "!", <<"!", "!">>), "/", <<"!", "-">>)

\* unescapeVisitPathPart: read[i] is TRUE where the loop looks at character i,
\* which is not where the one before it was a "!" that it looked at.
tsUnescape(s) ==
    LET read[i \in DOMAIN s] == i = 1 \/ ~(read[i - 1] /\ s[i - 1] = "!")
        Next2(i) == IF i < Len(s) THEN s[i + 1] ELSE "none"
        Value(i) == IF ~read[i] THEN <<>>
                    ELSE IF s[i] # "!" THEN <<s[i]>>
                    ELSE IF Next2(i) = "!" THEN <<"!">> ELSE <<"/">>
    IN [error |-> \E i \in DOMAIN s : read[i] /\ s[i] = "!" /\ Next2(i) \notin {"!", "-"},
        value |-> FlattenSeq([i \in DOMAIN s |-> Value(i)])]

\* parseVisitId; Object.fromEntries takes the last value of a repeated key.
tsParse(t, ps) ==
    IF tsUnescape(t).error \/ ps = <<>> THEN Invalid
    ELSE [error |-> FALSE, collection |-> tsUnescape(t).value, dimensions |-> Dimensions(ps)]

\* buildVisitId
tsBuild(collection, d) == <<tsEscape(collection), Format(d)>>

\* formatVisitIdForDisplay: the name as the viewer shows it, or the id itself.
tsDisplay(t, ps) ==
    LET p == tsParse(t, ps) IN
    IF p.error THEN <<t, ps>> ELSE <<p.collection, Format(p.dimensions)>>

-----------------------------------------------------------------------------
(* Properties. *)

Accepted == ~Parse(text, pairs).error

\* The state has its types, and what is accepted has a cache key of its types.
TypeOK ==
    /\ text \in Seq(Chars) /\ Len(text) <= MaxLength
    /\ pairs \in Seq(Keys \X Values) /\ Len(pairs) <= MaxPairs
    /\ Accepted => CacheKey(text, pairs) \in Seq(Chars) \X Seq(Keys \X Values)

\* A row leads back to its objects: the name made from the cache key of any
\* accepted name is accepted and has the same cache key, so housekeeping deletes
\* the objects of the row and no others (delete_one_quicklook).
RowFindsItsObjects ==
    Accepted =>
        LET key == CacheKey(text, pairs)
            name == FromCacheKey(key)
        IN ~Parse(name[1], name[2]).error /\ CacheKey(name[1], name[2]) = key

\* Different quicklooks have different names and no name is ambiguous: any
\* collection and dimensions can be read back from the name the data source
\* makes of them, whose collection has no "/", which a URL would split.
NameIsUnambiguous ==
    pairs # <<>> =>
        LET d == Dimensions(pairs)
            name == FromParts(text, d)
            p == Parse(name[1], name[2])
        IN /\ ~p.error /\ p.collection = text /\ p.dimensions = d
           /\ \A i \in DOMAIN name[1] : name[1][i] # "/"

\* Backend and frontend agree on every name: they build the same one, accept the
\* same spellings, read the same parts, and the viewer shows the cache key.
FrontendAgrees ==
    /\ tsParse(text, pairs) = Parse(text, pairs)
    /\ pairs # <<>> =>
          tsBuild(text, Dimensions(pairs)) = FromParts(text, Dimensions(pairs))
    /\ Accepted => tsDisplay(text, pairs) = CacheKey(text, pairs)
=============================================================================
