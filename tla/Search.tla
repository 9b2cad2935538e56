------------------------------- MODULE Search --------------------------------
(***************************************************************************)
(* What one device answers from its catalog: the tags of a file and the    *)
(* tags around a tag (tagsyd/src/store/entries.rs), searches               *)
(* (frontend/api/token.rs, frontend/api/read.rs, store/query.rs), names    *)
(* turned into ids (frontend/api/read.rs) and short ids                    *)
(* (store/short_id.rs).                                                    *)
(*                                                                         *)
(* Files and tags are their ids, sequences of digits.  A text that a user  *)
(* types is a record: the names it matches (as substring or as regular     *)
(* expression, none when that does not compile), the name it spells in     *)
(* full, and the digits it is, if it could be the start of an id or hash.  *)
(***************************************************************************)
EXTENDS Integers, FiniteSets, SequencesExt, Relation

CONSTANTS
    File, Tag,      \* ids, all of one length
    LateFile, LateTag,  \* those whose row has not arrived
    Path, TagName,  \* [File -> name], [Tag -> name]
    Hash,           \* [File -> digits], of the latest version
    Text,           \* {[hits, exact, digits, regex]}
    NotDigits,      \* the digits of a text that is none
    UnknownId, AmbiguousId,  \* what a lookup fails with
    Asked           \* [0 .. n -> sets of queries], those asked after so many changes

ASSUME SearchAssumption == /\ IsFiniteSet(File) /\ IsFiniteSet(Tag)
                           /\ \A x, y \in File \cup Tag : Len(x) = Len(y)
                           /\ LateFile \subseteq File /\ LateTag \subseteq Tag
                           /\ 0 \in DOMAIN Asked

VARIABLES
    fileRow,   \* [File -> Row]
    tagRow,    \* [Tag -> Row]
    tagged,    \* the relationships <<tag, file>> and ...
    under,     \* ... <<tag, subtag>>, those not taken back
    changes,   \* how many changes have been made
    query      \* the words of the search, <<>> before

catalog == <<fileRow, tagRow, tagged, under, changes>>
vars == <<catalog, query>>

Row == {"none", "live", "deleted"}
Rule == {"Exclude", "Include"}  \* SubtagRule, DeletedRule

-----------------------------------------------------------------------------
(***************************************************************************)
(* Tokens (token.rs).                                                      *)
(***************************************************************************)
Kinds == {"/t", "/T", "/i", "/h", "/n", "/l", "/e"}

\* A word is "!", a kind, a payload, or a payload whose delimiter is not closed.
Word == [is : {"!", "open"} \cup Kinds, text : Text] \cup [is : {"payload"}, text : Text]

Fresh == [negated |-> FALSE, kind |-> "any"]

\* lex_one_token, word by word: a second "!" or kind drops what came before it and
\* itself, and a payload that is not closed everything after it.
LexWord(lexed, word) ==
    IF lexed.closed THEN lexed
    ELSE CASE word.is = "open" -> [lexed EXCEPT !.closed = TRUE]
           [] word.is = "!" ->
                  IF lexed.prefix.negated THEN [lexed EXCEPT !.prefix = Fresh]
                  ELSE [lexed EXCEPT !.prefix.negated = TRUE]
           [] word.is \in Kinds ->
                  IF lexed.prefix.kind # "any" THEN [lexed EXCEPT !.prefix = Fresh]
                  ELSE [lexed EXCEPT !.prefix.kind = word.is]
           [] OTHER ->
                  [lexed EXCEPT !.prefix = Fresh,
                                !.tokens = Append(@, [kind |-> lexed.prefix.kind, text |-> word.text,
                                                      negated |-> lexed.prefix.negated])]

LexQuery(words) ==
    FoldLeft(LAMBDA lexed, word : LexWord(lexed, word),
             [tokens |-> <<>>, prefix |-> Fresh, closed |-> FALSE], words).tokens

-----------------------------------------------------------------------------
(***************************************************************************)
(* Rows and ids.                                                           *)
(***************************************************************************)
Shown(row, x, deleted) == \/ row[x] = "live"
                          \/ deleted = "Include" /\ row[x] = "deleted"

FileRows(deleted) == {f \in File : Shown(fileRow, f, deleted)}
TagRows(deleted) == {t \in Tag : Shown(tagRow, t, deleted)}

\* normalize_id_prefix, and LIKE 'prefix%'. A regular expression is no id.
Starts(text, digits) ==
    /\ ~text.regex /\ text.digits # NotDigits
    /\ IsPrefix(text.digits, digits)

FilesMatchingId(text, deleted) == {f \in FileRows(deleted) : Starts(text, f)}
FilesMatchingHash(text, deleted) == {f \in FileRows(deleted) : Starts(text, Hash[f])}
TagsMatchingId(text, deleted) == {t \in TagRows(deleted) : Starts(text, t)}
TagsMatching(text, deleted) ==
    {t \in TagRows(deleted) : TagName[t] \in text.hits} \cup TagsMatchingId(text, deleted)

Less(x, y) == \E i \in DOMAIN x : /\ SubSeq(x, 1, i - 1) = SubSeq(y, 1, i - 1)
                                  /\ x[i] < y[i]

CommonPrefixLength(x, y) == Cardinality({i \in DOMAIN x : SubSeq(x, 1, i) = SubSeq(y, 1, i)})

\* Seeded mistake: only the id before.
NeighboursBefore(ids, x) == {y \in ids : /\ Less(y, x)
                                         /\ \A z \in ids : ~(Less(y, z) /\ Less(z, x))}

\* The ids next to x in their order, of which it need only be told apart.
Neighbours(ids, x) ==
    {y \in ids : \/ Less(y, x) /\ \A z \in ids : ~(Less(y, z) /\ Less(z, x))
                 \/ Less(x, y) /\ \A z \in ids : ~(Less(x, z) /\ Less(z, y))}

\* unique_prefix_length over a listing, shortest_unique_prefix_length over all rows.
ShortIdLength(ids, x) == Max({CommonPrefixLength(x, y) + 1 : y \in Neighbours(ids, x)} \cup {1})

-----------------------------------------------------------------------------
(***************************************************************************)
(* Walks of the tag hierarchy (entries.rs).  A walk is what it has seen    *)
(* and what it has found.                                                  *)
(***************************************************************************)
Start == [seen |-> {}, found |-> {}]

Children(t) == {c \in Tag : <<t, c>> \in under}

\* A tag with no row counts: its definition is still on its way.
KnownDeleted(t) == tagRow[t] = "deleted"

RECURSIVE FilesBelow(_, _, _)

\* file_ids_for_tag_inner, through deleted tags too.
FilesBelow(t, walk, subtags) ==
    LET here == [walk EXCEPT !.seen = @ \cup {t},
                             !.found = @ \cup {f \in File : <<t, f>> \in tagged}]
    IN  IF subtags = "Exclude" THEN here
        ELSE FoldSet(LAMBDA c, w : IF c \in w.seen THEN w ELSE FilesBelow(c, w, subtags),
                      here, Children(t))

FileIdsForTag(t, subtags) == FilesBelow(t, Start, subtags).found

RECURSIVE TagsBelow(_, _, _)

\* subtag_ids_for_tag_inner, not into deleted tags.
TagsBelow(t, walk, subtags) ==
    FoldSet(LAMBDA c, w : LET found == [w EXCEPT !.found = @ \cup {c}]
                           IN  IF subtags = "Exclude" \/ c \in w.seen THEN found
                               ELSE TagsBelow(c, found, subtags),
             [walk EXCEPT !.seen = @ \cup {t}],
             {c \in Children(t) : ~KnownDeleted(c)})

SubtagIdsForTag(t, subtags) == TagsBelow(t, Start, subtags).found

RECURSIVE TagsAbove(_, _, _)

\* Seeded mistake: the walk stops at a tag without a row.
TagsAboveKnown(t, walk, subtags) ==
    FoldSet(LAMBDA p, w : LET found == [w EXCEPT !.found = @ \cup {p}]
                           IN  IF subtags = "Exclude" \/ p \in w.seen THEN found
                               ELSE TagsAbove(p, found, subtags),
             [walk EXCEPT !.seen = @ \cup {t}],
             {p \in Tag : <<p, t>> \in under /\ tagRow[p] = "live"})

\* tag_ids_for_subtag_inner
TagsAbove(t, walk, subtags) ==
    FoldSet(LAMBDA p, w : LET found == [w EXCEPT !.found = @ \cup {p}]
                           IN  IF subtags = "Exclude" \/ p \in w.seen THEN found
                               ELSE TagsAbove(p, found, subtags),
             [walk EXCEPT !.seen = @ \cup {t}],
             {p \in Tag : <<p, t>> \in under /\ ~KnownDeleted(p)})

TagIdsForSubtag(t, subtags) == TagsAbove(t, Start, subtags).found

\* The tags of a file share one walk.
TagIdsForFile(f, subtags) ==
    LET direct == {t \in Tag : <<t, f>> \in tagged /\ ~KnownDeleted(t)}
    IN  IF subtags = "Exclude" THEN direct
        ELSE FoldSet(LAMBDA t, w : TagsAbove(t, w, subtags),
                      [seen |-> {}, found |-> direct], direct).found

-----------------------------------------------------------------------------
(***************************************************************************)
(* A search (parse_query, file_ids_for_query, tag_ids_for_query).          *)
(***************************************************************************)
Term(token, deleted) ==
    [is |-> CASE token.kind \in {"/t", "/T"} -> "HasTag"
              [] token.kind \in {"/i", "/h"} -> "FileIdMatches"
              [] OTHER -> token.kind,
     negated |-> token.negated,
     hits |-> token.text.hits,
     tags |-> CASE token.kind \in {"/t", "any", "/e"} -> TagsMatching(token.text, deleted)
                [] token.kind = "/T" -> TagsMatchingId(token.text, deleted)
                [] OTHER -> {},
     files |-> CASE token.kind \in {"/i", "any", "/e"} -> FilesMatchingId(token.text, deleted)
                 [] token.kind = "/h" -> FilesMatchingHash(token.text, deleted)
                 [] OTHER -> {}]

ParseQuery(words, deleted) ==
    LET tokens == LexQuery(words) IN {Term(tokens[i], deleted) : i \in DOMAIN tokens}

FilesForAnyTag(tags, subtags) == UNION {FileIdsForTag(t, subtags) : t \in tags}
SubtagsOfAny(tags, subtags) == UNION {SubtagIdsForTag(t, subtags) : t \in tags}

Seeds(terms) == {term \in terms : term.is = "HasTag" /\ ~term.negated}
HasText(terms) == \E term \in terms : term.is \in {"/n", "/l", "any", "/e"}

\* Seeded mistake: files with any of the seeds, not with all of them.
FilesSeededByAny(terms, subtags, deleted) ==
    IF Seeds(terms) = {} THEN FileRows(deleted)
    ELSE UNION {FilesForAnyTag(term.tags, subtags) : term \in Seeds(terms)}

\* The files a search starts from, deleted ones and ones without a row among them.
FilesSeeded(terms, subtags, deleted) ==
    IF Seeds(terms) = {} THEN FileRows(deleted)
    ELSE {f \in File : \A term \in Seeds(terms) : f \in FilesForAnyTag(term.tags, subtags)}

\* Does the path of f, or what the term says of f, match a term about text?
FileHit(f, term, subtags) ==
    \/ Path[f] \in term.hits
    \/ term.is \in {"any", "/e"} /\ f \in term.files
    \/ term.is = "any" /\ f \in FilesForAnyTag(term.tags, subtags)

FileIdsForQuery(terms, subtags, deleted) ==
    {f \in FilesSeeded(terms, subtags, deleted) :
        /\ HasText(terms) => f \in FileRows(deleted)
        /\ \A term \in terms \ Seeds(terms) :
               term.negated # CASE term.is = "HasTag" -> f \in FilesForAnyTag(term.tags, subtags)
                                [] term.is = "FileIdMatches" -> f \in term.files
                                [] OTHER -> FileHit(f, term, subtags)}

TagsSeeded(terms, subtags, deleted) ==
    IF Seeds(terms) = {} THEN TagRows(deleted)
    ELSE {t \in Tag : \A term \in Seeds(terms) : t \in SubtagsOfAny(term.tags, subtags)}

\* The tags a token names are hits themselves; under "any" their subtags are too.
TagHit(t, term, subtags) ==
    \/ TagName[t] \in term.hits
    \/ term.is \in {"any", "/e"} /\ t \in term.tags
    \/ term.is = "any" /\ t \in SubtagsOfAny(term.tags, subtags)

TagIdsForQuery(terms, subtags, deleted) ==
    IF \E term \in terms : term.is \in {"/l", "FileIdMatches"} THEN {}
    ELSE {t \in TagsSeeded(terms, subtags, deleted) :
             /\ HasText(terms) => t \in TagRows(deleted)
             /\ \A term \in terms \ Seeds(terms) :
                    term.negated # IF term.is = "HasTag" THEN t \in SubtagsOfAny(term.tags, subtags)
                                   ELSE TagHit(t, term, subtags)}

\* search: what is found and can be listed; under Include only what is deleted.
Listed(row, ids, deleted) == {x \in ids : row[x] = IF deleted = "Include" THEN "deleted" ELSE "live"}

SearchFiles(words, subtags, deleted) ==
    Listed(fileRow, FileIdsForQuery(ParseQuery(words, deleted), subtags, deleted), deleted)
SearchTags(words, subtags, deleted) ==
    Listed(tagRow, TagIdsForQuery(ParseQuery(words, deleted), subtags, deleted), deleted)

-----------------------------------------------------------------------------
(***************************************************************************)
(* A name or short id for one file or tag (resolve_file_id,                *)
(* resolve_tag_id): the answers there can be.                              *)
(***************************************************************************)
OnlyOne(ids) == CASE ids = {} -> {UnknownId}
                  [] Cardinality(ids) = 1 -> ids
                  [] OTHER -> {AmbiguousId}

Entity(text, deleted) == {Term([kind |-> "/e", text |-> text, negated |-> FALSE], deleted)}

\* The first row with exactly that path, when there are several.
ResolveFile(text, deleted) ==
    LET named == {f \in FileRows("Exclude") : Path[f] = text.exact}
    IN  IF deleted = "Exclude" /\ named # {} THEN named
        ELSE OnlyOne(FileIdsForQuery(Entity(text, deleted), "Exclude", deleted))

ResolveTag(text, deleted) ==
    LET named == {t \in TagRows("Exclude") : TagName[t] = text.exact}
    IN  IF deleted = "Exclude" /\ named # {} THEN named
        ELSE OnlyOne(TagIdsForQuery(Entity(text, deleted), "Exclude", deleted))

-----------------------------------------------------------------------------
(***************************************************************************)
(* What the writer changes, and searches.  A relationship may name a tag   *)
(* or file whose row has not arrived, and survives the deletion of both.   *)
(***************************************************************************)
Init ==
    /\ fileRow = [f \in File |-> IF f \in LateFile THEN "none" ELSE "live"]
    /\ tagRow = [t \in Tag |-> IF t \in LateTag THEN "none" ELSE "live"]
    /\ tagged = {} /\ under = {}
    /\ changes = 0
    /\ query = <<>>

Change == /\ query = <<>> /\ changes + 1 \in DOMAIN Asked
          /\ changes' = changes + 1
          /\ UNCHANGED query

\* A row is added or restored, or deleted.
SetFileRow(f, state) ==
    /\ Change
    /\ fileRow[f] # state /\ fileRow' = [fileRow EXCEPT ![f] = state]
    /\ UNCHANGED <<tagRow, tagged, under>>

SetTagRow(t, state) ==
    /\ Change
    /\ tagRow[t] # state /\ tagRow' = [tagRow EXCEPT ![t] = state]
    /\ UNCHANGED <<fileRow, tagged, under>>

TagFile(t, f) ==
    /\ Change
    /\ <<t, f>> \notin tagged /\ tagged' = tagged \cup {<<t, f>>}
    /\ UNCHANGED <<fileRow, tagRow, under>>

UntagFile(t, f) ==
    /\ Change
    /\ <<t, f>> \in tagged /\ tagged' = tagged \ {<<t, f>>}
    /\ UNCHANGED <<fileRow, tagRow, under>>

\* A tag is never its own subtag; a circle of tags there can be.
TagTag(t, c) ==
    /\ Change
    /\ t # c
    /\ <<t, c>> \notin under /\ under' = under \cup {<<t, c>>}
    /\ UNCHANGED <<fileRow, tagRow, tagged>>

UntagTag(t, c) ==
    /\ Change
    /\ <<t, c>> \in under /\ under' = under \ {<<t, c>>}
    /\ UNCHANGED <<fileRow, tagRow, tagged>>

Ask(words) ==
    /\ query = <<>>
    /\ words \in Asked[changes]
    /\ query' = words
    /\ UNCHANGED catalog

Answer ==
    /\ query # <<>>
    /\ query' = <<>>
    /\ UNCHANGED catalog

Next ==
    \/ \E f \in File, state \in {"live", "deleted"} : SetFileRow(f, state)
    \/ \E t \in Tag, state \in {"live", "deleted"} : SetTagRow(t, state)
    \/ \E t \in Tag, f \in File : TagFile(t, f) \/ UntagFile(t, f)
    \/ \E t, c \in Tag : TagTag(t, c) \/ UntagTag(t, c)
    \/ \E words \in Asked[changes] : Ask(words)
    \/ Answer

Spec == Init /\ [][Next]_vars

-----------------------------------------------------------------------------
(***************************************************************************)
(* Properties                                                              *)
(***************************************************************************)
\* What a walk should reach: the tags from which x is reached downwards, or
\* those directly above it.
Reaches(edges, subtags) ==
    LET edge == [t, c \in Tag |-> <<t, c>> \in edges]
    IN  IF subtags = "Include" THEN TransitiveClosure(edge, Tag) ELSE edge

Carries(t, f, reaches, subtags) ==
    \/ <<t, f>> \in tagged
    \/ subtags = "Include" /\ \E c \in Tag : reaches[t, c] /\ <<c, f>> \in tagged

\* Every word that is neither "!" nor a kind is looked for, up to a delimiter left
\* open, and what is in front of one word does not carry over to the next, whatever
\* prefixes are repeated or left hanging (lex_one_token).
EveryWordCounts ==
    LET upTo == IF \E i \in DOMAIN query : query[i].is = "open"
                THEN SelectInSeq(query, LAMBDA word : word.is = "open") - 1 ELSE Len(query)
        sought == SelectSeq(SubSeq(query, 1, upTo), LAMBDA word : word.is = "payload")
        tokens == LexQuery(query)
    IN  /\ Len(tokens) = Len(sought)
        /\ \A i \in DOMAIN tokens : tokens[i].text = sought[i].text
        /\ \A i \in 2 .. upTo :
               (query[i].is = "payload" /\ query[i - 1].is = "payload")
               => \E token \in Range(tokens) : /\ token.text = query[i].text
                                               /\ ~token.negated /\ token.kind = "any"

\* A search lists exactly the rows of which every word is true: a file carries a
\* tag when the tag, or with subtags one it reaches, is on it; a tag is a subtag
\* of one from which it is reached through tags not deleted.  So a word narrows
\* the answer however the terms are ordered, joined and evaluated
\* (file_ids_for_query and tag_ids_for_query's seeds and passes).
SearchIsConjunction ==
    query # <<>> =>
        /\ EveryWordCounts
        /\ \A subtags, deleted \in Rule :
            LET terms == ParseQuery(query, deleted)
                carrying == Reaches(under, subtags)
                below == Reaches({<<t, c>> \in under : tagRow[c] # "deleted"}, subtags)
                Of(x, row) == row[x] = IF deleted = "Include" THEN "deleted" ELSE "live"
                FileIs(f, term) ==
                    \/ term.is \in {"/n", "/l", "any", "/e"} /\ Path[f] \in term.hits
                    \/ term.is \in {"FileIdMatches", "any", "/e"} /\ f \in term.files
                    \/ /\ term.is \in {"HasTag", "any"}
                       /\ \E t \in term.tags : Carries(t, f, carrying, subtags)
                TagIs(t, term) ==
                    \/ term.is \in {"/n", "any", "/e"} /\ TagName[t] \in term.hits
                    \/ term.is \in {"any", "/e"} /\ t \in term.tags
                    \/ term.is \in {"HasTag", "any"} /\ \E p \in term.tags : below[p, t]
            IN  /\ SearchFiles(query, subtags, deleted) =
                       {f \in File : Of(f, fileRow) /\ \A term \in terms : FileIs(f, term) # term.negated}
                /\ SearchTags(query, subtags, deleted) =
                       {t \in Tag : /\ Of(t, tagRow)
                                    /\ \A term \in terms : /\ term.is \notin {"/l", "FileIdMatches"}
                                                           /\ TagIs(t, term) # term.negated}

\* While no tag is deleted, the files found with the id of a tag are those that
\* list the tag, and a tag's subtags those that list it above them: the walk down
\* from a tag and the walks up from a file agree, over circles and tags whose
\* definition has not arrived.
TagsAndSearchAgree ==
    (query = <<>> /\ \A t \in Tag : ~KnownDeleted(t)) =>
        \A subtags \in Rule, t \in Tag :
            /\ tagRow[t] = "live" =>
                   LET id == [hits |-> {}, exact |-> NotDigits, digits |-> t, regex |-> FALSE]
                       found == FileIdsForQuery(
                                    {Term([kind |-> "/T", text |-> id, negated |-> FALSE], "Exclude")},
                                    subtags, "Exclude")
                   IN  found = {f \in File : t \in TagIdsForFile(f, subtags)}
            /\ SubtagIdsForTag(t, subtags) = {c \in Tag : t \in TagIdsForSubtag(c, subtags)}

\* A short id typed back names the file or tag it was shown for, and one digit
\* less names it no longer: in a listing of the rows not deleted, and in one of
\* all of them (short_id.rs looks at the neighbours in their order alone).
ShortIdsTell ==
    query = <<>> =>
        \A deleted \in Rule :
            LET typed(x, n) == [hits |-> {}, exact |-> NotDigits, digits |-> SubSeq(x, 1, n), regex |-> FALSE]
                fileLength(f) == ShortIdLength(FileRows(deleted), f)
                tagLength(t) == ShortIdLength(TagRows(deleted), t)
            IN  /\ \A f \in FileRows(deleted) :
                       /\ ResolveFile(typed(f, fileLength(f)), deleted) = {f}
                       /\ fileLength(f) > 1 =>
                              ResolveFile(typed(f, fileLength(f) - 1), deleted) = {AmbiguousId}
                /\ \A t \in TagRows(deleted) :
                       /\ ResolveTag(typed(t, tagLength(t)), deleted) = {t}
                       /\ tagLength(t) > 1 =>
                              ResolveTag(typed(t, tagLength(t) - 1), deleted) = {AmbiguousId}
=============================================================================
