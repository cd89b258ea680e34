------------------------------ MODULE TextIndex -----------------------------
(***************************************************************************)
(* The full-text index of one namespace: the records the engine stores,    *)
(* the cached inverted index that is rebuilt from them on a cold start,    *)
(* the Bloom filter that lets index_document skip remove_document, the     *)
(* sidecar that persist writes, and search over the cached index.          *)
(*                                                                         *)
(* A word is a sequence of letters and a text a sequence of words; a       *)
(* position is the index of a word where the code has the index of its     *)
(* first character.  BM25 is not computed: search returns, per document,   *)
(* the numbers the score is computed from, before the top-k cut.  A facet  *)
(* value is its length, and LengthMod stands for the 2^16 that the length  *)
(* fields of facets, terms and position lists wrap at; the keys of         *)
(* documents and facets, and the facets of a record, are fewer than that.  *)
(* No document has the reserved key __index__.                             *)
(*                                                                         *)
(* A definition placed right before another one with the same parameters   *)
(* is a variant with a plausible bug; no action uses it.                   *)
(***************************************************************************)
EXTENDS Integers, Sequences, FiniteSets, SequencesExt, SeqRetain

CONSTANTS
    Docs,             \* document keys
    Records,          \* the records clients index: [text, facets]
    Queries,          \* the queries asked, each a non-empty sequence of words
    Filters,          \* the facet filters asked, each a set of <<field, value>>
    StopWords,        \* the words the tokenizer drops
    Stem,             \* Stem[w]: the stemmer
    Absent,           \* "no record", "no sidecar", "no cached index"
    InitialCapacity,  \* INITIAL_CAPACITY of the Bloom filter
    LengthMod,        \* lengths in records and sidecars are written modulo this
    MaxWrites         \* bound: calls of index_document and delete_document

ASSUME TextAssumption ==
    /\ \A r \in Records : r.text \in Seq(DOMAIN Stem) /\ r = [text |-> r.text, facets |-> r.facets]
    /\ IsFiniteSet(Docs) /\ Absent \notin Records
    /\ InitialCapacity \in Nat \ {0} /\ LengthMod \in Nat \ {0} /\ MaxWrites \in Nat

\* A query is a text, and a term is a string.
ASSUME WordsAssumption ==
    /\ \A q \in Queries : q \in Seq(DOMAIN Stem)
    /\ \A w \in DOMAIN Stem : Stem[w] \in Seq(ToSet(Stem[w]))

VARIABLES
    store,      \* the namespace in the engine: key -> record or Absent
    sidecar,    \* what the engine holds under __index__
    index,      \* indices[ns], or Absent
    dirty,      \* ns \in dirty
    diverged,   \* auxiliary: a write since the index was loaded is in the index only
    miscounted, \* auxiliary: a document without tokens was replaced or deleted
    reloaded,   \* auxiliary: the index was rebuilt and not persisted since
    writes      \* auxiliary: bound

auxVars == <<diverged, miscounted, reloaded>>
vars == <<store, sidecar, index, dirty, auxVars, writes>>

-----------------------------------------------------------------------------
\* Tokens, edit distance, records.


Tokenize(text) ==
    LET all  == [i \in DOMAIN text |-> [term |-> Stem[text[i]], position |-> i]]
    IN  Retain(all, {i \in DOMAIN text : text[i] \notin StopWords})

TermsOf(tokens) == {tokens[i].term : i \in DOMAIN tokens}
Terms == {Stem[w] : w \in DOMAIN Stem}

LevenshteinNoSubstitution(a, b) ==
    LET row[i \in 0..Len(a)] ==
          IF i = 0 THEN [j \in 0..Len(b) |-> j]
          ELSE LET prev == row[i - 1]
                   curr[j \in 0..Len(b)] ==
                     IF j = 0 THEN i
                     ELSE Min({curr[j - 1] + 1, prev[j] + 1,
                               prev[j - 1] + (IF a[i] = b[j] THEN 0 ELSE 2)})
               IN  curr
    IN  row[Len(a)][Len(b)]

\* The two rows of the dynamic programme, for every i.
Levenshtein(a, b) ==
    LET row[i \in 0..Len(a)] ==
          IF i = 0 THEN [j \in 0..Len(b) |-> j]
          ELSE LET prev == row[i - 1]
                   curr[j \in 0..Len(b)] ==
                     IF j = 0 THEN i
                     ELSE Min({curr[j - 1] + 1, prev[j] + 1,
                               prev[j - 1] + (IF a[i] = b[j] THEN 0 ELSE 1)})
               IN  curr
    IN  row[Len(a)][Len(b)]

IsOneEditAway == [p \in Terms \X Terms |-> Levenshtein(p[1], p[2]) <= 1]

\* decode_text_record(encode_text_record(r)): the length of a facet's string
\* is written as a u16, and what follows the last facet read is ignored.
Decoded(r) == [r EXCEPT !.facets = [f \in DOMAIN r.facets |-> r.facets[f] % LengthMod]]

-----------------------------------------------------------------------------
\* The inverted index and its Bloom filter.

NewBloom(c) == [members |-> {}, count |-> 0, capacity |-> c]

EmptyIndex ==
    [postings |-> [t \in {} |-> <<>>], totalDocs |-> 0, totalDocLen |-> 0,
     bloom |-> NewBloom(InitialCapacity)]

PostingsOf(ix, t) == IF t \in DOMAIN ix.postings THEN ix.postings[t] ELSE <<>>
DocsOf(ps) == {ps[i].doc : i \in DOMAIN ps}
Indexed(ix) == UNION {DocsOf(ix.postings[t]) : t \in DOMAIN ix.postings}

BloomAdd(b, doc) ==
    [b EXCEPT !.members = @ \cup {doc}, !.count = @ + 1]

\* One insertion per posting, so a document counts once for each of its terms.
RebuildBloom(ix, c) ==
    [members |-> Indexed(ix),
     count |-> FoldFunction(LAMBDA ps, n : n + Len(ps), 0, ix.postings),
     capacity |-> Max({c, InitialCapacity})]

BloomInsertFresh(ix, doc) ==
    LET b == IF ix.bloom.count >= ix.bloom.capacity
             THEN NewBloom(2 * ix.bloom.capacity)
             ELSE ix.bloom
    IN  [ix EXCEPT !.bloom = BloomAdd(b, doc)]

BloomInsert(ix, doc) ==
    LET b == IF ix.bloom.count >= ix.bloom.capacity
             THEN RebuildBloom(ix, 2 * ix.bloom.capacity)
             ELSE ix.bloom
    IN  [ix EXCEPT !.bloom = BloomAdd(b, doc)]

OtherDocs(ps, doc) == Retain(ps, {i \in DOMAIN ps : ps[i].doc # doc})

RemoveDocumentKeepLen(ix, doc) ==
    LET kept == [t \in DOMAIN ix.postings |-> OtherDocs(ix.postings[t], doc)]
        found == doc \in Indexed(ix)
    IN  [ix EXCEPT
           !.postings = [t \in {u \in DOMAIN kept : kept[u] # <<>>} |-> kept[t]],
           !.totalDocs = IF found THEN @ - 1 ELSE @]

\* The counters are corrected by a posting of the document, if it has one.
RemoveDocument(ix, doc) ==
    LET kept == [t \in DOMAIN ix.postings |-> OtherDocs(ix.postings[t], doc)]
        found == UNION {{ix.postings[t][i].len : i \in {j \in DOMAIN ix.postings[t] :
                             ix.postings[t][j].doc = doc}} : t \in DOMAIN ix.postings}
    IN  [ix EXCEPT
           !.postings = [t \in {u \in DOMAIN kept : kept[u] # <<>>} |-> kept[t]],
           !.totalDocs = IF found # {} THEN @ - 1 ELSE @,
           !.totalDocLen = IF found # {} THEN @ - Max(found) ELSE @]

PostingOf(doc, tokens, facets, t) ==
    LET here == {i \in DOMAIN tokens : tokens[i].term = t}
    IN  [doc |-> doc, freq |-> Cardinality(here), len |-> Len(tokens), facets |-> facets,
         positions |-> {tokens[i].position : i \in here}]

AddDocument(ix, doc, tokens, facets) ==
    LET grown == BloomInsert(ix, doc)
        terms == TermsOf(tokens)
    IN  [grown EXCEPT
           !.postings = [t \in DOMAIN @ \cup terms |->
                           IF t \in terms
                           THEN Append(PostingsOf(ix, t), PostingOf(doc, tokens, facets, t))
                           ELSE @[t]],
           !.totalDocs = @ + 1,
           !.totalDocLen = @ + Len(tokens)]

AddStored(ix, s, d) ==
    IF s[d] = Absent THEN ix
    ELSE AddDocument(ix, d, Tokenize(Decoded(s[d]).text), Decoded(s[d]).facets)

\* One record of the namespace after the other.
RebuildFromEngine(s) ==
    LET docs == SetToSeq(Docs)
        after[n \in 0..Cardinality(Docs)] ==
          IF n = 0 THEN EmptyIndex ELSE AddStored(after[n - 1], s, docs[n])
    IN  after[Cardinality(Docs)]

Loaded == IF index = Absent THEN RebuildFromEngine(store) ELSE index

\* Every length the sidecar writes survives its u16.
Fits(ix) ==
    \A t \in DOMAIN ix.postings :
        /\ Len(t) < LengthMod
        /\ \A i \in DOMAIN ix.postings[t] :
             LET p == ix.postings[t][i]
             IN  /\ Cardinality(p.positions) < LengthMod
                 /\ \A f \in DOMAIN p.facets : p.facets[f] < LengthMod

\* All bytes of a value follow its length, so they are intact only when it fits.
\* The filter and the LSN stamp are not what makes a sidecar current.
Serialize(ix) ==
    [intact |-> Fits(ix), postings |-> ix.postings,
     totalDocs |-> ix.totalDocs, totalDocLen |-> ix.totalDocLen]

\* Past a length that wrapped the reader is out of step: CorruptData, or in the
\* rare case an index that is another one; Absent stands for both.
Deserialize(bytes) ==
    LET ix == [postings |-> bytes.postings, totalDocs |-> bytes.totalDocs,
               totalDocLen |-> bytes.totalDocLen, bloom |-> NewBloom(InitialCapacity)]
    IN  IF bytes.intact THEN [ix EXCEPT !.bloom = RebuildBloom(ix, ix.totalDocs)] ELSE Absent

-----------------------------------------------------------------------------
\* Search over a loaded index.

MatchesFacets(facets, filters) ==
    \A f \in filters : f[1] \in DOMAIN facets /\ facets[f[1]] = f[2]

ExpandTypoTerms(ix, terms) ==
    terms \cup {t \in DOMAIN ix.postings : \E q \in terms : t # q /\ IsOneEditAway[<<t, q>>]}

\* A query term is scored once for each time the query has it, a term that
\* is only near one of them once, at half the weight.
Hit(queried, t, ps, i) ==
    [term |-> t, times |-> Cardinality({k \in DOMAIN queried : queried[k].term = t}),
     docFreq |-> Len(ps), freq |-> ps[i].freq, len |-> ps[i].len]

ScoreIndex(ix, query, typo, filters) ==
    LET queried == Tokenize(query)
        exact == TermsOf(queried)
        terms == IF typo THEN ExpandTypoTerms(ix, exact) ELSE exact
        \* the postings that count, as <<term, position in its list>>
        hits  == {h \in UNION {{t} \X DOMAIN PostingsOf(ix, t) : t \in terms} :
                    MatchesFacets(PostingsOf(ix, h[1])[h[2]].facets, filters)}
    IN  [d \in {PostingsOf(ix, h[1])[h[2]].doc : h \in hits} |->
           {Hit(queried, h[1], PostingsOf(ix, h[1]), h[2]) :
              h \in {g \in hits : PostingsOf(ix, g[1])[g[2]].doc = d}}]

Search(ix, query, typo, filters) ==
    IF Tokenize(query) = <<>> \/ ix.totalDocs = 0
    THEN [d \in {} |-> {}]
    ELSE ScoreIndex(ix, query, typo, filters)

\* The words build_snippets marks in the stored text, by the first posting
\* of the document under each query term.
BuildSnippets(ix, doc, query) ==
    LET terms == TermsOf(Tokenize(query)) \cap DOMAIN ix.postings
        First(t) == Min({i \in DOMAIN ix.postings[t] : ix.postings[t][i].doc = doc})
        positions == UNION {ix.postings[t][First(t)].positions :
                              t \in {u \in terms : doc \in DocsOf(ix.postings[u])}}
    IN  IF store[doc] = Absent THEN {}
        ELSE {p \in positions : p <= Len(Decoded(store[doc]).text)}

-----------------------------------------------------------------------------
Init ==
    /\ store = [d \in Docs |-> Absent]
    /\ sidecar = Absent /\ index = Absent /\ dirty = FALSE
    /\ diverged = FALSE /\ miscounted = FALSE /\ reloaded = FALSE
    /\ writes = 0

Hollow(d) == store[d] # Absent /\ Tokenize(store[d].text) = <<>>

IndexOfNewSkipping(doc, tokens, facets, falsePositive) ==
    AddDocument(Loaded, doc, tokens, facets)

\* might_contain is TRUE for a member and may be TRUE for any other key.
IndexOfNew(doc, tokens, facets, falsePositive) ==
    LET seen == doc \in Loaded.bloom.members \/ falsePositive
    IN  AddDocument(IF seen THEN RemoveDocument(Loaded, doc) ELSE Loaded,
                    doc, tokens, facets)

\* The index is updated before the engine's put, which may fail.
index_document(doc, rec, falsePositive, ok) ==
    /\ writes < MaxWrites
    /\ index' = IndexOfNew(doc, Tokenize(rec.text), rec.facets, falsePositive)
    /\ dirty' = TRUE
    /\ store' = IF ok THEN [store EXCEPT ![doc] = rec] ELSE store
    /\ diverged' = ((index # Absent /\ diverged) \/ ~ok \/ Decoded(rec) # rec)
    /\ miscounted' = ((index # Absent /\ miscounted) \/ Hollow(doc))
    /\ reloaded' = (reloaded \/ index = Absent)
    /\ writes' = writes + 1
    /\ UNCHANGED sidecar

\* The last document out drops the cached index and deletes the sidecar;
\* sidecarOk and ok say whether the two deletes of the engine succeed.
delete_document(doc, sidecarOk, ok) ==
    LET left == RemoveDocument(Loaded, doc)
        empty == left.totalDocs = 0
        deleted == ok /\ (empty => sidecarOk)
    IN  /\ writes < MaxWrites
        /\ index' = IF empty THEN Absent ELSE left
        /\ dirty' = ~empty
        /\ sidecar' = IF empty /\ sidecarOk THEN Absent ELSE sidecar
        /\ store' = IF deleted THEN [store EXCEPT ![doc] = Absent] ELSE store
        /\ diverged' = (~empty /\ ((index # Absent /\ diverged) \/ ~deleted))
        /\ miscounted' = (~empty /\ ((index # Absent /\ miscounted) \/ Hollow(doc)))
        /\ reloaded' = (~empty /\ (reloaded \/ index = Absent))
        /\ writes' = writes + 1

\* search and its variants change state only by a cold start.
search ==
    /\ index = Absent
    /\ index' = Loaded
    /\ reloaded' = TRUE /\ diverged' = FALSE /\ miscounted' = FALSE
    /\ UNCHANGED <<store, sidecar, dirty, writes>>

persistClearing(written, ok) ==
    /\ dirty /\ index # Absent
    /\ ok => written
    /\ sidecar' = IF written THEN Serialize(index) ELSE sidecar
    /\ dirty' = FALSE /\ reloaded' = FALSE
    /\ UNCHANGED <<store, index, diverged, miscounted, writes>>

\* The sidecars of all dirty namespaces are put one after the other, and none of
\* these namespaces is clean unless every put succeeded: written is the outcome for
\* this one, ok for all of them.
persist(written, ok) ==
    /\ dirty /\ index # Absent
    /\ ok => written
    /\ sidecar' = IF written THEN Serialize(index) ELSE sidecar
    /\ IF ok THEN dirty' = FALSE /\ reloaded' = FALSE
             ELSE UNCHANGED <<dirty, reloaded>>
    /\ UNCHANGED <<store, index, diverged, miscounted, writes>>

\* A new process: a new TextIndex over what the engine recovers.
restart ==
    /\ index' = Absent /\ dirty' = FALSE
    /\ diverged' = FALSE /\ miscounted' = FALSE /\ reloaded' = FALSE
    /\ UNCHANGED <<store, sidecar, writes>>

Next ==
    \/ \E d \in Docs, r \in Records, fp \in BOOLEAN, ok \in BOOLEAN :
         index_document(d, r, fp, ok)
    \/ \E d \in Docs, sidecarOk \in BOOLEAN, ok \in BOOLEAN :
         delete_document(d, sidecarOk, ok)
    \/ search
    \/ \E written \in BOOLEAN, ok \in BOOLEAN : persist(written, ok)
    \/ restart

Spec == Init /\ [][Next]_vars

-----------------------------------------------------------------------------
Stored == {d \in Docs : store[d] # Absent}
TokensOf(d) == Tokenize(Decoded(store[d]).text)
Holding(t) == {d \in Stored : t \in TermsOf(TokensOf(d))}

\* The postings of every term are, in some order and each once, those of the
\* stored documents that hold it, however often documents were replaced,
\* deleted or skipped by the Bloom filter, unless an engine write failed
\* after the index was changed (or a facet did not survive encoding).
IndexMatchesStore ==
    index # Absent /\ ~diverged =>
        /\ DOMAIN index.postings = UNION {TermsOf(TokensOf(d)) : d \in Stored}
        /\ \A t \in DOMAIN index.postings :
             /\ Len(index.postings[t]) = Cardinality(Holding(t))
             /\ {index.postings[t][i] : i \in DOMAIN index.postings[t]} =
                  {PostingOf(d, TokensOf(d), Decoded(store[d]).facets, t) : d \in Holding(t)}

\* The Bloom filter has no false negative that matters: index_document skips
\* remove_document only for documents without postings, whatever growth and
\* rebuilding happened, and after a failed write too.
BloomCoversPostings == index # Absent => Indexed(index) \subseteq index.bloom.members

\* BM25's corpus statistics are those of the stored documents: the total
\* length always, the number of documents unless one without tokens was
\* replaced or deleted, and never too few.
CountsMatch ==
    index # Absent /\ ~diverged =>
        /\ index.totalDocLen = Cardinality(UNION {{d} \X DOMAIN TokensOf(d) : d \in Stored})
        /\ index.totalDocs >= Cardinality(Stored)
        /\ ~miscounted => index.totalDocs = Cardinality(Stored)

\* One insertion, deletion or substitution apart, or equal.
OneEditApart(a, b) ==
    \/ a = b
    \/ \E i \in DOMAIN a : RemoveAt(a, i) = b
    \/ \E i \in DOMAIN b : RemoveAt(b, i) = a
    \/ Len(a) = Len(b) /\ \E i \in DOMAIN a : [a EXCEPT ![i] = b[i]] = b

NearTerm == [p \in Terms \X Terms |-> OneEditApart(p[1], p[2])]

Near(t, words, typo) ==
    \E w \in words : IF typo THEN NearTerm[<<t, w>>] ELSE t = w

\* The words of a stored text that stem to a query term and are no stopwords.
Matches(d, q) ==
    LET text == Decoded(store[d]).text
    IN  {p \in DOMAIN text : text[p] \notin StopWords /\ Stem[text[p]] \in TermsOf(Tokenize(q))}

\* A search finds exactly the stored documents that pass the filters and hold
\* a query term, or a term one edit away when typos are tolerated, scores
\* each by its term frequencies, its length and the document frequencies of
\* the stored collection, and its snippets mark the matching words and no other.
SearchMatchesStore ==
    index # Absent /\ ~diverged =>
        \A q \in Queries, typo \in BOOLEAN, fs \in Filters :
            LET words == {Stem[q[i]] : i \in {j \in DOMAIN q : q[j] \notin StopWords}}
                Hits(d) == {t \in TermsOf(TokensOf(d)) : Near(t, words, typo)}
                found == Search(index, q, typo, fs)
            IN  /\ DOMAIN found =
                     {d \in Stored : Hits(d) # {} /\ MatchesFacets(Decoded(store[d]).facets, fs)}
                /\ \A d \in DOMAIN found : BuildSnippets(index, d, q) = Matches(d, q)
                /\ \A d \in DOMAIN found :
                     found[d] =
                       {[term |-> t, times |-> Cardinality({j \in DOMAIN q : q[j] \notin StopWords /\ Stem[q[j]] = t}),
                         docFreq |-> Cardinality(Holding(t)),
                         freq |-> Cardinality({i \in DOMAIN TokensOf(d) : TokensOf(d)[i].term = t}),
                         len |-> Len(TokensOf(d))] : t \in Hits(d)}

\* A namespace that is not dirty has the sidecar of its cached index, from
\* the first persist of this process on, whichever puts of a persist over
\* several namespaces failed.  Loading it gives the same index and a Bloom filter
\* that covers it, unless a facet, term or position list is too long for its field.
SidecarCurrent ==
    index # Absent /\ sidecar # Absent /\ ~dirty /\ ~reloaded /\ Fits(index) =>
        LET loaded == Deserialize(sidecar)
        IN  /\ sidecar.intact
            /\ Serialize(loaded) = Serialize(index)
            /\ Indexed(index) \subseteq loaded.bloom.members
=============================================================================
