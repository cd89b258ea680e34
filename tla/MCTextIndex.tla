---------------------------- MODULE MCTextIndex -----------------------------
(* Two documents, five records: a text that is all stopwords, a word twice *)
(* around a stopword, two words one edit apart, an inflected word, and a   *)
(* facet too long for its length field.                                    *)
EXTENDS TextIndex

cat  == <<1, 2, 3>>
cats == <<1, 2, 3, 4>>      \* stems to cat
car  == <<1, 2, 5>>         \* one substitution from cat
art  == <<2, 5, 3>>
the  == <<3>>

MCStem == [w \in {cat, cats, car, art, the} |-> IF w = cats THEN cat ELSE w]
MCStopWords == {the}

Facet(n) == [f \in {"lang"} |-> n]
NoFacets == [f \in {} |-> 0]

MCRecords ==
    { [text |-> <<the>>, facets |-> NoFacets],
      [text |-> <<cat, the, cats>>, facets |-> NoFacets],
      [text |-> <<cat, car>>, facets |-> Facet(1)],
      [text |-> <<the, art>>, facets |-> Facet(2)],
      [text |-> <<car>>, facets |-> Facet(5)] }

MCQueries == { <<cats>>, <<the, cat, cat>>, <<art, car>>, <<the>> }
MCFilters == { {}, {<<"lang", 1>>} }
=============================================================================
