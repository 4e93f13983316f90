---------------------------- MODULE SearchIndex ----------------------------
(* The search labs (02/09 and C08): the manual inverted index with positions    *)
(* and its phrase query, the Elasticsearch index whose documents are searched   *)
(* only after a refresh, the pages read with search_after, and the fusion of    *)
(* two rankings.  A text is the sequence of its tokens.                         *)
EXTENDS Integers, Sequences, FiniteSets, SequencesExt

CONSTANTS
  Texts,        \* the corpus: document id -> its text; the ids are numbers
  Rating,       \* document id -> its rating
  QueryTerm,    \* the term of the query that is read page by page
  PageSize,     \* size
  RankConstant  \* k of the rank fusion

VARIABLES
  positions,    \* the manual index: document -> term -> the positions of the term
  buffered,     \* documents indexed into Elasticsearch and not refreshed
  searchable,   \* documents a search sees
  pages,        \* the ids of the pages read so far, in order
  reading,      \* whether a reader is paging
  firstView     \* what was searchable when the first page was read

vars == <<positions, buffered, searchable, pages, reading, firstView>>

Corpus == DOMAIN Texts

NewInvertedIndex == <<>>

Init ==
  /\ positions = NewInvertedIndex
  /\ buffered = {} /\ searchable = {}
  /\ pages = <<>> /\ reading = FALSE /\ firstView = {}

\* InvertedIndex.add_document.
AddDocument(d) ==
  /\ d \notin DOMAIN positions
  /\ positions' =
       [e \in DOMAIN positions \cup {d} |->
          IF e = d
          THEN [t \in ToSet(Texts[d]) |-> {p \in DOMAIN Texts[d] : Texts[d][p] = t}]
          ELSE positions[e]]
  /\ UNCHANGED <<buffered, searchable, pages, reading, firstView>>

At(t, d) == IF t \in DOMAIN positions[d] THEN positions[d][t] ELSE {}

\* The posting list of C08: the documents of a term with the term's frequency.
Postings(t) ==
  {<<d, Cardinality(At(t, d))>> : d \in {e \in DOMAIN positions : t \in DOMAIN positions[e]}}

\* search: the union of the posting lists.
Search(query) == {p[1] : p \in UNION {Postings(query[i]) : i \in DOMAIN query}}

\* Mutation: the documents with every term, wherever it is.
PhraseSearchAnywhere(phrase) ==
  {d \in DOMAIN positions : \A i \in DOMAIN phrase : At(phrase[i], d) # {}}

\* phrase_search: the candidates have every term; the offset-th term has to
\* stand offset places after some place of the first.
PhraseSearch(phrase) ==
  {d \in DOMAIN positions :
     /\ \A i \in DOMAIN phrase : At(phrase[i], d) # {}
     /\ \E start \in At(phrase[1], d) :
          \A offset \in 1..(Len(phrase) - 1) : start + offset \in At(phrase[offset + 1], d)}

\* es.index and helpers.bulk: acknowledged, not searchable yet.
IndexDocument(d) ==
  /\ d \notin buffered \cup searchable
  /\ buffered' = buffered \cup {d}
  /\ UNCHANGED <<positions, searchable, pages, reading, firstView>>

\* indices.refresh, or the refresh interval.
Refresh ==
  /\ buffered # {}
  /\ searchable' = searchable \cup buffered
  /\ buffered' = {}
  /\ UNCHANGED <<positions, pages, reading, firstView>>

Matches == {d \in searchable : QueryTerm \in ToSet(Texts[d])}

\* sort: rating descending, then _id.
Before(d, e) == Rating[d] > Rating[e] \/ (Rating[d] = Rating[e] /\ d < e)
Sorted(docs) == SetToSortSeq(docs, Before)
First(n, s) == SubSeq(s, 1, IF Len(s) < n THEN Len(s) ELSE n)

FirstPage ==
  /\ ~reading /\ Matches # {}
  /\ pages' = First(PageSize, Sorted(Matches))
  /\ reading' = TRUE
  /\ firstView' = Matches
  /\ UNCHANGED <<positions, buffered, searchable>>

\* Mutation: the cursor is the rating alone, without the tie-breaker.
AfterRating(last) == {d \in Matches : Rating[d] < Rating[last]}

\* search_after: what sorts after the last hit of the last page.
After(last) == {d \in Matches : Before(last, d)}

NextPage ==
  /\ reading
  /\ LET rest == After(pages[Len(pages)])
     IN IF rest # {}
        THEN /\ pages' = pages \o First(PageSize, Sorted(rest))
             /\ UNCHANGED <<reading, firstView>>
        ELSE /\ pages' = <<>> /\ reading' = FALSE /\ firstView' = {}
  /\ UNCHANGED <<positions, buffered, searchable>>

\* from + size pagination.
FromSize(from, docs) == First(PageSize, SubSeq(Sorted(docs), from + 1, Cardinality(docs)))

\* What is indexed waits in the buffer until a refresh makes it searchable.
RefreshCycle == Refresh \/ \E d \in Corpus : IndexDocument(d)

Next ==
  \/ \E d \in Corpus : AddDocument(d)
  \/ RefreshCycle
  \/ FirstPage
  \/ NextPage

Spec == Init /\ [][Next]_vars

-------------------------------------------------------------------------------
(* Reciprocal rank fusion.  A score is a fraction <<numerator, denominator>>.   *)
\* Mutation: the ranks count without the smoothing constant.
RrfScoreBare(rank) == <<1, rank>>

RrfScore(rank) == <<1, RankConstant + rank>>

Plus(x, y) == <<x[1] * y[2] + y[1] * x[2], x[2] * y[2]>>
Greater(x, y) == x[1] * y[2] > y[1] * x[2]

RankOf(ranking, d) == CHOOSE r \in DOMAIN ranking : ranking[r] = d
ScoreIn(ranking, d) ==
  IF d \in ToSet(ranking) THEN RrfScore(RankOf(ranking, d)) ELSE <<0, 1>>
FusedScore(bm25, knn, d) == Plus(ScoreIn(bm25, d), ScoreIn(knn, d))

Rankings == UNION {{s \in [1..n -> Corpus] : Cardinality(ToSet(s)) = n} : n \in 0..2}

\* A document both retrievers return is above every document only one returns,
\* and one that is ahead in both rankings stays ahead.
FusionIsFair ==
  \A bm25, knn \in Rankings :
    LET both == ToSet(bm25) \cap ToSet(knn)
        one == (ToSet(bm25) \cup ToSet(knn)) \ both
    IN /\ \A d \in both, e \in one : Greater(FusedScore(bm25, knn, d), FusedScore(bm25, knn, e))
       /\ \A d, e \in both :
            RankOf(bm25, d) < RankOf(bm25, e) /\ RankOf(knn, d) < RankOf(knn, e)
              => Greater(FusedScore(bm25, knn, d), FusedScore(bm25, knn, e))

-------------------------------------------------------------------------------
TypeOK ==
  /\ DOMAIN positions \subseteq Corpus
  /\ buffered \cap searchable = {}
  /\ ToSet(pages) \subseteq searchable

Terms == UNION {ToSet(Texts[d]) : d \in Corpus}
Phrases == UNION {[1..n -> Terms] : n \in 1..2}
HasPhrase(text, phrase) ==
  \E i \in 0..(Len(text) - Len(phrase)) : SubSeq(text, i + 1, i + Len(phrase)) = phrase

\* The positions answer a phrase query exactly: the documents whose text holds
\* the phrase; the term query finds those with one of its terms.
PhraseSearchIsExact ==
  \A phrase \in Phrases :
    /\ PhraseSearch(phrase) = {d \in DOMAIN positions : HasPhrase(Texts[d], phrase)}
    /\ Search(phrase) = {d \in DOMAIN positions : ToSet(Texts[d]) \cap ToSet(phrase) # {}}

\* However the index is refreshed between two pages, the pages repeat no document
\* and skip none that was searchable when the reading began; with no refresh
\* they are the pages from + size would have read.
PagesAreComplete ==
  reading =>
    /\ Cardinality(ToSet(pages)) = Len(pages)
    /\ \A d \in firstView : d \in ToSet(pages) \/ Before(pages[Len(pages)], d)
    /\ firstView = Matches => First(PageSize, pages) = FromSize(0, firstView)

SearchIsExact == PhraseSearchIsExact /\ PagesAreComplete

=============================================================================
