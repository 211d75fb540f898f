---------------------------- MODULE VectorSearch ----------------------------
(***************************************************************************)
(* vector_search over the collections: nearest embeddings, joined with the *)
(* documents, filtered, perhaps reranked, cut to top_k and to max_bytes.   *)
(***************************************************************************)
EXTENDS VectorCollections, Integers, FiniteSetsExt, SequencesExt

CONSTANTS
    Queries,        \* texts that are searched for
    Distance,       \* of a query's embedding and an embedding
    Score,          \* the reranker's, of a query and a document's text
    MaxTopK,        \* SQLITE_MAX_VECTOR_TOP_K
    MaxFetchK,      \* SQLITE_MAX_RERANK_FETCH_K
    FilterFactor,   \* 10 in the code,
    FilterFloor,    \* 100 in the code: how many are fetched for a filter
    NoAnswer

(* Distances and scores are floats, compared as such; that they are never  *)
(* NaN is assumed, and only their order matters.                           *)
ASSUME SearchAssumption ==
    /\ Queries \subseteq Texts
    /\ \A q, e \in Embeddings : Distance[q][e] \in Int
    /\ \A q \in Queries, t \in Texts : Score[q][t] \in Int
    /\ MaxTopK \in Nat /\ MaxFetchK \in Nat
    /\ FilterFactor \in Nat \ {0} /\ FilterFloor \in Nat

(* A reranker may be absent, fail, or return a score per candidate.        *)
Rerankers == {"none", "fails", "scores"}

Searches == [ collection : Names, query : Queries,
              top_k : 0 .. MaxTopK + 1, fetch_k : 0 .. MaxFetchK + 1,
              filter : Tags \union {NoTag},   \* NoTag: no filter
              rerank : BOOLEAN, reranker : Rerankers ]

VARIABLES answer   \* to the search that has just been made

vars == << vectorVars, answer >>

Answers == [ search : Searches, status : {"ok", "error"}, matches : Seq(Rows),
             truncated : BOOLEAN, reranked : BOOLEAN ]

SearchTypeOK == TypeOK /\ (answer = NoAnswer \/ answer \in Answers)

DocsOf(s) == docs[TableOf[s.collection]]
VectorsOf(s) == vecs[TableOf[s.collection]].rows

DistanceTo(s, row) ==
    Distance[[model |-> runtime.model, text |-> s.query]][VectorsOf(s)[row]]

(* How many embeddings sqlite-vec is asked for: the filter comes after it. *)
TargetK(s) == IF s.rerank THEN s.fetch_k ELSE s.top_k

(* Deliberately wrong: nothing is added for the filter.                    *)
CandidateLimitUnfiltered(s) == TargetK(s)

CandidateLimit(s) ==
    IF s.filter = NoTag THEN TargetK(s) ELSE Max({TargetK(s) * FilterFactor, FilterFloor})

(* The answers sqlite-vec may give: the nearest embeddings in order, with  *)
(* ties in any order.                                                      *)
Nearest(s, k) ==
    LET stored == {row \in Rows : VectorsOf(s)[row] # NoVector}
    IN {near \in [1 .. Min({k, Cardinality(stored)}) -> stored] :
          /\ IsInjective(near)
          /\ \A i, j \in DOMAIN near :
               i < j => DistanceTo(s, near[i]) <= DistanceTo(s, near[j])
          /\ \A row \in stored \ Range(near), i \in DOMAIN near :
               DistanceTo(s, near[i]) <= DistanceTo(s, row)}

(* An exact match of all its entries; here of the one there is.            *)
Satisfies(row, s) == s.filter = NoTag \/ DocsOf(s)[row].metadata = s.filter

(* The join drops embeddings without a document.                           *)
IsCandidate(row, s) == DocsOf(s)[row] # NoDoc /\ Satisfies(row, s)

Wanted(s) == {row \in Rows : IsCandidate(row, s)}

(* The rows of near that are wanted, in their order.                       *)
Joined(near, wanted) ==
    LET joined[i \in 0 .. Len(near)] ==
          IF i = 0 THEN << >>
          ELSE IF near[i] \in wanted THEN Append(joined[i - 1], near[i])
          ELSE joined[i - 1]
    IN joined[Len(near)]

Candidates(s) == {Joined(near, Wanted(s)) : near \in Nearest(s, CandidateLimit(s))}

FirstOf(k, seq) == SubSeq(seq, 1, Min({k, Len(seq)}))

ScoreOf(s, row) == Score[s.query][DocsOf(s)[row].text]

(* A stable sort by falling score.                                         *)
Falling(score) ==
    CHOOSE order \in [DOMAIN score -> DOMAIN score] :
        \A i, j \in DOMAIN score : i < j =>
            \/ score[order[i]] > score[order[j]]
            \/ score[order[i]] = score[order[j]] /\ order[i] < order[j]

ByScore(s, rows) ==
    LET order == Falling([i \in DOMAIN rows |-> ScoreOf(s, rows[i])])
    IN [i \in DOMAIN rows |-> rows[order[i]]]

(* With nothing to rerank no reranker is run, and none can fail.           *)
Reranks(s, fetched) ==
    /\ s.rerank /\ s.reranker # "none"
    /\ s.reranker = "fails" => fetched = << >>

Fetched(s, candidates) == FirstOf(TargetK(s), candidates)

(* Deliberately wrong: only the matches to be returned are reranked.       *)
SelectedThenRanked(s, fetched) ==
    LET first == FirstOf(s.top_k, fetched)
    IN IF Reranks(s, fetched) THEN ByScore(s, first) ELSE first

(* Deliberately wrong: what has no score is dropped.                       *)
SelectedWithScores(s, fetched) ==
    IF Reranks(s, fetched) THEN FirstOf(s.top_k, ByScore(s, fetched))
    ELSE IF s.rerank THEN << >> ELSE FirstOf(s.top_k, fetched)

(* Without scores the order of distances stands.                           *)
Selected(s, fetched) ==
    FirstOf(s.top_k, IF Reranks(s, fetched) THEN ByScore(s, fetched) ELSE fetched)

(* The errors, before and after the embedding of the query.                *)
Unacceptable(s) ==
    \/ ~Known(s.collection)
    \/ runtime.model = NoModel
    \/ DimensionOf[runtime.model] # runtime.dimension
    \/ runtime.dimension # collections[s.collection]
    \/ runtime.dimension # vecs[TableOf[s.collection]].dimension
    \/ s.top_k \notin 1 .. MaxTopK
    \/ s.fetch_k \notin 1 .. MaxFetchK
    \/ s.rerank /\ s.fetch_k < s.top_k

ErrorAnswer(s) ==
    answer' = [ search |-> s, status |-> "error", matches |-> << >>,
                truncated |-> FALSE, reranked |-> FALSE ]

(* As many matches are kept as fit max_bytes; if not even one fits, or not *)
(* the response that was built again at the end, the call fails.           *)
SearchAnswer(s) ==
    \E candidates \in Candidates(s) :
        LET fetched == Fetched(s, candidates)
            selected == Selected(s, fetched)
        IN \E fit \in Min({1, Len(selected)}) .. Len(selected) :
             answer' = [ search |-> s, status |-> "ok",
                         matches |-> FirstOf(fit, selected),
                         truncated |-> Len(candidates) > s.top_k \/ fit < Len(selected),
                         reranked |-> Reranks(s, fetched) ]

Search(s) ==
    /\ upsert = NoUpsert /\ answer = NoAnswer
    /\ ErrorAnswer(s) \/ (~Unacceptable(s) /\ SearchAnswer(s))
    /\ UNCHANGED vectorVars

Respond ==
    /\ answer # NoAnswer /\ answer' = NoAnswer
    /\ UNCHANGED vectorVars

SearchInit == Init /\ answer = NoAnswer

SearchNext ==
    \/ answer = NoAnswer /\ Next /\ UNCHANGED answer
    \/ \E s \in Searches : Search(s)
    \/ Respond

SearchSpec == SearchInit /\ [][SearchNext]_vars

-----------------------------------------------------------------------------

Answered == answer # NoAnswer /\ answer.status = "ok"

(* Embeddings at most as far from the query as the one of row, its own and *)
(* those without document included.                                        *)
AtLeastAsNear(s, row) ==
    {r \in Rows : VectorsOf(s)[r] # NoVector /\ DistanceTo(s, r) <= DistanceTo(s, row)}

(* A document that a search could have returned is missing from an answer  *)
(* only if the answer is full or says it is truncated, or if sqlite-vec    *)
(* was asked for fewer embeddings than are near: others that the filter    *)
(* rejects, or whose documents were deleted, have taken its place.         *)
MissesAreExplained ==
    Answered =>
        LET s == answer.search
        IN \A row \in Wanted(s) \ Range(answer.matches) :
              \/ answer.truncated
              \/ Len(answer.matches) = s.top_k
              \/ Cardinality(AtLeastAsNear(s, row)) >
                   IF s.filter = NoTag THEN TargetK(s) ELSE FilterFloor

(* The matches come best first, and none that is left out among those      *)
(* fetched is better: by distance, or by score when reranked.              *)
BestMatchesFirst ==
    Answered =>
        LET s == answer.search
            m == answer.matches
            Better(a, b) == IF answer.reranked THEN ScoreOf(s, a) > ScoreOf(s, b)
                            ELSE DistanceTo(s, a) < DistanceTo(s, b)
            fetched == {row \in Wanted(s) :
                          Cardinality(AtLeastAsNear(s, row)) <= TargetK(s)}
        IN /\ IsInjective(m)
           /\ Range(m) \subseteq Wanted(s)
           /\ \A i, j \in DOMAIN m : i < j => ~Better(m[j], m[i])
           /\ \A row \in fetched \ Range(m), i \in DOMAIN m : ~Better(row, m[i])

(* A search whose reranking fails returns at least what it had returned    *)
(* without, in the same order, unless max_bytes cuts it.                   *)
FallbackLosesNothing ==
    Answered /\ answer.search.rerank /\ ~answer.reranked =>
        LET off == [answer.search EXCEPT !.rerank = FALSE]
        IN \E candidates \in Candidates(off) :
              LET m == FirstOf(off.top_k, candidates)
              IN \/ IsPrefix(m, answer.matches)
                 \/ answer.truncated /\ IsPrefix(answer.matches, m)
=============================================================================
