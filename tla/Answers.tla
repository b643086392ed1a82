------------------------------- MODULE Answers -------------------------------
(* What a genxng search makes of the backend's payload: the query it sends (query_rewrite.py), the
   order of the results (rerank.py), the block that is served (the normalizers of
   providers/searxng.py) and the verdict on it (quality.py), as SearXNGProvider.search composes them.

   A word is a starter, another stopword or an informative one; case and punctuation other than a
   closing question mark are left out. A result is known by the query words in its title and in its
   text, the engines it came from, its normalized URL, and whether it has an image. Weights are kept
   in tenths, logarithms and scores in thousandths. *)
EXTENDS Integers, Sequences, FiniteSets, FiniteSetsExt

CONSTANTS
    Starters, Stopwords,            \* QUESTION_STARTERS, and the STOPWORDS that are no starters
    Queries,                        \* [words, mark]: the words and whether "?" closes them
    Verticals, Nums,
    Engines,                        \* configured for the category
    Results, NoPage,                \* what the backend may find
    MaxResults,                     \* bound
    Ln,                             \* Ln[<<n, m>>]: ln((n + 1) / (m + 1))
    CoverageWeight, SufficiencyWeight, DuplicateWeight,
    DegradedBelow, CoverageFloor

ASSUME WordAssumption ==
    /\ Starters \cap Stopwords = {}
    /\ \A q \in Queries :
          Len(q.words) \in Nat /\ q.words = [i \in 1..Len(q.words) |-> q.words[i]]
ASSUME NumAssumption == Nums \subseteq Nat \ {0}
ASSUME EngineAssumption == IsFiniteSet(Engines)
ASSUME LnAssumption ==
    MaxResults \in Nat /\ \A n \in 1..MaxResults : \A m \in 0..n : Ln[<<n, m>>] \in Nat
ASSUME WeightAssumption ==
    /\ CoverageWeight \in Nat /\ SufficiencyWeight \in Nat /\ DuplicateWeight \in Nat
    /\ DegradedBelow \in Nat \ {0} /\ CoverageFloor \in Nat

(* As the settings stand, coverage alone does not lift an answer above the threshold: its weight is no
   more than the threshold, and a single engine out of so few is more than rounding makes up for. *)
ASSUME ThresholdAssumption ==
    100 * CoverageWeight <= DegradedBelow /\ Cardinality(Engines) < 200 * CoverageWeight

VARIABLES
    query, vertical, num,           \* the request
    selected,                       \* the engines asked: healthy_for, or all when it is None
    results, unresponsive,          \* the payload
    stage,
    block,                          \* the served block: results with their positions
    meta                            \* searchMeta

request == <<query, vertical, num>>
payload == <<selected, results, unresponsive>>
vars == <<request, payload, stage, block, meta>>

-----------------------------------------------------------------------------
(* The members of S in an order R: each comes after as many as are ahead of it. *)
InOrder(S, R) ==
    [k \in 1..Cardinality(S) |->
        CHOOSE i \in S : Cardinality({j \in S : <<j, i>> \in R}) = k - 1]

(* The entries of a sequence that stand at certain positions, as a sequence. *)
Earlier(S) == {ij \in S \X S : ij[1] < ij[2]}
Only(seq, S) == LET at == InOrder(S, Earlier(S)) IN [k \in DOMAIN at |-> seq[at[k]]]

-----------------------------------------------------------------------------
(* Rewriting: a question of three words or more loses its starters and stopwords, unless too little or
   everything is left. *)
Word(i) == query.words[i]
LooksLikeQuestion == Word(1) \in Starters \/ query.mark
KeepsInner(word) == word \notin Starters
Keeps(word) == word \notin Starters \cup Stopwords
Kept == Only(query.words, {i \in DOMAIN query.words : Keeps(Word(i))})

Rewrites(kept) ==
    /\ Len(query.words) >= 3 /\ LooksLikeQuestion
    /\ Len(kept) >= 2 /\ kept # query.words

Sent == LET kept == Kept IN IF Rewrites(kept) THEN kept ELSE query.words

-----------------------------------------------------------------------------
(* Re-ranking *)
Terms == {Sent[i] : i \in DOMAIN Sent}
Mentions(r) == r.title \cup r.text

IdfUnsmoothed(n, m) == Ln[<<n, m>>]
Idf(n, m) == Ln[<<n, m>>] + 100
Matching(t, found) == Cardinality({i \in DOMAIN found : t \in Mentions(found[i])})

(* A term in the title counts one and a half times its weight; doubled, to stay with integers. *)
Weight(t, r, found) ==
    IF t \notin Mentions(r) THEN 0
    ELSE Idf(Len(found), Matching(t, found)) * (IF t \in r.title THEN 3 ELSE 2)
Score(r, found) ==
    LET weights == [t \in Terms |-> Weight(t, r, found)]
    IN MapThenSumSet(LAMBDA t : weights[t], DOMAIN weights)

TiesReversed(a, b, i, j) == a > b \/ (a = b /\ i > j)
Ahead(a, b, i, j) == a > b \/ (a = b /\ i < j)

(* The permutation that sorting by score gives. *)
ByScore(found) ==
    LET score == [i \in DOMAIN found |-> Score(found[i], found)]
    IN {ij \in (DOMAIN found) \X (DOMAIN found) :
          Ahead(score[ij[1]], score[ij[2]], ij[1], ij[2])}
Ranked(found) ==
    LET order == InOrder(DOMAIN found, ByScore(found))
    IN [k \in DOMAIN found |-> found[order[k]]]

Arranged(found) == IF vertical \in {"search", "news"} THEN Ranked(found) ELSE found

-----------------------------------------------------------------------------
(* Normalizing: the first num results; for images, of those that have an image and a page. *)
Fits(r) == vertical = "images" => r.image /\ r.page # NoPage
Fitting(found) == {i \in DOMAIN found : Fits(found[i])}
Cut(found) == SubSeq(found, 1, IF Len(found) < num THEN Len(found) ELSE num)
Numbered(found) == [k \in DOMAIN found |-> [result |-> found[k], position |-> k]]

NormalizedCounts(found) ==
    LET cut == Cut(found) IN Only(Numbered(cut), Fitting(cut))
Normalized(found) == Numbered(Cut(Only(found, Fitting(found))))

BlockCutFirst == Numbered(Arranged(Cut(Only(results, Fitting(results)))))
Block == Normalized(Arranged(results))

-----------------------------------------------------------------------------
(* Quality: how many of the engines answered, how many results there are, how many repeat a page. *)
Responded == UNION {results[i].engines : i \in DOMAIN results}
Queried == Responded \cup unresponsive

Rounded(a, b) == (2 * a + b) \div (2 * b)

DuplicateRate(found) ==
    LET linked == {k \in DOMAIN found : found[k].result.page # NoPage}
        pages == {found[k].result.page : k \in linked}
    IN IF linked = {} THEN 0
       ELSE Rounded(1000 * (Cardinality(linked) - Cardinality(pages)), Cardinality(linked))

(* Numerator and denominator. *)
CoverageBlind == IF Queried = {} THEN <<1, 1>> ELSE <<Cardinality(Responded), Cardinality(Queried)>>
Coverage == IF Queried = {} THEN <<0, 1>> ELSE <<Cardinality(Responded), Cardinality(Queried)>>

ClampNot(score) == score
Clamp(score) == IF score < 0 THEN 0 ELSE IF score > 1000 THEN 1000 ELSE score

QualityScore(found) ==
    LET cov == Coverage
        count == IF Len(found) < num THEN Len(found) ELSE num
    IN Clamp(Rounded(1000 * (CoverageWeight * cov[1] * num + SufficiencyWeight * count * cov[2])
                        - DuplicateWeight * DuplicateRate(found) * cov[2] * num,
                     10 * cov[2] * num))

Degraded(found) ==
    \/ QualityScore(found) < DegradedBelow
    \/ Coverage[1] * 10 < CoverageFloor * Coverage[2]

-----------------------------------------------------------------------------
Init ==
    /\ query \in Queries /\ vertical \in Verticals /\ num \in Nums
    /\ selected = Engines /\ results = <<>> /\ unresponsive = {}
    /\ stage = "asked"
    /\ block = <<>> /\ meta = [score |-> 0, degraded |-> FALSE]

(* The backend asks the selected engines. Each may have found something, be reported unresponsive,
   both, or neither. *)
Fetch ==
    /\ stage = "asked"
    /\ selected' \in SUBSET Engines \ {{}}
    /\ unresponsive' \in SUBSET selected'
    /\ \E n \in 0..MaxResults : results' \in [1..n -> {r \in Results : r.engines \subseteq selected'}]
    /\ stage' = "fetched"
    /\ UNCHANGED <<request, block, meta>>

Respond ==
    /\ stage = "fetched"
    /\ block' = Block
    /\ meta' = [score |-> QualityScore(Block), degraded |-> Degraded(Block)]
    /\ stage' = "answered"
    /\ UNCHANGED <<request, payload>>

Next == Fetch \/ Respond

Spec == Init /\ [][Next]_vars

-----------------------------------------------------------------------------
(* Properties *)

TypeOK ==
    /\ query \in Queries /\ vertical \in Verticals /\ num \in Nums
    /\ selected \subseteq Engines /\ unresponsive \subseteq selected
    /\ results \in Seq(Results) /\ Len(results) <= MaxResults
    /\ stage \in {"asked", "fetched", "answered"}
    /\ block \in Seq([result : Results, position : Nat \ {0}])
    /\ meta.score \in 0..1000 /\ meta.degraded \in BOOLEAN

Answered == stage = "answered"
Served(r) == \E k \in DOMAIN block : block[k].result = r

(* What makes TypeOK inductive, and an answer what the code computed: only engines that were asked are
   credited, and the block and the verdict are those of the payload and the request. *)
AnswerInv ==
    /\ TypeOK
    /\ \A i \in DOMAIN results : results[i].engines \subseteq selected
    /\ Answered => /\ block = Block
                   /\ meta = [score |-> QualityScore(Block), degraded |-> Degraded(Block)]

(* Result a mentions all that b does of the words given, and more, or more in its title. *)
Beats(a, b, words) ==
    LET title(r) == words \cap r.title
        all(r) == words \cap Mentions(r)
    IN /\ title(b) \subseteq title(a) /\ all(b) \subseteq all(a)
       /\ <<title(a), all(a)>> # <<title(b), all(b)>>

MoreFirst(words) ==
    \A i \in DOMAIN results, k \in DOMAIN block :
        Beats(results[i], block[k].result, words) => \E j \in 1..(k - 1) : block[j].result = results[i]

(* No result is served unless every result that clearly answers the query better, among all that the
   backend found and whatever the rarity of the terms, is served above it: ranking comes before
   cutting, and a term that every result mentions still counts for its title. *)
MoreRelevantFirst == Answered /\ vertical \in {"search", "news"} => MoreFirst(Terms)

(* For a question the words that carry no information have no say in that. *)
Informative == {query.words[i] : i \in DOMAIN query.words} \ (Starters \cup Stopwords)
InformativeWordsDecide ==
    /\ Answered /\ vertical \in {"search", "news"}
    /\ Len(query.words) >= 3 /\ LooksLikeQuestion /\ Len(Kept) >= 2
    => MoreFirst(Informative)

(* Results that mention the same are served in the engines' order, and so are all results where there is
   no re-ranking. *)
Like(a, b) ==
    \/ vertical \in {"images", "videos"}
    \/ a.title \cap Terms = b.title \cap Terms /\ Mentions(a) \cap Terms = Mentions(b) \cap Terms
EngineOrderKept ==
    Answered => \A j, k \in DOMAIN block :
        j < k /\ Like(block[j].result, block[k].result) =>
            \E p, q \in DOMAIN results :
                p < q /\ results[p] = block[j].result /\ results[q] = block[k].result

(* Whatever is skipped, the block has all the results it can have, numbered from one without a gap. *)
BlockComplete ==
    Answered =>
        /\ \A k \in DOMAIN block : block[k].position = k
        /\ Len(block) = num \/ \A i \in DOMAIN results : Fits(results[i]) => Served(results[i])

(* An empty answer is marked degraded, so that fall-through and consumers act on it. But for one case:
   when every engine answered, and with nothing that has an image, the score of an images answer is
   the coverage weight, and that is not below the threshold. *)
EmptyIsFlagged ==
    Answered /\ block = <<>> =>
        meta.degraded \/ (vertical = "images" /\ Responded # {} /\ unresponsive \subseteq Responded)

-----------------------------------------------------------------------------
(* What the documents say and the code does not do *)

(* docs/MANUAL.md: "ten results from a single surviving engine is still a degraded search"; quality.py:
   "the coverage floor catches it". *)
Surviving == selected \ unresponsive
CollapseIsDegraded ==
    Answered /\ Cardinality(Engines) >= 3 /\ Cardinality(Surviving) = 1 => meta.degraded
=============================================================================
