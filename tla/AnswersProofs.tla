---------------------------- MODULE AnswersProofs ----------------------------
(* Theorems about the answers of a search, for every query, every payload and every weight. *)
EXTENDS Answers, SequenceTheorems, FunctionTheorems, Sums, TLAPS

-----------------------------------------------------------------------------
(* Orders *)

(* R puts the members of S in a row. *)
Orders(R, S) ==
    /\ \A i \in S : <<i, i>> \notin R
    /\ \A i, j \in S : i = j \/ <<i, j>> \in R \/ <<j, i>> \in R
    /\ \A i, j, k \in S : <<i, j>> \in R /\ <<j, k>> \in R => <<i, k>> \in R

Before(R, S, i) == {j \in S : <<j, i>> \in R}
Rank(R, S, i) == Cardinality(Before(R, S, i))

(* What is earlier has fewer before it. *)
LEMMA RankGrows ==
    ASSUME NEW S, IsFiniteSet(S), NEW R, Orders(R, S)
    PROVE  /\ \A i \in S : Rank(R, S, i) \in 0..(Cardinality(S) - 1)
           /\ \A i, j \in S : <<i, j>> \in R => Rank(R, S, i) < Rank(R, S, j)
<1>1. ASSUME NEW i \in S PROVE Rank(R, S, i) \in 0..(Cardinality(S) - 1)
  <2>1. Before(R, S, i) \subseteq S \ {i}
    BY DEF Orders, Before
  <2>2. IsFiniteSet(S \ {i}) /\ Cardinality(S \ {i}) = Cardinality(S) - 1
    BY FS_RemoveElement
  <2>3. IsFiniteSet(Before(R, S, i)) /\ Cardinality(Before(R, S, i)) <= Cardinality(S \ {i})
    BY <2>1, <2>2, FS_Subset
  <2> QED
    BY <2>2, <2>3, FS_CardinalityType DEF Rank
<1>2. ASSUME NEW i \in S, NEW j \in S, <<i, j>> \in R PROVE Rank(R, S, i) < Rank(R, S, j)
  <2>1. Before(R, S, i) \cup {i} \subseteq Before(R, S, j) /\ i \notin Before(R, S, i)
    BY <1>2 DEF Orders, Before
  <2>2. /\ IsFiniteSet(Before(R, S, i)) /\ IsFiniteSet(Before(R, S, j))
        /\ Before(R, S, i) \subseteq S /\ Before(R, S, j) \subseteq S
    BY FS_Subset DEF Before
  <2>3. Cardinality(Before(R, S, i) \cup {i}) = Cardinality(Before(R, S, i)) + 1
    BY <2>1, <2>2, FS_AddElement
  <2>4. Cardinality(Before(R, S, i) \cup {i}) <= Cardinality(Before(R, S, j))
    BY <2>1, <2>2, FS_Subset
  <2>5. Cardinality(Before(R, S, i)) \in Nat /\ Cardinality(Before(R, S, j)) \in Nat
    BY <2>2, FS_CardinalityType
  <2> QED
    BY <2>3, <2>4, <2>5 DEF Rank
<1> QED
  BY <1>1, <1>2

(* InOrder lists every member, earlier ones first. *)
LEMMA InOrderLists ==
    ASSUME NEW S, IsFiniteSet(S), NEW R, Orders(R, S)
    PROVE  /\ Cardinality(S) \in Nat
           /\ InOrder(S, R) \in [1..Cardinality(S) -> S]
           /\ \A i \in S : \E k \in 1..Cardinality(S) : InOrder(S, R)[k] = i
           /\ \A k, m \in 1..Cardinality(S) :
                 k < m => <<InOrder(S, R)[k], InOrder(S, R)[m]>> \in R
<1> DEFINE n == Cardinality(S)
           L == InOrder(S, R)
           rank == [i \in S |-> Rank(R, S, i)]
<1>1. n \in Nat
  BY FS_CardinalityType
<1>2. /\ \A i \in S : Rank(R, S, i) \in 0..(n - 1)
      /\ \A i, j \in S : <<i, j>> \in R => Rank(R, S, i) < Rank(R, S, j)
  BY RankGrows
<1>3. \A i, j \in S : Rank(R, S, i) = Rank(R, S, j) => i = j
  <2> SUFFICES ASSUME NEW i \in S, NEW j \in S, Rank(R, S, i) = Rank(R, S, j), i # j PROVE FALSE
    OBVIOUS
  <2>1. Rank(R, S, i) < Rank(R, S, j) \/ Rank(R, S, j) < Rank(R, S, i)
    BY <1>2 DEF Orders
  <2>2. Rank(R, S, i) \in Int
    BY <1>1, <1>2
  <2> QED
    BY <2>1, <2>2
<1>4. rank \in Injection(S, 0..(n - 1))
  <2>1. rank \in [S -> 0..(n - 1)] /\ \A i, j \in S : rank[i] = rank[j] => i = j
    BY <1>2, <1>3
  <2> HIDE DEF rank
  <2> QED
    BY <2>1, Fun_IsInj
<1>5. rank \in Surjection(S, 0..(n - 1))
  <2>1. IsFiniteSet(0..(n - 1)) /\ Cardinality(0..(n - 1)) = n
    BY <1>1, FS_Interval
  <2> HIDE DEF rank
  <2> QED
    BY <1>4, <2>1, FS_Injection
<1>6. \A r \in 0..(n - 1) : \E i \in S : Rank(R, S, i) = r
  <2> HIDE DEF rank
  <2>1. \A r \in 0..(n - 1) : \E i \in S : rank[i] = r
    BY <1>5 DEF Surjection
  <2> QED
    BY <2>1 DEF rank
<1>7. L = [k \in 1..n |-> CHOOSE i \in S : Rank(R, S, i) = k - 1]
  BY DEF InOrder, Rank, Before
<1>8. ASSUME NEW k \in 1..n PROVE L[k] \in S /\ Rank(R, S, L[k]) = k - 1
  <2>1. k - 1 \in 0..(n - 1)
    BY <1>1
  <2>2. \E i \in S : Rank(R, S, i) = k - 1
    BY <1>6, <2>1
  <2>3. L[k] = CHOOSE i \in S : Rank(R, S, i) = k - 1
    BY <1>7
  <2> HIDE DEF L
  <2> QED
    BY <2>2, <2>3
<1> HIDE DEF L
<1>9. L \in [1..n -> S]
  BY <1>7, <1>8
<1>10. ASSUME NEW i \in S PROVE \E k \in 1..n : L[k] = i
  <2>1. Rank(R, S, i) + 1 \in 1..n /\ (Rank(R, S, i) + 1) - 1 = Rank(R, S, i)
    BY <1>1, <1>2
  <2> QED
    BY <1>3, <1>8, <2>1
<1>11. ASSUME NEW k \in 1..n, NEW m \in 1..n, k < m PROVE <<L[k], L[m]>> \in R
  <2>1. L[k] # L[m] /\ ~(<<L[m], L[k]>> \in R)
    BY <1>2, <1>8, <1>11
  <2> QED
    BY <1>8, <2>1 DEF Orders
<1> QED
  BY <1>1, <1>9, <1>10, <1>11 DEF L

(* out lists the entries of seq at the positions of S, the k-th being the one at at[k]. *)
Lists(out, at, seq, S) ==
    /\ at \in [DOMAIN out -> S]
    /\ \A k \in DOMAIN out : out[k] = seq[at[k]]
    /\ \A k, m \in DOMAIN out : k < m => at[k] < at[m]
    /\ \A i \in S : \E k \in DOMAIN out : at[k] = i

(* Only keeps the entries at the positions given, in their order. *)
LEMMA OnlyKeeps ==
    ASSUME NEW T, NEW seq \in Seq(T), NEW S \in SUBSET DOMAIN seq
    PROVE  Only(seq, S) \in Seq(T) /\ \E at : Lists(Only(seq, S), at, seq, S)
<1> DEFINE at == InOrder(S, Earlier(S))
           n == Cardinality(S)
<1>1. DOMAIN seq = 1..Len(seq) /\ Len(seq) \in Nat /\ \A i \in DOMAIN seq : seq[i] \in T
  OBVIOUS
<1>2. IsFiniteSet(S) /\ S \subseteq Nat
  <2>1. IsFiniteSet(1..Len(seq))
    BY <1>1, FS_Interval
  <2> QED
    BY <1>1, <2>1, FS_Subset
<1>3. Orders(Earlier(S), S)
  BY <1>2 DEF Orders, Earlier
<1>4. /\ n \in Nat
      /\ at \in [1..n -> S]
      /\ \A i \in S : \E k \in 1..n : at[k] = i
      /\ \A k, m \in 1..n : k < m => <<at[k], at[m]>> \in Earlier(S)
  BY <1>2, <1>3, InOrderLists
<1>5. Only(seq, S) = [k \in DOMAIN at |-> seq[at[k]]]
  BY DEF Only
<1> HIDE DEF at, n
<1>6. DOMAIN at = 1..n
  BY <1>4
<1>7. Only(seq, S) \in [1..n -> T]
  BY <1>1, <1>4, <1>5, <1>6
<1>8. Only(seq, S) \in Seq(T) /\ Len(Only(seq, S)) = n /\ DOMAIN Only(seq, S) = 1..n
  BY <1>4, <1>7
<1>9. \A k, m \in 1..n : k < m => at[k] < at[m]
  BY <1>4 DEF Earlier
<1> QED
  BY <1>4, <1>5, <1>6, <1>8, <1>9 DEF Lists

-----------------------------------------------------------------------------
(* Scores *)

(* What the proofs use of a payload: results of the models' kind, no more than there may be. *)
Payload(found) == found \in Seq(Results) /\ Len(found) <= MaxResults

(* The words a search sends are a finite set. *)
LEMMA SentIsFinite ==
    ASSUME query \in Queries
    PROVE  IsFiniteSet(Terms)
<1>1. query.words \in Seq({query.words[i] : i \in DOMAIN query.words})
  <2> DEFINE n == Len(query.words)
             f == [i \in 1..n |-> query.words[i]]
  <2>1. n \in Nat /\ query.words = f
    BY WordAssumption
  <2> QED
    BY <2>1
<1>2. DOMAIN Sent = 1..Len(Sent) /\ Len(Sent) \in Nat
  <2>1. CASE Rewrites(Kept)
    <3>1. {i \in DOMAIN query.words : Keeps(Word(i))} \in SUBSET DOMAIN query.words
      OBVIOUS
    <3>2. \E T : Kept \in Seq(T)
      BY <1>1, <3>1, OnlyKeeps DEF Kept
    <3> QED
      BY <2>1, <3>2 DEF Sent
  <2>2. CASE ~Rewrites(Kept)
    BY <1>1, <2>2 DEF Sent
  <2> QED
    BY <2>1, <2>2
<1>3. IsFiniteSet(DOMAIN Sent)
  BY <1>2, FS_Interval
<1> DEFINE f == [i \in DOMAIN Sent |-> Sent[i]]
<1>4. f \in Surjection(DOMAIN Sent, Terms)
  BY DEF Terms, Surjection
<1> HIDE DEF f
<1> QED
  BY <1>3, <1>4, FS_Surjection

(* The kept words are the informative ones. *)
LEMMA KeptAreInformative ==
    ASSUME query \in Queries
    PROVE  {Kept[i] : i \in DOMAIN Kept} = Informative
<1> DEFINE W == {query.words[i] : i \in DOMAIN query.words}
           S == {i \in DOMAIN query.words : Keeps(Word(i))}
<1>1. query.words \in Seq(W)
  <2> DEFINE n == Len(query.words)
             f == [i \in 1..n |-> query.words[i]]
  <2>1. n \in Nat /\ query.words = f
    BY WordAssumption
  <2> QED
    BY <2>1
<1>2. PICK at : Lists(Kept, at, query.words, S)
  <2>1. S \in SUBSET DOMAIN query.words
    OBVIOUS
  <2>2. Kept = Only(query.words, S)
    BY DEF Kept
  <2> HIDE DEF S, W
  <2> QED
    BY <1>1, <2>1, <2>2, OnlyKeeps
<1>3. Informative = {query.words[i] : i \in S}
  BY DEF Informative, Keeps, Word
<1> HIDE DEF S
<1> QED
  BY <1>2, <1>3 DEF Lists

(* For a question with enough of them, the terms are the informative words. *)
LEMMA InformativeTerms ==
    ASSUME query \in Queries, Len(query.words) >= 3, LooksLikeQuestion, Len(Kept) >= 2
    PROVE  Terms = Informative
<1>1. Sent = Kept
  BY DEF Sent, Rewrites
<1> QED
  BY <1>1, KeptAreInformative DEF Terms

(* A score adds up the weights of the terms. *)
LEMMA ScoreIsSum ==
    ASSUME NEW r, NEW found
    PROVE  Score(r, found) = SumOf([t \in Terms |-> Weight(t, r, found)], Terms)
BY Zenon DEF Score, SumOf

(* No term is worth nothing, not even one that every result mentions. *)
LEMMA IdfPositive ==
    ASSUME NEW found, Payload(found), found # <<>>, NEW t
    PROVE  Idf(Len(found), Matching(t, found)) \in Nat \ {0}
<1> DEFINE n == Len(found)
           M == {i \in DOMAIN found : t \in Mentions(found[i])}
<1>1. n \in 1..MaxResults /\ DOMAIN found = 1..n
  <2>1. MaxResults \in Nat
    BY LnAssumption
  <2>2. found \in Seq(Results) /\ Len(found) <= MaxResults
    BY DEF Payload
  <2>3. Len(found) # 0
    BY <2>2, EmptySeq
  <2> QED
    BY <2>1, <2>2, <2>3
<1>2. IsFiniteSet(1..n) /\ Cardinality(1..n) = n
  BY <1>1, FS_Interval
<1>3. IsFiniteSet(M) /\ Cardinality(M) <= n
  BY <1>1, <1>2, FS_Subset
<1>4. Cardinality(M) \in 0..n
  BY <1>1, <1>3, FS_CardinalityType
<1>5. Matching(t, found) = Cardinality(M)
  BY DEF Matching
<1> HIDE DEF n, M
<1>6. Ln[<<n, Cardinality(M)>>] \in Nat
  BY <1>1, <1>4, LnAssumption
<1> QED
  BY <1>5, <1>6 DEF Idf, n

(* Weights are natural numbers: a mention counts, and one in the title more. *)
LEMMA Weights ==
    ASSUME NEW found, Payload(found), found # <<>>, NEW t, NEW r
    PROVE  /\ Weight(t, r, found) \in Nat
           /\ t \notin Mentions(r) => Weight(t, r, found) = 0
           /\ t \in Mentions(r) => Weight(t, r, found) > 0
           /\ \A s : t \in r.title /\ t \notin s.title => Weight(t, s, found) < Weight(t, r, found)
           /\ \A s : (t \in Mentions(s) <=> t \in Mentions(r)) /\ (t \in s.title <=> t \in r.title)
                    => Weight(t, s, found) = Weight(t, r, found)
<1> DEFINE w == Idf(Len(found), Matching(t, found))
<1>1. w \in Nat \ {0}
  BY IdfPositive
<1>2. ASSUME NEW s
      PROVE  Weight(t, s, found) =
                IF t \notin Mentions(s) THEN 0 ELSE IF t \in s.title THEN w * 3 ELSE w * 2
  BY <1>1 DEF Weight
<1>3. ASSUME NEW s, t \in s.title PROVE t \in Mentions(s)
  BY <1>3 DEF Mentions
<1> HIDE DEF w
<1>4. 0 < w * 2 /\ w * 2 < w * 3 /\ w * 2 \in Nat /\ w * 3 \in Nat
  BY <1>1
<1> QED
  BY <1>2, <1>3, <1>4

(* Scores are integers. What beats a result scores higher; what is like it scores the same. *)
LEMMA Scores ==
    ASSUME query \in Queries, NEW found, Payload(found), found # <<>>
    PROVE  /\ \A a : Score(a, found) \in Int
           /\ \A a, b : Beats(a, b, Terms) => Score(b, found) < Score(a, found)
           /\ \A a, b : a.title \cap Terms = b.title \cap Terms
                        /\ Mentions(a) \cap Terms = Mentions(b) \cap Terms
                        => Score(a, found) = Score(b, found)
<1> DEFINE f(a) == [t \in Terms |-> Weight(t, a, found)]
<1>1. IsFiniteSet(Terms)
  BY SentIsFinite
<1>2. ASSUME NEW a, NEW t \in Terms PROVE f(a)[t] = Weight(t, a, found) /\ f(a)[t] \in Nat
  BY Weights
<1>3. ASSUME NEW a PROVE Score(a, found) = SumOf(f(a), Terms)
  BY ScoreIsSum
<1>4. ASSUME NEW a PROVE Score(a, found) \in Int
  <2>1. \A t \in Terms : f(a)[t] \in Int
    BY <1>2
  <2> HIDE DEF f
  <2> QED
    BY <1>1, <1>3, <2>1, SumOfType
<1>5. ASSUME NEW a, NEW b, Beats(a, b, Terms) PROVE Score(b, found) < Score(a, found)
  <2>1. ASSUME NEW t \in Terms
        PROVE  /\ Weight(t, b, found) <= Weight(t, a, found)
               /\ t \in a.title /\ t \notin b.title => Weight(t, b, found) < Weight(t, a, found)
               /\ t \in Mentions(a) /\ t \notin Mentions(b)
                     => Weight(t, b, found) < Weight(t, a, found)
    <3>1. (t \in b.title => t \in a.title) /\ (t \in Mentions(b) => t \in Mentions(a))
      BY <1>5 DEF Beats
    <3> QED
      BY <3>1, Weights
  <2>2. \E t \in Terms : (t \in a.title /\ t \notin b.title)
                            \/ (t \in Mentions(a) /\ t \notin Mentions(b))
    BY <1>5 DEF Beats
  <2>3. \A t \in Terms : f(b)[t] \in Int /\ f(a)[t] \in Int /\ f(b)[t] <= f(a)[t]
    BY <1>2, <2>1
  <2>4. \E t \in Terms : f(b)[t] < f(a)[t]
    BY <1>2, <2>1, <2>2
  <2> HIDE DEF f
  <2> QED
    BY <1>1, <1>3, <2>3, <2>4, SumOfLess
<1>6. ASSUME NEW a, NEW b, a.title \cap Terms = b.title \cap Terms,
             Mentions(a) \cap Terms = Mentions(b) \cap Terms
      PROVE  Score(a, found) = Score(b, found)
  <2>1. \A t \in Terms : f(a)[t] = f(b)[t]
    <3> SUFFICES ASSUME NEW t \in Terms PROVE Weight(t, a, found) = Weight(t, b, found)
      BY <1>2
    <3>1. (t \in a.title <=> t \in b.title) /\ (t \in Mentions(a) <=> t \in Mentions(b))
      BY <1>6
    <3> QED
      BY <3>1, Weights
  <2> HIDE DEF f
  <2> QED
    BY <1>1, <1>3, <2>1, SumOfSame
<1> QED
  BY <1>4, <1>5, <1>6

(* Sorting by score with ties in the order of arrival puts the results in a row. *)
LEMMA ScoresOrder ==
    ASSUME query \in Queries, NEW found, Payload(found)
    PROVE  Orders(ByScore(found), DOMAIN found)
<1>1. CASE found = <<>>
  BY <1>1 DEF Orders
<1>2. CASE found # <<>>
  <2> DEFINE score == [i \in DOMAIN found |-> Score(found[i], found)]
  <2>1. \A i \in DOMAIN found : score[i] \in Int /\ i \in Int
    BY <1>2, Scores DEF Payload
  <2>2. ByScore(found) = {ij \in (DOMAIN found) \X (DOMAIN found) :
                            Ahead(score[ij[1]], score[ij[2]], ij[1], ij[2])}
    BY DEF ByScore
  <2> HIDE DEF score
  <2>3. \A i, j \in DOMAIN found :
           <<i, j>> \in ByScore(found) <=> score[i] > score[j] \/ (score[i] = score[j] /\ i < j)
    BY <2>2 DEF Ahead
  <2> QED
    BY <2>1, <2>3 DEF Orders
<1> QED
  BY <1>1, <1>2

-----------------------------------------------------------------------------
(* The block *)

(* Whether the i-th of the backend's results is to be served before the j-th. *)
Precedes(i, j) == IF vertical \in {"search", "news"} THEN <<i, j>> \in ByScore(results) ELSE i < j

(* Arranging moves results and loses none. *)
LEMMA ArrangedMoves ==
    ASSUME query \in Queries, Payload(results)
    PROVE  \E order \in [DOMAIN results -> DOMAIN results] :
              /\ Arranged(results) \in Seq(Results)
              /\ DOMAIN Arranged(results) = DOMAIN results
              /\ \A k \in DOMAIN results : Arranged(results)[k] = results[order[k]]
              /\ \A i \in DOMAIN results : \E k \in DOMAIN results : order[k] = i
              /\ \A k, m \in DOMAIN results : k < m => Precedes(order[k], order[m])
<1> DEFINE D == DOMAIN results
           n == Len(results)
<1>1. D = 1..n /\ n \in Nat /\ \A i \in D : results[i] \in Results
  BY DEF Payload
<1>2. CASE vertical \in {"search", "news"}
  <2> DEFINE order == InOrder(D, ByScore(results))
  <2>1. Orders(ByScore(results), D)
    BY ScoresOrder
  <2>2. IsFiniteSet(D) /\ Cardinality(D) = n
    BY <1>1, FS_Interval
  <2>3. Arranged(results) = [k \in D |-> results[order[k]]]
    BY <1>2 DEF Arranged, Ranked
  <2> HIDE DEF order, D
  <2>4. /\ order \in [D -> D]
        /\ \A i \in D : \E k \in D : order[k] = i
        /\ \A k, m \in D : k < m => <<order[k], order[m]>> \in ByScore(results)
    BY <1>1, <2>1, <2>2, InOrderLists DEF order
  <2>5. Arranged(results) \in Seq(Results) /\ DOMAIN Arranged(results) = D
    BY <1>1, <2>3, <2>4
  <2> QED
    BY <1>2, <2>3, <2>4, <2>5 DEF Precedes, D
<1>3. CASE vertical \notin {"search", "news"}
  <2> DEFINE order == [k \in D |-> k]
  <2>1. Arranged(results) = results
    BY <1>3 DEF Arranged
  <2>2. order \in [D -> D] /\ \A k \in D : order[k] = k
    OBVIOUS
  <2> HIDE DEF order
  <2> QED
    BY <1>3, <2>1, <2>2 DEF Precedes, Payload
<1> QED
  BY <1>2, <1>3

(* Where the block comes from: the k-th entry is the result at source[k], numbered k. Entries are in the
   order of serving, and a result that fits is missing only if the block is full and every entry precedes
   it. *)
Origin(source) ==
    /\ \A k \in DOMAIN Block : Block[k] = [result |-> results[source[k]], position |-> k]
    /\ \A j, k \in DOMAIN Block : j < k => Precedes(source[j], source[k])
    /\ \A i \in DOMAIN results : Fits(results[i]) =>
          \/ \E k \in DOMAIN Block : source[k] = i
          \/ Len(Block) = num /\ \A k \in DOMAIN Block : Precedes(source[k], i)

(* Every answer's block has such an origin, whichever payload of the engine it was filled from. *)
LEMMA BlockHasOrigin ==
    ASSUME query \in Queries, num \in Nums, Payload(results)
    PROVE  /\ Block \in Seq([result : Results, position : Nat \ {0}])
           /\ \E source \in [DOMAIN Block -> DOMAIN results] : Origin(source)
<1> DEFINE A == Arranged(results)
           F == Fitting(A)
           O == Only(A, F)
           D == DOMAIN results
<1>1. PICK order \in [D -> D] :
         /\ A \in Seq(Results)
         /\ DOMAIN A = D
         /\ \A k \in D : A[k] = results[order[k]]
         /\ \A i \in D : \E k \in D : order[k] = i
         /\ \A k, m \in D : k < m => Precedes(order[k], order[m])
  BY ArrangedMoves
<1>2. F = {i \in D : Fits(A[i])}
  BY <1>1 DEF Fitting
<1> HIDE DEF A, F
<1>3. O \in Seq(Results) /\ \E at : Lists(O, at, A, F)
  <2>1. A \in Seq(Results) /\ F \in SUBSET DOMAIN A
    BY <1>1, <1>2
  <2> QED
    BY <2>1, OnlyKeeps
<1> HIDE DEF O
<1>4. PICK at : Lists(O, at, A, F)
  BY <1>3
<1>5. /\ at \in [DOMAIN O -> F]
      /\ \A k \in DOMAIN O : O[k] = A[at[k]]
      /\ \A k, m \in DOMAIN O : k < m => at[k] < at[m]
      /\ \A i \in F : \E k \in DOMAIN O : at[k] = i
  BY <1>4 DEF Lists
<1> DEFINE n == IF Len(O) < num THEN Len(O) ELSE num
<1>6. num \in Nat \ {0} /\ Len(O) \in Nat /\ DOMAIN O = 1..Len(O) /\ n \in Nat /\ n <= Len(O)
  BY <1>3, NumAssumption
<1> DEFINE C == SubSeq(O, 1, n)
<1>7. C = [k \in 1..n |-> O[k]]
  BY <1>3, <1>6
<1>8. Block = Numbered(C)
  BY DEF Block, Normalized, Cut, A, F, O
<1> HIDE DEF C
<1>9. Block = [k \in 1..n |-> [result |-> O[k], position |-> k]]
  <2>1. DOMAIN C = 1..n
    BY <1>7
  <2>2. \A k \in 1..n : C[k] = O[k]
    BY <1>7
  <2> HIDE DEF n
  <2> QED
    BY <1>8, <2>1, <2>2 DEF Numbered
<1>10. \A k \in 1..n : k \in DOMAIN O /\ O[k] \in Results /\ k \in Nat \ {0}
  BY <1>3, <1>6
<1>11. n = Len(O) \/ n = num
  BY <1>6
<1> HIDE DEF n
<1>12. Block \in Seq([result : Results, position : Nat \ {0}]) /\ DOMAIN Block = 1..n /\ Len(Block) = n
  <2> DEFINE E == [result : Results, position : Nat \ {0}]
  <2>1. Block \in [1..n -> E]
    BY <1>9, <1>10
  <2>2. n \in Nat
    BY <1>6
  <2> HIDE DEF E
  <2>3. Block \in Seq(E) /\ DOMAIN Block = 1..n /\ Len(Block) = n
    BY <2>1, <2>2
  <2> QED
    BY <2>3 DEF E
<1> DEFINE source == [k \in 1..n |-> order[at[k]]]
<1>13. \A k \in 1..n : source[k] = order[at[k]] /\ at[k] \in D /\ source[k] \in D
  BY <1>1, <1>2, <1>5, <1>10
<1>14. source \in [DOMAIN Block -> D]
  BY <1>12, <1>13
<1> HIDE DEF source
<1>15. \A k \in DOMAIN Block : Block[k] = [result |-> results[source[k]], position |-> k]
  <2> SUFFICES ASSUME NEW k \in 1..n PROVE Block[k] = [result |-> results[source[k]], position |-> k]
    BY <1>12
  <2>1. O[k] = A[at[k]] /\ A[at[k]] = results[order[at[k]]]
    BY <1>1, <1>5, <1>10, <1>13
  <2> QED
    BY <1>9, <1>13, <2>1
<1>16. \A j, k \in DOMAIN Block : j < k => Precedes(source[j], source[k])
  <2> SUFFICES ASSUME NEW j \in 1..n, NEW k \in 1..n, j < k PROVE Precedes(source[j], source[k])
    BY <1>12
  <2>1. at[j] < at[k]
    BY <1>5, <1>10
  <2>2. at[j] \in D /\ at[k] \in D /\ source[j] = order[at[j]] /\ source[k] = order[at[k]]
    BY <1>13
  <2> HIDE DEF D
  <2>3. Precedes(order[at[j]], order[at[k]])
    BY <1>1, <2>1, <2>2
  <2> QED
    BY <2>2, <2>3
<1>17. ASSUME NEW i \in D, Fits(results[i])
       PROVE  \/ \E k \in DOMAIN Block : source[k] = i
              \/ Len(Block) = num /\ \A k \in DOMAIN Block : Precedes(source[k], i)
  <2>1. PICK p \in D : order[p] = i
    BY <1>1
  <2>2. p \in F
    BY <1>1, <1>2, <1>17, <2>1
  <2>3. PICK m \in DOMAIN O : at[m] = p
    BY <1>5, <2>2
  <2>4. CASE m <= n
    <3>1. m \in 1..n
      BY <1>6, <2>3, <2>4
    <3> QED
      BY <1>12, <1>13, <2>1, <2>3, <3>1
  <2>5. CASE ~(m <= n)
    <3>1. Len(Block) = num
      <4>1. n # Len(O)
        <5>1. m \in 1..Len(O) /\ Len(O) \in Nat
          BY <1>6
        <5> QED
          BY <2>5, <5>1
      <4> QED
        BY <1>11, <1>12, <4>1
    <3>2. ASSUME NEW k \in 1..n PROVE Precedes(source[k], i)
      <4>1. k < m /\ k \in DOMAIN O
        BY <1>6, <1>10, <2>3, <2>5
      <4>2. at[k] < at[m]
        BY <1>5, <2>3, <4>1
      <4> QED
        BY <1>1, <1>13, <2>1, <2>3, <4>2
    <3> QED
      BY <1>12, <3>1, <3>2
  <2> QED
    BY <2>4, <2>5
<1>18. Origin(source)
  BY <1>15, <1>16, <1>17 DEF Origin
<1> QED
  BY <1>12, <1>14, <1>18

-----------------------------------------------------------------------------
(* The verdict *)

(* Rounding gives an integer, at most half away. *)
LEMMA RoundedBounds ==
    ASSUME NEW a \in Int, NEW b \in Nat \ {0}
    PROVE  /\ Rounded(a, b) \in Int
           /\ Rounded(a, b) * (2 * b) <= 2 * a + b
           /\ 2 * a + b < Rounded(a, b) * (2 * b) + 2 * b
<1> DEFINE c == 2 * a + b
           d == 2 * b
<1>1. c \in Int /\ d \in Nat \ {0} /\ Rounded(a, b) = c \div d
  BY DEF Rounded
<1> HIDE DEF c, d
<1>2. c \div d \in Int /\ (c \div d) * d <= c /\ c < (c \div d) * d + d
  BY <1>1
<1> QED
  BY <1>1, <1>2 DEF c, d

(* The engines that answered and those that were asked can be counted. *)
LEMMA CoverageCounts ==
    ASSUME AnswerInv
    PROVE  /\ Responded \subseteq selected /\ Queried \subseteq Engines
           /\ IsFiniteSet(Responded) /\ IsFiniteSet(Queried)
           /\ Coverage[1] \in Nat /\ Coverage[2] \in Nat \ {0}
<1>1. Responded \subseteq selected /\ Queried \subseteq Engines /\ Responded \subseteq Queried
  BY DEF AnswerInv, TypeOK, Responded, Queried
<1>2. IsFiniteSet(Responded) /\ IsFiniteSet(Queried)
  BY <1>1, EngineAssumption, FS_Subset
<1>3. /\ Cardinality(Responded) \in Nat /\ Cardinality(Queried) \in Nat
      /\ Queried # {} => Cardinality(Queried) # 0
  BY <1>2, FS_CardinalityType, FS_EmptySet
<1> QED
  BY <1>1, <1>2, <1>3 DEF Coverage

(* The share of repeated pages is an integer, zero for an empty block. *)
LEMMA DuplicateRateType ==
    ASSUME NEW T, NEW found \in Seq(T)
    PROVE  DuplicateRate(found) \in Int /\ (found = <<>> => DuplicateRate(found) = 0)
<1> DEFINE L == {k \in DOMAIN found : found[k].result.page # NoPage}
           P == {found[k].result.page : k \in L}
           f == [k \in L |-> found[k].result.page]
<1>1. IsFiniteSet(L)
  <2>1. DOMAIN found = 1..Len(found) /\ Len(found) \in Nat
    OBVIOUS
  <2>2. IsFiniteSet(1..Len(found))
    BY <2>1, FS_Interval
  <2> QED
    BY <2>1, <2>2, FS_Subset
<1>2. f \in Surjection(L, P)
  BY DEF Surjection
<1>3. DuplicateRate(found) = IF L = {} THEN 0
                             ELSE Rounded(1000 * (Cardinality(L) - Cardinality(P)), Cardinality(L))
  BY DEF DuplicateRate
<1>4. found = <<>> => L = {}
  OBVIOUS
<1> HIDE DEF L, P, f
<1>5. Cardinality(L) \in Nat /\ Cardinality(P) \in Nat /\ (L # {} => Cardinality(L) # 0)
  BY <1>1, <1>2, FS_Surjection, FS_CardinalityType, FS_EmptySet
<1>6. CASE L # {}
  <2> DEFINE repeated == 1000 * (Cardinality(L) - Cardinality(P))
  <2>1. repeated \in Int /\ Cardinality(L) \in Nat \ {0}
    BY <1>5, <1>6
  <2>2. DuplicateRate(found) = Rounded(repeated, Cardinality(L))
    BY <1>3, <1>6
  <2> HIDE DEF repeated
  <2>3. Rounded(repeated, Cardinality(L)) \in Int
    BY <2>1, RoundedBounds
  <2> QED
    BY <1>4, <1>6, <2>2, <2>3
<1>7. CASE L = {}
  BY <1>3, <1>7
<1> QED
  BY <1>6, <1>7

(* The score is a share in thousandths. *)
LEMMA ScoreType ==
    ASSUME AnswerInv, NEW T, NEW found \in Seq(T)
    PROVE  QualityScore(found) \in 0..1000
<1> DEFINE c == Coverage[1]
           d == Coverage[2]
           m == IF Len(found) < num THEN Len(found) ELSE num
           a == 1000 * (CoverageWeight * c * num + SufficiencyWeight * m * d)
                  - DuplicateWeight * DuplicateRate(found) * d * num
           b == 10 * d * num
<1>1. c \in Nat /\ d \in Nat \ {0} /\ num \in Nat \ {0} /\ m \in Nat
  BY CoverageCounts, NumAssumption DEF AnswerInv, TypeOK
<1>2. DuplicateRate(found) \in Int
  BY DuplicateRateType
<1>3. QualityScore(found) = Clamp(Rounded(a, b))
  BY DEF QualityScore
<1> HIDE DEF c, d, m
<1>4. b \in Nat \ {0}
  BY <1>1
<1>5. a \in Int
  <2>1. CoverageWeight * c * num \in Int /\ SufficiencyWeight * m * d \in Int
    BY <1>1, WeightAssumption
  <2>2. DuplicateWeight * DuplicateRate(found) * d * num \in Int
    BY <1>1, <1>2, WeightAssumption
  <2> QED
    BY <2>1, <2>2
<1> HIDE DEF a, b
<1> DEFINE x == Rounded(a, b)
<1>6. x \in Int
  BY <1>4, <1>5, RoundedBounds
<1> HIDE DEF x
<1>7. Clamp(x) \in 0..1000
  BY <1>6 DEF Clamp
<1> QED
  BY <1>3, <1>7 DEF x

-----------------------------------------------------------------------------
(* The invariant *)

(* ScoreIsSum holds after a step as well as before it. *)
LEMMA ScoreIsStillSum ==
    (\A r, found : Score(r, found) = SumOf([t \in Terms |-> Weight(t, r, found)], Terms))'
<1>1. \A r, found : Score(r, found) = SumOf([t \in Terms |-> Weight(t, r, found)], Terms)
  BY ScoreIsSum
<1> QED
  BY <1>1, PTL

(* What is served and how it is judged depend on the request and the payload alone. *)
LEMMA SamePayload ==
    UNCHANGED <<request, payload>> =>
        /\ Block' = Block /\ QualityScore(Block)' = QualityScore(Block)
        /\ Degraded(Block)' = Degraded(Block)
<1> SUFFICES ASSUME UNCHANGED <<request, payload>>
             PROVE  /\ Block' = Block /\ QualityScore(Block)' = QualityScore(Block)
                    /\ Degraded(Block)' = Degraded(Block)
  OBVIOUS
<1>1. query' = query /\ vertical' = vertical /\ num' = num /\ results' = results
      /\ unresponsive' = unresponsive
  BY DEF request, payload
<1>2. Terms' = Terms
  BY <1>1 DEF Terms, Sent, Rewrites, LooksLikeQuestion, Kept, Keeps, Word
<1>3. Arranged(results)' = Arranged(results)
  <2>1. ASSUME NEW r, NEW found PROVE Score(r, found)' = Score(r, found)
    <3>1. Score(r, found)' = SumOf([t \in Terms' |-> Weight(t, r, found)], Terms')
      BY ScoreIsStillSum
    <3> QED
      BY <1>2, <3>1, ScoreIsSum
  <2>2. ByScore(results)' = ByScore(results)
    BY <1>1, <2>1 DEF ByScore
  <2>3. Ranked(results)' = Ranked(results)
    BY <1>1, <2>2 DEF Ranked
  <2> QED
    BY <1>1, <2>3 DEF Arranged
<1>4. Block' = Block
  BY <1>1, <1>3 DEF Block, Normalized, Cut, Fitting, Fits
<1>5. Coverage' = Coverage
  BY <1>1 DEF Coverage, Responded, Queried
<1>6. QualityScore(Block)' = QualityScore(Block)
  BY <1>1, <1>4, <1>5 DEF QualityScore
<1> QED
  BY <1>4, <1>5, <1>6 DEF Degraded

(* Every step keeps the invariant. *)
LEMMA AnswerStep == AnswerInv /\ [Next]_vars => AnswerInv'
<1> SUFFICES ASSUME AnswerInv, [Next]_vars PROVE AnswerInv'
  OBVIOUS
<1>1. CASE Fetch
  <2>1. PICK n \in 0..MaxResults :
           results' \in [1..n -> {r \in Results : r.engines \subseteq selected'}]
    BY <1>1 DEF Fetch
  <2>2. results' \in Seq(Results) /\ Len(results') <= MaxResults
    BY <2>1, LnAssumption
  <2>3. \A i \in DOMAIN results' : results'[i].engines \subseteq selected'
    BY <2>1
  <2>4. TypeOK'
    BY <1>1, <2>2 DEF Fetch, AnswerInv, TypeOK, request
  <2> QED
    BY <1>1, <2>3, <2>4 DEF Fetch, AnswerInv, Answered
<1>2. CASE Respond
  <2>1. query \in Queries /\ num \in Nums /\ Payload(results)
    BY DEF AnswerInv, TypeOK, Payload
  <2>2. Block \in Seq([result : Results, position : Nat \ {0}])
    BY <2>1, BlockHasOrigin
  <2>3. QualityScore(Block) \in 0..1000
    BY <2>2, ScoreType
  <2>4. Degraded(Block) \in BOOLEAN
    BY DEF Degraded
  <2>5. TypeOK'
    BY <1>2, <2>2, <2>3, <2>4 DEF Respond, AnswerInv, TypeOK, request, payload
  <2>6. UNCHANGED <<request, payload>>
    BY <1>2 DEF Respond
  <2>7. \A i \in DOMAIN results' : results'[i].engines \subseteq selected'
    BY <2>6 DEF AnswerInv, payload
  <2>8. block' = Block' /\ meta' = [score |-> QualityScore(Block)', degraded |-> Degraded(Block)']
    BY <1>2, <2>6, SamePayload DEF Respond
  <2> QED
    BY <2>5, <2>7, <2>8 DEF AnswerInv
<1>3. CASE UNCHANGED vars
  <2>1. UNCHANGED <<request, payload>> /\ UNCHANGED <<stage, block, meta>>
    BY <1>3 DEF vars
  <2>2. /\ Block' = Block /\ QualityScore(Block)' = QualityScore(Block)
        /\ Degraded(Block)' = Degraded(Block)
    BY <2>1, SamePayload
  <2> QED
    BY <2>1, <2>2 DEF AnswerInv, TypeOK, Answered, request, payload
<1> QED
  BY <1>1, <1>2, <1>3 DEF Next

(* Payloads, blocks and verdicts are of their types, the score among them (quality.py clamps it), and
   what is served is what the code makes of the payload. *)
LEMMA AnswersComputed == Spec => []AnswerInv
<1>1. Init => AnswerInv
  <2> SUFFICES ASSUME Init PROVE AnswerInv
    OBVIOUS
  <2>1. results = <<>> /\ block = <<>>
    BY DEF Init
  <2> QED
    BY <2>1, LnAssumption DEF Init, AnswerInv, TypeOK, Answered
<1> QED
  BY <1>1, AnswerStep, PTL DEF Spec

(* Types, and a score from 0 to 1000 whatever the weights: quality.py clamps it. *)
THEOREM TypeCorrect == Spec => []TypeOK
<1>1. AnswerInv => TypeOK
  BY DEF AnswerInv
<1> QED
  BY <1>1, AnswersComputed, PTL

(* What an answer is made of. *)
LEMMA AnswerHasOrigin ==
    ASSUME AnswerInv, Answered
    PROVE  /\ query \in Queries /\ num \in Nums /\ Payload(results) /\ block = Block
           /\ block \in Seq([result : Results, position : Nat \ {0}])
           /\ \E source \in [DOMAIN Block -> DOMAIN results] : Origin(source)
<1>1. query \in Queries /\ num \in Nums /\ Payload(results) /\ block = Block
  BY DEF AnswerInv, TypeOK, Payload
<1> QED
  BY <1>1, BlockHasOrigin

(* The normalizers of searxng.py number the results from one without a gap, and skip none that they can
   serve while there is room. *)
THEOREM BlocksAreComplete == Spec => []BlockComplete
<1>1. AnswerInv => BlockComplete
  <2> SUFFICES ASSUME AnswerInv, Answered
               PROVE  /\ \A k \in DOMAIN block : block[k].position = k
                      /\ \/ Len(block) = num
                         \/ \A i \in DOMAIN results : Fits(results[i]) => Served(results[i])
    BY DEF BlockComplete
  <2>1. block = Block
    BY AnswerHasOrigin
  <2>2. PICK source \in [DOMAIN Block -> DOMAIN results] : Origin(source)
    BY AnswerHasOrigin
  <2>3. \A k \in DOMAIN block : block[k] = [result |-> results[source[k]], position |-> k]
    BY <2>1, <2>2 DEF Origin
  <2>4. ASSUME NEW i \in DOMAIN results, Fits(results[i]), Len(block) # num
        PROVE  Served(results[i])
    <3>1. PICK k \in DOMAIN block : source[k] = i
      BY <2>1, <2>2, <2>4 DEF Origin
    <3>2. block[k].result = results[i]
      BY <2>3, <3>1
    <3> QED
      BY <3>2 DEF Served
  <2> QED
    BY <2>3, <2>4
<1> QED
  BY <1>1, AnswersComputed, PTL

(* Of two results the one that precedes has the higher score, or the same and came first. *)
LEMMA PrecedesByScore ==
    ASSUME vertical \in {"search", "news"}, NEW i \in DOMAIN results, NEW j \in DOMAIN results,
           Precedes(i, j)
    PROVE  LET a == Score(results[i], results)
               b == Score(results[j], results)
           IN  a > b \/ (a = b /\ i < j)
<1> DEFINE score == [k \in DOMAIN results |-> Score(results[k], results)]
<1>1. <<i, j>> \in ByScore(results)
  BY DEF Precedes
<1>2. Ahead(score[i], score[j], i, j)
  BY <1>1 DEF ByScore
<1>3. score[i] = Score(results[i], results) /\ score[j] = Score(results[j], results)
  OBVIOUS
<1> HIDE DEF score
<1> QED
  BY <1>2, <1>3 DEF Ahead

(* Results that say the same about the query stay in the order in which the backend sent them: the sort
   of rerank.py is stable, and the normalizers reorder nothing. *)
THEOREM EngineOrderIsKept == Spec => []EngineOrderKept
<1>1. AnswerInv => EngineOrderKept
  <2> SUFFICES ASSUME AnswerInv, Answered, NEW j \in DOMAIN block, NEW k \in DOMAIN block, j < k,
                      Like(block[j].result, block[k].result)
               PROVE  \E p, q \in DOMAIN results :
                         p < q /\ results[p] = block[j].result /\ results[q] = block[k].result
    BY DEF EngineOrderKept
  <2>1. block = Block /\ query \in Queries /\ Payload(results)
    BY AnswerHasOrigin
  <2>2. PICK source \in [DOMAIN Block -> DOMAIN results] : Origin(source)
    BY AnswerHasOrigin
  <2> DEFINE p == source[j]
             q == source[k]
  <2>3. /\ p \in DOMAIN results /\ q \in DOMAIN results
        /\ block[j].result = results[p] /\ block[k].result = results[q]
        /\ Precedes(p, q)
    BY <2>1, <2>2 DEF Origin
  <2> HIDE DEF p, q
  <2>4. p < q
    <3>1. CASE vertical \notin {"search", "news"}
      BY <2>3, <3>1 DEF Precedes
    <3>2. CASE vertical \in {"search", "news"}
      <4>1. /\ results[p].title \cap Terms = results[q].title \cap Terms
            /\ Mentions(results[p]) \cap Terms = Mentions(results[q]) \cap Terms
        BY <2>3, <3>2 DEF Like
      <4>2. results # <<>>
        BY <2>3
      <4>3. /\ Score(results[p], results) = Score(results[q], results)
            /\ Score(results[p], results) \in Int
        BY <2>1, <4>1, <4>2, Scores
      <4> QED
        BY <2>3, <3>2, <4>3, PrecedesByScore
    <3> QED
      BY <3>1, <3>2
  <2> QED
    BY <2>3, <2>4
<1> QED
  BY <1>1, AnswersComputed, PTL

(* The heart of the ranking, for the terms of the query that is sent. *)
LEMMA MoreTermsFirst ==
    ASSUME AnswerInv, Answered, vertical \in {"search", "news"}
    PROVE  MoreFirst(Terms)
<1> SUFFICES ASSUME NEW i \in DOMAIN results, NEW k \in DOMAIN block,
                    Beats(results[i], block[k].result, Terms)
             PROVE  \E j \in 1..(k - 1) : block[j].result = results[i]
  BY DEF MoreFirst
<1>1. /\ block = Block /\ query \in Queries /\ Payload(results)
      /\ DOMAIN block = 1..Len(block) /\ Len(block) \in Nat
  BY AnswerHasOrigin
<1>2. PICK source \in [DOMAIN Block -> DOMAIN results] : Origin(source)
  BY AnswerHasOrigin
<1>3. /\ source[k] \in DOMAIN results
      /\ \A j \in DOMAIN block : block[j].result = results[source[j]]
  BY <1>1, <1>2 DEF Origin
<1>4. /\ Score(results[source[k]], results) < Score(results[i], results)
      /\ Score(results[source[k]], results) \in Int /\ Score(results[i], results) \in Int
  <2>1. results # <<>>
    BY <1>3
  <2> QED
    BY <1>1, <1>3, <2>1, Scores
<1>5. ~Precedes(source[k], i) /\ source[k] # i
  BY <1>3, <1>4, PrecedesByScore
<1>6. Fits(results[i])
  BY DEF Fits
<1>7. PICK j \in DOMAIN block : source[j] = i
  BY <1>1, <1>2, <1>5, <1>6 DEF Origin
<1>8. ~(k < j)
  BY <1>1, <1>2, <1>5, <1>7 DEF Origin
<1>9. j \in 1..(k - 1)
  BY <1>1, <1>5, <1>7, <1>8
<1> QED
  BY <1>3, <1>7, <1>9

(* Re-ranking in rerank.py, before the cut that the normalizers make: a result that answers the query
   clearly better is served above, if the other is served at all, whatever the weights of the terms. *)
THEOREM MoreRelevantIsFirst == Spec => []MoreRelevantFirst
<1>1. AnswerInv => MoreRelevantFirst
  BY MoreTermsFirst DEF MoreRelevantFirst
<1> QED
  BY <1>1, AnswersComputed, PTL

(* The rewriting of query_rewrite.py takes the other words out of the terms that rank. *)
THEOREM InformativeWordsRank == Spec => []InformativeWordsDecide
<1>1. AnswerInv => InformativeWordsDecide
  <2> SUFFICES ASSUME AnswerInv, Answered, vertical \in {"search", "news"},
                      Len(query.words) >= 3, LooksLikeQuestion, Len(Kept) >= 2
               PROVE  MoreFirst(Informative)
    BY DEF InformativeWordsDecide
  <2>1. Terms = Informative
    BY AnswerHasOrigin, InformativeTerms
  <2>2. MoreFirst(Terms)
    BY MoreTermsFirst
  <2> QED
    BY <2>1, <2>2
<1> QED
  BY <1>1, AnswersComputed, PTL

-----------------------------------------------------------------------------
(* The empty answer *)

(* Products keep the order of natural numbers, and a common factor can be taken out. *)
LEMMA ProductOrder ==
    ASSUME NEW x \in Int, NEW y \in Int, NEW z \in Nat
    PROVE  /\ x <= y => x * z <= y * z
           /\ z > 0 /\ x * z <= y * z => x <= y
<1>1. ASSUME NEW u \in Nat PROVE u * z \in Nat
  OBVIOUS
<1>2. ASSUME x <= y PROVE x * z <= y * z
  <2>1. (y - x) * z \in Nat
    BY <1>1, <1>2
  <2>2. (y - x) * z = y * z - x * z /\ x * z \in Int /\ y * z \in Int
    OBVIOUS
  <2> QED
    BY <2>1, <2>2
<1>3. ASSUME z > 0, x * z <= y * z, ~(x <= y) PROVE FALSE
  <2>1. (x - y - 1) * z \in Nat
    BY <1>1, <1>3
  <2>2. (x - y - 1) * z = x * z - y * z - z /\ x * z \in Int /\ y * z \in Int
    OBVIOUS
  <2> QED
    BY <1>3, <2>1, <2>2
<1> QED
  BY <1>2, <1>3

(* The score of an empty answer when c of d engines answered. *)
ScoreOfEmpty(c, d, n) == Rounded(1000 * (CoverageWeight * c * n), 10 * d * n)

(* Coverage alone stays below the threshold, unless every engine answered. *)
LEMMA CoverageAlone ==
    ASSUME NEW c \in Nat, NEW d \in Nat \ {0}, NEW n \in Nat \ {0},
           c = 0 \/ (c < d /\ d <= Cardinality(Engines))
    PROVE  ScoreOfEmpty(c, d, n) \in Int /\ ScoreOfEmpty(c, d, n) < DegradedBelow
<1> DEFINE a == 1000 * (CoverageWeight * c * n)
           b == 10 * d * n
           x == Rounded(a, b)
           P == CoverageWeight * c
           Q == CoverageWeight * d
           R == DegradedBelow * d
<1>1. CoverageWeight \in Nat /\ DegradedBelow \in Nat \ {0} /\ Cardinality(Engines) \in Nat
  BY WeightAssumption, EngineAssumption, FS_CardinalityType
<1>2. P \in Nat /\ Q \in Nat /\ R \in Nat
  BY <1>1
<1>3. a = P * (1000 * n) /\ b = d * (10 * n) /\ a \in Int /\ b \in Nat \ {0}
  BY <1>1
<1>4. SUFFICES ASSUME ~(x < DegradedBelow) PROVE FALSE
  <2>1. x \in Int
    <3>1. a \in Int /\ b \in Nat \ {0}
      BY <1>3
    <3> HIDE DEF a, b
    <3> QED
      BY <3>1, RoundedBounds
  <2> QED
    BY <2>1 DEF ScoreOfEmpty
<1>5. x \in Int /\ x * (2 * b) <= 2 * a + b
  <2>1. a \in Int /\ b \in Nat \ {0}
    BY <1>3
  <2> HIDE DEF a, b
  <2> QED
    BY <2>1, RoundedBounds
<1>6. DegradedBelow * (2 * b) <= 2 * a + b
  <2>1. DegradedBelow <= x
    BY <1>1, <1>4, <1>5
  <2> HIDE DEF a, b, x
  <2>2. 2 * b \in Nat /\ DegradedBelow \in Int
    BY <1>1, <1>3
  <2>3. DegradedBelow * (2 * b) <= x * (2 * b)
    BY <1>5, <2>1, <2>2, ProductOrder
  <2> QED
    BY <1>1, <1>3, <1>5, <2>3
<1>7. 2 * R <= 200 * P + d
  <2>1. DegradedBelow * (2 * b) = (2 * R) * (10 * n)
    BY <1>1, <1>3
  <2>2. 2 * a + b = (200 * P + d) * (10 * n)
    <3> HIDE DEF a, b, P
    <3> QED
      BY <1>2, <1>3
  <2> HIDE DEF a, b, P, R
  <2>3. (2 * R) * (10 * n) <= (200 * P + d) * (10 * n)
    BY <1>6, <2>1, <2>2
  <2>4. 2 * R \in Int /\ 200 * P + d \in Int /\ 10 * n \in Nat /\ 10 * n > 0
    BY <1>2
  <2> QED
    BY <2>3, <2>4, ProductOrder
<1>8. CASE c = 0
  <2>1. P = 0
    BY <1>1, <1>8
  <2>2. d <= R
    <3>1. 1 * d <= DegradedBelow * d
      BY <1>1, ProductOrder
    <3> QED
      BY <3>1
  <2> HIDE DEF P, R
  <2> QED
    BY <1>2, <1>7, <2>1, <2>2
<1>9. CASE c < d /\ d <= Cardinality(Engines)
  <2>1. d < 200 * CoverageWeight /\ 100 * CoverageWeight <= DegradedBelow
    BY <1>1, <1>9, ThresholdAssumption
  <2>2. P <= Q - CoverageWeight
    <3>1. c * CoverageWeight <= (d - 1) * CoverageWeight
      BY <1>1, <1>9, ProductOrder
    <3>2. (d - 1) * CoverageWeight = Q - CoverageWeight /\ c * CoverageWeight = P
      BY <1>1
    <3> QED
      BY <3>1, <3>2
  <2>3. 100 * Q <= R
    <3>1. (100 * CoverageWeight) * d <= DegradedBelow * d
      BY <1>1, <2>1, ProductOrder
    <3>2. (100 * CoverageWeight) * d = 100 * Q
      BY <1>1
    <3> QED
      BY <3>1, <3>2
  <2> HIDE DEF P, Q, R
  <2> QED
    BY <1>1, <1>2, <1>7, <2>1, <2>2, <2>3
<1> QED
  BY <1>8, <1>9

(* build_search_meta of quality.py flags an empty answer, but for images from engines that all answered:
   without a result, coverage is all that the score has. *)
THEOREM EmptyAnswersAreFlagged == Spec => []EmptyIsFlagged
<1>1. AnswerInv => EmptyIsFlagged
  <2> SUFFICES ASSUME AnswerInv, Answered, block = <<>>,
                      ~(vertical = "images" /\ Responded # {} /\ unresponsive \subseteq Responded)
               PROVE  meta.degraded
    BY DEF EmptyIsFlagged
  <2> DEFINE c == Coverage[1]
             d == Coverage[2]
  <2>1. /\ c \in Nat /\ d \in Nat \ {0} /\ num \in Nat \ {0}
        /\ IsFiniteSet(Responded) /\ IsFiniteSet(Queried) /\ Queried \subseteq Engines
    BY CoverageCounts, NumAssumption DEF AnswerInv, TypeOK
  <2>2. Block = <<>> /\ meta.degraded = Degraded(Block)
    BY DEF AnswerInv
  <2>3. c = 0 \/ (c < d /\ d <= Cardinality(Engines))
    <3>1. CASE Responded = {}
      BY <3>1, FS_EmptySet DEF Coverage
    <3>2. CASE Responded # {}
      <4>1. PICK i \in DOMAIN results : TRUE
        BY <3>2 DEF Responded
      <4>2. vertical = "images"
        <5>1. Len(Block) # num /\ DOMAIN Block = {}
          BY <2>1, <2>2
        <5>2. ~Fits(results[i])
          BY <5>1, AnswerHasOrigin DEF Origin
        <5> QED
          BY <5>2 DEF Fits
      <4>3. Responded \subseteq Queried /\ Responded # Queried /\ Queried # {}
        BY <3>2, <4>2 DEF Queried
      <4>4. Cardinality(Responded) < Cardinality(Queried)
        <5>1. Cardinality(Responded) \in Nat /\ Cardinality(Queried) \in Nat
          BY <2>1, FS_CardinalityType
        <5>2. Cardinality(Responded) <= Cardinality(Queried)
               /\ Cardinality(Responded) # Cardinality(Queried)
          BY <2>1, <4>3, FS_Subset
        <5> QED
          BY <5>1, <5>2
      <4>5. Cardinality(Queried) <= Cardinality(Engines)
        BY <2>1, EngineAssumption, FS_Subset
      <4> QED
        BY <4>3, <4>4, <4>5 DEF Coverage
    <3> QED
      BY <3>1, <3>2
  <2> DEFINE x == ScoreOfEmpty(c, d, num)
  <2>4. QualityScore(Block) = Clamp(x)
    <3>1. Len(Block) = 0 /\ (IF Len(Block) < num THEN Len(Block) ELSE num) = 0
      BY <2>1, <2>2
    <3>2. DuplicateRate(Block) = 0
      <4>1. <<>> \in Seq({})
        OBVIOUS
      <4> QED
        BY <2>2, <4>1, DuplicateRateType
    <3> DEFINE n == IF Len(Block) < num THEN Len(Block) ELSE num
    <3>3. /\ SufficiencyWeight * n * d = 0 /\ DuplicateWeight * DuplicateRate(Block) * d * num = 0
          /\ CoverageWeight * c * num \in Int
      <4> HIDE DEF c, d, n
      <4>1. n = 0
        BY <3>1 DEF n
      <4> QED
        BY <2>1, <3>2, <4>1, WeightAssumption
    <3>4. QualityScore(Block)
            = Clamp(Rounded(1000 * (CoverageWeight * c * num + SufficiencyWeight * n * d)
                              - DuplicateWeight * DuplicateRate(Block) * d * num, 10 * d * num))
      BY DEF QualityScore
    <3> DEFINE u == CoverageWeight * c * num
               v == SufficiencyWeight * n * d
               w == DuplicateWeight * DuplicateRate(Block) * d * num
    <3>5. 1000 * (u + v) - w = 1000 * u
      <4>1. u \in Int /\ v = 0 /\ w = 0
        BY <3>3
      <4> HIDE DEF u, v, w
      <4> QED
        BY <4>1
    <3> QED
      BY <3>4, <3>5 DEF ScoreOfEmpty
  <2>5. x < DegradedBelow /\ x \in Int
    <3> HIDE DEF c, d
    <3> QED
      BY <2>1, <2>3, CoverageAlone
  <2> HIDE DEF x
  <2>6. QualityScore(Block) < DegradedBelow
    BY <2>4, <2>5, WeightAssumption DEF Clamp
  <2> QED
    BY <2>2, <2>6 DEF Degraded
<1> QED
  BY <1>1, AnswersComputed, PTL
=============================================================================
